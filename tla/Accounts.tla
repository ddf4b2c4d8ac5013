------------------------------ MODULE Accounts ------------------------------
(***************************************************************************)
(* The requests that administer accounts, users, roles, sessions and       *)
(* provider tokens.  Every request is a sequence of reads and writes of    *)
(* memdb rows; nothing holds a lock from a check to the write that relies  *)
(* on it, and update_impl itself reads the row and writes it back in two   *)
(* steps.  The rows refer to each other: a view names its sources, a user  *)
(* names accounts and roles, a session names its user.                     *)
(*                                                                         *)
(* A worker runs one request at a time.  What a request checks first is    *)
(* one step, every later read or write is a step of its own.  A backup     *)
(* may close the write gate between two steps, and the process may crash.  *)
(* The history variables overlaps, clash and faults record which requests  *)
(* ran together and what went wrong; the properties name exactly the       *)
(* overlaps under which the code lets a reference dangle.                  *)
(***************************************************************************)
EXTENDS Integers, FiniteSets, Functions

CONSTANTS
    Workers,       \* request handlers running at once
    AccountIds,    \* account ids, present or still to be generated
    Views,         \* the ids of accounts of type View
    Journals,      \* the ids of accounts that serve SMTP journaling
    UserIds,       \* user ids
    Admin,         \* DEFAULT_ADMIN_USER_ID
    RoleIds,       \* role ids
    Builtin,       \* the ids is_builtin accepts
    AdminRole,     \* DEFAULT_ADMIN_ROLE_ID
    ManagerRole,   \* DEFAULT_ACCOUNT_MANAGER_ROLE_ID
    Names,         \* names asked for new users
    Loads,         \* tables before the first start, and the requests a run mixes
    UserEdits,     \* the changes update_user is asked for
    None

ASSUME AccountsAssumption ==
    /\ Views \subseteq AccountIds /\ Journals \subseteq AccountIds \ Views
    /\ Admin \in UserIds
    /\ AdminRole \in Builtin /\ ManagerRole \in Builtin /\ Builtin \subseteq RoleIds
    /\ \A load \in Loads : load.requests \in Nat   \* bound on the requests of a run

VARIABLES
    db,        \* the memdb tables, each a function from the keys present to rows
    task,      \* the request each worker runs
    shut,      \* a backup capture window is open: WRITE_GATE refuses
    issued,    \* random values generated so far: tokens, codes, authorisations
    born,      \* ids of accounts, users and roles generated so far
    menu,      \* the requests of this run
    budget,    \* requests still to come
    overlaps,  \* pairs of requests that ran at the same time
    clash,     \* rows written or deleted by one request while another rewrote them
    faults,    \* "crash", "gate" or "purge" when one has happened
    seen       \* what completed requests have promised

vars == <<db, task, shut, issued, born, menu, budget, overlaps, clash, faults, seen>>

Tables == {"accounts", "users", "roles", "tokens", "oauth", "apps", "pending"}

(* The rows an earlier run has left keep what the defaults gave them.       *)
ASSUME LoadsAssumption ==
    \A load \in Loads :
        /\ Tables \subseteq DOMAIN load.db
        /\ Admin \in DOMAIN load.db.users =>
              /\ "roles" \in DOMAIN load.db.users[Admin]
              /\ AdminRole \in load.db.users[Admin].roles
        /\ AdminRole \in DOMAIN load.db.roles => "root" \in load.db.roles[AdminRole].perms

Idle == [op |-> "none"]

(* A request at step at, about to read or write row key of table tab.       *)
Job(op, at, tab, key, edit, next, id) ==
    [op |-> op, at |-> at, tab |-> tab, key |-> key, edit |-> edit, next |-> next,
     id |-> id, row |-> None, todo |-> {}, spent |-> {}, undo |-> FALSE]

Put(f, k, v) == [x \in DOMAIN f \cup {k} |-> IF x = k THEN v ELSE f[x]]
Drop(f, K) == Restrict(f, DOMAIN f \ K)

Upsert(tab, key, row) == db' = [db EXCEPT ![tab] = Put(@, key, row)]
Remove(tab, keys) == db' = [db EXCEPT ![tab] = Drop(@, keys)]

Goto(w, at) ==
    task' = [task EXCEPT ![w] = IF at = "done" THEN Idle ELSE [@ EXCEPT !.at = at]]

At(w, at) == task[w] # Idle /\ task[w].at = at

(* Rows of tab another request has read and will write back. *)
InFlight(w, tab) ==
    {task[v].key : v \in {x \in Workers \ {w} : At(x, "write") /\ task[x].tab = tab}}
Touch(w, tab, keys) == clash' = clash \cup {<<tab, k>> : k \in keys \cap InFlight(w, tab)}

(* gate_guard: tokens are exempt. *)
Refused(tab) == shut /\ tab # "tokens"

(* Mutant: the deleting mark is left. *)
Failed_forgotten(w, why) ==
    /\ faults' = faults \cup why
    /\ task' = [task EXCEPT ![w] = Idle]

(* A failing step ends the request.  The cleanup of an account then clears *)
(* the deleting mark; a login whose password upgrade fails goes on.        *)
Failed(w, why) ==
    /\ faults' = faults \cup why
    /\ task' = [task EXCEPT ![w] =
          IF @.undo
          THEN Job(@.op, "read", "accounts", @.id, [deleting |-> FALSE, enabled |-> TRUE],
                   "done", @.id)
          ELSE IF @.op = "authenticate_user" THEN [@ EXCEPT !.at = task[w].next]
          ELSE Idle]

GateFault(tab) == IF Refused(tab) THEN {"gate"} ELSE {}

-----------------------------------------------------------------------------
(* Start: the built-in roles and the default administrator are added when  *)
(* their rows are absent.                                                   *)

BuiltinRow(r) ==
    [type |-> IF r = ManagerRole THEN "Account" ELSE "Global",
     perms |-> IF r = AdminRole THEN {"root"}
               ELSE IF r = ManagerRole THEN {"account:manage"} ELSE {"account:create"}]

ensure_default_roles_exists(d) ==
    [d EXCEPT !.roles = [r \in DOMAIN @ \cup Builtin |->
                            IF r \in DOMAIN @ THEN @[r] ELSE BuiltinRow(r)]]

NewUser(name, roles, access) ==
    [name |-> name, roles |-> roles, access |-> access, pw |-> 0, legacy |-> FALSE,
     totp |-> FALSE, secret |-> FALSE, codes |-> {}]

Session(u, kind) == [user |-> u, kind |-> kind, owned |-> TRUE, used |-> FALSE]

ensure_default_admin_exists(d, t) ==
    IF Admin \in DOMAIN d.users THEN d
    ELSE [d EXCEPT !.users = Put(@, Admin, NewUser(Admin, {AdminRole}, << >>)),
                   !.tokens = Put(@, t, Session(Admin, "WebUI"))]

Started(d, t) == ensure_default_admin_exists(ensure_default_roles_exists(d), t)

Init ==
    /\ \E load \in Loads :
          /\ db = Started(load.db, 0)
          /\ menu = load.menu
          /\ budget = load.requests
    /\ born = DOMAIN db.accounts \cup DOMAIN db.users \cup DOMAIN db.roles
    /\ task = [w \in Workers |-> Idle]
    /\ shut = FALSE
    /\ issued = 10
    /\ overlaps = {} /\ clash = {} /\ faults = {}
    /\ seen = [held |-> {}, removed |-> {}, accepted |-> {}, twice |-> {},
               latest |-> [a \in DOMAIN db.oauth |-> db.oauth[a].auth],
               passwords |-> [u \in DOMAIN db.users |-> db.users[u].pw],
               outdated |-> {}, kept |-> << >>]

-----------------------------------------------------------------------------
(* Permissions, as ClientContext::has_permission; Queries has them in full. *)

Globally(user, p) ==
    \E r \in user.roles \cap DOMAIN db.roles : {p, "root"} \cap db.roles[r].perms # {}

Manages(user, a) ==
    \/ Globally(user, "account:manage")
    \/ /\ a \in DOMAIN user.access
       /\ user.access[a] \in DOMAIN db.roles
       /\ "account:manage" \in db.roles[user.access[a]].perms

(* A request arrives.  Its first checks and reads are this step. *)
Ready(w, op) == op \in menu /\ task[w] = Idle /\ budget > 0

Request(w, op) ==
    /\ budget' = budget - 1
    /\ overlaps' = overlaps \cup
          {{op, task[v].op} : v \in {x \in Workers \ {w} : task[x] # Idle}}
    /\ UNCHANGED <<menu, shut>>

Begin(w, job) ==
    /\ Request(w, job.op)
    /\ task' = [task EXCEPT ![w] = job]
    /\ UNCHANGED <<db, clash, faults, seen>>

(* A request that is one read or write and nothing else. *)
AtOnce(w, op, tab) == Request(w, op) /\ ~Refused(tab) /\ UNCHANGED <<task, faults>>

Fixed == UNCHANGED <<menu, budget, shut, overlaps, born>>

-----------------------------------------------------------------------------
(* update_impl, insert_impl: the steps every table shares. *)

(* Changes of a user's account roles, as opposed to fields of a row. *)
Scoped == {"access", "revoke", "grant"}

(* Mutant: a row built anew, the password left out. *)
Edited_without_password(row, edit) ==
    [f \in DOMAIN row |->
        IF f \in DOMAIN edit THEN edit[f]
        ELSE IF f = "pw" THEN 0
        ELSE row[f]]

(* The row as the update closure returns it. *)
Edited(row, edit) ==
    [f \in DOMAIN row |->
        IF f \in DOMAIN edit THEN edit[f]
        ELSE IF f = "access" /\ "revoke" \in DOMAIN edit THEN Drop(row.access, {edit.revoke})
        ELSE IF f = "access" /\ "grant" \in DOMAIN edit
             THEN Put(row.access, edit.grant.account, edit.grant.role)
        ELSE row[f]]

(* The gate is passed and the row is read. *)
update_read(w) ==
    /\ At(w, "read")
    /\ LET j == task[w] IN
       IF Refused(j.tab) \/ j.key \notin DOMAIN db[j.tab]
       THEN Failed(w, GateFault(j.tab)) /\ UNCHANGED clash
       ELSE /\ task' = [task EXCEPT ![w].at = "write", ![w].row = db[j.tab][j.key]]
            /\ Touch(w, j.tab, {j.key})
            /\ UNCHANGED faults
    /\ Fixed /\ UNCHANGED <<db, issued, seen>>

(* What a completed write promises: the legal hold, the password, the code  *)
(* that was spent, and the fields of the row it has set.                    *)
Promised(j) ==
    [seen EXCEPT
        !.held = IF j.op = "place_legal_hold" THEN @ \cup {j.key}
                 ELSE IF j.op = "release_legal_hold" THEN @ \ {j.key} ELSE @,
        !.passwords = IF j.op = "update_user" /\ "pw" \in DOMAIN j.edit
                      THEN Put(@, j.key, j.edit.pw) ELSE @,
        !.outdated = IF j.op = "update_user" /\ "pw" \in DOMAIN j.edit
                     THEN @ \cup {t \in DOMAIN db.tokens :
                            db.tokens[t].user = j.key /\ db.tokens[t].kind = "WebUI"}
                     ELSE @,
        !.accepted = @ \cup j.spent,
        !.twice = @ \cup (j.spent \cap seen.accepted),
        !.kept = [x \in DOMAIN @ \cup {<<j.tab, j.key, f>> : f \in DOMAIN j.edit \ Scoped} |->
                    IF x[1] = j.tab /\ x[2] = j.key /\ x[3] \in DOMAIN j.edit THEN j.edit[x[3]] ELSE @[x]]]

update_write(w) ==
    /\ At(w, "write")
    /\ LET j == task[w] IN
       /\ Upsert(j.tab, j.key, Edited(j.row, j.edit))
       /\ seen' = Promised(j)
       /\ Goto(w, j.next)
    /\ Fixed /\ UNCHANGED <<issued, clash, faults>>

(* insert_impl; edit is the row. *)
insert(w) ==
    /\ At(w, "insert")
    /\ LET j == task[w] IN
       IF Refused(j.tab)
       THEN Failed(w, {"gate"}) /\ UNCHANGED db
       ELSE Upsert(j.tab, j.key, j.edit) /\ Goto(w, j.next) /\ UNCHANGED faults
    /\ Fixed /\ UNCHANGED <<issued, clash, seen>>

-----------------------------------------------------------------------------
(* Accounts. *)

AccountRow(sources) ==
    [sources |-> sources, hold |-> FALSE, deleting |-> FALSE, enabled |-> TRUE, folders |-> 0]

validate_view_sources(sources) ==
    sources # {} /\ \A s \in sources : s \in DOMAIN db.accounts /\ s \notin Views

first_unmanaged_source(user, sources) == {s \in sources : ~Manages(user, s)}

(* Mutant: an ordinary account may carry view sources. *)
create_entity_any(a, sources) ==
    a \notin Journals /\ (sources # {} \/ a \in Views => validate_view_sources(sources))

(* create_entity checks a request; the kind Journal cannot be asked for. *)
create_entity(a, sources) ==
    /\ a \notin Journals
    /\ IF a \in Views THEN validate_view_sources(sources) ELSE sources = {}

create_account(w) ==
    /\ Ready(w, "create_account")
    /\ \E c \in DOMAIN db.users, a \in AccountIds \ born, sources \in SUBSET AccountIds :
           /\ Globally(db.users[c], "account:create")
           /\ a \in Views => first_unmanaged_source(db.users[c], sources) = {}
           /\ create_entity(a, sources)
           /\ Begin(w, Job("create_account", "insert", "accounts", a, AccountRow(sources), "owner", c))
           /\ born' = born \cup {a}
           /\ UNCHANGED issued

(* After the insert the creator becomes manager: the whole map is read, the *)
(* new entry added, and UserModel::update writes the map.                   *)
create_account_owner(w) ==
    /\ At(w, "owner")
    /\ LET j == task[w] IN
       task' = [task EXCEPT ![w] =
           IF j.id \in DOMAIN db.users
           THEN Job(j.op, "validate", "users", j.id,
                    [access |-> Put(db.users[j.id].access, j.key, ManagerRole)], "done", j.key)
           ELSE Idle]
    /\ Fixed /\ UNCHANGED <<db, issued, clash, faults, seen>>

(* require_view_source_management_for_update: an unmanaged source may stay. *)
update_account(w) ==
    /\ Ready(w, "update_account")
    /\ \E c \in DOMAIN db.users, a \in DOMAIN db.accounts \cap Views, sources \in SUBSET AccountIds :
           /\ Manages(db.users[c], a)
           /\ validate_view_sources(sources)
           /\ first_unmanaged_source(db.users[c], sources) \subseteq db.accounts[a].sources
           /\ Begin(w, Job("update_account", "read", "accounts", a, [sources |-> sources], "done", c))
           /\ UNCHANGED <<born, issued>>

(* update_known_folders, update_download_folders, update_capabilities: the  *)
(* downloader writes to the row it finds.                                   *)
update_known_folders(w) ==
    /\ Ready(w, "update_known_folders")
    /\ \E a \in DOMAIN db.accounts \ Views :
           /\ db.accounts[a].folders = 0
           /\ Begin(w, Job("update_known_folders", "read", "accounts", a, [folders |-> 1], "done", None))
           /\ UNCHANGED <<born, issued>>

place_legal_hold(w) ==
    /\ Ready(w, "place_legal_hold")
    /\ \E a \in DOMAIN db.accounts :
           /\ Begin(w, Job("place_legal_hold", "read", "accounts", a, [hold |-> TRUE], "done", None))
           /\ UNCHANGED <<born, issued>>

release_legal_hold(w) ==
    /\ Ready(w, "release_legal_hold")
    /\ \E a \in DOMAIN db.accounts :
           /\ db.accounts[a].hold
           /\ Begin(w, Job("release_legal_hold", "read", "accounts", a, [hold |-> FALSE], "done", None))
           /\ UNCHANGED <<born, issued>>

views_referencing(a) == {v \in DOMAIN db.accounts \cap Views : a \in db.accounts[v].sources}

(* Mutant: the views are not looked at. *)
ensure_deletable_source(a) == ~db.accounts[a].hold /\ a \notin Journals

(* Mutant: the hold is not looked at. *)
ensure_deletable_held(a) == a \notin Journals /\ views_referencing(a) = {}

ensure_deletable(a) ==
    /\ ~db.accounts[a].hold
    /\ a \notin Journals
    /\ views_referencing(a) = {}

delete_account(w) ==
    /\ Ready(w, "delete_account")
    /\ \E c \in DOMAIN db.users, a \in DOMAIN db.accounts :
           /\ Manages(db.users[c], a)
           /\ ensure_deletable(a)
           /\ Begin(w, Job("delete_account", "recheck", "accounts", a, None, "done", a))
           /\ UNCHANGED <<born, issued>>

(* delete_and_wait, spawned: the checks again, then the deleting mark. *)
delete_and_wait(w) ==
    /\ At(w, "recheck")
    /\ LET j == task[w] IN
       task' = [task EXCEPT ![w] =
           IF j.id \in DOMAIN db.accounts /\ ensure_deletable(j.id)
           THEN Job(j.op, "read", "accounts", j.id, [deleting |-> TRUE, enabled |-> FALSE],
                    "cleanup", j.id)
           ELSE Idle]
    /\ Fixed /\ UNCHANGED <<db, issued, clash, faults, seen>>

(* Mutant: the provider token is forgotten. *)
cleanup_tokens_skipped(w) ==
    /\ At(w, "cleanup")
    /\ task' = [task EXCEPT ![w].at = "list", ![w].undo = TRUE]
    /\ Fixed /\ UNCHANGED <<db, clash, faults, issued, seen>>

(* OAuth2AccessToken::try_delete, then list_authorized_users.  A failure    *)
(* from here on reverts the mark.                                           *)
cleanup_tokens(w) ==
    /\ At(w, "cleanup")
    /\ LET a == task[w].id
           present == a \in DOMAIN db.oauth
       IN IF present /\ Refused("oauth")
          THEN /\ faults' = faults \cup {"gate"}
               /\ task' = [task EXCEPT ![w] =
                     Job(@.op, "read", "accounts", a, [deleting |-> FALSE, enabled |-> TRUE], "done", a)]
               /\ UNCHANGED <<db, clash>>
          ELSE /\ IF present THEN Remove("oauth", {a}) /\ Touch(w, "oauth", {a})
                             ELSE UNCHANGED <<db, clash>>
               /\ task' = [task EXCEPT ![w].at = "list", ![w].undo = TRUE]
               /\ UNCHANGED faults
    /\ Fixed /\ UNCHANGED <<issued, seen>>

list_authorized_users(w) ==
    /\ At(w, "list")
    /\ task' = [task EXCEPT ![w].at = "revoke",
                    ![w].todo = {u \in DOMAIN db.users : task[w].id \in DOMAIN db.users[u].access}]
    /\ Fixed /\ UNCHANGED <<db, issued, clash, faults, seen>>

(* cleanup_account: one update_impl per user, in no particular order. *)
cleanup_account(w) ==
    /\ At(w, "revoke")
    /\ LET j == task[w] IN
       IF j.todo = {} THEN Goto(w, "purge")
       ELSE \E u \in j.todo :
              task' = [task EXCEPT ![w].at = "read", ![w].tab = "users", ![w].key = u,
                          ![w].edit = [revoke |-> j.id], ![w].next = "revoke",
                          ![w].todo = j.todo \ {u}]
    /\ Fixed /\ UNCHANGED <<db, issued, clash, faults, seen>>

(* MailBox::clean, delete_account_envelopes, delete_account_attachments:    *)
(* Archive models what they delete; here they succeed or fail.              *)
purge(w) ==
    /\ At(w, "purge")
    /\ \/ Goto(w, "drop") /\ UNCHANGED faults
       \/ Failed(w, {"purge"})
    /\ Fixed /\ UNCHANGED <<db, issued, clash, seen>>

delete_row(w) ==
    /\ At(w, "drop")
    /\ LET j == task[w] IN
       IF Refused("accounts") \/ j.id \notin DOMAIN db.accounts
       THEN Failed(w, GateFault("accounts")) /\ UNCHANGED <<db, clash, seen>>
       ELSE /\ Remove("accounts", {j.id}) /\ Touch(w, "accounts", {j.id})
            /\ seen' = [seen EXCEPT !.removed = @ \cup {<<"accounts", j.id>>}]
            /\ Goto(w, "done") /\ UNCHANGED faults
    /\ Fixed /\ UNCHANGED issued

-----------------------------------------------------------------------------
(* Users. *)

RolesOfType(roles, type) ==
    \A r \in roles : r \in DOMAIN db.roles /\ db.roles[r].type = type

(* UserCreateRequest::validate and UserUpdateRequest::validate. *)
ValidAccess(access) ==
    /\ DOMAIN access \subseteq DOMAIN db.accounts
    /\ RolesOfType(Range(access), "Account")
ValidRoles(roles) == roles # {} /\ RolesOfType(roles, "Global")

(* Mutant: the conflict check finds only the user itself. *)
NameTaken_self(name, u) == u \in DOMAIN db.users /\ db.users[u].name = name

NameTaken(name, u) == \E v \in DOMAIN db.users \ {u} : db.users[v].name = name

(* Mutant: the default administrator's roles can be replaced. *)
may_update_unguarded(u, edit) ==
    /\ "access" \in DOMAIN edit => ValidAccess(edit.access)
    /\ "roles" \in DOMAIN edit => ValidRoles(edit.roles)
    /\ "name" \in DOMAIN edit => ~NameTaken(edit.name, u)

(* The checks of UserModel::update before it writes. *)
may_update(u, edit) ==
    /\ "access" \in DOMAIN edit => ValidAccess(edit.access)
    /\ "roles" \in DOMAIN edit =>
          ValidRoles(edit.roles) /\ (u = Admin => edit.roles = {AdminRole})
    /\ "name" \in DOMAIN edit => ~NameTaken(edit.name, u)

(* The same checks when create_account calls UserModel::update. *)
validate(w) ==
    /\ At(w, "validate")
    /\ Goto(w, IF may_update(task[w].key, task[w].edit) THEN "read" ELSE "done")
    /\ Fixed /\ UNCHANGED <<db, issued, clash, faults, seen>>

(* A user who may not manage users changes only their own name or password. *)
OwnEdits == {"name", "pw", "legacy"}

(* A new password is followed by reset_webui_token. *)
update_user(w) ==
    /\ Ready(w, "update_user")
    /\ \E c, u \in DOMAIN db.users, edit \in UserEdits :
           /\ \/ Globally(db.users[c], "user:manage")
              \/ c = u /\ DOMAIN edit \subseteq OwnEdits
           /\ may_update(u, edit)
           /\ Begin(w, Job("update_user", "read", "users", u, edit,
                           IF "pw" \in DOMAIN edit THEN "reset" ELSE "done", u))
           /\ UNCHANGED <<born, issued>>

(* The row and the first session are one transaction. *)
create_user(w) ==
    /\ Ready(w, "create_user")
    /\ \E c \in DOMAIN db.users, u \in UserIds \ born, name \in Names,
          access \in {<< >>} \cup {edit.access : edit \in {x \in UserEdits : "access" \in DOMAIN x}} :
           /\ Globally(db.users[c], "user:manage")
           /\ ValidAccess(access) /\ ~NameTaken(name, u)
           /\ Begin(w, Job("create_user", "join", "users", u,
                           NewUser(name, Builtin \ {AdminRole, ManagerRole}, access), "done", u))
           /\ born' = born \cup {u}
           /\ UNCHANGED issued

create_user_commit(w) ==
    /\ At(w, "join")
    /\ LET j == task[w] IN
       IF shut
       THEN Failed(w, {"gate"}) /\ UNCHANGED <<db, issued, seen>>
       ELSE /\ db' = [db EXCEPT !.users = Put(@, j.key, j.edit),
                                !.tokens = Put(@, issued + 1, Session(j.key, "WebUI"))]
            /\ seen' = [seen EXCEPT !.passwords = Put(@, j.key, j.edit.pw)]
            /\ issued' = issued + 1
            /\ Goto(w, "done") /\ UNCHANGED faults
    /\ Fixed /\ UNCHANGED clash

removable(u) == u # Admin

remove_user(w) ==
    /\ Ready(w, "remove_user")
    /\ \E c, u \in DOMAIN db.users :
           /\ Globally(db.users[c], "user:manage")
           /\ removable(u)
           /\ Begin(w, Job("remove_user", "leave", "users", u, None, "done", u))
           /\ UNCHANGED <<born, issued>>

remove_user_row(w) ==
    /\ At(w, "leave")
    /\ LET j == task[w] IN
       IF shut \/ j.key \notin DOMAIN db.users
       THEN Failed(w, GateFault("users")) /\ UNCHANGED <<db, clash, seen>>
       ELSE /\ Remove("users", {j.key}) /\ Touch(w, "users", {j.key})
            /\ seen' = [seen EXCEPT !.removed = @ \cup {<<"users", j.key>>}]
            /\ Goto(w, "sessions") /\ UNCHANGED faults
    /\ Fixed /\ UNCHANGED issued

TokensOf(u) == {t \in DOMAIN db.tokens : db.tokens[t].user = u}

(* Mutant: the browser sessions only. *)
remove_user_list_sessions(w) ==
    /\ At(w, "sessions")
    /\ task' = [task EXCEPT ![w].at = "logout",
                    ![w].todo = {t \in TokensOf(task[w].key) : db.tokens[t].kind = "WebUI"}]
    /\ Fixed /\ UNCHANGED <<db, issued, clash, faults, seen>>

remove_user_list(w) ==
    /\ At(w, "sessions")
    /\ task' = [task EXCEPT ![w].at = "logout", ![w].todo = TokensOf(task[w].key)]
    /\ Fixed /\ UNCHANGED <<db, issued, clash, faults, seen>>

(* with_transaction, which the gate refuses although tokens are exempt. *)
remove_user_tokens(w) ==
    /\ At(w, "logout")
    /\ LET j == task[w] IN
       IF j.todo # {} /\ shut
       THEN Failed(w, {"gate"}) /\ UNCHANGED <<db, clash, seen>>
       ELSE /\ Remove("tokens", j.todo) /\ Touch(w, "tokens", j.todo)
            /\ seen' = [seen EXCEPT !.removed = @ \cup {<<"tokens", t>> : t \in j.todo}]
            /\ Goto(w, "done") /\ UNCHANGED faults
    /\ Fixed /\ UNCHANGED issued

-----------------------------------------------------------------------------
(* Roles and grants. *)

create_role(w) ==
    /\ Ready(w, "create_role")
    /\ \E c \in DOMAIN db.users, r \in RoleIds \ born :
           /\ Globally(db.users[c], "user:manage")
           /\ AtOnce(w, "create_role", "roles")
           /\ Upsert("roles", r, [type |-> "Account", perms |-> {"data:read"}])
           /\ born' = born \cup {r}
           /\ UNCHANGED <<issued, clash, seen>>

update_role(w) ==
    /\ Ready(w, "update_role")
    /\ \E c \in DOMAIN db.users, r \in DOMAIN db.roles \ Builtin :
           /\ Globally(db.users[c], "user:manage")
           /\ Begin(w, Job("update_role", "read", "roles", r, [perms |-> {"account:manage"}], "done", r))
           /\ UNCHANGED <<born, issued>>

is_using_role(u, r) == r \in db.users[u].roles \/ r \in Range(db.users[u].access)

(* Mutant: only the global roles of a user are looked at. *)
deletable_role_global(r) == r \notin Builtin /\ \A u \in DOMAIN db.users : r \notin db.users[u].roles

deletable_role(r) == r \notin Builtin /\ \A u \in DOMAIN db.users : ~is_using_role(u, r)

delete_role(w) ==
    /\ Ready(w, "delete_role")
    /\ \E c \in DOMAIN db.users, r \in DOMAIN db.roles :
           /\ Globally(db.users[c], "user:manage")
           /\ deletable_role(r)
           /\ Begin(w, Job("delete_role", "unrole", "roles", r, None, "done", r))
           /\ UNCHANGED <<born, issued>>

delete_role_row(w) ==
    /\ At(w, "unrole")
    /\ LET j == task[w] IN
       IF shut \/ j.key \notin DOMAIN db.roles
       THEN Failed(w, GateFault("roles")) /\ UNCHANGED <<db, clash, seen>>
       ELSE /\ Remove("roles", {j.key}) /\ Touch(w, "roles", {j.key})
            /\ seen' = [seen EXCEPT !.removed = @ \cup {<<"roles", j.key>>}]
            /\ Goto(w, "done") /\ UNCHANGED faults
    /\ Fixed /\ UNCHANGED issued

(* validate_existence. *)
validate_existence(a, u, r) ==
    /\ r \in DOMAIN db.roles /\ db.roles[r].type = "Account"
    /\ a \in DOMAIN db.accounts /\ u \in DOMAIN db.users

(* The caller's own scoped role must allow sharing; a global role does not. *)
MayShare(user, a) ==
    /\ a \in DOMAIN user.access /\ user.access[a] \in DOMAIN db.roles
    /\ "account:manage" \in db.roles[user.access[a]].perms

(* batch_assign_account_role with one user and one account; the transaction *)
(* reads the row before it commits, like update_impl.                       *)
do_assign(w) ==
    /\ Ready(w, "do_assign")
    /\ \E c, u \in DOMAIN db.users, a \in DOMAIN db.accounts, r \in DOMAIN db.roles :
           /\ validate_existence(a, u, r)
           /\ MayShare(db.users[c], a)
           /\ Begin(w, Job("do_assign", "read", "users", u, [grant |-> [account |-> a, role |-> r]],
                           "done", a))
           /\ UNCHANGED <<born, issued>>

-----------------------------------------------------------------------------
(* Sessions. *)

(* Mutant: every login stores the password the user began with. *)
authenticate_user_restoring(w) ==
    /\ Ready(w, "authenticate_user")
    /\ \E u \in DOMAIN db.users :
           /\ ~db.users[u].totp
           /\ Begin(w, Job("authenticate_user", "read", "users", u,
                           [pw |-> 0, legacy |-> FALSE], "reset", u))
           /\ UNCHANGED <<born, issued>>

(* The password was right.  A legacy password is stored again as a hash of *)
(* the password just given; with a second factor a challenge is issued,    *)
(* otherwise the session is replaced.                                       *)
authenticate_user(w) ==
    /\ Ready(w, "authenticate_user")
    /\ \E u \in DOMAIN db.users :
           LET user == db.users[u]
               after == IF user.totp THEN "challenge" ELSE "reset"
           IN  /\ Begin(w, Job("authenticate_user", IF user.legacy THEN "read" ELSE after, "users", u,
                               [pw |-> user.pw, legacy |-> FALSE], after, u))
               /\ UNCHANGED <<born, issued>>

new_mfa_challenge(w) ==
    /\ At(w, "challenge")
    /\ Upsert("tokens", issued + 1, Session(task[w].id, "MfaChallenge"))
    /\ issued' = issued + 1
    /\ Goto(w, "done")
    /\ Fixed /\ UNCHANGED <<clash, faults, seen>>

WebUITokens(u) == {t \in TokensOf(u) : db.tokens[t].kind = "WebUI"}

(* Mutant: the old session is not looked for. *)
reset_webui_token_insert(w) ==
    /\ At(w, "reset")
    /\ task' = [task EXCEPT ![w].at = "swap", ![w].todo = {}]
    /\ Fixed /\ UNCHANGED <<db, issued, clash, faults, seen>>

(* get_user_webui_token takes the first one it finds. *)
reset_webui_token(w) ==
    /\ At(w, "reset")
    /\ \E old \in IF WebUITokens(task[w].key) = {} THEN {{}} ELSE {{t} : t \in WebUITokens(task[w].key)} :
          task' = [task EXCEPT ![w].at = "swap", ![w].todo = old]
    /\ Fixed /\ UNCHANGED <<db, issued, clash, faults, seen>>

(* Mutant: the new session is added and the old one left. *)
swap_tokens_kept(old, t, row) == Put(db.tokens, t, row)

swap_tokens(old, t, row) == Put(Drop(db.tokens, old), t, row)

reset_webui_token_commit(w) ==
    /\ At(w, "swap")
    /\ LET j == task[w] IN
       /\ db' = [db EXCEPT !.tokens = swap_tokens(j.todo, issued + 1, Session(j.key, "WebUI"))]
       /\ Touch(w, "tokens", j.todo)
       /\ seen' = [seen EXCEPT !.removed = @ \cup {<<"tokens", t>> : t \in j.todo}]
    /\ issued' = issued + 1
    /\ Goto(w, "done")
    /\ Fixed /\ UNCHANGED faults

(* Every authenticated request: last_access_at is written back with        *)
(* update_impl.                                                             *)
resolve_user_from_token(w) ==
    /\ Ready(w, "resolve_user_from_token")
    /\ \E t \in DOMAIN db.tokens :
           /\ db.tokens[t].kind # "MfaChallenge" /\ ~db.tokens[t].used
           /\ Begin(w, Job("resolve_user_from_token", "read", "tokens", t, [used |-> TRUE], "done", t))
           /\ UNCHANGED <<born, issued>>

(* The user id of the request is not looked up. *)
create_api_token(w) ==
    /\ Ready(w, "create_api_token")
    /\ \E c \in DOMAIN db.users, u \in UserIds :
           /\ c = u \/ Globally(db.users[c], "user:manage")
           /\ AtOnce(w, "create_api_token", "tokens")
           /\ Upsert("tokens", issued + 1, [Session(u, "Api") EXCEPT !.owned = u \in DOMAIN db.users])
           /\ issued' = issued + 1
           /\ UNCHANGED <<born, clash, seen>>

delete_token(w) ==
    /\ Ready(w, "delete_token")
    /\ \E t \in DOMAIN db.tokens :
           /\ AtOnce(w, "delete_token", "tokens")
           /\ Remove("tokens", {t}) /\ Touch(w, "tokens", {t})
           /\ seen' = [seen EXCEPT !.removed = @ \cup {<<"tokens", t>>}]
           /\ UNCHANGED <<born, issued>>

-----------------------------------------------------------------------------
(* Second factor. *)

(* Mutant: the recovery code stays in the list. *)
remaining_codes_all(codes, code) == codes

remaining_codes(codes, code) == codes \ {code}

(* A recovery code is taken out of the list the user row had when it was    *)
(* read; a TOTP code changes nothing.  Either way the challenge is then     *)
(* deleted and the session replaced.                                        *)
mfa_verify(w) ==
    /\ Ready(w, "mfa_verify")
    /\ \E t \in DOMAIN db.tokens :
           LET u == db.tokens[t].user IN
           /\ db.tokens[t].kind = "MfaChallenge"
           /\ u \in DOMAIN db.users /\ db.users[u].totp
           /\ \/ Begin(w, Job("mfa_verify", "consume", "users", u, None, "consume", t))
              \/ \E code \in db.users[u].codes :
                    Begin(w, [Job("mfa_verify", "read", "users", u,
                                  [codes |-> remaining_codes(db.users[u].codes, code)], "consume", t)
                              EXCEPT !.spent = {code}])
           /\ UNCHANGED <<born, issued>>

mfa_consume(w) ==
    /\ At(w, "consume")
    /\ Remove("tokens", {task[w].id}) /\ Touch(w, "tokens", {task[w].id})
    /\ seen' = [seen EXCEPT !.removed = @ \cup {<<"tokens", task[w].id>>}]
    /\ Goto(w, "reset")
    /\ Fixed /\ UNCHANGED <<issued, faults>>

mfa_enroll(w) ==
    /\ Ready(w, "mfa_enroll")
    /\ \E u \in DOMAIN db.users :
           /\ Begin(w, Job("mfa_enroll", "read", "users", u, [secret |-> TRUE, totp |-> FALSE], "done", u))
           /\ UNCHANGED <<born, issued>>

(* New recovery codes replace the old ones. *)
mfa_confirm(w) ==
    /\ Ready(w, "mfa_confirm")
    /\ \E u \in DOMAIN db.users :
           /\ db.users[u].secret
           /\ Begin(w, Job("mfa_confirm", "read", "users", u,
                           [totp |-> TRUE, codes |-> {issued + 1}], "done", u))
           /\ issued' = issued + 1
           /\ UNCHANGED born

NoSecondFactor == [totp |-> FALSE, secret |-> FALSE, codes |-> {}]

mfa_disable(w) ==
    /\ Ready(w, "mfa_disable")
    /\ \E u \in DOMAIN db.users :
           /\ db.users[u].secret
           /\ \/ Begin(w, Job("mfa_disable", "read", "users", u, NoSecondFactor, "done", u))
              \/ \E code \in db.users[u].codes :
                    Begin(w, [Job("mfa_disable", "read", "users", u,
                                  [codes |-> remaining_codes(db.users[u].codes, code)], "disable", u)
                              EXCEPT !.spent = {code}])
           /\ UNCHANGED <<born, issued>>

disable_totp(w) ==
    /\ At(w, "disable")
    /\ task' = [task EXCEPT ![w] = Job(@.op, "read", "users", @.key, NoSecondFactor, "done", @.key)]
    /\ Fixed /\ UNCHANGED <<db, issued, clash, faults, seen>>

admin_reset(w) ==
    /\ Ready(w, "admin_reset")
    /\ \E c, u \in DOMAIN db.users :
           /\ c # u /\ Globally(db.users[c], "user:manage")
           /\ Begin(w, Job("admin_reset", "read", "users", u, NoSecondFactor, "done", u))
           /\ UNCHANGED <<born, issued>>

-----------------------------------------------------------------------------
(* Provider tokens.  auth tells authorisations of one account apart. *)

authorize_url(w) ==
    /\ Ready(w, "authorize_url")
    /\ \E app \in DOMAIN db.apps, a \in AccountIds :
           /\ db.apps[app].enabled
           /\ a \in DOMAIN db.accounts
           /\ AtOnce(w, "authorize_url", "pending")
           /\ Upsert("pending", issued + 1, [app |-> app, account |-> a])
           /\ issued' = issued + 1
           /\ UNCHANGED <<born, clash, seen>>

(* OAuth2PendingEntity::clean, and get when the entry is a day old. *)
clean_pending(w) ==
    /\ Ready(w, "clean_pending")
    /\ \E p \in DOMAIN db.pending :
           /\ AtOnce(w, "clean_pending", "pending")
           /\ Remove("pending", {p})
           /\ UNCHANGED <<born, issued, clash, seen>>

(* The pending entry survives until the token is stored. *)
oauth2_callback(w) ==
    /\ Ready(w, "oauth2_callback")
    /\ \E p \in DOMAIN db.pending :
           /\ db.pending[p].app \in DOMAIN db.apps
           /\ Begin(w, Job("oauth2_callback", "exchange", "pending", p, db.pending[p], "store", None))
           /\ UNCHANGED <<born, issued>>

(* The provider answers, or the request fails. *)
exchange(w) ==
    /\ At(w, "exchange")
    /\ \/ Goto(w, IF task[w].op = "refresh_access_token" THEN "read" ELSE "store")
       \/ Goto(w, "done")
    /\ Fixed /\ UNCHANGED <<db, issued, clash, faults, seen>>

Granted(app, a, auth) == [app |-> app, auth |-> auth, owned |-> a \in DOMAIN db.accounts]

(* Mutant: a token that exists is not replaced. *)
fetch_save_access_token_insert(w) ==
    /\ At(w, "store")
    /\ LET p == task[w].edit IN
       /\ IF p.account \in DOMAIN db.oauth THEN UNCHANGED db
          ELSE Upsert("oauth", p.account, Granted(p.app, p.account, issued + 1))
       /\ seen' = [seen EXCEPT !.latest = Put(@, p.account, issued + 1)]
    /\ issued' = issued + 1
    /\ Goto(w, "unpend")
    /\ Fixed /\ UNCHANGED <<clash, faults>>

(* save_or_update; the account is not looked up. *)
fetch_save_access_token(w) ==
    /\ At(w, "store")
    /\ LET p == task[w].edit IN
       IF shut
       THEN Failed(w, {"gate"}) /\ UNCHANGED <<db, clash, seen, issued>>
       ELSE /\ Upsert("oauth", p.account, Granted(p.app, p.account, issued + 1))
            /\ Touch(w, "oauth", {p.account})
            /\ seen' = [seen EXCEPT !.latest = Put(@, p.account, issued + 1)]
            /\ issued' = issued + 1
            /\ Goto(w, "unpend") /\ UNCHANGED faults
    /\ Fixed

delete_pending(w) ==
    /\ At(w, "unpend")
    /\ IF shut THEN UNCHANGED db ELSE Remove("pending", {task[w].key})
    /\ Goto(w, "done")
    /\ Fixed /\ UNCHANGED <<issued, clash, faults, seen>>

(* upsert_external_oauth_token: what was read is written back with the new  *)
(* tokens, or a row is inserted.                                            *)
store_external_oauth2_token(w) ==
    /\ Ready(w, "store_external_oauth2_token")
    /\ \E c \in DOMAIN db.users, a \in AccountIds :
           /\ Manages(db.users[c], a)
           /\ Begin(w, Job("store_external_oauth2_token", "external", "oauth", a,
                           IF a \in DOMAIN db.oauth THEN db.oauth[a].app ELSE None, "done", a))
           /\ UNCHANGED <<born, issued>>

upsert_external_oauth_token(w) ==
    /\ At(w, "external")
    /\ LET j == task[w] IN
       IF shut \/ (j.edit = None /\ j.key \in DOMAIN db.oauth)
       THEN Failed(w, GateFault("oauth")) /\ UNCHANGED <<db, clash, seen, issued>>
       ELSE /\ Upsert("oauth", j.key, Granted(j.edit, j.key, issued + 1))
            /\ Touch(w, "oauth", {j.key})
            /\ seen' = [seen EXCEPT !.latest = Put(@, j.key, issued + 1)]
            /\ issued' = issued + 1
            /\ Goto(w, "done") /\ UNCHANGED faults
    /\ Fixed

(* The refresh task lists the tokens and works on its copy of each; a token *)
(* stored from outside has no app and is left alone.                        *)
refresh_access_token(w) ==
    /\ Ready(w, "refresh_access_token")
    /\ \E a \in DOMAIN db.oauth :
           /\ db.oauth[a].app \in DOMAIN db.apps
           /\ Begin(w, Job("refresh_access_token",
                           IF db.apps[db.oauth[a].app].enabled THEN "exchange" ELSE "disown",
                           "oauth", a, [auth |-> db.oauth[a].auth], "done", db.oauth[a].app))
           /\ UNCHANGED <<born, issued>>

(* delete_by_oauth2_id: the first token of the disabled app. *)
delete_by_oauth2_id(w) ==
    /\ At(w, "disown")
    /\ LET owned == {a \in DOMAIN db.oauth : db.oauth[a].app = task[w].id} IN
       IF shut
       THEN Failed(w, {"gate"}) /\ UNCHANGED <<db, clash>>
       ELSE /\ \/ owned = {} /\ UNCHANGED <<db, clash>>
               \/ \E a \in owned : Remove("oauth", {a}) /\ Touch(w, "oauth", {a})
            /\ Goto(w, "done") /\ UNCHANGED faults
    /\ Fixed /\ UNCHANGED <<issued, seen>>

update_oauth2_config(w) ==
    /\ Ready(w, "update_oauth2_config")
    /\ \E app \in DOMAIN db.apps :
           /\ Begin(w, Job("update_oauth2_config", "read", "apps", app,
                           [enabled |-> ~db.apps[app].enabled], "done", app))
           /\ UNCHANGED <<born, issued>>

remove_oauth2_config(w) ==
    /\ Ready(w, "remove_oauth2_config")
    /\ \E app \in DOMAIN db.apps :
           /\ AtOnce(w, "remove_oauth2_config", "apps")
           /\ Remove("apps", {app}) /\ Touch(w, "apps", {app})
           /\ UNCHANGED <<born, issued, seen>>

-----------------------------------------------------------------------------
(* The backup window and the crash. *)

(* request_run closes the gate once no writer holds it. *)
OpenWindow ==
    /\ "backup" \in menu /\ ~shut /\ budget > 0
    /\ \A w \in Workers : At(w, "write") => task[w].tab = "tokens"
    /\ shut' = TRUE
    /\ budget' = budget - 1
    /\ UNCHANGED <<db, task, issued, born, menu, overlaps, clash, faults, seen>>

CloseWindow ==
    /\ shut
    /\ shut' = FALSE
    /\ UNCHANGED <<db, task, issued, born, menu, budget, overlaps, clash, faults, seen>>

(* The tables are replayed from the log, and the defaults ensured. *)
Crash ==
    /\ "crash" \in menu /\ budget > 0
    /\ \E w \in Workers : task[w] # Idle
    /\ budget' = budget - 1
    /\ db' = Started(db, 0)
    /\ task' = [w \in Workers |-> Idle]
    /\ shut' = FALSE
    /\ faults' = faults \cup {"crash"}
    /\ UNCHANGED <<issued, born, menu, overlaps, clash, seen>>

Next ==
    \/ \E w \in Workers :
          \/ update_read(w) \/ update_write(w) \/ insert(w) \/ validate(w)
          \/ create_account(w) \/ create_account_owner(w) \/ update_account(w)
          \/ update_known_folders(w) \/ place_legal_hold(w) \/ release_legal_hold(w)
          \/ delete_account(w) \/ delete_and_wait(w) \/ cleanup_tokens(w)
          \/ list_authorized_users(w) \/ cleanup_account(w) \/ purge(w) \/ delete_row(w)
          \/ create_user(w) \/ create_user_commit(w) \/ update_user(w)
          \/ remove_user(w) \/ remove_user_row(w) \/ remove_user_list(w) \/ remove_user_tokens(w)
          \/ create_role(w) \/ update_role(w) \/ delete_role(w) \/ delete_role_row(w) \/ do_assign(w)
          \/ authenticate_user(w) \/ new_mfa_challenge(w) \/ reset_webui_token(w)
          \/ reset_webui_token_commit(w) \/ resolve_user_from_token(w)
          \/ create_api_token(w) \/ delete_token(w)
          \/ mfa_verify(w) \/ mfa_consume(w) \/ mfa_enroll(w) \/ mfa_confirm(w)
          \/ mfa_disable(w) \/ disable_totp(w) \/ admin_reset(w)
          \/ authorize_url(w) \/ clean_pending(w) \/ oauth2_callback(w) \/ exchange(w)
          \/ fetch_save_access_token(w) \/ delete_pending(w)
          \/ store_external_oauth2_token(w) \/ upsert_external_oauth_token(w)
          \/ refresh_access_token(w) \/ delete_by_oauth2_id(w)
          \/ update_oauth2_config(w) \/ remove_oauth2_config(w)
    \/ OpenWindow \/ CloseWindow \/ Crash

Spec == Init /\ [][Next]_vars

-----------------------------------------------------------------------------
(* Properties.  Quiet states: no request is under way. *)

Quiet == \A w \in Workers : task[w] = Idle

Raced(S, T) == \E x \in S, y \in T : {x, y} \in overlaps

(* Every table holds rows of its shape under keys that were generated, and  *)
(* a running request names keys of the table it works on.                   *)
TypeOK ==
    /\ DOMAIN db = Tables
    /\ DOMAIN db.accounts \subseteq AccountIds \cap born
    /\ DOMAIN db.users \subseteq UserIds \cap born
    /\ DOMAIN db.roles \subseteq RoleIds \cap born
    /\ DOMAIN db.tokens \subseteq 0 .. issued
    /\ \A a \in DOMAIN db.accounts :
          /\ DOMAIN db.accounts[a] = {"sources", "hold", "deleting", "enabled", "folders"}
          /\ a \notin Views => db.accounts[a].sources = {}
    /\ \A u \in DOMAIN db.users : DOMAIN db.users[u] = DOMAIN NewUser(u, {}, << >>)
    /\ \A w \in Workers : At(w, "write") => task[w].tab \in Tables
    /\ shut \in BOOLEAN /\ issued \in Nat /\ budget \in Nat
    /\ faults \subseteq {"crash", "gate", "purge"}

(* The system stays administrable: whatever requests run together, are      *)
(* refused or are cut off, the default administrator has a row, that row    *)
(* has the administrator role and the role still allows everything          *)
(* (UserModel::remove, UserModel::update, UserRole::update and delete).     *)
AdminStands ==
    /\ Admin \in DOMAIN db.users
    /\ AdminRole \in db.users[Admin].roles
    /\ AdminRole \in DOMAIN db.roles
    /\ "root" \in db.roles[AdminRole].perms

(* A view's sources are ordinary accounts that exist; only a view created   *)
(* or edited while one of them is being deleted may be left pointing at     *)
(* nothing (ensure_deletable against validate_view_sources).                *)
ViewsResolve ==
    Quiet => \A v \in DOMAIN db.accounts \cap Views :
        \/ /\ db.accounts[v].sources # {}
           /\ db.accounts[v].sources \subseteq DOMAIN db.accounts \ Views
        \/ Raced({"create_account", "update_account"}, {"delete_account"})
        \/ \E x \in clash : x[1] = "accounts"

(* A user's account roles name accounts and roles that exist, except after  *)
(* a change of the map overlapped the deletion of what it names             *)
(* (cleanup_account, UserRole::delete).  A crash or a refused write in the  *)
(* middle of a deletion is no excuse: the map is cleaned before the row     *)
(* goes.                                                                    *)
GrantsResolve ==
    Quiet => \A u \in DOMAIN db.users :
        \/ /\ DOMAIN db.users[u].access \subseteq DOMAIN db.accounts
           /\ Range(db.users[u].access) \cup db.users[u].roles \subseteq DOMAIN db.roles
        \/ Raced({"create_account", "update_user", "create_user", "do_assign"},
                 {"delete_account", "delete_role"})
        \/ <<"users", u>> \in clash

(* An account under a legal hold is not deleted and stays held until it is  *)
(* released, unless the hold was placed while the deletion or another       *)
(* change of the row was under way (place_legal_hold, ensure_deletable,     *)
(* update_impl).                                                            *)
HoldKept ==
    Quiet => \A a \in seen.held :
        \/ a \in DOMAIN db.accounts /\ db.accounts[a].hold
        \/ Raced({"place_legal_hold"}, {"delete_account"})
        \/ <<"accounts", a>> \in clash

(* What a completed request deleted stays deleted, unless an update_impl of *)
(* the same row was between its read and its write.                         *)
DeletedStays ==
    \A x \in seen.removed : x[2] \in DOMAIN db[x[1]] => x \in clash

(* No field of a row loses the value the last completed update gave it,     *)
(* unless two updates of that row ran together (update_impl).               *)
EditsKept ==
    \A x \in DOMAIN seen.kept :
        (/\ x[1] \in {"accounts", "users", "roles", "apps"}
         /\ x[2] \in DOMAIN db[x[1]]
         /\ <<x[1], x[2]>> \notin clash)
            => db[x[1]][x[2]][x[3]] = seen.kept[x]

(* The password is the one last set; only a login that was checking the old *)
(* one at the time may bring it back (authenticate_user's upgrade).         *)
PasswordKept ==
    Quiet => \A u \in DOMAIN db.users :
        \/ db.users[u].pw = seen.passwords[u]
        \/ Raced({"authenticate_user"}, {"update_user"})
        \/ <<"users", u>> \in clash

Resetting == {"authenticate_user", "mfa_verify", "update_user"}

(* A user has one browser session, and none that is older than the user's   *)
(* password, unless two requests that replace it overlapped, a request was  *)
(* refreshing the session meanwhile, or the process stopped in between      *)
(* (reset_webui_token).                                                     *)
OneSession ==
    Quiet =>
        \/ /\ \A u \in DOMAIN db.users : Cardinality(WebUITokens(u)) <= 1
           /\ seen.outdated \cap DOMAIN db.tokens = {}
        \/ Raced(Resetting, Resetting)
        \/ \E x \in clash : x[1] = "tokens"
        \/ "crash" \in faults

(* Sessions and tokens belong to users that exist, unless the removal of    *)
(* the user overlapped a request for that user, was cut off, or the token   *)
(* was made for an absent user to begin with (UserModel::remove).           *)
TokensOwned ==
    Quiet => \A t \in DOMAIN db.tokens :
        \/ db.tokens[t].user \in DOMAIN db.users
        \/ ~db.tokens[t].owned
        \/ Raced({"remove_user"}, Resetting \cup {"create_api_token", "resolve_user_from_token"})
        \/ faults # {}

(* No recovery code is accepted twice, unless two requests were verifying   *)
(* codes of the user at once or another change of the row undid the first   *)
(* one (verify_recovery_code).                                              *)
RecoveryOnce ==
    \/ seen.twice = {}
    \/ Raced({"mfa_verify", "mfa_disable"}, {"mfa_verify", "mfa_disable"})
    \/ \E x \in clash : x[1] = "users"

(* The stored provider token comes from the newest authorisation of the     *)
(* account, unless a refresh of the older one was waiting for the provider  *)
(* meanwhile (refresh_access_token writes what it got for its copy).        *)
LatestAuthorisation ==
    Quiet => \A a \in DOMAIN db.oauth :
        \/ db.oauth[a].auth = seen.latest[a]
        \/ Raced({"refresh_access_token"}, {"oauth2_callback", "store_external_oauth2_token"})

(* No provider token is left behind for an account that was deleted after   *)
(* the token was stored, unless a request was about to store one while the  *)
(* account went (try_delete).                                               *)
ProviderTokensOwned ==
    Quiet => \A a \in DOMAIN db.oauth :
        \/ a \in DOMAIN db.accounts \/ ~db.oauth[a].owned
        \/ Raced({"delete_account"},
                 {"oauth2_callback", "store_external_oauth2_token", "refresh_access_token"})

(* An account does not stay marked as being deleted when no deletion runs,  *)
(* unless the deletion or its revert was cut off by a crash or by the gate  *)
(* (delete_and_wait).                                                       *)
DeletionEnds ==
    Quiet => \A a \in DOMAIN db.accounts :
        \/ ~db.accounts[a].deleting
        \/ faults \cap {"crash", "gate"} # {}
        \/ <<"accounts", a>> \in clash

(* User names are unique unless two requests that set one overlapped        *)
(* (check_username_conflict), or a lost update brought a name back.         *)
NamesUnique ==
    \/ \A u, v \in DOMAIN db.users : u # v => db.users[u].name # db.users[v].name
    \/ Raced({"create_user", "update_user"}, {"create_user", "update_user"})
    \/ \E x \in clash : x[1] = "users"

(* Rows refer to rows that exist: views to accounts, users to accounts and  *)
(* roles, sessions and API tokens to users, provider tokens to accounts; and*)
(* user names stay unique.  Each part names the overlaps that may break it. *)
ReferencesResolve ==
    TypeOK /\ ViewsResolve /\ GrantsResolve /\ TokensOwned /\ ProviderTokensOwned /\ NamesUnique

(* What a completed request wrote is not undone by another one: edits, legal*)
(* holds, deletions, passwords and authorisations, with the overlaps each   *)
(* part names; one browser session per user, and a recovery code works once.*)
WritesKept ==
    EditsKept /\ HoldKept /\ DeletedStays /\ PasswordKept /\ LatestAuthorisation /\ OneSession /\ RecoveryOnce
=============================================================================
