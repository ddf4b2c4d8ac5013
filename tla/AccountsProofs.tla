--------------------------- MODULE AccountsProofs ---------------------------
(***************************************************************************)
(* The system stays administrable, for any number of request handlers, any  *)
(* tables and any mix of requests.  No handler locks a row between its read *)
(* and its write, so the argument is about what each request in flight may  *)
(* still write.                                                             *)
(***************************************************************************)
EXTENDS Accounts, TLAPS

Fields == {"op", "at", "tab", "key", "edit", "next", "id", "row", "todo", "spent", "undo"}

(* Steps before which something was checked.                                *)
Acting == {"read", "write", "validate", "insert", "join", "leave", "unrole", "exchange"}

(* What may be written does not take the administrator role from the        *)
(* default administrator, nor change a built-in role.                       *)
SafeEdit(j) ==
    /\ j.tab = "users" /\ j.key = Admin /\ "roles" \in DOMAIN j.edit => AdminRole \in j.edit.roles
    /\ j.tab = "roles" => j.key \notin Builtin

(* What a request in flight may still do.                                   *)
JobOK(j) ==
    /\ Fields \subseteq DOMAIN j
    /\ j.next \notin Acting
    /\ j.at \in {"read", "write", "validate"} => SafeEdit(j)
    /\ j.at = "write" /\ j.tab = "users" /\ j.key = Admin =>
          "roles" \in DOMAIN j.row /\ AdminRole \in j.row.roles
    /\ j.at = "insert" => j.tab = "accounts"
    /\ j.at \in {"join", "leave"} => j.key # Admin
    /\ j.at = "unrole" => j.key \notin Builtin
    /\ j.at = "exchange" /\ j.op = "refresh_access_token" => j.tab = "oauth"

JobsInv == Workers \subseteq DOMAIN task /\ \A w \in Workers : task[w] = Idle \/ JobOK(task[w])

StandsInv ==
    /\ AdminStands
    /\ Tables \subseteq DOMAIN db
    /\ "roles" \in DOMAIN db.users[Admin]
    /\ Admin \in born /\ AdminRole \in born

AdminInv == StandsInv /\ JobsInv

-----------------------------------------------------------------------------
(* A request that begins or goes on with a job that is safe.                *)
LEMMA SetJob ==
    ASSUME JobsInv, NEW w \in Workers, NEW j, j = Idle \/ JobOK(j), task' = [task EXCEPT ![w] = j]
    PROVE  JobsInv'
<1>1. \A v \in Workers : task'[v] = (IF v = w THEN j ELSE task[v])
  BY DEF JobsInv
<1>2. \A v \in Workers : task'[v] = Idle \/ JobOK(task'[v])
  BY <1>1 DEF JobsInv
<1> QED BY <1>2 DEF JobsInv, JobOK, SafeEdit, Idle

(* Going on to a step that was not checked before.                          *)
LEMMA GoOn ==
    ASSUME NEW j, JobOK(j), NEW at, at \notin Acting
    PROVE  JobOK([j EXCEPT !.at = at])
  BY DEF JobOK, SafeEdit, Fields, Acting

(* Goto, as it is used after a step.                                        *)
LEMMA GotoStep ==
    ASSUME JobsInv, NEW w \in Workers, task[w] # Idle, NEW at, at \notin Acting, Goto(w, at)
    PROVE  JobsInv'
<1>1. JobOK(task[w])
  BY DEF JobsInv
<1> DEFINE j == IF at = "done" THEN Idle ELSE [task[w] EXCEPT !.at = at]
<1>2. j = Idle \/ JobOK(j)
  BY <1>1, GoOn
<1>3. task' = [task EXCEPT ![w] = j]
  BY DEF Goto
<1> QED BY <1>2, <1>3, SetJob

(* A job as it is made is safe when its first step is.                      *)
LEMMA NewJob ==
    ASSUME NEW op, NEW at, NEW tab, NEW key, NEW edit, NEW next, NEW id, next \notin Acting,
           at \in {"read", "validate"} =>
             /\ tab = "users" /\ key = Admin /\ "roles" \in DOMAIN edit => AdminRole \in edit.roles
             /\ tab = "roles" => key \notin Builtin,
           at # "write",
           at = "insert" => tab = "accounts",
           at \in {"join", "leave"} => key # Admin,
           at = "unrole" => key \notin Builtin,
           at = "exchange" /\ op = "refresh_access_token" => tab = "oauth"
    PROVE  JobOK(Job(op, at, tab, key, edit, next, id))
  BY DEF Job, JobOK, SafeEdit, Fields

(* A step that fails ends the request, or goes on where that is harmless.   *)
LEMMA FailedStep ==
    ASSUME JobsInv, NEW w \in Workers, task[w] # Idle, NEW why, Failed(w, why)
    PROVE  JobsInv'
<1> DEFINE t == task[w]
           back == Job(t.op, "read", "accounts", t.id, [deleting |-> FALSE, enabled |-> TRUE], "done", t.id)
           j == IF t.undo THEN back
                ELSE IF t.op = "authenticate_user" THEN [t EXCEPT !.at = t.next] ELSE Idle
<1>1. JobOK(t)
  BY DEF JobsInv
<1>2. JobOK(back)
  BY NewJob DEF Acting
<1>3. JobOK([t EXCEPT !.at = t.next])
  BY <1>1, GoOn DEF JobOK
<1>4. task' = [task EXCEPT ![w] = j]
  BY DEF Failed, JobsInv
<1>5. j = Idle \/ JobOK(j)
  BY <1>2, <1>3
<1> QED BY <1>4, <1>5, SetJob

(* Steps that leave the users and the roles alone.                          *)
LEMMA Framed ==
    ASSUME StandsInv, Tables \subseteq DOMAIN db', db'.users = db.users, db'.roles = db.roles,
           born \subseteq born'
    PROVE  StandsInv'
  BY DEF StandsInv, AdminStands

(* A write to another table.                                                *)
LEMMA OtherTable ==
    ASSUME StandsInv, NEW tab, tab \notin {"users", "roles"}, NEW rows,
           db' = [db EXCEPT ![tab] = rows], born \subseteq born'
    PROVE  StandsInv'
<1>1. Tables \subseteq DOMAIN db' /\ db'.users = db.users /\ db'.roles = db.roles
  BY DEF StandsInv, Tables
<1> QED BY <1>1, Framed

-----------------------------------------------------------------------------
(* A request begins: nothing is written yet.                                *)
LEMMA BeginStep ==
    ASSUME AdminInv, NEW w \in Workers, NEW j, JobOK(j), Begin(w, j), born \subseteq born'
    PROVE  AdminInv'
<1>1. JobsInv'
  BY SetJob DEF AdminInv, Begin
<1>2. StandsInv'
  BY Framed DEF AdminInv, StandsInv, Begin
<1> QED BY <1>1, <1>2 DEF AdminInv

AccountRequests(w) ==
    \/ create_account(w) \/ update_account(w) \/ update_known_folders(w) \/ place_legal_hold(w)
    \/ release_legal_hold(w) \/ delete_account(w)

(* Requests about accounts touch neither users nor roles at first.          *)
LEMMA AccountRequestsSafe ==
    ASSUME AdminInv, NEW w \in Workers, AccountRequests(w)
    PROVE  AdminInv'
<1>1. PICK op, at, key, edit, next, id :
        /\ at \in {"insert", "read", "recheck"} /\ next \in {"owner", "done"}
        /\ Begin(w, Job(op, at, "accounts", key, edit, next, id))
        /\ born \subseteq born'
  <2>1. CASE create_account(w)
    BY <2>1 DEF create_account
  <2>2. CASE update_account(w) \/ update_known_folders(w)
    BY <2>2 DEF update_account, update_known_folders
  <2>3. CASE place_legal_hold(w) \/ release_legal_hold(w)
    BY <2>3 DEF place_legal_hold, release_legal_hold
  <2>4. CASE delete_account(w)
    BY <2>4 DEF delete_account
  <2> QED BY <2>1, <2>2, <2>3, <2>4 DEF AccountRequests
<1>2. JobOK(Job(op, at, "accounts", key, edit, next, id))
  BY <1>1, NewJob DEF Acting
<1> QED BY <1>1, <1>2, BeginStep

UserRequests(w) ==
    \/ create_user(w) \/ update_user(w) \/ remove_user(w) \/ do_assign(w) \/ authenticate_user(w)
    \/ mfa_verify(w) \/ mfa_enroll(w) \/ mfa_confirm(w) \/ mfa_disable(w) \/ admin_reset(w)

(* A job that differs from a safe one in the codes it spends is safe.       *)
LEMMA Spending ==
    ASSUME NEW j, JobOK(j), NEW codes
    PROVE  JobOK([j EXCEPT !.spent = codes])
  BY DEF JobOK, SafeEdit, Fields

(* UserModel::update and remove look at the default administrator before    *)
(* they begin; a new user has an id that nobody has.                        *)
LEMMA UserRequestsSafe ==
    ASSUME AdminInv, NEW w \in Workers, UserRequests(w)
    PROVE  AdminInv'
<1>1. CASE create_user(w)
  <2>1. PICK u, edit, id :
          /\ u \notin born /\ born \subseteq born'
          /\ Begin(w, Job("create_user", "join", "users", u, edit, "done", id))
    BY <1>1 DEF create_user
  <2>2. JobOK(Job("create_user", "join", "users", u, edit, "done", id))
    BY <2>1, NewJob DEF AdminInv, StandsInv, Acting
  <2> QED BY <2>1, <2>2, BeginStep
<1>2. CASE update_user(w)
  <2>1. PICK u, edit, next :
          /\ next \in {"reset", "done"} /\ may_update(u, edit)
          /\ Begin(w, Job("update_user", "read", "users", u, edit, next, u)) /\ born' = born
    BY <1>2 DEF update_user
  <2>2. JobOK(Job("update_user", "read", "users", u, edit, next, u))
    BY <2>1, NewJob DEF Acting, may_update
  <2> QED BY <2>1, <2>2, BeginStep
<1>3. CASE remove_user(w)
  <2>1. PICK u : /\ removable(u) /\ born' = born
                 /\ Begin(w, Job("remove_user", "leave", "users", u, None, "done", u))
    BY <1>3 DEF remove_user
  <2>2. JobOK(Job("remove_user", "leave", "users", u, None, "done", u))
    BY <2>1, NewJob DEF Acting, removable
  <2> QED BY <2>1, <2>2, BeginStep
<1>4. ASSUME NEW op, NEW at, NEW u, NEW edit, NEW next, NEW id,
             at \in {"read", "consume", "reset", "challenge"} /\ next \notin Acting,
             at = "read" => "roles" \notin DOMAIN edit,
             Begin(w, Job(op, at, "users", u, edit, next, id)), born' = born
      PROVE  AdminInv'
  <2>1. JobOK(Job(op, at, "users", u, edit, next, id))
    BY <1>4, NewJob
  <2> QED BY <1>4, <2>1, BeginStep
<1>5. CASE do_assign(w)
  BY <1>4, <1>5 DEF do_assign, Acting
<1>6. CASE authenticate_user(w)
  <2>1. PICK u, at, next :
          /\ at \in {"read", "reset", "challenge"} /\ next \in {"reset", "challenge"} /\ born' = born
          /\ Begin(w, Job("authenticate_user", at, "users", u,
                          [pw |-> db.users[u].pw, legacy |-> FALSE], next, u))
    BY <1>6 DEF authenticate_user
  <2> QED BY <1>4, <2>1 DEF Acting
<1>7. CASE mfa_enroll(w) \/ mfa_confirm(w) \/ admin_reset(w)
  BY <1>4, <1>7 DEF mfa_enroll, mfa_confirm, admin_reset, NoSecondFactor, Acting
<1>8. ASSUME NEW op, NEW u, NEW codes, NEW next, NEW id, NEW spent, next \notin Acting, born' = born,
             Begin(w, [Job(op, "read", "users", u, [codes |-> codes], next, id) EXCEPT !.spent = spent])
      PROVE  AdminInv'
  <2>1. JobOK(Job(op, "read", "users", u, [codes |-> codes], next, id))
    BY <1>8, NewJob
  <2> QED BY <1>8, <2>1, Spending, BeginStep
<1>9. CASE mfa_verify(w)
  <2>1. born' = born
    BY <1>9 DEF mfa_verify
  <2>2. PICK t, u :
          \/ Begin(w, Job("mfa_verify", "consume", "users", u, None, "consume", t))
          \/ \E codes, spent :
               Begin(w, [Job("mfa_verify", "read", "users", u, [codes |-> codes], "consume", t)
                         EXCEPT !.spent = spent])
    BY <1>9 DEF mfa_verify
  <2>3. CASE Begin(w, Job("mfa_verify", "consume", "users", u, None, "consume", t))
    BY <1>4, <2>1, <2>3 DEF Acting
  <2>4. ASSUME NEW codes, NEW spent,
               Begin(w, [Job("mfa_verify", "read", "users", u, [codes |-> codes], "consume", t)
                         EXCEPT !.spent = spent])
        PROVE  AdminInv'
    <3>1. "consume" \notin Acting
      BY DEF Acting
    <3> QED BY <1>8, <2>1, <2>4, <3>1
  <2> QED BY <2>2, <2>3, <2>4
<1>10. CASE mfa_disable(w)
  <2>1. born' = born
    BY <1>10 DEF mfa_disable
  <2>2. PICK u :
          \/ Begin(w, Job("mfa_disable", "read", "users", u, NoSecondFactor, "done", u))
          \/ \E codes, spent :
               Begin(w, [Job("mfa_disable", "read", "users", u, [codes |-> codes], "disable", u)
                         EXCEPT !.spent = spent])
    BY <1>10 DEF mfa_disable
  <2>3. CASE Begin(w, Job("mfa_disable", "read", "users", u, NoSecondFactor, "done", u))
    BY <1>4, <2>1, <2>3 DEF Acting, NoSecondFactor
  <2>4. ASSUME NEW codes, NEW spent,
               Begin(w, [Job("mfa_disable", "read", "users", u, [codes |-> codes], "disable", u)
                         EXCEPT !.spent = spent])
        PROVE  AdminInv'
    <3>1. "disable" \notin Acting
      BY DEF Acting
    <3> QED BY <1>8, <2>1, <2>4, <3>1
  <2> QED BY <2>2, <2>3, <2>4
<1> QED BY <1>1, <1>2, <1>3, <1>5, <1>6, <1>7, <1>9, <1>10 DEF UserRequests

OtherRequests(w) ==
    \/ update_role(w) \/ delete_role(w) \/ resolve_user_from_token(w) \/ oauth2_callback(w)
    \/ store_external_oauth2_token(w) \/ refresh_access_token(w) \/ update_oauth2_config(w)

(* UserRole::update and delete refuse the built-in roles before they begin. *)
LEMMA OtherRequestsSafe ==
    ASSUME AdminInv, NEW w \in Workers, OtherRequests(w)
    PROVE  AdminInv'
<1>1. CASE update_role(w)
  <2>1. PICK r : /\ r \notin Builtin /\ born' = born
                 /\ Begin(w, Job("update_role", "read", "roles", r, [perms |-> {"account:manage"}], "done", r))
    BY <1>1 DEF update_role
  <2>2. JobOK(Job("update_role", "read", "roles", r, [perms |-> {"account:manage"}], "done", r))
    BY <2>1, NewJob DEF Acting
  <2> QED BY <2>1, <2>2, BeginStep
<1>2. CASE delete_role(w)
  <2>1. PICK r : /\ r \notin Builtin /\ born' = born
                 /\ Begin(w, Job("delete_role", "unrole", "roles", r, None, "done", r))
    BY <1>2 DEF delete_role, deletable_role
  <2>2. JobOK(Job("delete_role", "unrole", "roles", r, None, "done", r))
    BY <2>1, NewJob DEF Acting
  <2> QED BY <2>1, <2>2, BeginStep
<1>3. ASSUME NEW op, NEW at, NEW tab, NEW key, NEW edit, NEW next, NEW id,
             at \in {"read", "exchange", "external", "disown"}, tab \in {"tokens", "pending", "oauth", "apps"},
             next \in {"done", "store"}, op = "refresh_access_token" => tab = "oauth",
             Begin(w, Job(op, at, tab, key, edit, next, id)), born' = born
      PROVE  AdminInv'
  <2>1. JobOK(Job(op, at, tab, key, edit, next, id))
    BY <1>3, NewJob DEF Acting
  <2> QED BY <1>3, <2>1, BeginStep
<1>4. CASE resolve_user_from_token(w) \/ oauth2_callback(w)
  BY <1>3, <1>4 DEF resolve_user_from_token, oauth2_callback
<1>5. CASE store_external_oauth2_token(w)
  BY <1>3, <1>5 DEF store_external_oauth2_token
<1>6. CASE refresh_access_token(w)
  <2>1. PICK at, a, edit, id :
          /\ at \in {"exchange", "disown"} /\ born' = born
          /\ Begin(w, Job("refresh_access_token", at, "oauth", a, edit, "done", id))
    BY <1>6 DEF refresh_access_token
  <2> QED BY <1>3, <2>1
<1>7. CASE update_oauth2_config(w)
  BY <1>3, <1>7 DEF update_oauth2_config
<1> QED BY <1>1, <1>2, <1>4, <1>5, <1>6, <1>7 DEF OtherRequests

-----------------------------------------------------------------------------
(* The steps of a request under way that write nothing.                     *)
Thinking(w) ==
    \/ update_read(w) \/ validate(w) \/ create_account_owner(w) \/ delete_and_wait(w)
    \/ list_authorized_users(w) \/ cleanup_account(w) \/ purge(w) \/ remove_user_list(w)
    \/ reset_webui_token(w) \/ disable_totp(w) \/ exchange(w)

(* What is read into a job is safe to write back: the administrator's row   *)
(* as it stands has the role.                                               *)
LEMMA ThinkingSafe ==
    ASSUME AdminInv, NEW w \in Workers, Thinking(w)
    PROVE  AdminInv'
<1> DEFINE j == task[w]
<1>1. db' = db /\ born' = born
  BY DEF Thinking, update_read, validate, create_account_owner, delete_and_wait,
         list_authorized_users, cleanup_account, purge, remove_user_list, reset_webui_token,
         disable_totp, exchange, Fixed
<1>2. StandsInv'
  BY <1>1, Framed DEF AdminInv, StandsInv
<1>3. j # Idle /\ JobOK(j) /\ JobsInv /\ w \in DOMAIN task
  BY DEF Thinking, update_read, validate, create_account_owner, delete_and_wait,
         list_authorized_users, cleanup_account, purge, remove_user_list, reset_webui_token,
         disable_totp, exchange, At, AdminInv, JobsInv
<1> SUFFICES JobsInv'
  BY <1>2 DEF AdminInv
<1>4. CASE update_read(w)
  <2>1. CASE Refused(j.tab) \/ j.key \notin DOMAIN db[j.tab]
    BY <1>3, <1>4, <2>1, FailedStep DEF update_read
  <2>2. CASE ~(Refused(j.tab) \/ j.key \notin DOMAIN db[j.tab])
    <3> DEFINE k == [[j EXCEPT !.at = "write"] EXCEPT !.row = db[j.tab][j.key]]
    <3>1. task' = [task EXCEPT ![w] = k]
      BY <1>3, <1>4, <2>2 DEF update_read
    <3>2. j.at = "read"
      BY <1>4 DEF update_read, At
    <3>3. JobOK(k)
      BY <1>3, <3>2 DEF JobOK, SafeEdit, Fields, AdminInv, StandsInv, AdminStands
    <3> QED BY <1>3, <3>1, <3>3, SetJob
  <2> QED BY <2>1, <2>2
<1>5. CASE validate(w)
  <2>1. j.at = "validate"
    BY <1>5 DEF validate, At
  <2>2. JobOK([j EXCEPT !.at = "read"])
    BY <1>3, <2>1 DEF JobOK, SafeEdit, Fields
  <2>3. task' = [task EXCEPT ![w] = Idle] \/ task' = [task EXCEPT ![w] = [j EXCEPT !.at = "read"]]
    BY <1>3, <1>5 DEF validate, Goto
  <2> QED BY <1>3, <2>2, <2>3, SetJob
<1>6. CASE create_account_owner(w)
  <2> DEFINE access == Put(db.users[j.id].access, j.key, ManagerRole)
             k == Job(j.op, "validate", "users", j.id, [access |-> access], "done", j.key)
  <2>1. JobOK(k)
    BY NewJob DEF Acting
  <2>2. task' = [task EXCEPT ![w] = IF j.id \in DOMAIN db.users THEN k ELSE Idle]
    BY <1>6 DEF create_account_owner
  <2> HIDE DEF k
  <2> QED BY <1>3, <2>1, <2>2, SetJob
<1>7. CASE delete_and_wait(w)
  <2> DEFINE k == Job(j.op, "read", "accounts", j.id, [deleting |-> TRUE, enabled |-> FALSE], "cleanup", j.id)
  <2>1. JobOK(k)
    BY NewJob DEF Acting
  <2>2. task' = [task EXCEPT ![w] = Idle] \/ task' = [task EXCEPT ![w] = k]
    BY <1>7 DEF delete_and_wait
  <2> HIDE DEF k
  <2> QED BY <1>3, <2>1, <2>2, SetJob
<1>8. CASE list_authorized_users(w) \/ remove_user_list(w) \/ reset_webui_token(w)
  <2>1. ASSUME NEW at, at \notin Acting, NEW todo, task' = [task EXCEPT ![w].at = at, ![w].todo = todo]
        PROVE  JobsInv'
    <3>1. JobOK([[j EXCEPT !.at = at] EXCEPT !.todo = todo])
      BY <1>3, <2>1 DEF JobOK, SafeEdit, Fields, Acting
    <3>2. task' = [task EXCEPT ![w] = [[j EXCEPT !.at = at] EXCEPT !.todo = todo]]
      BY <1>3, <2>1
    <3> QED BY <1>3, <3>1, <3>2, SetJob
  <2>2. "revoke" \notin Acting /\ "logout" \notin Acting /\ "swap" \notin Acting
    BY DEF Acting
  <2>3. CASE list_authorized_users(w)
    BY <2>1, <2>2, <2>3 DEF list_authorized_users
  <2>4. CASE remove_user_list(w)
    BY <2>1, <2>2, <2>4 DEF remove_user_list
  <2>5. CASE reset_webui_token(w)
    <3>1. PICK old : task' = [task EXCEPT ![w].at = "swap", ![w].todo = old]
      BY <2>5 DEF reset_webui_token
    <3> QED BY <2>1, <2>2, <3>1
  <2> QED BY <1>8, <2>3, <2>4, <2>5
<1>9. CASE cleanup_account(w)
  <2>1. CASE j.todo = {}
    BY <1>3, <1>9, <2>1, GotoStep DEF cleanup_account, Acting
  <2>2. CASE j.todo # {}
    <3>1. PICK u : task' = [task EXCEPT ![w].at = "read", ![w].tab = "users", ![w].key = u,
                               ![w].edit = [revoke |-> j.id], ![w].next = "revoke",
                               ![w].todo = j.todo \ {u}]
      BY <1>9, <2>2 DEF cleanup_account
    <3>2. /\ DOMAIN task'[w] = DOMAIN j
          /\ task'[w].at = "read" /\ task'[w].tab = "users" /\ task'[w].next = "revoke"
          /\ task'[w].edit = [revoke |-> j.id]
      BY <1>3, <3>1 DEF JobOK, Fields
    <3>3. JobOK(task'[w])
      BY <1>3, <3>2 DEF JobOK, SafeEdit, Fields, Acting
    <3>4. task' = [task EXCEPT ![w] = task'[w]]
      BY <1>3, <3>1
    <3> QED BY <1>3, <3>3, <3>4, SetJob
  <2> QED BY <2>1, <2>2
<1>10. CASE purge(w)
  BY <1>3, <1>10, GotoStep, FailedStep DEF purge, Acting
<1>11. CASE disable_totp(w)
  <2> DEFINE k == Job(j.op, "read", "users", j.key, NoSecondFactor, "done", j.key)
  <2>1. JobOK(k)
    BY NewJob DEF Acting, NoSecondFactor
  <2>2. task' = [task EXCEPT ![w] = k]
    BY <1>3, <1>11 DEF disable_totp
  <2> HIDE DEF k
  <2> QED BY <1>3, <2>1, <2>2, SetJob
<1>12. CASE exchange(w)
  <2>1. j.at = "exchange"
    BY <1>12 DEF exchange, At
  <2>2. CASE j.op = "refresh_access_token" /\ Goto(w, "read")
    <3>1. JobOK([j EXCEPT !.at = "read"])
      BY <1>3, <2>1, <2>2 DEF JobOK, SafeEdit, Fields
    <3>2. task' = [task EXCEPT ![w] = [j EXCEPT !.at = "read"]]
      BY <1>3, <2>2 DEF Goto
    <3> QED BY <1>3, <3>1, <3>2, SetJob
  <2>3. CASE Goto(w, "store") \/ Goto(w, "done")
    BY <1>3, <2>3, GotoStep DEF Acting
  <2> QED BY <1>12, <2>2, <2>3 DEF exchange
<1> QED BY <1>4, <1>5, <1>6, <1>7, <1>8, <1>9, <1>10, <1>11, <1>12 DEF Thinking

-----------------------------------------------------------------------------
(* A write to the users that keeps the administrator.                       *)
LEMMA UsersKept ==
    ASSUME StandsInv, NEW users, db' = [db EXCEPT !.users = users], born' = born,
           Admin \in DOMAIN users, "roles" \in DOMAIN users[Admin], AdminRole \in users[Admin].roles
    PROVE  StandsInv'
<1>1. Tables \subseteq DOMAIN db' /\ db'.users = users /\ db'.roles = db.roles
  BY DEF StandsInv, Tables
<1> QED BY <1>1 DEF StandsInv, AdminStands

(* A write to the roles that keeps the administrator role.                  *)
LEMMA RolesKept ==
    ASSUME StandsInv, NEW roles, db' = [db EXCEPT !.roles = roles], born \subseteq born',
           AdminRole \in DOMAIN roles, "root" \in roles[AdminRole].perms
    PROVE  StandsInv'
<1>1. Tables \subseteq DOMAIN db' /\ db'.users = db.users /\ db'.roles = roles
  BY DEF StandsInv, Tables
<1> QED BY <1>1 DEF StandsInv, AdminStands

(* Put leaves the other keys alone.                                         *)
LEMMA PutOther ==
    ASSUME NEW f, NEW k, NEW v, NEW x \in DOMAIN f, x # k
    PROVE  x \in DOMAIN Put(f, k, v) /\ Put(f, k, v)[x] = f[x]
  BY DEF Put

(* Drop leaves the other keys alone.                                        *)
LEMMA DropOther ==
    ASSUME NEW f, NEW K, NEW x \in DOMAIN f, x \notin K
    PROVE  x \in DOMAIN Drop(f, K) /\ Drop(f, K)[x] = f[x]
  BY DEF Drop, Restrict

(* update_impl writes the row it has read, changed by the closure: whatever *)
(* happened in between, the row has the administrator role.                 *)
LEMMA UpdateWriteSafe ==
    ASSUME AdminInv, NEW w \in Workers, update_write(w)
    PROVE  AdminInv'
<1> DEFINE j == task[w]
           row == Edited(j.row, j.edit)
<1>1. JobOK(j) /\ j # Idle /\ j.at = "write" /\ born' = born
  BY DEF AdminInv, JobsInv, update_write, At, Fixed
<1>2. JobsInv'
  BY <1>1, GotoStep DEF AdminInv, update_write, JobOK
<1>3. db' = [db EXCEPT ![j.tab] = Put(db[j.tab], j.key, row)]
  BY DEF update_write, Upsert
<1>4. SafeEdit(j)
  BY <1>1 DEF JobOK
<1>5. StandsInv'
  <2>1. CASE j.tab = "users" /\ j.key = Admin
    <3>1. "roles" \in DOMAIN j.row /\ AdminRole \in j.row.roles
      BY <1>1, <2>1 DEF JobOK
    <3>2. "roles" \in DOMAIN row /\ AdminRole \in row.roles
      BY <1>4, <2>1, <3>1 DEF Edited, SafeEdit
    <3>3. Admin \in DOMAIN Put(db.users, Admin, row) /\ Put(db.users, Admin, row)[Admin] = row
      BY DEF Put
    <3> HIDE DEF row
    <3>4. db' = [db EXCEPT !.users = Put(db.users, Admin, row)]
      BY <1>3, <2>1
    <3> QED BY <1>1, <3>2, <3>3, <3>4, UsersKept DEF AdminInv
  <2>2. CASE j.tab = "users" /\ j.key # Admin
    <3> HIDE DEF row
    <3>1. /\ Admin \in DOMAIN Put(db.users, j.key, row)
          /\ Put(db.users, j.key, row)[Admin] = db.users[Admin]
      BY <2>2, PutOther DEF AdminInv, StandsInv, AdminStands
    <3>2. db' = [db EXCEPT !.users = Put(db.users, j.key, row)]
      BY <1>3, <2>2
    <3> QED BY <1>1, <3>1, <3>2, UsersKept DEF AdminInv, StandsInv, AdminStands
  <2>3. CASE j.tab = "roles"
    <3> HIDE DEF row
    <3>1. j.key # AdminRole
      BY <1>4, <2>3, AccountsAssumption DEF SafeEdit
    <3>2. /\ AdminRole \in DOMAIN Put(db.roles, j.key, row)
          /\ Put(db.roles, j.key, row)[AdminRole] = db.roles[AdminRole]
      BY <3>1, PutOther DEF AdminInv, StandsInv, AdminStands
    <3>3. db' = [db EXCEPT !.roles = Put(db.roles, j.key, row)]
      BY <1>3, <2>3
    <3> QED BY <1>1, <3>2, <3>3, RolesKept DEF AdminInv, StandsInv, AdminStands
  <2>4. CASE j.tab \notin {"users", "roles"}
    BY <1>1, <1>3, <2>4, OtherTable DEF AdminInv
  <2> QED BY <2>1, <2>2, <2>3, <2>4
<1> QED BY <1>2, <1>5 DEF AdminInv

-----------------------------------------------------------------------------
(* Users and roles that come and go.                                        *)
LEMMA MembershipSafe ==
    ASSUME AdminInv, NEW w \in Workers,
           create_user_commit(w) \/ remove_user_row(w) \/ delete_role_row(w)
    PROVE  AdminInv'
<1> DEFINE j == task[w]
<1>1. JobOK(j) /\ j # Idle /\ born' = born /\ JobsInv /\ StandsInv
  BY DEF AdminInv, JobsInv, create_user_commit, remove_user_row, delete_role_row, At, Fixed
<1>2. ASSUME NEW why, Failed(w, why), db' = db
      PROVE  AdminInv'
  BY <1>1, <1>2, FailedStep, Framed DEF AdminInv, StandsInv
<1>3. "done" \notin Acting /\ "sessions" \notin Acting
  BY DEF Acting
<1>4. CASE create_user_commit(w)
  <2>1. CASE shut
    BY <1>2, <1>4, <2>1 DEF create_user_commit
  <2>2. CASE ~shut
    <3> DEFINE users == Put(db.users, j.key, j.edit)
               tokens == Put(db.tokens, issued + 1, Session(j.key, "WebUI"))
    <3>1. j.key # Admin
      BY <1>1, <1>4 DEF JobOK, create_user_commit, At
    <3>2. Admin \in DOMAIN users /\ users[Admin] = db.users[Admin]
      BY <1>1, <3>1, PutOther DEF StandsInv, AdminStands
    <3>3. db' = [db EXCEPT !.users = users, !.tokens = tokens]
      BY <1>4, <2>2 DEF create_user_commit
    <3> HIDE DEF users, tokens
    <3>4. Tables \subseteq DOMAIN db' /\ db'.users = users /\ db'.roles = db.roles
      BY <1>1, <3>3 DEF StandsInv, Tables
    <3>5. StandsInv'
      BY <1>1, <3>2, <3>4 DEF StandsInv, AdminStands
    <3>6. JobsInv'
      BY <1>1, <1>3, <1>4, <2>2, GotoStep DEF create_user_commit
    <3> QED BY <3>5, <3>6 DEF AdminInv
  <2> QED BY <2>1, <2>2
<1>5. CASE remove_user_row(w)
  <2>1. CASE shut \/ j.key \notin DOMAIN db.users
    BY <1>2, <1>5, <2>1 DEF remove_user_row
  <2>2. CASE ~(shut \/ j.key \notin DOMAIN db.users)
    <3> DEFINE users == Drop(db.users, {j.key})
    <3>1. j.key # Admin
      BY <1>1, <1>5 DEF JobOK, remove_user_row, At
    <3>2. Admin \in DOMAIN users /\ users[Admin] = db.users[Admin]
      BY <1>1, <3>1, DropOther DEF StandsInv, AdminStands
    <3>3. db' = [db EXCEPT !.users = users]
      BY <1>5, <2>2 DEF remove_user_row, Remove
    <3> HIDE DEF users
    <3>4. StandsInv'
      BY <1>1, <3>2, <3>3, UsersKept DEF StandsInv, AdminStands
    <3>5. JobsInv'
      BY <1>1, <1>3, <1>5, <2>2, GotoStep DEF remove_user_row
    <3> QED BY <3>4, <3>5 DEF AdminInv
  <2> QED BY <2>1, <2>2
<1>6. CASE delete_role_row(w)
  <2>1. CASE shut \/ j.key \notin DOMAIN db.roles
    BY <1>2, <1>6, <2>1 DEF delete_role_row
  <2>2. CASE ~(shut \/ j.key \notin DOMAIN db.roles)
    <3> DEFINE roles == Drop(db.roles, {j.key})
    <3>1. j.key # AdminRole
      BY <1>1, <1>6, AccountsAssumption DEF JobOK, delete_role_row, At
    <3>2. AdminRole \in DOMAIN roles /\ roles[AdminRole] = db.roles[AdminRole]
      BY <1>1, <3>1, DropOther DEF StandsInv, AdminStands
    <3>3. db' = [db EXCEPT !.roles = roles]
      BY <1>6, <2>2 DEF delete_role_row, Remove
    <3> HIDE DEF roles
    <3>4. StandsInv'
      BY <1>1, <3>2, <3>3, RolesKept DEF StandsInv, AdminStands
    <3>5. JobsInv'
      BY <1>1, <1>3, <1>6, <2>2, GotoStep DEF delete_role_row
    <3> QED BY <3>4, <3>5 DEF AdminInv
  <2> QED BY <2>1, <2>2
<1> QED BY <1>4, <1>5, <1>6

-----------------------------------------------------------------------------
(* Steps that write another table, or nothing, and go on or fail.           *)
LEMMA ElsewhereStep ==
    ASSUME AdminInv, NEW w \in Workers, task[w] # Idle, born' = born,
           NEW tab, tab \notin {"users", "roles"}, NEW rows,
           db' = db \/ db' = [db EXCEPT ![tab] = rows],
           NEW at, at \notin Acting, NEW why, Goto(w, at) \/ Failed(w, why)
    PROVE  AdminInv'
<1>1. JobsInv'
  BY GotoStep, FailedStep DEF AdminInv
<1>2. CASE db' = db
  BY <1>1, <1>2, Framed DEF AdminInv, StandsInv
<1>3. CASE db' = [db EXCEPT ![tab] = rows]
  BY <1>1, <1>3, OtherTable DEF AdminInv
<1> QED BY <1>2, <1>3

SessionSteps(w) ==
    \/ remove_user_tokens(w) \/ new_mfa_challenge(w) \/ reset_webui_token_commit(w) \/ mfa_consume(w)

ProviderSteps(w) ==
    \/ fetch_save_access_token(w) \/ delete_pending(w) \/ upsert_external_oauth_token(w)
    \/ delete_by_oauth2_id(w)

RowSteps(w) == insert(w) \/ delete_row(w)

(* Sessions, provider tokens and account rows are none of the tables the    *)
(* administrator's standing depends on.                                     *)
LEMMA ElsewhereSafe ==
    ASSUME AdminInv, NEW w \in Workers, SessionSteps(w) \/ ProviderSteps(w) \/ RowSteps(w)
    PROVE  AdminInv'
<1>1. task[w] # Idle /\ born' = born /\ JobOK(task[w])
  BY DEF SessionSteps, ProviderSteps, RowSteps, remove_user_tokens, new_mfa_challenge,
         reset_webui_token_commit, mfa_consume, fetch_save_access_token, delete_pending,
         upsert_external_oauth_token, delete_by_oauth2_id, insert, delete_row, At, Fixed,
         AdminInv, JobsInv
<1>2. \A at \in {"done", "reset", "unpend"} : at \notin Acting
  BY DEF Acting
<1>3. ASSUME NEW tab, tab \notin {"users", "roles"}, NEW rows, db' = db \/ db' = [db EXCEPT ![tab] = rows],
             NEW at, at \notin Acting, NEW why, Goto(w, at) \/ Failed(w, why)
      PROVE  AdminInv'
  BY <1>1, <1>3, ElsewhereStep
<1>4. CASE remove_user_tokens(w)
  <2> DEFINE rows == Drop(db.tokens, task[w].todo)
  <2>1. db' = db \/ db' = [db EXCEPT !["tokens"] = rows]
    BY <1>4 DEF remove_user_tokens, Remove
  <2>2. Goto(w, "done") \/ Failed(w, {"gate"})
    BY <1>4 DEF remove_user_tokens
  <2> HIDE DEF rows
  <2> QED BY <1>2, <1>3, <2>1, <2>2
<1>5. CASE new_mfa_challenge(w)
  <2> DEFINE rows == Put(db.tokens, issued + 1, Session(task[w].id, "MfaChallenge"))
  <2>1. db' = db \/ db' = [db EXCEPT !["tokens"] = rows]
    BY <1>5 DEF new_mfa_challenge, Upsert
  <2>2. Goto(w, "done") \/ Failed(w, {})
    BY <1>5 DEF new_mfa_challenge
  <2> HIDE DEF rows
  <2> QED BY <1>2, <1>3, <2>1, <2>2
<1>6. CASE reset_webui_token_commit(w)
  <2> DEFINE rows == swap_tokens(task[w].todo, issued + 1, Session(task[w].key, "WebUI"))
  <2>1. db' = db \/ db' = [db EXCEPT !["tokens"] = rows]
    BY <1>6 DEF reset_webui_token_commit
  <2>2. Goto(w, "done") \/ Failed(w, {})
    BY <1>6 DEF reset_webui_token_commit
  <2> HIDE DEF rows
  <2> QED BY <1>2, <1>3, <2>1, <2>2
<1>7. CASE mfa_consume(w)
  <2> DEFINE rows == Drop(db.tokens, {task[w].id})
  <2>1. db' = db \/ db' = [db EXCEPT !["tokens"] = rows]
    BY <1>7 DEF mfa_consume, Remove
  <2>2. Goto(w, "reset") \/ Failed(w, {})
    BY <1>7 DEF mfa_consume
  <2> HIDE DEF rows
  <2> QED BY <1>2, <1>3, <2>1, <2>2
<1>8. CASE fetch_save_access_token(w)
  <2> DEFINE rows == Put(db.oauth, task[w].edit.account,
                    Granted(task[w].edit.app, task[w].edit.account, issued + 1))
  <2>1. db' = db \/ db' = [db EXCEPT !["oauth"] = rows]
    BY <1>8 DEF fetch_save_access_token, Upsert
  <2>2. Goto(w, "unpend") \/ Failed(w, {"gate"})
    BY <1>8 DEF fetch_save_access_token
  <2> HIDE DEF rows
  <2> QED BY <1>2, <1>3, <2>1, <2>2
<1>9. CASE delete_pending(w)
  <2> DEFINE rows == Drop(db.pending, {task[w].key})
  <2>1. db' = db \/ db' = [db EXCEPT !["pending"] = rows]
    BY <1>9 DEF delete_pending, Remove
  <2>2. Goto(w, "done") \/ Failed(w, {})
    BY <1>9 DEF delete_pending
  <2> HIDE DEF rows
  <2> QED BY <1>2, <1>3, <2>1, <2>2
<1>10. CASE upsert_external_oauth_token(w)
  <2> DEFINE rows == Put(db.oauth, task[w].key, Granted(task[w].edit, task[w].key, issued + 1))
  <2>1. db' = db \/ db' = [db EXCEPT !["oauth"] = rows]
    BY <1>10 DEF upsert_external_oauth_token, Upsert
  <2>2. Goto(w, "done") \/ Failed(w, GateFault("oauth"))
    BY <1>10 DEF upsert_external_oauth_token
  <2> HIDE DEF rows
  <2> QED BY <1>2, <1>3, <2>1, <2>2
<1>11. CASE delete_by_oauth2_id(w)
  <2>1. \E a : db' = db \/ db' = [db EXCEPT !["oauth"] = Drop(db.oauth, {a})]
    BY <1>11 DEF delete_by_oauth2_id, Remove
  <2>2. Goto(w, "done") \/ Failed(w, {"gate"})
    BY <1>11 DEF delete_by_oauth2_id
  <2> QED BY <1>2, <1>3, <2>1, <2>2
<1>12. CASE insert(w)
  <2> DEFINE rows == Put(db.accounts, task[w].key, task[w].edit)
  <2>1. task[w].tab = "accounts" /\ task[w].next \notin Acting
    BY <1>1, <1>12 DEF insert, At, JobOK
  <2>2. db' = db \/ db' = [db EXCEPT !["accounts"] = rows]
    BY <1>12, <2>1 DEF insert, Upsert
  <2>3. Goto(w, task[w].next) \/ Failed(w, {"gate"})
    BY <1>12 DEF insert
  <2> HIDE DEF rows
  <2> QED BY <1>3, <2>1, <2>2, <2>3
<1>13. CASE delete_row(w)
  <2> DEFINE rows == Drop(db.accounts, {task[w].id})
  <2>1. db' = db \/ db' = [db EXCEPT !["accounts"] = rows]
    BY <1>13 DEF delete_row, Remove
  <2>2. Goto(w, "done") \/ Failed(w, GateFault("accounts"))
    BY <1>13 DEF delete_row
  <2> HIDE DEF rows
  <2> QED BY <1>2, <1>3, <2>1, <2>2
<1> QED BY <1>4, <1>5, <1>6, <1>7, <1>8, <1>9, <1>10, <1>11, <1>12, <1>13
        DEF SessionSteps, ProviderSteps, RowSteps

(* The first step of the cleanup of an account: from here on a failure      *)
(* writes the account row.                                                  *)
LEMMA CleanupSafe ==
    ASSUME AdminInv, NEW w \in Workers, cleanup_tokens(w)
    PROVE  AdminInv'
<1> DEFINE j == task[w]
           back == Job(j.op, "read", "accounts", j.id, [deleting |-> FALSE, enabled |-> TRUE], "done", j.id)
           on == [[j EXCEPT !.at = "list"] EXCEPT !.undo = TRUE]
<1>1. JobOK(j) /\ j # Idle /\ born' = born /\ JobsInv /\ StandsInv
  BY DEF AdminInv, JobsInv, cleanup_tokens, At, Fixed
<1>2. JobOK(back)
  BY NewJob DEF Acting
<1>3. JobOK(on)
  BY <1>1 DEF JobOK, SafeEdit, Fields
<1>4. task' = [task EXCEPT ![w] = back] \/ task' = [task EXCEPT ![w] = on]
  BY <1>1 DEF cleanup_tokens, JobsInv
<1> HIDE DEF back, on
<1>5. JobsInv'
  BY <1>1, <1>2, <1>3, <1>4, SetJob
<1>6. db' = db \/ db' = [db EXCEPT !.oauth = Drop(db.oauth, {j.id})]
  BY DEF cleanup_tokens, Remove
<1>7. StandsInv'
  <2>1. CASE db' = db
    BY <1>1, <2>1, Framed DEF StandsInv
  <2>2. CASE db' = [db EXCEPT !.oauth = Drop(db.oauth, {j.id})]
    BY <1>1, <2>2, OtherTable
  <2> QED BY <1>6, <2>1, <2>2
<1> QED BY <1>5, <1>7 DEF AdminInv

AtOnceRequests(w) ==
    \/ create_api_token(w) \/ delete_token(w) \/ authorize_url(w) \/ clean_pending(w)
    \/ remove_oauth2_config(w)

(* Requests of one step; a new role has an id that no role has.             *)
LEMMA AtOnceSafe ==
    ASSUME AdminInv, NEW w \in Workers, create_role(w) \/ AtOnceRequests(w)
    PROVE  AdminInv'
<1>1. task' = task /\ born \subseteq born'
  BY DEF create_role, AtOnceRequests, create_api_token, delete_token, authorize_url, clean_pending,
         remove_oauth2_config, AtOnce
<1>2. JobsInv' /\ StandsInv
  BY <1>1 DEF AdminInv, JobsInv, JobOK, SafeEdit, Idle
<1>3. CASE create_role(w)
  <2>1. PICK r \in RoleIds \ born : Upsert("roles", r, [type |-> "Account", perms |-> {"data:read"}])
    BY <1>3 DEF create_role
  <2> DEFINE roles == Put(db.roles, r, [type |-> "Account", perms |-> {"data:read"}])
  <2>2. AdminRole \in DOMAIN roles /\ roles[AdminRole] = db.roles[AdminRole]
    BY <1>2, PutOther DEF StandsInv, AdminStands
  <2>3. db' = [db EXCEPT !.roles = roles]
    BY <2>1 DEF Upsert
  <2> HIDE DEF roles
  <2> QED BY <1>1, <1>2, <2>2, <2>3, RolesKept DEF AdminInv, StandsInv, AdminStands
<1>4. CASE AtOnceRequests(w)
  <2>1. \E tab, rows : tab \notin {"users", "roles"} /\ db' = [db EXCEPT ![tab] = rows]
    <3>1. CASE create_api_token(w) \/ delete_token(w)
      BY <3>1 DEF create_api_token, delete_token, Upsert, Remove
    <3>2. CASE authorize_url(w) \/ clean_pending(w) \/ remove_oauth2_config(w)
      BY <3>2 DEF authorize_url, clean_pending, remove_oauth2_config, Upsert, Remove
    <3> QED BY <1>4, <3>1, <3>2 DEF AtOnceRequests
  <2> QED BY <1>1, <1>2, <2>1, OtherTable DEF AdminInv
<1> QED BY <1>3, <1>4

-----------------------------------------------------------------------------
(* A start finds the rows, or makes them.                                   *)
LEMMA StartStands ==
    ASSUME NEW d, NEW t, Tables \subseteq DOMAIN d,
           Admin \in DOMAIN d.users => "roles" \in DOMAIN d.users[Admin] /\ AdminRole \in d.users[Admin].roles,
           AdminRole \in DOMAIN d.roles => "root" \in d.roles[AdminRole].perms
    PROVE  LET s == Started(d, t) IN
           /\ Tables \subseteq DOMAIN s
           /\ Admin \in DOMAIN s.users /\ "roles" \in DOMAIN s.users[Admin]
           /\ AdminRole \in s.users[Admin].roles
           /\ AdminRole \in DOMAIN s.roles /\ "root" \in s.roles[AdminRole].perms
<1> DEFINE e == ensure_default_roles_exists(d)
           s == Started(d, t)
<1>1. /\ Tables \subseteq DOMAIN e /\ e.users = d.users
      /\ AdminRole \in DOMAIN e.roles /\ "root" \in e.roles[AdminRole].perms
  <2>1. e.roles = [r \in DOMAIN d.roles \cup Builtin |-> IF r \in DOMAIN d.roles THEN d.roles[r] ELSE BuiltinRow(r)]
    BY DEF ensure_default_roles_exists, Tables
  <2>2. Tables \subseteq DOMAIN e /\ e.users = d.users
    BY DEF ensure_default_roles_exists, Tables
  <2>3. "root" \in BuiltinRow(AdminRole).perms
    BY DEF BuiltinRow
  <2> HIDE DEF e
  <2> QED BY <2>1, <2>2, <2>3, AccountsAssumption
<1>2. s = ensure_default_admin_exists(e, t)
  BY DEF Started
<1> HIDE DEF e, s
<1>3. CASE Admin \in DOMAIN e.users
  <2>1. s = e
    BY <1>2, <1>3 DEF ensure_default_admin_exists
  <2> QED BY <1>1, <1>3, <2>1 DEF s
<1>4. CASE Admin \notin DOMAIN e.users
  <2> DEFINE row == NewUser(Admin, {AdminRole}, << >>)
             users == Put(e.users, Admin, row)
             tokens == Put(e.tokens, t, Session(Admin, "WebUI"))
  <2>1. s = [e EXCEPT !.users = users, !.tokens = tokens]
    BY <1>2, <1>4 DEF ensure_default_admin_exists
  <2>2. "roles" \in DOMAIN row /\ AdminRole \in row.roles
    BY DEF NewUser
  <2>3. Admin \in DOMAIN users /\ users[Admin] = row
    BY DEF Put
  <2> HIDE DEF users, tokens, row
  <2>4. Tables \subseteq DOMAIN s /\ s.users = users /\ s.roles = e.roles
    BY <1>1, <2>1 DEF Tables
  <2> QED BY <1>1, <2>2, <2>3, <2>4 DEF s
<1> QED BY <1>3, <1>4

(* The first start, from any tables an earlier run has left.                *)
LEMMA AdminInit == Init => AdminInv
<1> SUFFICES ASSUME Init PROVE AdminInv
  OBVIOUS
<1>1. PICK load \in Loads : db = Started(load.db, 0)
  BY DEF Init
<1>2. /\ Tables \subseteq DOMAIN db
      /\ Admin \in DOMAIN db.users /\ "roles" \in DOMAIN db.users[Admin]
      /\ AdminRole \in db.users[Admin].roles
      /\ AdminRole \in DOMAIN db.roles /\ "root" \in db.roles[AdminRole].perms
  BY <1>1, StartStands, LoadsAssumption
<1>3. StandsInv
  BY <1>2 DEF Init, StandsInv, AdminStands
<1>4. JobsInv
  BY DEF Init, JobsInv
<1> QED BY <1>3, <1>4 DEF AdminInv

(* A crash drops the requests under way and starts again from the log.      *)
LEMMA CrashSafe ==
    ASSUME AdminInv, Crash
    PROVE  AdminInv'
<1>1. /\ Tables \subseteq DOMAIN db'
      /\ Admin \in DOMAIN db'.users /\ "roles" \in DOMAIN db'.users[Admin]
      /\ AdminRole \in db'.users[Admin].roles
      /\ AdminRole \in DOMAIN db'.roles /\ "root" \in db'.roles[AdminRole].perms
  BY StartStands DEF Crash, AdminInv, StandsInv, AdminStands
<1>2. StandsInv'
  BY <1>1 DEF Crash, AdminInv, StandsInv, AdminStands
<1>3. JobsInv'
  BY DEF Crash, JobsInv, Idle
<1> QED BY <1>2, <1>3 DEF AdminInv

(* Steps that touch neither the tables nor the requests.                    *)
LEMMA StillSafe ==
    ASSUME AdminInv, UNCHANGED <<db, task, born>>
    PROVE  AdminInv'
  BY DEF AdminInv, StandsInv, AdminStands, JobsInv, JobOK, SafeEdit, Idle

(* No step of any request, of the backup window or of a crash takes the     *)
(* administrator away.                                                      *)
LEMMA AdminStep == AdminInv /\ [Next]_vars => AdminInv'
<1> SUFFICES ASSUME AdminInv, [Next]_vars PROVE AdminInv'
  OBVIOUS
<1>1. ASSUME NEW w \in Workers,
             \/ AccountRequests(w) \/ UserRequests(w) \/ OtherRequests(w) \/ Thinking(w)
             \/ update_write(w) \/ create_user_commit(w) \/ remove_user_row(w) \/ delete_role_row(w)
             \/ SessionSteps(w) \/ ProviderSteps(w) \/ RowSteps(w) \/ cleanup_tokens(w)
             \/ create_role(w) \/ AtOnceRequests(w)
      PROVE  AdminInv'
  BY <1>1, AccountRequestsSafe, UserRequestsSafe, OtherRequestsSafe, ThinkingSafe, UpdateWriteSafe,
     MembershipSafe, ElsewhereSafe, CleanupSafe, AtOnceSafe
<1>2. CASE OpenWindow \/ CloseWindow \/ UNCHANGED vars
  BY <1>2, StillSafe DEF OpenWindow, CloseWindow, vars
<1>3. CASE Crash
  BY <1>3, CrashSafe
<1> QED
  BY <1>1, <1>2, <1>3
     DEF Next, AccountRequests, UserRequests, OtherRequests, Thinking, SessionSteps, ProviderSteps,
         RowSteps, AtOnceRequests

(* The system stays administrable: whatever requests run together, are      *)
(* refused by the gate or are cut off by a crash, the default administrator *)
(* keeps a row with the administrator role, and the role keeps allowing     *)
(* everything (UserModel::update and remove, UserRole::update and delete,   *)
(* ensure_default_admin_exists).                                            *)
THEOREM AdminAlwaysStands == Spec => []AdminStands
<1>1. AdminInv => AdminStands
  BY DEF AdminInv, StandsInv
<1> QED BY <1>1, AdminInit, AdminStep, PTL DEF Spec
=============================================================================
