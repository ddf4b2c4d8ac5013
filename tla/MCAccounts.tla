----------------------------- MODULE MCAccounts -----------------------------
(* Two archives a and b, a journal archive j, a view v; the administrator,  *)
(* a user u who manages a, and ids still to be generated.                   *)
EXTENDS Accounts, TLC

MCBuiltin == {"admin role", "manager", "staff"}
MCUserEdits ==
    { [access |-> << >>], [access |-> "b" :> "custom"], [roles |-> {"staff"}],
      [roles |-> {"admin role"}], [pw |-> 1, legacy |-> FALSE], [name |-> "n"] }

Tokens0 == (1 :> Session("u", "WebUI")) @@ (2 :> Session("u", "Api"))

Filled(user, view, hold) ==
    [accounts |-> [x \in {"a", "b", "j"} \cup (IF view THEN {"v"} ELSE {}) |->
                     [AccountRow(IF x = "v" THEN {"a"} ELSE {}) EXCEPT !.hold = hold /\ x = "b"]],
     users |-> ("u" :> user),
     roles |-> ("custom" :> [type |-> "Account", perms |-> {"data:read"}]),
     tokens |-> Tokens0,
     oauth |-> ("a" :> [app |-> "app", auth |-> 3, owned |-> TRUE]),
     apps |-> ("app" :> [enabled |-> TRUE]),
     pending |-> << >>]

Owner == NewUser("u", {"staff"}, "a" :> "manager")
Guarded == [Owner EXCEPT !.totp = TRUE, !.secret = TRUE, !.codes = {4, 5}]
Legacy == [Owner EXCEPT !.legacy = TRUE]

Load(d, ops, requests) == [db |-> d, menu |-> ops, requests |-> requests]

MCLoads ==
    { Load(Filled(Owner, FALSE, FALSE),
           {"create_account", "delete_account", "place_legal_hold", "do_assign", "crash", "backup"}, 3),
      Load(Filled(Owner, TRUE, TRUE),
           {"update_account", "delete_account", "place_legal_hold", "release_legal_hold",
            "update_known_folders"}, 3),
      Load(Filled(Owner, FALSE, FALSE),
           {"create_account", "update_user", "create_user", "remove_user", "do_assign",
            "create_role", "update_role", "delete_role"}, 3),
      Load(Filled(Legacy, FALSE, FALSE),
           {"authenticate_user", "update_user", "resolve_user_from_token", "create_api_token",
            "delete_token", "remove_user", "backup", "crash"}, 3),
      Load(Filled(Guarded, FALSE, FALSE),
           {"mfa_verify", "authenticate_user", "mfa_enroll", "mfa_confirm", "mfa_disable",
            "admin_reset"}, 3),
      Load(Filled(Owner, FALSE, FALSE),
           {"delete_account", "authorize_url", "oauth2_callback", "store_external_oauth2_token",
            "refresh_access_token", "update_oauth2_config", "remove_oauth2_config",
            "clean_pending"}, 3) }

Symmetry == Permutations(Workers)
=============================================================================
