----------------------------- MODULE SyncTasks -----------------------------
(***************************************************************************)
(* The registry of IMAP download tasks (`AccountDownTask`, the process-wide *)
(* SYNC_TASKS): one periodic loop per account, manual downloads started and *)
(* cancelled over the REST API, and the two pieces of shared state that     *)
(* keep them apart, each behind a mutex of its own:                         *)
(*   busy_accounts  the accounts some download has claimed;                 *)
(*   manual_tasks   account -> the manual task (handle and cancel token).   *)
(* Every critical section of the code is one step; a step that waits for a  *)
(* task (cancel, stop, shutdown) is split where the code awaits.            *)
(***************************************************************************)
EXTENDS Naturals, FiniteSets

CONSTANTS
    Accounts,   \* account ids
    Requests,   \* manual download requests; each one spawns at most one task
    None        \* no request

ASSUME NoneAssumption == None \notin Requests

VARIABLES
    tasks,          \* accounts whose periodic loop is registered
    loop,           \* loop[a]: where the periodic loop of a is
    stopping,       \* accounts whose loop has been told to stop
    releasing,      \* accounts with a spawned, not yet run, set_busy(a, false)
    busy_accounts,
    manual_tasks,   \* manual_tasks[a]: the request whose handle is stored
    manual_lock,    \* request whose handle a cancel awaits, holding the mutex
    req,            \* req[m]: where start_manual_task is for request m
    task,           \* task[m]: where the spawned task of request m is
    acct,           \* acct[m]: the account request m is for
    token           \* requests whose cancellation token is cancelled

taskVars == <<tasks, loop, stopping, releasing, busy_accounts, manual_tasks,
              manual_lock, req, task, acct, token>>

schedVars == <<tasks, loop, stopping, releasing>>
manualVars == <<manual_tasks, manual_lock, req, task, acct, token>>

(* "checked": is_manual_running returned false; "claimed": busy, the        *)
(* account record is being examined; "syncing": process_imap_download runs. *)
LoopStates == {"off", "idle", "checked", "claimed", "syncing"}
ReqStates  == {"new", "checked", "spawned", "returned", "refused"}
(* "cleanup": the guard was dropped, its detached clean-up task not yet run; *)
(* "released": that task has run set_busy(false) and not yet remove(&id).   *)
TaskStates == {"none", "ready", "syncing", "cleanup", "released", "gone"}

(* add_task has run for every account; no manual request was made yet.      *)
TasksInit ==
    /\ tasks = Accounts
    /\ loop = [a \in Accounts |-> "idle"]
    /\ stopping = {}
    /\ releasing = {}
    /\ busy_accounts = {}
    /\ manual_tasks = [a \in Accounts |-> None]
    /\ manual_lock = None
    /\ req = [m \in Requests |-> "new"]
    /\ task = [m \in Requests |-> "none"]
    /\ acct \in [Requests -> Accounts]
    /\ token = {}

is_manual_running(a) == manual_tasks[a] # None

-----------------------------------------------------------------------------
(* The periodic loop of account a: start_download_task and PeriodicTask.    *)

(* A tick: a running manual task makes the loop skip the round.             *)
SchedCheck(a) ==
    /\ loop[a] = "idle"
    /\ manual_lock = None
    /\ ~is_manual_running(a)
    /\ loop' = [loop EXCEPT ![a] = "checked"]
    /\ UNCHANGED <<tasks, stopping, releasing, busy_accounts, manualVars>>

(* Mutant of SchedClaim: set_busy without the check that makes it a claim.  *)
SchedClaimUnchecked(a) ==
    /\ loop[a] = "checked"
    /\ loop' = [loop EXCEPT ![a] = "claimed"]
    /\ busy_accounts' = busy_accounts \cup {a}
    /\ UNCHANGED <<tasks, stopping, releasing, manualVars>>

(* try_set_busy: claim the account, or skip the round if it is claimed.     *)
SchedClaim(a) ==
    /\ loop[a] = "checked"
    /\ loop' = [loop EXCEPT ![a] = IF a \in busy_accounts THEN "idle" ELSE "claimed"]
    /\ busy_accounts' = busy_accounts \cup {a}
    /\ UNCHANGED <<tasks, stopping, releasing, manualVars>>

(* The account is present, enabled, not being deleted, and authorised.      *)
SchedSync(a) ==
    /\ loop[a] = "claimed"
    /\ loop' = [loop EXCEPT ![a] = "syncing"]
    /\ UNCHANGED <<tasks, stopping, releasing, busy_accounts, manualVars>>

(* Mutant of SchedReturn: the scope guard is created after the early exits. *)
SchedReturnLateGuard(a) ==
    /\ loop[a] \in {"claimed", "syncing"}
    /\ loop' = [loop EXCEPT ![a] = "idle"]
    /\ releasing' = IF loop[a] = "claimed" THEN releasing ELSE releasing \cup {a}
    /\ UNCHANGED <<tasks, stopping, busy_accounts, manualVars>>

(* The round returns, from any of its exits: the scope guard spawns a       *)
(* detached set_busy(a, false) and the loop waits for its next tick.        *)
SchedReturn(a) ==
    /\ loop[a] \in {"claimed", "syncing"}
    /\ loop' = [loop EXCEPT ![a] = "idle"]
    /\ releasing' = releasing \cup {a}
    /\ UNCHANGED <<tasks, stopping, busy_accounts, manualVars>>

(* The detached set_busy(a, false) spawned by the scope guard.              *)
SchedRelease(a) ==
    /\ a \in releasing
    /\ releasing' = releasing \ {a}
    /\ busy_accounts' = busy_accounts \ {a}
    /\ UNCHANGED <<tasks, loop, stopping, manualVars>>

(* stop: deregister the loop and signal it; the caller then awaits LoopExit. *)
Stop(a) ==
    /\ a \in tasks
    /\ tasks' = tasks \ {a}
    /\ stopping' = stopping \cup {a}
    /\ UNCHANGED <<loop, releasing, busy_accounts, manualVars>>

(* shutdown: every registered loop is told to stop.                         *)
Shutdown ==
    /\ tasks # {}
    /\ tasks' = {}
    /\ stopping' = stopping \cup tasks
    /\ UNCHANGED <<loop, releasing, busy_accounts, manualVars>>

(* Mutant of LoopExit: the signal is looked up in the map stop() cleared.   *)
LoopExitRegistered(a) ==
    /\ a \in stopping \cap tasks
    /\ loop[a] = "idle"
    /\ loop' = [loop EXCEPT ![a] = "off"]
    /\ UNCHANGED <<tasks, stopping, releasing, busy_accounts, manualVars>>

(* The select! sees the stop signal only between two rounds.                *)
LoopExit(a) ==
    /\ a \in stopping
    /\ loop[a] = "idle"
    /\ loop' = [loop EXCEPT ![a] = "off"]
    /\ UNCHANGED <<tasks, stopping, releasing, busy_accounts, manualVars>>

-----------------------------------------------------------------------------
(* Manual downloads: start_manual_task, the spawned task, and its clean-up. *)

(* is_manual_running: refuse ("Manual task already running.") or go on.     *)
ManualCheck(m) ==
    /\ req[m] = "new"
    /\ manual_lock = None
    /\ req' = [req EXCEPT ![m] =
                 IF is_manual_running(acct[m]) THEN "refused" ELSE "checked"]
    /\ UNCHANGED <<schedVars, busy_accounts, manual_tasks, manual_lock, task, acct, token>>

(* try_set_busy, and on success tokio::spawn: the task may run from now on, *)
(* before start_manual_task has stored its handle.                          *)
ManualClaim(m) ==
    /\ req[m] = "checked"
    /\ IF acct[m] \in busy_accounts
         THEN /\ req' = [req EXCEPT ![m] = "refused"]
              /\ UNCHANGED <<busy_accounts, task>>
         ELSE /\ req' = [req EXCEPT ![m] = "spawned"]
              /\ busy_accounts' = busy_accounts \cup {acct[m]}
              /\ task' = [task EXCEPT ![m] = "ready"]
    /\ UNCHANGED <<schedVars, manual_tasks, manual_lock, acct, token>>

(* Store (handle, token) and return Ok to the caller.                       *)
ManualInsert(m) ==
    /\ req[m] = "spawned"
    /\ manual_lock = None
    /\ req' = [req EXCEPT ![m] = "returned"]
    /\ manual_tasks' = [manual_tasks EXCEPT ![acct[m]] = m]
    /\ UNCHANGED <<schedVars, busy_accounts, manual_lock, task, acct, token>>

(* The token is not cancelled and the account is present, not deleting.     *)
ManualSync(m) ==
    /\ task[m] = "ready"
    /\ m \notin token
    /\ task' = [task EXCEPT ![m] = "syncing"]
    /\ UNCHANGED <<schedVars, busy_accounts, manual_tasks, manual_lock, req, acct, token>>

(* Mutant of ManualReturn: the guard is created after the token check, so a *)
(* task cancelled before its first poll cleans nothing up.                  *)
ManualReturnLateGuard(m) ==
    /\ task[m] \in {"ready", "syncing"}
    /\ task' = [task EXCEPT ![m] =
                  IF task[m] = "ready" /\ m \in token THEN "gone" ELSE "cleanup"]
    /\ UNCHANGED <<schedVars, busy_accounts, manual_tasks, manual_lock, req, acct, token>>

(* The task returns from any of its exits and drops its clean-up guard.     *)
ManualReturn(m) ==
    /\ task[m] \in {"ready", "syncing"}
    /\ task' = [task EXCEPT ![m] = "cleanup"]
    /\ UNCHANGED <<schedVars, busy_accounts, manual_tasks, manual_lock, req, acct, token>>

(* First half of the detached clean-up: set_busy(id, false).                *)
ManualRelease(m) ==
    /\ task[m] = "cleanup"
    /\ task' = [task EXCEPT ![m] = "released"]
    /\ busy_accounts' = busy_accounts \ {acct[m]}
    /\ UNCHANGED <<schedVars, manual_tasks, manual_lock, req, acct, token>>

(* Second half: manual_tasks.remove(&id), whatever entry is stored there.   *)
ManualForget(m) ==
    /\ task[m] = "released"
    /\ manual_lock = None
    /\ task' = [task EXCEPT ![m] = "gone"]
    /\ manual_tasks' = [manual_tasks EXCEPT ![acct[m]] = None]
    /\ UNCHANGED <<schedVars, busy_accounts, manual_lock, req, acct, token>>

(* cancel_manual_task: remove the entry, cancel its token and await the     *)
(* handle; the mutex guard lives across the await.                          *)
Cancel(a) ==
    /\ manual_lock = None
    /\ is_manual_running(a)
    /\ manual_tasks' = [manual_tasks EXCEPT ![a] = None]
    /\ manual_lock' = manual_tasks[a]
    /\ token' = token \cup {manual_tasks[a]}
    /\ UNCHANGED <<schedVars, busy_accounts, req, task, acct>>

(* Mutant of CancelReturn: the task runs its clean-up inline, so its handle *)
(* completes only once the entry is removed under the mutex cancel holds.   *)
CancelReturnInline ==
    /\ manual_lock # None
    /\ task[manual_lock] = "gone"
    /\ manual_lock' = None
    /\ UNCHANGED <<schedVars, busy_accounts, manual_tasks, req, task, acct, token>>

(* The awaited handle is complete: the guard is dropped.                    *)
CancelReturn ==
    /\ manual_lock # None
    /\ task[manual_lock] \in {"cleanup", "released", "gone"}
    /\ manual_lock' = None
    /\ UNCHANGED <<schedVars, busy_accounts, manual_tasks, req, task, acct, token>>

-----------------------------------------------------------------------------
TasksNext ==
    \/ \E a \in Accounts :
         \/ SchedCheck(a) \/ SchedClaim(a) \/ SchedSync(a) \/ SchedReturn(a)
         \/ SchedRelease(a) \/ Stop(a) \/ LoopExit(a) \/ Cancel(a)
    \/ \E m \in Requests :
         \/ ManualCheck(m) \/ ManualClaim(m) \/ ManualInsert(m) \/ ManualSync(m)
         \/ ManualReturn(m) \/ ManualRelease(m) \/ ManualForget(m)
    \/ Shutdown
    \/ CancelReturn

(* Spawned tasks are run by the tokio scheduler, and a download ends: every *)
(* network call of the executor has a timeout and a bounded number of       *)
(* retries. select! picks among its ready branches at random, so a pending  *)
(* stop signal is taken although ticks keep coming (strong fairness).       *)
(* Ticks, stops, requests and cancels are the environment's.                *)
TasksFairness ==
    /\ \A a \in Accounts :
         /\ WF_taskVars(SchedClaim(a)) /\ WF_taskVars(SchedReturn(a))
         /\ WF_taskVars(SchedRelease(a)) /\ SF_taskVars(LoopExit(a))
    /\ \A m \in Requests :
         /\ WF_taskVars(ManualClaim(m)) /\ WF_taskVars(ManualReturn(m))
         /\ WF_taskVars(ManualRelease(m))
    /\ WF_taskVars(CancelReturn)

TasksSpec == TasksInit /\ [][TasksNext]_taskVars /\ TasksFairness

-----------------------------------------------------------------------------
(* The shape of the registry's state.                                       *)
TasksTypeOK ==
    /\ tasks \subseteq Accounts
    /\ loop \in [Accounts -> LoopStates]
    /\ stopping \subseteq Accounts
    /\ releasing \subseteq Accounts
    /\ busy_accounts \subseteq Accounts
    /\ manual_tasks \in [Accounts -> Requests \cup {None}]
    /\ manual_lock \in Requests \cup {None}
    /\ req \in [Requests -> ReqStates]
    /\ task \in [Requests -> TaskStates]
    /\ acct \in [Requests -> Accounts]
    /\ token \subseteq Requests

(* Who holds the claim on account a: the loop's round, the detached release *)
(* it spawned, or a manual task up to its set_busy(false).                  *)
SchedClaims(a) == loop[a] \in {"claimed", "syncing"}
ManualClaims(m) == task[m] \in {"ready", "syncing", "cleanup"}
ManualClaimants(a) == {m \in Requests : acct[m] = a /\ ManualClaims(m)}

(* README: "Busy-check prevents overlapping manual and automatic syncs on   *)
(* the same account": at most one process_imap_download runs per account.   *)
MutualExclusion ==
    \A m \in Requests :
        task[m] = "syncing" =>
            /\ loop[acct[m]] # "syncing"
            /\ \A n \in Requests :
                  n # m /\ acct[n] = acct[m] => task[n] # "syncing"

(* The busy set is exact: an account is in it exactly while one claimant    *)
(* (round, pending release, manual task) exists. A claim never leaks, and   *)
(* no release frees an account that another download has claimed since.     *)
BusyExact ==
    \A a \in Accounts :
        /\ a \in busy_accounts <=>
             SchedClaims(a) \/ a \in releasing \/ ManualClaimants(a) # {}
        /\ ~(SchedClaims(a) /\ a \in releasing)
        /\ SchedClaims(a) \/ a \in releasing => ManualClaimants(a) = {}
        /\ \A m, n \in ManualClaimants(a) : m = n

(* Every claim is given back, on every exit of the round or of the task, so *)
(* later rounds and requests are not refused for ever.                      *)
ClaimReleased == \A a \in Accounts : a \in busy_accounts ~> a \notin busy_accounts

(* cancel_manual_task awaits the task with the manual_tasks mutex held; the *)
(* wait ends, so no other account's download is blocked on it for ever.     *)
CancelTerminates == manual_lock # None ~> manual_lock = None

(* A loop told to stop by stop() or shutdown() does stop, which is what the *)
(* account deletion and the server shutdown wait for.                       *)
StopTerminates == \A a \in Accounts : a \in stopping ~> loop[a] = "off"

(* Nobody waits for ever: claims are given back, a cancellation returns and *)
(* a loop that is told to stop ends.                                        *)
EverythingEnds == ClaimReleased /\ CancelTerminates /\ StopTerminates

(* A stored entry stands for a manual task that still has work to do: this  *)
(* is what is_manual_running is read as ("Manual task is running").         *)
EntryIsLive ==
    \A a \in Accounts :
        is_manual_running(a) => task[manual_tasks[a]] # "gone"

(* A manual download that start_manual_task reported as started can be      *)
(* found, hence cancelled, for as long as it runs.                          *)
RunningIsCancellable ==
    \A m \in Requests :
        req[m] = "returned" /\ task[m] = "syncing" /\ m \notin token
            => manual_tasks[acct[m]] = m
=============================================================================
