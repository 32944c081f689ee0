--------------------------- MODULE TokenRotation ---------------------------
(***************************************************************************)
(* Rotation of the single-use OAuth refresh tokens of codex-switcher, in   *)
(* the modes in which this host owns the tokens (remote_mode "off" and     *)
(* "server"): the per-account lock and the in-process cache of oauth.rs,   *)
(* and every kind of task that refreshes through them.                     *)
(*                                                                         *)
(* A refresh token is abstracted to its generation: the n-th token the     *)
(* authorization server has issued for the account.  live[a] is the only   *)
(* generation it accepts.  Copies of tokens live in the store (memory and  *)
(* accounts.json, written together in one critical section), in the cache  *)
(* of the process, in ~/.codex/auth.json and in the locals of the tasks.   *)
(***************************************************************************)
EXTENDS Integers

CONSTANTS
    Accounts,       \* OpenAI OAuth accounts, with pairwise distinct identities
    Schedulers,     \* instances of scheduler::start (one in the program)
    Anchors,        \* instances of scheduler::start_anchor_refresh (one)
    Requests,       \* proxy requests in flight
    Quotas,         \* quota queries, which capture a token first
    Switches,       \* calls of the switch_account command
    NoAccount,      \* "no such account"
    Free,           \* "nobody holds the lock"
    AnchorAccount,  \* the phone anchor, or NoAccount
    MaxIssued,      \* bound: tokens the server issues after the first ones
    MaxLost,        \* bound: answers lost after the token was consumed
    MaxRestarts,    \* bound: restarts of the process
    Revocable,      \* bound: accounts whose session may end on the server
    CanCodex        \* whether the Codex CLI refreshes by itself

Tasks == Schedulers \cup Anchors \cup Requests \cup Quotas \cup Switches

(* Tasks that read the token inside the lock (refresh_access_token_locked_ *)
(* fresh); the others bring one captured before they queued for the lock.  *)
Fresh == Schedulers \cup Anchors \cup Requests

ASSUME TaskAssumption ==
    /\ Schedulers \cap Anchors = {}
    /\ Schedulers \cap Requests = {}
    /\ Schedulers \cap Quotas = {}
    /\ Schedulers \cap Switches = {}
    /\ Anchors \cap Requests = {}
    /\ Anchors \cap Quotas = {}
    /\ Anchors \cap Switches = {}
    /\ Requests \cap Quotas = {}
    /\ Requests \cap Switches = {}
    /\ Quotas \cap Switches = {}
    /\ Free \notin Tasks

ASSUME AccountAssumption ==
    /\ Accounts # {}
    /\ NoAccount \notin Accounts
    /\ AnchorAccount \in Accounts \cup {NoAccount}

ASSUME BoundAssumption ==
    /\ MaxIssued \in Nat
    /\ MaxLost \in Nat
    /\ MaxRestarts \in Nat
    /\ Revocable \subseteq Accounts
    /\ CanCodex \in BOOLEAN

Attempts == 3               \* sends of one refresh_access_token
NoToken == 0                \* Option::None; generations start at 1
AuthFile == [owner : Accounts \cup {NoAccount}, tok : Nat]
NoFile == [owner |-> NoAccount, tok |-> NoToken]

PCs == {"idle", "query", "sync", "collect", "pick", "capture", "wait", "send", "reply",
        "apply", "write", "upstream", "switch",
        "failNet", "failReused", "failOut"}

VARIABLES
    live,       \* the generation the authorization server accepts
    revoked,    \* accounts whose session has ended on the server
    store,      \* AccountStore: refresh_token of each account
    cache,      \* ROTATED_REFRESH_TOKENS of the process
    lock,       \* rt_lock_for: the task inside the account's critical section
    disk,       \* ~/.codex/auth.json
    current,    \* AccountStore.current
    enabled,    \* accounts with keepalive.inactive_refresh_enabled
    loggedOut,  \* accounts with is_logged_out
    pc,         \* where each task is
    acct,       \* the account a task works on
    tok,        \* the token a task presents, received or is about to write
    tries,      \* sends of the current refresh_access_token so far
    snap,       \* auth.json as a task read it before taking the store lock
    todo,       \* targets a scheduler round has still to visit
    issued,     \* tokens issued after the first ones, all accounts
    forked,     \* accounts whose chain something outside the process moved
    lost,       \* answers lost so far
    restarts    \* restarts so far

server == <<live, revoked, issued>>
host == <<store, disk, current, enabled, loggedOut>>
locals == <<pc, acct, tok, tries, snap, todo>>
env == <<forked, lost, restarts>>
vars == <<server, host, cache, lock, locals, env>>

(* The pcs at which a task works on an account. *)
AtAccount(t) ==
    \/ pc[t] \in {"capture", "wait", "send", "reply", "apply", "write",
                  "failNet", "failReused", "failOut"}
    \/ t \in Quotas /\ pc[t] \in {"query", "sync"}
    \/ t \in Switches /\ pc[t] \in {"sync", "switch"}

TypeOK ==
    /\ live \in [Accounts -> Nat]
    /\ revoked \in SUBSET Accounts
    /\ issued \in 0 .. MaxIssued
    /\ store \in [Accounts -> Nat]
    /\ cache \in [Accounts -> Nat]
    /\ lock \in [Accounts -> Tasks \cup {Free}]
    /\ disk \in AuthFile
    /\ current \in Accounts
    /\ enabled \in SUBSET Accounts
    /\ loggedOut \in SUBSET Accounts
    /\ pc \in [Tasks -> PCs]
    /\ acct \in [Tasks -> Accounts \cup {NoAccount}]
    /\ \A t \in Tasks : AtAccount(t) => acct[t] \in Accounts
    /\ tok \in [Tasks -> Nat]
    /\ tries \in [Tasks -> 0 .. Attempts - 1]
    /\ snap \in [Tasks -> AuthFile]
    /\ todo \in [Schedulers -> SUBSET Accounts]
    /\ forked \in SUBSET Accounts
    /\ lost \in 0 .. MaxLost
    /\ restarts \in 0 .. MaxRestarts

(* Accounts freshly imported: every copy is the live token.  auth.json is  *)
(* that of the anchor, or of the current account when there is none.       *)
Init ==
    /\ live = [a \in Accounts |-> 1]
    /\ revoked = {}
    /\ issued = 0
    /\ store = live
    /\ cache = [a \in Accounts |-> NoToken]
    /\ lock = [a \in Accounts |-> Free]
    /\ current \in Accounts
    /\ disk = [owner |-> IF AnchorAccount = NoAccount THEN current ELSE AnchorAccount,
               tok |-> 1]
    /\ enabled = Accounts
    /\ loggedOut = {}
    /\ pc = [t \in Tasks |-> "idle"]
    /\ acct = [t \in Tasks |-> NoAccount]
    /\ tok = [t \in Tasks |-> NoToken]
    /\ tries = [t \in Tasks |-> 0]
    /\ snap = [t \in Tasks |-> NoFile]
    /\ todo = [t \in Schedulers |-> {}]
    /\ forked = {}
    /\ lost = 0
    /\ restarts = 0

---------------------------------------------------------------------------
(* Helpers *)

(* The server consumes the live token of an account and issues the next. *)
Issue(a) ==
    /\ issued < MaxIssued
    /\ issued' = issued + 1
    /\ live' = [live EXCEPT ![a] = @ + 1]

Goto(t, l) == pc' = [pc EXCEPT ![t] = l]

(* A function returns, and its locals are gone. *)
Return(t, l) ==
    /\ Goto(t, l)
    /\ acct' = [acct EXCEPT ![t] = NoAccount]
    /\ tok' = [tok EXCEPT ![t] = NoToken]
    /\ snap' = [snap EXCEPT ![t] = NoFile]

(* apply_refreshed_tokens: an answer without a refresh token keeps the old *)
Apply(a, g) == IF g = NoToken THEN store ELSE [store EXCEPT ![a] = g]

(* should_write_disk_for *)
MayWriteDisk(a) == AnchorAccount \in {NoAccount, a}

(* sync_account_from_auth_json: takes over the file's token, older or not, *)
(* when the file has the identity of the account.                          *)
SyncFrom(file, a) ==
    IF file.owner = a THEN [store EXCEPT ![a] = file.tok] ELSE store

(* switch_to *)
SwitchTo(b) ==
    /\ current' = b
    /\ disk' = IF MayWriteDisk(b) THEN [owner |-> b, tok |-> store[b]] ELSE disk

---------------------------------------------------------------------------
(* The critical section: refresh_access_token_locked(_fresh) *)

Acquire(t) ==
    /\ pc[t] = "wait"
    /\ lock[acct[t]] = Free
    /\ lock' = [lock EXCEPT ![acct[t]] = t]
    /\ tok' = IF t \in Fresh THEN [tok EXCEPT ![t] = store[acct[t]]] ELSE tok
    /\ tries' = [tries EXCEPT ![t] = 0]
    /\ Goto(t, "send")
    /\ UNCHANGED <<server, host, cache, acct, snap, todo, env>>

(* Mutant: an early return that keeps the lock. *)
FailKeepsLock(t, l) ==
    /\ tok' = [tok EXCEPT ![t] = NoToken]
    /\ tries' = [tries EXCEPT ![t] = 0]
    /\ Goto(t, l)
    /\ UNCHANGED lock

(* The error leaves the critical section; its guard is dropped. *)
Fail(t, l) ==
    /\ lock' = [lock EXCEPT ![acct[t]] = Free]
    /\ tok' = [tok EXCEPT ![t] = NoToken]
    /\ tries' = [tries EXCEPT ![t] = 0]
    /\ Goto(t, l)

(* Mutant: one send too many. *)
SendErrorOnceMore(t) ==
    IF tries[t] < Attempts
    THEN /\ tries' = [tries EXCEPT ![t] = @ + 1]
         /\ UNCHANGED <<lock, pc, tok>>
    ELSE Fail(t, "failNet")

(* A send-layer error is retried, Attempts sends in all. *)
SendError(t) ==
    IF tries[t] < Attempts - 1
    THEN /\ tries' = [tries EXCEPT ![t] = @ + 1]
         /\ UNCHANGED <<lock, pc, tok>>
    ELSE Fail(t, "failNet")

(* The request did not reach the server. *)
NetworkError(t) ==
    /\ pc[t] = "send"
    /\ SendError(t)
    /\ UNCHANGED <<server, host, cache, acct, snap, todo, env>>

(* The server consumed the token and its answer was lost (15 s timeout,    *)
(* connection reset): for the code the same send-layer error.              *)
LostAnswer(t) ==
    LET a == acct[t] IN
    /\ pc[t] = "send"
    /\ tok[t] = live[a]
    /\ a \notin revoked
    /\ lost < MaxLost
    /\ Issue(a)
    /\ forked' = forked \cup {a}
    /\ lost' = lost + 1
    /\ SendError(t)
    /\ UNCHANGED <<revoked, host, cache, acct, snap, todo, restarts>>

(* The server rotates, and the answer carries the next token. *)
Rotated(t) ==
    LET a == acct[t] IN
    /\ pc[t] = "send"
    /\ tok[t] = live[a]
    /\ a \notin revoked
    /\ Issue(a)
    /\ tok' = [tok EXCEPT ![t] = live[a] + 1]
    /\ Goto(t, "reply")
    /\ UNCHANGED <<revoked, host, cache, lock, acct, tries, snap, todo, env>>

(* The server answers without a refresh token: the presented one stays. *)
Kept(t) ==
    /\ pc[t] = "send"
    /\ tok[t] = live[acct[t]]
    /\ acct[t] \notin revoked
    /\ tok' = [tok EXCEPT ![t] = NoToken]
    /\ Goto(t, "reply")
    /\ UNCHANGED <<server, host, cache, lock, acct, tries, snap, todo, env>>

(* Mutant: no second try with the token of the cache. *)
ReusedGivesUp(t) ==
    /\ pc[t] = "send"
    /\ tok[t] # live[acct[t]]
    /\ acct[t] \notin revoked
    /\ Fail(t, "failReused")
    /\ UNCHANGED <<server, host, cache, acct, snap, todo, env>>

(* refresh_token_reused: once more with the token the process last         *)
(* received, when there is one and it is another.                          *)
Reused(t) ==
    LET a == acct[t] IN
    /\ pc[t] = "send"
    /\ tok[t] # live[a]
    /\ a \notin revoked
    /\ IF cache[a] \notin {NoToken, tok[t]}
       THEN /\ tok' = [tok EXCEPT ![t] = cache[a]]
            /\ tries' = [tries EXCEPT ![t] = 0]
            /\ UNCHANGED <<lock, pc>>
       ELSE Fail(t, "failReused")
    /\ UNCHANGED <<server, host, cache, acct, snap, todo, env>>

(* A terminal refusal: is_logged_out_error. *)
Refused(t) ==
    /\ pc[t] = "send"
    /\ acct[t] \in revoked
    /\ Fail(t, "failOut")
    /\ UNCHANGED <<server, host, cache, acct, snap, todo, env>>

(* Mutant: the new token is not remembered in the process. *)
WriteBackForgets(t) ==
    /\ pc[t] = "reply"
    /\ store' = IF t \in Fresh THEN Apply(acct[t], tok[t]) ELSE store
    /\ lock' = [lock EXCEPT ![acct[t]] = Free]
    /\ tries' = [tries EXCEPT ![t] = 0]
    /\ Goto(t, "apply")
    /\ UNCHANGED <<server, disk, current, enabled, loggedOut, cache,
                   acct, tok, snap, todo, env>>

(* remember_rotated_refresh_token; the fresh version also writes the store *)
(* back before the guard is dropped.                                       *)
WriteBack(t) ==
    LET a == acct[t] IN
    /\ pc[t] = "reply"
    /\ cache' = IF tok[t] = NoToken THEN cache ELSE [cache EXCEPT ![a] = tok[t]]
    /\ store' = IF t \in Fresh THEN Apply(a, tok[t]) ELSE store
    /\ lock' = [lock EXCEPT ![a] = Free]
    /\ tries' = [tries EXCEPT ![t] = 0]
    /\ Goto(t, "apply")
    /\ UNCHANGED <<server, disk, current, enabled, loggedOut,
                   acct, tok, snap, todo, env>>

Critical(t) ==
    \/ NetworkError(t) \/ LostAnswer(t) \/ Rotated(t) \/ Kept(t)
    \/ Reused(t) \/ Refused(t) \/ WriteBack(t)

---------------------------------------------------------------------------
(* scheduler::start: sync the current account from auth.json, then refresh *)
(* the inactive ones                                                       *)

(* read_codex_auth, before the store lock is taken *)
ReadDisk(t) ==
    /\ t \in Schedulers
    /\ pc[t] = "idle"
    /\ snap' = [snap EXCEPT ![t] = disk]
    /\ Goto(t, "sync")
    /\ UNCHANGED <<server, host, cache, lock, acct, tok, tries, todo, env>>

TickSync(t) ==
    /\ t \in Schedulers
    /\ pc[t] = "sync"
    /\ store' = SyncFrom(snap[t], current)
    /\ Return(t, "collect")
    /\ UNCHANGED <<server, disk, current, enabled, loggedOut, cache, lock, tries, todo, env>>

(* Which accounts are due (last_refresh older than inactive_refresh_days)  *)
(* is left open.                                                           *)
Collect(t) ==
    /\ t \in Schedulers
    /\ pc[t] = "collect"
    /\ \E due \in SUBSET Accounts :
          todo' = [todo EXCEPT ![t] = (due \cap enabled) \ {current, AnchorAccount}]
    /\ Goto(t, "pick")
    /\ UNCHANGED <<server, host, cache, lock, acct, tok, tries, snap, env>>

NextTarget(t) ==
    /\ t \in Schedulers
    /\ pc[t] = "pick"
    /\ \E a \in todo[t] :
          /\ acct' = [acct EXCEPT ![t] = a]
          /\ todo' = [todo EXCEPT ![t] = @ \ {a}]
    /\ Goto(t, "wait")
    /\ UNCHANGED <<server, host, cache, lock, tok, tries, snap, env>>

RoundDone(t) ==
    /\ t \in Schedulers
    /\ pc[t] = "pick"
    /\ todo[t] = {}
    /\ Goto(t, "idle")
    /\ UNCHANGED <<server, host, cache, lock, acct, tok, tries, snap, todo, env>>

(* The tokens are applied a second time, after the rt lock was released,   *)
(* unless the account became current or its keepalive was switched off.    *)
KeepaliveApply(t) ==
    LET a == acct[t]
        skip == a = current \/ a \notin enabled
    IN
    /\ t \in Schedulers
    /\ pc[t] = "apply"
    /\ store' = IF skip THEN store ELSE Apply(a, tok[t])
    /\ loggedOut' = IF skip THEN loggedOut ELSE loggedOut \ {a}
    /\ Return(t, "pick")
    /\ UNCHANGED <<server, disk, current, enabled, cache, lock, tries, todo, env>>

(* Only a terminal refusal marks the account and stops its keepalive. *)
KeepaliveFail(t) ==
    LET fatal == IF pc[t] = "failOut" THEN {acct[t]} ELSE {} IN
    /\ t \in Schedulers
    /\ pc[t] \in {"failNet", "failReused", "failOut"}
    /\ loggedOut' = loggedOut \cup fatal
    /\ enabled' = enabled \ fatal
    /\ Return(t, "pick")
    /\ UNCHANGED <<server, store, disk, current, cache, lock, tries, todo, env>>

---------------------------------------------------------------------------
(* scheduler::start_anchor_refresh *)

AnchorTick(t) ==
    /\ t \in Anchors
    /\ pc[t] = "idle"
    /\ AnchorAccount # NoAccount
    /\ acct' = [acct EXCEPT ![t] = AnchorAccount]
    /\ IF AnchorAccount = current
       THEN /\ tok' = [tok EXCEPT ![t] = store[AnchorAccount]]
            /\ Goto(t, "write")
       ELSE /\ Goto(t, "wait")
            /\ UNCHANGED tok
    /\ UNCHANGED <<server, host, cache, lock, tries, snap, todo, env>>

(* What is written to auth.json afterwards is read back from the store. *)
ApplyThenWrite(t) ==
    LET a == acct[t] IN
    /\ pc[t] = "apply"
    /\ store' = Apply(a, tok[t])
    /\ IF MayWriteDisk(a)
       THEN /\ tok' = [tok EXCEPT ![t] = store'[a]]
            /\ Goto(t, "write")
            /\ UNCHANGED <<acct, snap>>
       ELSE Return(t, "idle")
    /\ UNCHANGED <<server, disk, current, enabled, loggedOut, cache, lock,
                   tries, todo, env>>

AnchorApply(t) == t \in Anchors /\ ApplyThenWrite(t)

(* write_codex_auth_extended_expiry, after the store lock was released *)
WriteDisk(t) ==
    /\ pc[t] = "write"
    /\ disk' = [owner |-> acct[t], tok |-> tok[t]]
    /\ Return(t, "idle")
    /\ UNCHANGED <<server, store, current, enabled, loggedOut, cache, lock, tries, todo, env>>

(* Mutant: a lost race for the token counts as a logout. *)
AnchorFailMarksReused(t) ==
    /\ t \in Anchors
    /\ pc[t] \in {"failNet", "failReused", "failOut"}
    /\ loggedOut' = IF pc[t] # "failNet" THEN loggedOut \cup {acct[t]} ELSE loggedOut
    /\ Return(t, "idle")
    /\ UNCHANGED <<server, store, disk, current, enabled, cache, lock, tries, todo, env>>

AnchorFail(t) ==
    /\ t \in Anchors
    /\ pc[t] \in {"failNet", "failReused", "failOut"}
    /\ loggedOut' = IF pc[t] = "failOut" THEN loggedOut \cup {acct[t]} ELSE loggedOut
    /\ Return(t, "idle")
    /\ UNCHANGED <<server, store, disk, current, enabled, cache, lock, tries, todo, env>>

---------------------------------------------------------------------------
(* A proxy request: get_current_token, the upstream call, and on a 401     *)
(* silent_refresh_current                                                  *)

RequestStart(t) ==
    /\ t \in Requests
    /\ pc[t] = "idle"
    /\ acct' = [acct EXCEPT ![t] = current]
    /\ Goto(t, "sync")
    /\ UNCHANGED <<server, host, cache, lock, tok, tries, snap, todo, env>>

(* auth.json is read and applied in one critical section of the store *)
GetCurrentToken(t) ==
    /\ t \in Requests
    /\ pc[t] = "sync"
    /\ store' = SyncFrom(disk, acct[t])
    /\ Return(t, "upstream")
    /\ UNCHANGED <<server, disk, current, enabled, loggedOut, cache, lock, tries, todo, env>>

Served(t) ==
    /\ t \in Requests
    /\ pc[t] = "upstream"
    /\ Return(t, "idle")
    /\ UNCHANGED <<server, host, cache, lock, tries, todo, env>>

(* A 401: silent_refresh_current reads the current account again *)
Unauthorized(t) ==
    /\ t \in Requests
    /\ pc[t] = "upstream"
    /\ acct' = [acct EXCEPT ![t] = current]
    /\ Goto(t, "wait")
    /\ UNCHANGED <<server, host, cache, lock, tok, tries, snap, todo, env>>

(* A quota answer, or a failed refresh: do_switch to another candidate *)
AutoSwitch(t) ==
    /\ t \in Requests
    /\ pc[t] \in {"upstream", "switch"}
    /\ \E b \in Accounts \ (loggedOut \cup {current}) : SwitchTo(b)
    /\ Return(t, "idle")
    /\ UNCHANGED <<server, store, enabled, loggedOut, cache, lock, tries, todo, env>>

(* No account can be picked; quotas and bans, which are not modelled, may  *)
(* exclude accounts that could be refreshed.                               *)
NoCandidate(t) ==
    /\ t \in Requests
    /\ pc[t] = "switch"
    /\ Return(t, "idle")
    /\ UNCHANGED <<server, host, cache, lock, tries, todo, env>>

RequestApply(t) == t \in Requests /\ ApplyThenWrite(t)

(* The account that is marked is the current one of this moment, which     *)
(* need not be the one that was refreshed.                                 *)
RequestFail(t) ==
    /\ t \in Requests
    /\ pc[t] \in {"failNet", "failReused", "failOut"}
    /\ loggedOut' = IF pc[t] = "failOut" THEN loggedOut \cup {current} ELSE loggedOut
    /\ Return(t, "switch")
    /\ UNCHANGED <<server, store, disk, current, enabled, cache, lock, tries, todo, env>>

---------------------------------------------------------------------------
(* Quota queries: get_quota_internal, the command get_quota_by_id and the  *)
(* server's refresh handler.  They capture the token with the access       *)
(* token, and fetch_usage_direct queues for the lock with it after a 401.  *)

(* get_quota_internal, and what the others do when they do not sync first. *)
QuotaStart(t) ==
    /\ t \in Quotas
    /\ pc[t] = "idle"
    /\ \E a \in Accounts :
          /\ acct' = [acct EXCEPT ![t] = a]
          /\ tok' = [tok EXCEPT ![t] = store[a]]
    /\ Goto(t, "wait")
    /\ UNCHANGED <<server, host, cache, lock, tries, snap, todo, env>>

(* get_quota_by_id for the current account, unless auth.json is another's: *)
(* the file is read before the store's mutex is taken again.               *)
QueryStart(t) ==
    /\ t \in Quotas
    /\ pc[t] = "idle"
    /\ MayWriteDisk(current)
    /\ acct' = [acct EXCEPT ![t] = current]
    /\ Goto(t, "query")
    /\ UNCHANGED <<server, host, cache, lock, tok, tries, snap, todo, env>>

QueryRead(t) ==
    /\ t \in Quotas
    /\ pc[t] = "query"
    /\ snap' = [snap EXCEPT ![t] = disk]
    /\ Goto(t, "sync")
    /\ UNCHANGED <<server, host, cache, lock, acct, tok, tries, todo, env>>

(* The file is taken over for the account asked for, which need not be     *)
(* current any more; a file of somebody else ends the query.               *)
QuerySync(t) ==
    /\ t \in Quotas
    /\ pc[t] = "sync"
    /\ store' = SyncFrom(snap[t], acct[t])
    /\ IF snap[t].owner = acct[t]
       THEN /\ Goto(t, "capture")
            /\ snap' = [snap EXCEPT ![t] = NoFile]
            /\ UNCHANGED <<acct, tok>>
       ELSE Return(t, "idle")
    /\ UNCHANGED <<server, disk, current, enabled, loggedOut, cache, lock,
                   tries, todo, env>>

QueryCapture(t) ==
    /\ t \in Quotas
    /\ pc[t] = "capture"
    /\ tok' = [tok EXCEPT ![t] = store[acct[t]]]
    /\ Goto(t, "wait")
    /\ UNCHANGED <<server, host, cache, lock, acct, tries, snap, todo, env>>

(* The answer came without a refresh: a quota, a ban or an invalid token   *)
(* clears the mark, any other error keeps it.                              *)
QuotaAnswered(t) ==
    /\ t \in Quotas
    /\ pc[t] = "wait"
    /\ loggedOut' \in {loggedOut, loggedOut \ {acct[t]}}
    /\ Return(t, "idle")
    /\ UNCHANGED <<server, store, disk, current, enabled, cache, lock, tries, todo, env>>

(* The repeated request read the quota: the tokens are kept.               *)
QuotaApply(t) ==
    /\ t \in Quotas
    /\ pc[t] = "apply"
    /\ store' = Apply(acct[t], tok[t])
    /\ loggedOut' = loggedOut \ {acct[t]}
    /\ Return(t, "idle")
    /\ UNCHANGED <<server, disk, current, enabled, cache, lock, tries, todo, env>>

(* The repeated request failed: fetch_usage_direct returns the error, and  *)
(* the tokens it had received are dropped.                                 *)
QuotaDrop(t) ==
    /\ t \in Quotas
    /\ pc[t] = "apply"
    /\ loggedOut' \in {loggedOut, loggedOut \ {acct[t]}}
    /\ Return(t, "idle")
    /\ UNCHANGED <<server, store, disk, current, enabled, cache, lock, tries, todo, env>>

(* handle_refresh_account drops the tokens of a success too (Ok((usage,    *)
(* _))): only the cache of the process has them then.                      *)
RefreshHandled(t) ==
    /\ t \in Quotas
    /\ pc[t] = "apply"
    /\ loggedOut' = loggedOut \ {acct[t]}
    /\ Return(t, "idle")
    /\ UNCHANGED <<server, store, disk, current, enabled, cache, lock, tries, todo, env>>

QuotaFail(t) ==
    /\ t \in Quotas
    /\ pc[t] \in {"failNet", "failReused", "failOut"}
    /\ loggedOut' = IF pc[t] = "failOut" THEN loggedOut \cup {acct[t]} ELSE loggedOut
    /\ Return(t, "idle")
    /\ UNCHANGED <<server, store, disk, current, enabled, cache, lock, tries, todo, env>>

---------------------------------------------------------------------------
(* switch_account *)

SwitchStart(t) ==
    /\ t \in Switches
    /\ pc[t] = "idle"
    /\ \E b \in Accounts : acct' = [acct EXCEPT ![t] = b]
    /\ snap' = [snap EXCEPT ![t] = disk]
    /\ Goto(t, "sync")
    /\ UNCHANGED <<server, host, cache, lock, tok, tries, todo, env>>

SwitchSync(t) ==
    /\ t \in Switches
    /\ pc[t] = "sync"
    /\ store' = SyncFrom(snap[t], current)
    /\ Goto(t, "capture")
    /\ snap' = [snap EXCEPT ![t] = NoFile]
    /\ UNCHANGED <<server, disk, current, enabled, loggedOut, cache, lock,
                   acct, tok, tries, todo, env>>

(* The target's token is captured; it is used when the access token is     *)
(* about to expire.                                                        *)
SwitchCapture(t) ==
    /\ t \in Switches
    /\ pc[t] = "capture"
    /\ \/ /\ tok' = [tok EXCEPT ![t] = store[acct[t]]]
          /\ Goto(t, "wait")
       \/ /\ Goto(t, "switch")
          /\ UNCHANGED tok
    /\ UNCHANGED <<server, host, cache, lock, acct, tries, snap, todo, env>>

SwitchApply(t) ==
    /\ t \in Switches
    /\ pc[t] = "apply"
    /\ store' = Apply(acct[t], tok[t])
    /\ tok' = [tok EXCEPT ![t] = NoToken]
    /\ Goto(t, "switch")
    /\ UNCHANGED <<server, disk, current, enabled, loggedOut, cache, lock,
                   acct, tries, snap, todo, env>>

(* A failed refresh does not stop the switch. *)
SwitchFail(t) ==
    /\ t \in Switches
    /\ pc[t] \in {"failNet", "failReused", "failOut"}
    /\ Goto(t, "switch")
    /\ UNCHANGED <<server, host, cache, lock, acct, tok, tries, snap, todo, env>>

SwitchCommit(t) ==
    /\ t \in Switches
    /\ pc[t] = "switch"
    /\ SwitchTo(acct[t])
    /\ Return(t, "idle")
    /\ UNCHANGED <<server, store, enabled, loggedOut, cache, lock, tries, todo, env>>

---------------------------------------------------------------------------
(* The environment *)

(* The user switches an account's keepalive on or off. *)
ToggleKeepalive(a) ==
    /\ Schedulers # {}
    /\ enabled' \in {enabled \cup {a}, enabled \ {a}}
    /\ UNCHANGED <<server, store, disk, current, loggedOut, cache, lock, locals, env>>

(* The session ends on the server. *)
Revoke(a) ==
    /\ a \in Revocable
    /\ revoked' = revoked \cup {a}
    /\ UNCHANGED <<live, issued, host, cache, lock, locals, env>>

(* The Codex CLI refreshes the session of auth.json by itself. *)
CodexRefresh ==
    LET a == disk.owner IN
    /\ CanCodex
    /\ a \in Accounts
    /\ disk.tok = live[a]
    /\ a \notin revoked
    /\ Issue(a)
    /\ disk' = [disk EXCEPT !.tok = live[a] + 1]
    /\ forked' = forked \cup {a}
    /\ UNCHANGED <<revoked, store, current, enabled, loggedOut, cache, lock,
                   locals, lost, restarts>>

(* The process dies and starts again: the store comes back from            *)
(* accounts.json, the tasks and the cache are gone.  An account one of     *)
(* whose two files does not hold the live token has lost its chain.        *)
Restart ==
    /\ restarts < MaxRestarts
    /\ restarts' = restarts + 1
    /\ forked' = forked \cup
          {a \in Accounts : store[a] # live[a] \/ (disk.owner = a /\ disk.tok # live[a])}
    /\ cache' = [a \in Accounts |-> NoToken]
    /\ lock' = [a \in Accounts |-> Free]
    /\ pc' = [t \in Tasks |-> "idle"]
    /\ acct' = [t \in Tasks |-> NoAccount]
    /\ snap' = [t \in Tasks |-> NoFile]
    /\ tok' = [t \in Tasks |-> NoToken]
    /\ tries' = [t \in Tasks |-> 0]
    /\ todo' = [t \in Schedulers |-> {}]
    /\ UNCHANGED <<server, host, lost>>

---------------------------------------------------------------------------

SchedulerStep(t) ==
    \/ ReadDisk(t) \/ TickSync(t) \/ Collect(t) \/ NextTarget(t) \/ RoundDone(t)
    \/ KeepaliveApply(t) \/ KeepaliveFail(t)

AnchorStep(t) == AnchorTick(t) \/ AnchorApply(t) \/ AnchorFail(t)

RequestStep(t) ==
    \/ RequestStart(t) \/ GetCurrentToken(t) \/ Served(t) \/ Unauthorized(t)
    \/ AutoSwitch(t) \/ NoCandidate(t) \/ RequestApply(t) \/ RequestFail(t)

QuotaStep(t) ==
    \/ QuotaStart(t) \/ QueryStart(t) \/ QueryRead(t) \/ QuerySync(t) \/ QueryCapture(t)
    \/ QuotaAnswered(t) \/ QuotaApply(t) \/ QuotaDrop(t) \/ RefreshHandled(t)
    \/ QuotaFail(t)

SwitchStep(t) ==
    \/ SwitchStart(t) \/ SwitchSync(t) \/ SwitchCapture(t)
    \/ SwitchApply(t) \/ SwitchFail(t) \/ SwitchCommit(t)

TaskStep(t) ==
    \/ Acquire(t) \/ Critical(t) \/ WriteDisk(t)
    \/ SchedulerStep(t) \/ AnchorStep(t) \/ RequestStep(t)
    \/ QuotaStep(t) \/ SwitchStep(t)

Next ==
    \/ \E t \in Tasks : TaskStep(t)
    \/ \E a \in Accounts : ToggleKeepalive(a) \/ Revoke(a)
    \/ CodexRefresh
    \/ Restart

Spec == Init /\ [][Next]_vars

(* A task holding the lock always goes on (every send ends, within 15 s at *)
(* the latest), and the lock serves its waiters in order (tokio's Mutex).  *)
FairSpec ==
    /\ Spec
    /\ \A t \in Tasks : WF_vars(Critical(t)) /\ SF_vars(Acquire(t))
---------------------------------------------------------------------------
(* Properties *)

(* An answer with a new token has arrived and is not remembered yet. *)
InFlight(a) == \E t \in Tasks : pc[t] = "reply" /\ acct[t] = a /\ tok[t] # NoToken

(* At most one rotation of an account is under way at any time: the doc of *)
(* rt_lock_for, oauth.rs:106-110.                                          *)
OneRotation ==
    \A s, t \in Tasks :
        (pc[s] \in {"send", "reply"} /\ pc[t] \in {"send", "reply"} /\ acct[s] = acct[t])
            => s = t

(* The live token of an account is never lost: the process holds it in the *)
(* store, in the cache or in an answer just received, however refreshers   *)
(* apply old answers late, drop new ones or sync an old auth.json.         *)
LiveTokenHeld ==
    \A a \in Accounts \ forked :
        live[a] \in {store[a], cache[a]} \/ InFlight(a)

(* As long as every rotation of the account was this process's own, no     *)
(* refresh ends in refresh_token_reused: the race that                     *)
(* refresh_access_token_locked_fresh is there to exclude (oauth.rs:186).   *)
NeverReused ==
    \A t \in Tasks : pc[t] = "failReused" => acct[t] \in forked

(* Only a session that really ended is marked as logged out; a lost race   *)
(* for the token never is.                                                 *)
OnlyRevokedMarked == loggedOut \subseteq revoked

(* A refresh that queued for the lock gets out of the critical section:    *)
(* no error path keeps the guard.                                          *)
RefreshEnds ==
    \A t \in Tasks : pc[t] = "wait" ~> pc[t] \notin {"wait", "send", "reply"}
(* The newest token the process holds. *)
Newest(a) ==
    IF InFlight(a) THEN tok[lock[a]]
    ELSE IF cache[a] # NoToken THEN cache[a]
    ELSE store[a]

Chain == INSTANCE RefreshChain WITH held <- [a \in Accounts |-> Newest(a)]

(* The lock, the cache and the refreshers together keep the promise of     *)
(* RefreshChain.                                                           *)
KeepsChain == Chain!Spec

---------------------------------------------------------------------------
(* Why LiveTokenHeld and NeverReused hold: an inductive invariant *)

(* Whoever sends, or has an answer, is inside the critical section. *)
LockHeld ==
    \A t \in Tasks : pc[t] \in {"send", "reply"} =>
        acct[t] \in Accounts /\ lock[acct[t]] = t

(* Only these places of a task hold a token. *)
NoTokenLeft ==
    \A t \in Tasks :
        /\ pc[t] \notin {"wait", "send", "reply", "apply", "write"} => tok[t] = NoToken
        /\ (pc[t] = "wait" /\ t \in Fresh) => tok[t] = NoToken

(* As long as no rotation is remembered, every copy is the live token. *)
AllCopiesLive(a) ==
    /\ store[a] = live[a]
    /\ disk.owner = a => disk.tok = live[a]
    /\ \A t \in Tasks :
          /\ snap[t].owner = a => snap[t].tok = live[a]
          /\ (acct[t] = a /\ tok[t] # NoToken) => tok[t] = live[a]
          /\ (acct[t] = a /\ pc[t] \in {"send", "write"}) => tok[t] = live[a]
          /\ (acct[t] = a /\ pc[t] = "wait" /\ t \notin Fresh) => tok[t] = live[a]

(* An answer in flight carries the live token; otherwise the cache does;   *)
(* and an empty cache means that nothing was rotated in this process.      *)
ChainInv ==
    \A a \in Accounts \ forked :
        /\ \A t \in Tasks :
              (pc[t] = "reply" /\ acct[t] = a /\ tok[t] # NoToken) => tok[t] = live[a]
        /\ ~InFlight(a) => cache[a] \in {NoToken, live[a]}
        /\ (~InFlight(a) /\ cache[a] = NoToken) => AllCopiesLive(a)

Inv == TypeOK /\ LockHeld /\ NoTokenLeft /\ ChainInv /\ NeverReused
=============================================================================
