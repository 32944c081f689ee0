# codex-switcher: a TLA+ model

codex-switcher keeps many ChatGPT ("Codex") accounts and relay keys in one
store, publishes one of them as `~/.codex/auth.json`, and runs a local proxy
that sends each request of Codex with the token of the current account and
switches accounts when one is exhausted, refused or banned. It may own the
accounts itself (`remote_mode` "off"), serve them to other machines
("server"), or follow such a server ("client", "solo").

All paths below are relative to `src/src-tauri/src/`.

## 1. Inventory

| Component | Source | State it keeps | Operations | Works with |
|---|---|---|---|---|
| Account store | `account.rs` | `accounts`, `current`, `is_session_anchor`, tokens and flags of each account, settings; `accounts.json` | add, delete, import, switch_to, set_session_anchor, apply_refreshed_tokens, sync_account_from_auth_json, save, load | one `std::sync::Mutex`, taken by every other part |
| auth.json | `account.rs` 1282-1367 | the file and its temporary file | read, write (fill the temporary file, rename it) | Codex reads and rewrites the file |
| Token rotation | `oauth.rs` | a lock per account, a cache of rotated tokens | refresh_access_token_locked, ..._locked_fresh | all refreshers; the authorization server, where a refresh token can be used once |
| Scheduler | `scheduler.rs` | none of its own | keepalive of idle accounts, 4-minute loop of the phone anchor | store, rotation, auth.json |
| Proxy | `proxy.rs` | the token cache of a client, model cooldowns, streams | choose token, 401 refresh, mark, switch and retry, restore the preferred account | store, rotation, affinity, remote |
| WebSocket bridge | `proxy.rs` 6190-7660 | per connection: account, model, markers of the answer | handshake with candidates and retries, bridge, adapters for relays and provider models, disconnect notice | store, quota fetcher |
| Chat inbound | `proxy.rs` 2673-3227, `chat_inbound.rs` | none that lasts | pick an account, send, refresh, retry, switch, build a chat message | store, routes |
| Quota fetcher | `usage.rs` | none | query, refresh on 401, repeat | rotation; its caller stores the tokens |
| Commands | `lib.rs` | bootstrap tasks, quota and sync loops | switch_account, anchor, import, delete, quota, priming, heartbeat | everything |
| Refresh locks | `refresh_lock.rs` | set of locked accounts | acquire with a timeout, release | switch_account only |
| Session affinity, routes | `session_affinity.rs`, `session_routes.rs` | bindings with a TTL, persisted with a delay | bind, look up, expire | proxy |
| Remote server | `remote_server.rs` | solo heartbeats, the store of the host | upsert, delete, switch (compare-and-set), refresh, heartbeat | clients |
| Remote client | `remote_client.rs`, `lib.rs` 1817-2620 | URL cache, loops | pull, push, prune, adopt the server's current account | server, store, auth.json |
| Window priming | `lib.rs` 2185-2292 | attempt and result per account | reserve, send, record | quota, store |
| Streams, relay translation | `sse_watchdog.rs`, `relay_translate.rs`, `relay_catalog.rs`, `provider_quirks.rs` | per stream | time out, translate events | proxy |
| Antigravity | `antigravity/` | a selected Google account per host, leases of access tokens | login, lease, translate, quota, mirror | proxy, server |
| Login, import, skills, mail | `oauth_server.rs`, `otp_login.rs`, `mailbox.rs`, `bulk_import.rs`, ... | none that lasts | end in add_account | store |
| Logs, tray, IDE, frontend | `switch_log.rs`, `token_tracker.rs`, `tray.rs`, `src/App.tsx`, ... | append-only logs, views | show, record | commands |

What makes them correct, and hard:

* **Token rotation.** A refresh token that was used is dead. Six kinds of tasks
  refresh, some with a token they read long before they got the lock; results
  are applied late and more than once; answers get lost after the server
  consumed the token; the cache dies with the process. Correct means: two
  rotations of an account never overlap, the newest token is never lost, no
  refresh is refused as "reused" by the program's own doing, and no healthy
  account is marked as logged out.
* **Store, anchor and auth.json.** One file, many writers, half of them outside
  the mutex; an anchor that must own the file whoever is current. Correct
  means: the pointer and the anchor always name accounts of the list, a switch
  cannot be overtaken by a deletion or an anchor, and the anchor's file comes
  back.
* **Proxy switch and retry.** A loop of awaited attempts that marks "the current
  account" after each. Correct means: it marks the account that was refused, one task
  switches at a time, no relay is taken against the setting, a chain that fails
  leaves a usable account current, and every request ends.
* **Account synchronisation.** Whole records are pushed and pulled. Correct
  means: a deleted account stays deleted, a new one is not lost, an anchor
  stays local, newer tokens win.
* **Window priming.** Correct means: at most one warm-up per window, also across
  crashes, and no window blocked for ever.
* **Following a server.** Four things of a host ask the server and apply its
  answers late. Correct means: in the end the host has the server's account and
  its newest token, and it never rotates a token itself.
* **WebSockets.** Correct means: a handshake ends, one refusal costs one account
  at most, and no answer that asks for a tool is ended in the upstream's place.
* **Streams.** Correct means: what the client gets is a well-formed answer, it
  is complete only if the upstream ended it, the next request carries it back
  unchanged, and every stream ends.
* **Chat inbound.** Correct means: the budgets for refreshes, empty answers and
  switches do not eat into each other; a request that names its account keeps it.
* **Antigravity.** Correct means: the server loses no refresh token, takes none
  from a copy without one, and a late answer does not undo the user's choice.

The hazards at their lines are in `PROJECT.json`.

## 2. Plan

| Order | Module | Contents | Promise it is checked against | State |
|---|---|---|---|---|
| 1 | `TokenRotation` | `oauth.rs` and all refreshers | `RefreshChain` | checked, invariants and refinement proved |
| 2 | `AnchorDisk` | list, current account, anchor, auth.json on one host | invariants, healing | checked, invariants proved |
| 3 | `ProxySwitch` | a request from its account to its end, switches and marks | invariants, termination | checked, safety proved |
| 4 | `AccountSync` | lists of several hosts and their server | no login lost or doubled | checked, invariants proved |
| 5 | `RemoteSwitch` | a host that follows the server's current account | convergence | checked |
| 6 | `WsBridge` | WebSocket handshakes, bridge, adapters | invariants, termination | checked, safety proved |
| 7 | `RelayStream` | a streamed answer through translation and watchdog | a well-formed answer, its round trip | checked, safety proved |
| 8 | `ChatInbound` | chat/completions requests and session routes | invariants, termination | checked, safety proved |
| 9 | `WindowPriming` | warm-up of quota windows | at most once per event | checked |
| 10 | `Antigravity` | Google accounts of a server and a client | invariants, an action property | checked and proved |

The modules share components and not state: each takes what another one
explains as a choice of its environment. `TokenRotation` owns the tokens,
`AnchorDisk` the file, `ProxySwitch` the chain of accounts, `AccountSync` the
lists, `RemoteSwitch` the pointers of several machines.

Left for later: a theorem about `WindowPriming` (section 5), and the solo
heartbeat with its TTL.

## 3. Modules

| Module | Role |
|---|---|
| `RefreshChain` | abstract: per account one live token, held by the process until something outside forks the chain |
| `TokenRotation` | detailed: locks, cache, store, auth.json and every task that refreshes |
| `TokenRotationProofs` | its inductive invariants and theorems, the refinement among them |
| `AnchorDisk` | list, current, anchor, both steps of a write of auth.json |
| `AnchorDiskProofs` | its inductive invariant and theorems |
| `ProxySwitch` | one request from the choice of its account to its end, any number of them at a time |
| `ProxySwitchProofs` | its inductive invariant and theorems |
| `AccountSync` | hosts and a server: pushes, pulls, merges, renames, prunes |
| `AccountSyncProofs` | its inductive invariant and theorems |
| `RemoteSwitch` | hosts that follow the server's current account |
| `WsBridge` | sockets from their handshake to their end |
| `WsBridgeProofs` | its inductive invariant and theorems |
| `RelayStream` | one streamed answer on four transports, and the request after it |
| `RelayStreamProofs` | the watchdog, the frame buffer, the answer and the next request: their inductive invariants and theorems |
| `ChatInbound` | chat/completions requests and the routes of their sessions |
| `ChatInboundProofs` | its inductive invariant and theorems |
| `WindowPriming` | one account's windows on the server, on disk and in a client's copy |
| `Antigravity` | Google accounts, leases and the selected account on two hosts |
| `AntigravityProofs` | its inductive invariant and theorems |
| `MC<module>` | what TLC instantiates, with its `MC*.cfg`; `TokenRotation` and `ProxySwitch` have two |

### TokenRotation

A refresh token is its generation, the n-th token the server issued for the
account; `live[a]` is the only one accepted. `store`, `cache`, `disk` and the
tasks' locals are the copies. `lock[a]` is the mutex of `rt_lock_for`. Each
task runs the code between two awaits or two uses of the store's mutex as one
step; `pc` names the place.

* `Acquire` is the lock and, for the `_fresh` callers, the second read of the
  token under it. `Rotated`, `Kept`, `Reused`, `Refused`, `NetworkError`,
  `LostAnswer` are the outcomes of a send; `SendError` is the repeat after an
  error of the transport; `Reused` also holds the single repeat with the cached
  token. `WriteBack` puts the result into the cache, for the `_fresh` callers
  into the store too, and frees the lock.
* Callers: `Tick...`, `Collect`, `NextTarget`, `Keepalive...` (scheduler),
  `Anchor...` (anchor loop), `RequestStart`, `GetCurrentToken`, `Served`,
  `Unauthorized`, `AutoSwitch`, `Request...` (proxy), `Query...`
  (get_quota_by_id, which takes auth.json over first), `Quota...` and
  `RefreshHandled` (the end of a query: get_quota_internal and get_quota_by_id keep
  the tokens, the fetcher drops them when its repeated request fails, and the
  server's handle_refresh_account drops them always), `Switch...`
  (switch_account). An account has an access token at first, so queries refresh
  only after a 401.
* Environment: `Revoke` ends a session, `CodexRefresh` is the Codex CLI
  refreshing the file by itself, `Restart` drops the cache and all tasks.
* `forked` is a ghost: accounts whose chain was moved from outside (a lost
  answer, the CLI, a restart between answer and write). Nothing in the program
  could hold their live token, so no promise is made about them.

Abstractions: accounts have different identities (a duplicate of the same login
under two ids is left out); the anchor is a constant here, `AnchorDisk`
changes it; accounts are not deleted; a save succeeds inside its critical
section; the client and solo modes, where the server owns the tokens, are left
out; the retry loop around the automatic switch is `ProxySwitch`'s.

### AnchorDisk

The file is the account whose tokens it holds. `lock` is the store's mutex when
it is kept over a write: `switch_to` does so, all other writers decide under
the mutex and write after it. Any other use of the mutex is one step that
requires it to be free. A write is `WriteTmp` then `Rename`; `tmp` is the one
`auth.tmp` of all writers, so `Rename` publishes what it holds by then and
`RenameFails` when another writer has renamed it away.

| Action | Code |
|---|---|
| `WriteTmp`, `WriteTmpFails`, `Rename`, `RenameFails` | write_codex_auth |
| `SwitchTo`, `Commit` | switch_to, and the save of its caller |
| `ChooseTarget`, `SwitchTarget` | switch_account and try_switch_and_retry: the target is chosen, the mutex released and taken again |
| `SwitchNow` | handle_switch, restore_current_if_flagged: chosen under the same mutex |
| `AddAccount`, `DeleteAccount`, `RemoveAccount`, `ImportAccounts`, `ArchiveCurrent` | the list: note that the command delete_account leaves no account current while the server's handle_delete makes another one current |
| `SetAnchor`, `ClearAnchor` | the set_session_anchor command |
| `ForceOverwrite`, `ReadDisk`, `AlignWithDisk` | force_overwrite_disk_with_current, sync_active_with_disk |
| `RefreshCurrent`, `Refreshed`, `CheckAnchor` | silent_refresh_current up to write_codex_auth_respecting_anchor |
| `Tick`, `Restamp`, `AnchorRotated`, `RotationFails` | start_anchor_refresh |
| `CodexLogin`, `Restart` | the user logs in with Codex; exit (with restore_anchor_disk_on_exit) or crash, and load |

Abstractions: the host exchanges no account records (pull, upsert and their
copies of the flag are `AccountSync`'s); an imported store is one that was
exported, so its pointer and its anchor are in its list; saves succeed; every
anchor has a refresh token (without one the loop does nothing); which tokens an
account has is `TokenRotation`'s matter.

### ProxySwitch

A request is one task; `pc[r]` names the await it stands at, or the place
between two uses of the store's mutex. `used` is the account whose token is in
flight, `owner` the one the affinity context names, `entry` and `target` the
locals of `try_switch_and_retry`, `tries` and `count` its loop counters.
`switching` is the flag of `ProxyState`; `held` is a ghost: the requests that
won its compare_exchange and have not stored FALSE yet.

| Actions | Code |
|---|---|
| `Resolve` ... `BackoffEnds` | handle_request up to and including its first answers: relay or resolve_token_with_affinity, 401/402/403, 429, a full upstream with its backoff |
| `DispatchWins`, `DispatchLoses`, `WaitEnds`, `Resent` | dispatch_quota_switch_retry |
| `Rejected` | the rounds of a compact request |
| `Enter`, `Pick`, `NoPick`, `DoSwitch...`, `Retry...`, `Refresh...`, `Restore`, `RestoreFails` | try_switch_and_retry and restore_current_if_flagged, whose switch may fail |
| `Stream...`, `FlowLimited`, `Complete` | bootstrap_loop_task, acquire_replacement_upstream, acquire_same_account_upstream, end_signal |
| `Back...` | the preemptive switch spawned behind a good answer |
| `Drop` | hyper drops the handler when its client hangs up; the body of a stream and the preemptive switch are tasks of their own and go on |
| `ManualSwitch`, `QuotaRefresh`, `CooldownExpires` | what happens around the requests |

Abstractions: the three flags of an account are tested together and are one
set; a quota is "spent" or not; the score that orders candidates and the
thresholds of the preemptive switch are left open, so every candidate may come
first and every check may answer either way; a 429 may or may not spend the
quota (it may not be cached, or credits may be left); every account has a token; whether a 429 concerns a Spark or
Luna model is left open too (`PassThrough`, `StreamBreaks`). `pick_next_account`
and `do_switch` are two uses of the mutex and so two steps. The headers
and the first events of a repeated answer arrive in one step. Accounts are neither
added nor deleted, routes and `relay_auto_switch_in` do not change, bindings do
not expire; the client mode, WebSockets and the chat endpoint are left out.

### AccountSync

A node (each host, and the server) has a record per id; a record is the id it
was created under, which stands for its `created_at`, and `Login` says which ids
are one person. A host runs one command of its user (`user[h]`) beside its quota
loop (`sync[h]`); every request to the server may fail before or after the
server obeyed.

| Actions | Code |
|---|---|
| `LogIn`, `Snapshot`, `Pushed`, `Rename` | save_token_as_account: add, push, and the rename when the server merged the account into another id |
| `PushAccount`, `AskList`, `Listed`, `Insert`, `DeleteAccount`, `RemoteDelete`, `SwitchTo` | the commands of a host |
| `FinalIds`, `Written`, `ServerDelete` | handle_upsert with its merge, handle_delete |
| `Fetch`, `Candidates`, `PushNext`, `PushFails`, `Prune` | the quota loop: ids of the server, push of what it lacks, prune of what it still lacks |
| `Fast...` | do_one_fast_auth_sync: captures the pointer, fetches that account's token, makes it current again without a look at the list |
| `TenMinutes` | the grace period of the prune |

Abstractions: tokens and flags inside a record are left out (`RemoteSwitch` has
the tokens), and so is auth.json, which the fast sync goes on to write
(`RemoteSwitch`, `AnchorDisk`); a host has one fast sync under way at a time,
although a command and the start of the program call it beside the loop
(`lib.rs:4871`, 6273), and each counts as a command; the hosts here own their
pointer, or the server has none (the account asked for is always the captured
one); `revived` is a ghost: ids that a fast sync made current although they had
left the list; an upsert that meets several ids of one login may choose any; a
round of the loop takes less than ten minutes, so nothing ages inside one. In
the run both ids are one login, which makes hosts and accounts alike
(symmetry, sound because no liveness is checked).

### RemoteSwitch

`scur`, `stok` are the server's pointer and token versions, `hcur`, `htok`,
`disk` each host's. A request to the server is one step where the server answers
and one where the host uses the answer.

| Actions | Code |
|---|---|
| `Sync...` | do_one_fast_auth_sync and the end of the quota loop; `SyncAsksInVain` is a failed get_current, after which the round goes on with the captured account |
| `QuotasArrive`, `PlusWatch` | the quotas of `/quotas`, of which `ready[h]` says which Plus accounts have a full window; switch_to_ready_plus_if_needed at the end of the host's quota loop |
| `UserSwitches`, `UserPushes`, `UserPulls`, `Pull...` | switch_account in client mode, remote_pull_all |
| `Begins`, `Token...`, `Unauthorized`, `ServerRefreshes`, `Refresh...` | get_current_token in client mode and the 401 path, where the server refreshes |
| `Asks`, `Adopt...`, `Resends`, `Local...`, `Forwarded`, `AsksOnly` | the 429 paths: ask the server to switch, adopt, repeat; fall back to a local switch when it cannot be asked |
| `Switch`, `ServerMoves`, `Rotates`, `Requeries` | handle_switch with its compare-and-set, and what other hosts do |

Abstractions: anchors are `AnchorDisk`'s; lists only grow; the token cache of a
request is as old as its last look at it; whether the server's mark hits the
refused account is left open for the chain; a window that is restored is one of
the bounded events, one that is used up is not.

### WsBridge

`pc[c]` is the place of a connection's task; `acct` the account its upstream
socket carries, `flags` what bridge_websockets remembers, `turn` the client's
turn. `refusals` and `marks` are ghosts that count what the upstream refused
and how many accounts were taken out of the pool for it.

| Actions | Code |
|---|---|
| `Connect`, `RouteModel`, `RouteRelay`, `RouteUpgrade`, `TakeToken`, `Precheck`, `PickCandidate`, `Probe...`, `TakeCandidate` | handle_websocket up to the first dial, with the query of each candidate's quota |
| `Dial...`, `Backoff`, `Repick`, `TakeNext`, `Redial...`, `Upgrade` | the dial, its repeats when the upstream is full, its redials after a refusal |
| `Request`, `Sniff`, `Frame`s (`Created` ... `CapacityFrame`), `UpstreamBreaks`, `Hangup` | bridge_websockets: sniffing the first frame, one action per kind of frame, the synthetic end |
| `RelayAsk`, `RelayAnswers`, `Adapter...` | bridge_relay_ws_adapter and the adapter for provider models |
| `UserSwitch`, `Renew` | the disconnect notice; a quota that renews |

A call to a tool comes in a form the bridge looks for (`Detected`: function_call,
tool_call) or in another one (custom_tool_call, local_shell_call), which it takes
for an answer without a call.

Abstractions: a count of frames is "few" or "at least twenty"; tokens are
accounts; a refused handshake is one refusal however often it is repeated. In the
run a query for a candidate's quota succeeds (`ProbeFaults = FALSE`): a failed
one marks the candidate as spent (`proxy.rs:6390`), and `OneMarkPerRefusal`
would not hold.

### RelayStream

One answer, over one of four transports. `sent` are the upstream's frames,
`wire` their halves under way, `buf` the buffer, `s` the translator's state,
`out` and `seen` the events before and behind the watchdog. Text is a sequence
of fragments, so that the properties see whether one is lost, doubled or moved.

| Definitions | Code |
|---|---|
| `HandleChunk`, `TextDelta`, `ReasonDelta`, `ToolDelta`, `Closing`, `EmitCompleted` ... | the chat-to-responses translator of `relay_translate.rs` |
| `Read`, `HasFrame`, `Take`, `AtEof`, `AtError`, `SyncOutput` | ChatSseBuffer and the loops around it; a relay's answer in one piece |
| `FinishGoogle`, `ValidCalls` | finish_codex_stream of `antigravity/translate.rs` |
| `Pass`, `PassBytes`, `Heartbeat`, `Cut` | wrap_with_sse_watchdog |
| `InputItem`, `Messages`, `NextRequest` | the responses-to-chat translation of the next request |

Abstractions: names, arguments and schemas are only "whole" or "cut short";
usage is present or not; the cutoffs are 1 and 2 heartbeats for 2 and 9.

### ChatInbound

A request picks an account (`pick` says by which rule), sends, and loops with
three budgets (`left`). An answer is the set of events its text came in, whether
it has a call, and where the call's arguments are; `reply` is what becomes of it.
`Resolve`, `Serve`, `Refresh`, `PickNext`, `Switch` are
the loop of handle_chat_inbound; `ToChat` is the conversion of `chat_inbound.rs`;
`AddRoute`, `ToggleRoute`, `DeleteRoute` are the commands of
`session_routes.rs`. Abstraction: an account has quota or not, tokens are
accounts, the affinity by session is left to `ProxySwitch`.

### WindowPriming

One account: `srv` on the server, `disk` in its accounts.json, `copy` in a
client. `warmed` and `again` are ghosts: events a warm-up was sent for, once and
again. `Fetch`, `Reserve`, `WarmUp...`, `Refetch`, `Write` are the stages of the
quota loop in `lib.rs`; `WindowPrimeDue`, `Managing`, `Defaulted` the methods of
`account.rs` and `usage.rs` they use; `Merge`, `Push`, `Upserted` the server's
upsert, which memory keeps even if it is not saved; `Crash` loads what was saved;
`Reimport` is an import of the same account. `Pull` copies the account into a
client, at any time; `Push` sends the copy back at any later time, unchanged or
with priming turned off or on by the client's user. `newest` and `older` are
ghosts: when the newest quota was cached that the server has had, and whether a push
has brought an older one. Times of attempts are kept in order only (`Clock`).

### Antigravity

`google[h]` is the list of each host, `secret` the accounts whose refresh
token the server holds, `whole` those whose record on the client has it too,
`leased` the client's cache of access tokens, `lock` the per-account lock of the
refresh. `Arrive` ... `Tail` is a request from its list of candidates to the quota
refresh behind its answer, `Round`, `Fetch`, `Write` the catalog loop, `Page`,
`Pull`, `Mirror`, `PullAll`, `Join`, `Push` the exchange with the client,
`Select`, `Login`, `Delete` the user.

The client's records are mirrors without a token until its user pulls everything
(`PullAll`: remote_pull_all and remote_pull_all_tokens), which stores the server's
whole records. A request keeps what its routes had when it came (`armed`): only a
route without a refresh token is leased again after a 401. `Push` of a mirror
changes quotas of an account the server has and nothing else; `Push` of a whole
record replaces or creates (`Replace`). Neither `PullAll`, `Replace` nor `Login`
goes through ensure_current_antigravity_account, so a host may have accounts and no
selected one.

Ghosts: `began[r]` is the pointer when the request came, `choice[h]` what the user
selected last, `overruled` the requests that were under way then and had begun with
another account; `leaked` are the accounts whose refresh token the client ever had,
`wiped` those deleted on the server. Assumptions: Google does not rotate refresh
tokens (a whole record of the client has the token the server has, only its access
token may be older); one model; one reply to the client's loops or user at a time.

## 4. Runs

| Run | Question | Instance |
|---|---|---|
| `rotation_requests` | is an old token sent in the end, is `RefreshChain` implemented, does every refresh end | 2 accounts, request and manual switch, 2 tokens issued, 1 lost answer, 1 restart |
| `rotation_loops` | is only a session that ended marked, is a live token lost | 2 accounts, scheduler, anchor loop and quota query, 2 tokens issued, the Codex CLI, the anchor's session may end |
| `anchor_disk` | pointer and anchor in every order of commands; does the anchor's file come back | 2 accounts, user with all commands, request, loop, 1 failed write, 1 restart, `codex login` |
| `proxy_alone` | does a request end whatever the upstream answers, on a usable account | 3 subscriptions, 1 relay, 1 streamed request with its preemptive switch, 3 attempts, 1 capacity retry, 1 outside event, 1 client that hangs up |
| `proxy_together` | does the flag exclude; do sessions stay off relays | 2 subscriptions, 1 relay, relay current at first, a streamed and a compact request of one session, 2 attempts, 2 rounds, 1 client that hangs up |
| `account_sync` | is a login lost or doubled | 2 hosts, 2 ids of one login, 1 failed request, 2 commands or fast syncs |
| `remote_switch` | does a follower end where the server is | 1 host with both loops, 2 accounts of which it knows one and the other is a Plus, any 3 of 1 request, command, failure, rotation and restored window |
| `ws_bridge` | does a handshake end, what does a refusal cost, which answers are ended | 2 sockets, 2 subscriptions, 1 relay, plain and provider models, 2 refusals, 1 switch |
| `relay_stream` | is the answer well formed, complete, in order, carried back, ended | 4 transports, any 2 of 12 kinds of frames, each cut anywhere |
| `chat_inbound` | what may be empty, who serves | 2 requests, 2 accounts, 1 of them pro, 1 route, 1 edit, 1 switch |
| `window_priming` | is an event warmed twice | 2 ticks, any 3 of failed saves, crashes, queries and imports, or 1 of them and a copy that is pulled and pushed at any later time |
| `antigravity` | are tokens lost, is the user's choice undone | 2 accounts, 1 of them there at first, the client with or without its whole record, 1 request on either host, 1 loop, 2 events |

**Bounds.** Two accounts are enough for "this one and another one" in every
property; a wrong mark, an overtaken switch and a merge each need two. Two tasks
reach every pair of orders; what is proved (section 5) holds for any number.
Faults, commands and tokens issued are counters in the guards (`Max...`), because
each repeats without end in the program; one of each suffices to separate the
copies of a token, and a second issued token lets an old answer be applied over
a newer one. In `ProxySwitch` and `WsBridge` the loops are shorter than in the
code (`MaxRetries` 2 or 3 for 5, `CompactRounds` 2 for 5, `CapacityRetries` 0 or
1 for 3, `Attempts` 2 for 3): every loop is left by its counter and by every
other exit, and with three subscriptions a chain meets more accounts than one
attempt marks. Two frames reach every pair of kinds of items in a stream, which
is what interleaving is about. Two events of `Antigravity` are, for instance, a
deletion on the server and the push of a whole record the client has from the
start, a login and a selection, or a selection and a full pull beside a request. A
pull and a push of `WindowPriming` count as two events, which leaves one for a
crash, a failed save, a query or an import before, between or after them; a random
simulation with eight events and four ticks (130 million states) found no violation either.
`Start` fixes which account is current at first,
since the accounts are alike. Where requests run once the system stops when they
have ended and the run does not check for deadlock; the liveness properties say
that none hangs.

**Fairness.** `TokenRotation`: a task that holds the lock goes on (weak
fairness), because every send ends, by its 15-second timeout at the latest;
and a waiter gets the lock (strong fairness), because tokio's Mutex is a FIFO
queue. `AnchorDisk`: a write that was begun goes on and its holder frees the
mutex (weak); the 4-minute loop wakes up and blocks for the mutex, so it is not
starved by commands that take the mutex in between (strong, `Tick` and
`Restamp`/`AnchorRotated`). No user, request, failure or restart is fair.
`ProxySwitch`: a request or a preemptive switch that can take a step takes one
(weak), because the runtime polls every task whose future is ready and an answer
comes or the connection breaks; the proxy's client has no overall timeout, so an
upstream that keeps a connection open and silent for ever is assumed away.
`RemoteSwitch`: requests, commands and loops of a host go on (weak), because
their calls have timeouts; the server's moves, failures, new quotas, the user and
the Plus watch, which may find nothing to do, are not fair.
`WsBridge`: a handshake goes on (weak), an open bridge owes nothing.
`RelayStream`: the timer fires and the client reads (weak); the upstream and
the task that reads it owe nothing, that is what the watchdog is for.
`ChatInbound`: a request goes on (weak). `AccountSync`, `WindowPriming` and
`Antigravity` state no liveness: their instances are spent on the orders of
steps.
`AnchorHeals` starts from an anchor that stays the current account:
for any other anchor the loop needs the network, whose answers are not fair.

## 5. Proofs

`TokenRotationProofs`, for any accounts, tasks and bounds under the named
assumptions (kinds of tasks are disjoint, `Free` and `NoAccount` are not among
them):

* `TypeCorrect`.
* `OneRotationHolds`: a task in the critical section is the holder of its
  account's lock, so two such tasks on one account are the same.
* `LiveTokenIsHeld`: the property itself is not inductive, because any single copy
  may be old. The invariant (`ChainInv`) says where the live token of an account
  that is not forked is: in the answer of the task that holds the lock; if there
  is none, in the cache; and if the cache is empty, no rotation has happened in
  this process and every copy, the snapshots of the tasks included, is live
  (`AllCopiesLive`). Applying, syncing and dropping touch neither the answer nor
  the cache.
* `NeverReusedHolds`: the second attempt of a refresh uses the cache, which
  under the lock is live for an account that is not forked.
* `KeepsChainHolds`, the refinement: the abstract token is live before and after
  every step that leaves it held (`HoldsLive`, from `ChainInv`), so a step may only
  stutter, rotate (`Rotated`, by the task that holds the lock) or fork the chain
  (`DriftStep`: the CLI, a lost answer, a restart between answer and write).
* `OnlyRevokedMarkedHolds`, assuming `Requests = {}`: `MarkInv` says that a verdict
  "logged out" which a task carries is about the account it asked for and that
  this session has ended. The assumption cannot be dropped: a proxy request marks
  whatever account is current by then (section 7). The run `rotation_loops` makes
  it too.

`AnchorDiskProofs`, for any accounts, processes, commands and bounds:

* the inductive invariant `IInv` adds to the properties that any two anchors are
  equal and that the mutex is kept over a write only (`LockCoversWrite`).
  Without the second, `Commit` could make an account current that was deleted
  after `switch_to` looked it up; without the first, `Cardinality` would have to
  be carried through every step.
* `TypeCorrect`, `CurrentIsKnown`, `OneAnchorHolds`, `SwitchKeepsTheAnchor`.

`ProxySwitchProofs`, for any accounts, requests, sessions, routes and bounds:

* the invariant `IInv` adds to the types that a request which acts on its target
  has one, and that targets are relays only with `relay_auto_switch_in`
  (`TargetKnown`, `BackTargetKnown`): the pick and the switch are two steps, and
  nothing but the pick may fill what the switch uses. `TypeCorrect` follows, and
  with a look at who may move `current` (`HandlersMoveCurrent`) and who may take
  a token (`HandlersSend`) `AutoAvoidsRelaysHolds` and
  `SessionsStayOffRelaysHolds`.
* `OneSwitcherHolds`: `OneHolder` says the property of the two kinds of holders
  separately; every handler leaves the flag, releases it or wins it
  (`HandlersUseFlag`).
* `GivesUpOnHealthyHolds`: only `Restore` and `RestoreFails` leave the place
  `restore` (`OnlyOwnStepsLeaveRestore`). The theorem has the exception the code
  has: a switch back that fails is logged and nothing else is tried
  (`proxy.rs:4518-4522`).

`AccountSyncProofs`, for any hosts, accounts, logins, faults and commands:

* `Commanding` says what a command of a host relies on between its requests: it
  has a record where it is about to push one, the login it renames or writes is
  settled (the server has it, or a user deleted it), and what it removes was
  deleted by a user. `Round` says the same of the prune: a record that the
  fetched ids lack is still to be pushed, could not be pushed, is young, or came
  from the server after the ids did.
* `TypeCorrect`, `UniqueLoginHolds`, `NoLoginLostHolds`. That the pointer names
  an account of the list, or one that a fast sync has put back, is inductive with
  the types. `NoLoginLost` is not
  inductive alone: the rename and the prune delete a record because of what an
  earlier answer said, and only `Commanding` and `Round` carry that over.

`WsBridgeProofs`, for any connections, accounts, attempts, retries, turns and
refusals:

* `StoreOK` counts: while queries for a candidate's quota are answered, every mark
  is paid for by a refusal. `TasksOK` says what a connection relies on: what the
  bridge remembers of a call to a tool covers what the client was told of it; there
  is a token and a target where the code counts on one; a turn is under way on open
  sockets only; and a loop over candidates is repeated only with an attempt left.
* `TypeCorrect`, `ToolCallIsNotCutHolds` (for calls in a form of `Detected`), and
  `OneMarkHolds`, which assumes
  `ProbeFaults = FALSE`: a failed query takes the candidate out of the pool too.

`RelayStreamProofs`, for any frames, any number of them, transports and cutoffs:

* `CutWhenSilentHolds`: the heartbeats counted are those since the client's last
  event (`WatchInv`: `silent = idle`), the first event changes the cutoff and sets
  the count back in the same step, and bytes that are no event do neither.
* `FramesInOrderHolds`: `FrameInv` says that the buffer and the network together
  hold, two halves each, exactly the frames sent and not taken yet; only after
  the end of the connection may the last one lack its blank line. That each read
  leaves this queue as it is, that a buffer with a frame has it in its first two
  halves (`FirstFrame`), and that Google's last lines get a blank line only if they
  lack one (`EofFrames`) is what a wrong cut in the buffer would break.
* `AnswerWellFormedHolds`, `UnfinishedNotCompletedHolds`, `TypeOKHolds`: all three
  follow from what the translator's state owes to the events it put out
  (`AnswerInv`). Every item has one owner, the text, the reasoning or a tool
  (`Owned`); what was announced of it is what the state still holds of it
  (`Hist`, `Texts`); the items announced and not done are those the end of the
  answer will close (`Open`). `AnswerWellFormed` alone says nothing of the state,
  so no step would follow from it. `EndedInv` says the same once the answer is over:
  completed, incomplete or failed, or cut without an end, and nothing after it.
* `NextRequestIsWholeHolds` needs two more facts of a completed answer: an item that
  was announced for reasoning has some (`Reasoned`), so that `process_input_item`,
  which skips an empty reasoning item, skips none of the answer (`Sendable`, a part of
  `EndedInv`). Google's answers are left out: their carrier is an empty reasoning item,
  and their next request goes through a second conversion (`chat_to_gemini_request`),
  which is not modelled. The message is then built item by item (`ItemsJoin`), and one
  more for each call (`OutputsJoin`).
* A chunk with several deltas to tools, the closing of every open item, the
  text of an item and the messages of a request are recursive functions, and the
  proofs about them inductions on their length (`Recursion` shows that each exists). The library's rule takes an operator, so the module
  has a rule for sets of numbers (`Induction`), from a least element of every
  nonempty set (`LeastNat`), which is the library's well-foundedness of `<`.

`ChatInboundProofs`, for any requests, sessions, accounts, answers and switches:

* `PickInv` says where a request has an account and a token and that one which
  names its account has neither a refresh nor a switch left. `AnswerInv` ties the
  budget for empty answers to the answers the request got: it is spent by the
  first blank one and by nothing else.
* `TypeCorrect`, `EmptyMeansEmptyHolds`, `NamedAccountServesHolds`.

`AntigravityProofs`, for any hosts, accounts, requests and loops:

* the invariant names what the lists, the pointers, the sets of marks, the locks
  and the tasks rely on (`StoresOK`, `PointerOK`, `SetsOK`, `LocksOK`, `TasksOK`,
  `RequestsOK`). A pointer stays in its list under every pull, prune and deletion,
  and a lock is held by the task that stands at the refresh of its account:
  `TypeCorrect`.
* `SecretsKeptHolds` needs `CopiesOK`: what the client holds whole, or has asked for
  and not stored yet, existed on the server, so that a login never meets a deleted
  account, and a push of a whole record brings back what had left the server before.
* `ChoiceKeptHolds` needs `WishesOK`: a request remembers the pointer it began with,
  and one that is overruled began with another account than the one chosen. `Leaving`
  goes through all steps and says which of them move a pointer away from an account the
  host still has: an answer and the user. Pulls, mirrors, logins and prunes do not.

Proved but in no run: `OneRotation`, `OneAnchor`, `SwitchKeepsAnchor` and
`AutoAvoidsRelays`, which follow for every instance at once.

Only model-checked, and why:

* the liveness properties `RefreshEnds`, `AnchorHeals`, `RequestsEnd`, `Converges`,
  `HandshakeEnds`, `StreamEnds`, `InboundEnds`: fairness and ENABLED are out of the
  prover's reach;
* `TypeOK` of `RemoteSwitch` and of `WindowPriming`, which nothing else rests on;
* `AtMostOnce` and `WatermarksAdvance`. Both say what holds as long as no push has
  brought an older quota than the server has had (`older`). Without this exception
  they are false, within the bounds of the run: `window_prime_due` compares `last !=
  reset` (`lib.rs:2206`), so a watermark protects against the window it names and no
  other. A client copies the account in window 1, the server queries window 2 and warms
  it, and the copy is pushed: handle_upsert takes the copy's cached quota with the
  reset of window 1, keeps the watermark of window 2, and window 1, long over, is due.
  It is warmed a second time and the watermark goes back. With the exception
  an inductive invariant would have to relate the quota and the watermarks of memory,
  disk and copy through failed saves and crashes; none was found that is small enough
  to prove, so there is no theorem.

## 6. Not modelled

* Parsing, wording, HTTP, authentication and the frontend: no property above
  depends on them. The dialects are translated as far as `RelayStream` says.
* Login flows, bulk import, skills, referrals, tray, IDE control: they end in one
  operation of the store. Logs and counters only record.
* `relay_catalog.rs`, `provider_quirks.rs`, the tool schemas: functions without
  state of one request.
* Refresh locks (`refresh_lock.rs`): only switch_account takes one
  (`lib.rs:1571-1584`), around a section that the store's mutex already makes one
  step.
* The solo heartbeat and its TTL, the TTL of session bindings, the cache of the
  URL that answers: clocks that only end what another event may end at any
  time.
* accounts.json torn by a crash in the middle of its rewrite (`account.rs:1276`):
  a save is one step here.

## 7. Where the code differs from what it says

Met while modelling. The modules do what the code does; where it matters to a
property, the run says which instance leaves it out.

| Code | What it does | What is said of it |
|---|---|---|
| `proxy.rs:3597` | after an awaited refresh the mark goes to `store.current` as it is by then; a switch in between makes that a healthy account. `OnlyRevokedMarked` is checked beside the loops, which mark the account they refreshed | only a clear signal marks an account, a good one must not be marked by mistake (`proxy.rs:3571-3576`) |
| `proxy.rs:3491`, 3700, 3891, 4345, 4358, 5785, 5822, 5922 | marks after 402, 403 and 429 go to `store.current` | the cooldown is for this one account (`proxy.rs:2456-2457`) |
| `proxy.rs:4776` | asks whether the file may be written under the mutex and writes after it; an anchor set in between loses its file until its loop runs (`AnchorHeals`) | the anchor owns auth.json (`account.rs:433-434`) |
| `account.rs:1359` | all writers share one `auth.tmp`, so one can rename what another one wrote, whose own rename then fails | an atomic write (`account.rs:1358`) |
| `proxy.rs:5430-5440` | `switching` is cleared after an awaited chain, without a drop guard: a client that hangs up leaves it set, and no guarded switch runs again before a restart | whoever finds the flag set waits for somebody who is switching (`proxy.rs:5404`) |
| `proxy.rs:5822` | a refusal inside a stream switches although the session is on a hard route | a hard route does not cause a switch (`session_routes.rs:6-8`, `proxy.rs:3354`) |
| `proxy.rs:4146` | later rounds of a client's chain still name the account of the first round, so the server's compare-and-set refuses and the request repeats on the refused account (4125) | "after the n-th switch of the server still limited, once more" (`proxy.rs:4201-4202`) |
| `lib.rs:1881` | on a host that owns its pointer the fast loop puts back the account it captured before two awaited calls | the user of such a host decides on `current`, the server does not (`lib.rs:2608-2611`, 66-67) |
| `lib.rs:1881` | the account put back may have been deleted, renamed or pruned meanwhile: the pointer then names none of the list (`revived`, in `AccountSync`) | deleting the current account moves the pointer to another one (`account.rs:1587-1590`) |
| `lib.rs:1859` | if get_current fails, the round goes on with the captured account and makes it current again, over what was adopted meanwhile | the round aligns the host with the server's current account (`lib.rs:1843`) |
| `lib.rs:2696` | the Plus watch at the end of the quota loop runs on a client too and moves the host's own pointer and file; on a host that follows its server each round of the fast loop moves them back, as long as the account looks ready. `Converges` excepts this | such a host follows the server's current account (`lib.rs:66-74`) |
| `proxy.rs:4520` | if the switch back to a usable account fails, the error is printed and the flagged account stays current (`GivesUpOnHealthy` excepts it) | after a chain that failed current must not stay on a bad account (`proxy.rs:4462-4466`) |
| `proxy.rs:7326` | only function_call and tool_call are looked for, so an answer that has begun a custom_tool_call or a local_shell_call is ended by a synthetic response.completed; both are calls to tools in `relay_translate.rs:363-364`, 188, 1262, 1493 (`ToolCallIsNotCut` excepts them) | no response.completed may be made up while a tool call is under way (`proxy.rs:7288-7289`, 7325) |
| `lib.rs:2206` | a pushed copy with an older quota makes a window due again that was warmed before a later one; it is warmed twice, and its watermark goes back (`AtMostOnce` and `WatermarksAdvance` except what follows such a push) | the watermarks only advance, and an old copy pushed before the next sync must not cause a second request (`remote_server.rs:805-806`, `account.rs:572-573`) |
| `lib.rs:5783`, 5814 | remote_pull_all and remote_pull_all_tokens store the server's whole Google records on a client, refresh tokens included; a later push of such a record skips both guards (`remote_server.rs:767-783`, 810-821), replaces the server's credentials by the client's, or brings a deleted account back (`SecretsKept` excepts it) | a client keeps only mirrors without keys, and the server is the only writer of a Google refresh token (`remote_server.rs:763-766`) and never returns one (341-342) |
| `lib.rs:5783`, `remote_server.rs:1048` | neither selects a Google account on a host that had none | a missing selection falls back to the oldest account (`account.rs:858-881`) |
| `proxy.rs:6390` | a failed query for a candidate's quota marks the candidate as spent; hence `ProbeFaults = FALSE` | a failure of the network takes no account out of the pool (`proxy.rs:6494-6497`) |
| `proxy.rs:4768` | `switch_to` skips the write of the file for every caller while there is an anchor | a manual switch ignores the anchor (the comment at this line) |
