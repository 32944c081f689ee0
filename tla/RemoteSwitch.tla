----------------------------- MODULE RemoteSwitch -----------------------------
(***************************************************************************)
(* Which account is current, on the server and on the hosts that use it     *)
(* (remote_mode "client", no phone anchor), and whose token lies in the     *)
(* auth.json of each host.                                                  *)
(*                                                                         *)
(* A handler of the server is one step under the mutex of its store.  On a  *)
(* host four things run next to each other: the loop that aligns it with    *)
(* the server every 30 seconds, the end of its quota loop, which does the   *)
(* same, a request of codex and a command of the user.  A step is what one  *)
(* of them does between two awaits; a request to the server is one step     *)
(* where the server answers and one where the host uses the answer, so that *)
(* answers are used late.                                                   *)
(*                                                                         *)
(* A token is its version: the server rotates it.  Anchors are AnchorDisk,  *)
(* the list of accounts is AccountSync, the local switch chain ProxySwitch. *)
(***************************************************************************)
EXTENDS Naturals, FiniteSets

CONSTANTS
    Hosts, Accounts, NoAccount,
    Owners,         \* hosts with client_owns_current
    Loops,          \* which loops run: "fast", "quota"
    Plus,           \* accounts with a Plus plan
    Empty,          \* accounts the upstream refuses for want of quota
    KnownAtFirst,   \* accounts every host has
    Attempts,       \* MAX_429_RETRIES
    MaxRequests, MaxCommands, MaxFaults, MaxRotations, MaxWindows,    \* bounds
    MaxEvents       \* bound: all of these together

ASSUME RemoteAssumption ==
    /\ Owners \subseteq Hosts
    /\ NoAccount \notin Accounts
    /\ Loops \subseteq {"fast", "quota"}
    /\ Plus \subseteq Accounts
    /\ Empty \subseteq Accounts
    /\ KnownAtFirst \subseteq Accounts /\ KnownAtFirst # {}
    /\ Attempts \in Nat \ {0}
    /\ {MaxRequests, MaxCommands, MaxFaults, MaxRotations, MaxWindows,
        MaxEvents} \subseteq Nat

VARIABLES
    scur,      \* AccountStore.current of the server
    stok,      \* the version of every account's token on the server
    spent,     \* accounts whose cached quota the server took to zero
    hcur,      \* AccountStore.current of each host
    known,     \* AccountStore.accounts of each host
    htok,      \* the versions each host holds
    ready,     \* the Plus accounts whose five-hour window each host believes full
    disk,      \* auth.json of each host
    sync,      \* the loops of each host
    req,       \* the request of each host
    user,      \* the command of each host's user
    used       \* how much of each bound is used

vars == <<scur, stok, spent, hcur, known, htok, ready, disk, sync, req, user, used>>
server == <<scur, stok, spent>>
host == <<hcur, known, htok, ready, disk>>

Versions == 0..MaxRotations
Followers == Hosts \ Owners

File == [acct : Accounts, ver : Versions]
Asleep == [pc |-> "idle", cid |-> NoAccount, ver |-> 0]
NoRequest == [pc |-> "idle", kind |-> "chain", acct |-> NoAccount,
              from |-> NoAccount, ver |-> 0, round |-> 0]
NoCommand == [pc |-> "idle", acct |-> NoAccount]

\* Type invariant.  The server is the only one to rotate: no store of a host
\* and no auth.json is ever ahead of it, even when it cannot be reached
\* (proxy.rs:184-194).
TypeOK ==
    /\ scur \in Accounts
    /\ stok \in [Accounts -> Versions]
    /\ spent \subseteq Accounts
    /\ hcur \in [Hosts -> Accounts]
    /\ known \in [Hosts -> SUBSET Accounts]
    /\ htok \in [Hosts -> [Accounts -> Versions]]
    /\ ready \in [Hosts -> SUBSET Plus]
    /\ disk \in [Hosts -> File]
    /\ sync \in [Hosts -> [Loops -> [pc : {"idle", "asked", "got"},
                                     cid : Accounts \cup {NoAccount}, ver : Versions]]]
    /\ req \in [Hosts -> [pc : {"idle", "token", "tokengot", "sent", "ask", "adopt",
                                "adoptgot", "resend", "resent", "forward", "askonly",
                                "local", "localsent", "refresh"},
                          kind : {"chain", "stream", "fallback"},
                          acct : Accounts \cup {NoAccount},
                          from : Accounts \cup {NoAccount},
                          ver : Versions, round : 0..Attempts]]
    /\ user \in [Hosts -> [pc : {"idle", "push", "pulled", "pulling"},
                           acct : Accounts \cup {NoAccount}]]
    /\ used \in [requests : 0..MaxRequests, commands : 0..MaxCommands,
                 faults : 0..MaxFaults, rotations : 0..MaxRotations,
                 windows : 0..MaxWindows]
    /\ \A h \in Hosts :
         /\ \A a \in Accounts : htok[h][a] <= stok[a]
         /\ disk[h].ver <= stok[disk[h].acct]

Init ==
    /\ scur \in KnownAtFirst
    /\ stok = [a \in Accounts |-> 0]
    /\ spent = {}
    /\ hcur = [h \in Hosts |-> scur]
    /\ known = [h \in Hosts |-> KnownAtFirst]
    /\ htok = [h \in Hosts |-> [a \in Accounts |-> 0]]
    /\ ready = [h \in Hosts |-> {}]
    /\ disk = [h \in Hosts |-> [acct |-> scur, ver |-> 0]]
    /\ sync = [h \in Hosts |-> [l \in Loops |-> Asleep]]
    /\ req = [h \in Hosts |-> NoRequest]
    /\ user = [h \in Hosts |-> NoCommand]
    /\ used = [requests |-> 0, commands |-> 0, faults |-> 0, rotations |-> 0,
               windows |-> 0]

Events == used.requests + used.commands + used.faults + used.rotations + used.windows

Spend(what, max) ==
    /\ used[what] < max /\ Events < MaxEvents
    /\ used' = [used EXCEPT ![what] = @ + 1]

Fault == Spend("faults", MaxFaults)
Command == Spend("commands", MaxCommands)

(***************************************************************************)
(* The server.                                                             *)
(***************************************************************************)
\* handle_switch answers "already_switched" unless `from` is what it has.
Stale(from) == from # scur

\* The accounts score_candidate_accounts still returns.
Candidates(marked) == Accounts \ (marked \cup {scur})

\* handle_switch for a request refused under `from`; `marks` says whether the
\* label takes the old account's quota to zero.  `into` is what it answers,
\* NoAccount for "exhausted".
Switch(from, marks, into) ==
    IF Stale(from) THEN into = scur /\ UNCHANGED server
    ELSE LET marked == IF marks THEN spent \cup {scur} ELSE spent IN
         /\ spent' = marked
         /\ stok' = stok
         /\ IF Candidates(marked) = {}
            THEN into = NoAccount /\ scur' = scur
            ELSE into \in Candidates(marked) /\ scur' = into

\* The server's own user, its proxy, or its Plus watch.
ServerMoves(a) ==
    /\ Command
    /\ scur' = a
    /\ UNCHANGED <<stok, spent, host, sync, req, user>>

\* A refresher of the server rotates a token.
Rotates(a) ==
    /\ Spend("rotations", MaxRotations)
    /\ stok' = [stok EXCEPT ![a] = @ + 1]
    /\ UNCHANGED <<scur, spent, host, sync, req, user>>

\* The server's quota loop asks again what is left.
Requeries(a) ==
    /\ spent' = IF a \in Empty THEN spent \cup {a} ELSE spent \ {a}
    /\ spent' # spent
    /\ UNCHANGED <<scur, stok, host, sync, req, user, used>>

(***************************************************************************)
(* The loops of a host.                                                    *)
(***************************************************************************)
Set(h, l, r) == sync' = [sync EXCEPT ![h][l] = r]

\* Mutant: the loop asks for its own account, whoever owns the pointer.
SyncAsksOwn(h, l) ==
    /\ sync[h][l].pc = "idle"
    /\ Set(h, l, [Asleep EXCEPT !.pc = "asked", !.cid = hcur[h]])
    /\ UNCHANGED <<server, host, req, user, used>>

\* GET /current; the quota loop only follows, the fast loop also refreshes the
\* token of a current account that the host owns.
SyncAsks(h, l) ==
    /\ sync[h][l].pc = "idle"
    /\ l = "quota" => h \in Followers
    /\ Set(h, l, [Asleep EXCEPT !.pc = "asked",
                                !.cid = IF h \in Followers THEN scur ELSE hcur[h]])
    /\ UNCHANGED <<server, host, req, user, used>>

\* The fast loop goes on with the account it found current when it woke up.
SyncAsksInVain(h) ==
    /\ "fast" \in Loops /\ sync[h]["fast"].pc = "idle"
    /\ h \in Followers
    /\ Fault
    /\ Set(h, "fast", [Asleep EXCEPT !.pc = "asked", !.cid = hcur[h]])
    /\ UNCHANGED <<server, host, req, user>>

\* GET /accounts/:id/token; the quota loop wants to know the account.
SyncFetches(h, l) ==
    LET t == sync[h][l] IN
    /\ t.pc = "asked"
    /\ IF l = "quota" /\ t.cid \notin known[h]
       THEN Set(h, l, Asleep)
       ELSE Set(h, l, [t EXCEPT !.pc = "got", !.ver = stok[t.cid]])
    /\ UNCHANGED <<server, host, req, user, used>>

\* No token, no change.
SyncFails(h, l) ==
    /\ sync[h][l].pc # "idle"
    /\ Fault
    /\ Set(h, l, Asleep)
    /\ UNCHANGED <<server, host, req, user>>

\* sync_account_from_auth_json: an account the host lacks is left alone.
Holds(h, a, v) ==
    htok' = IF a \in known'[h] THEN [htok EXCEPT ![h][a] = v] ELSE htok

Writes(h, a, v) == disk' = [disk EXCEPT ![h] = [acct |-> a, ver |-> v]]

\* The token into the store, the pointer, auth.json.
SyncApplies(h, l) ==
    LET t == sync[h][l] IN
    /\ t.pc = "got"
    /\ known' = known
    /\ Holds(h, t.cid, t.ver)
    /\ hcur' = [hcur EXCEPT ![h] = t.cid]
    /\ Writes(h, t.cid, t.ver)
    /\ Set(h, l, Asleep)
    /\ UNCHANGED <<server, ready, req, user, used>>

\* What a host believes is left on its Plus accounts: /quotas of a round, or a
\* query of its own.
QuotasArrive(h) ==
    /\ \/ /\ Spend("windows", MaxWindows)
          /\ \E a \in Plus \ ready[h] : ready' = [ready EXCEPT ![h] = @ \cup {a}]
       \/ /\ \E a \in ready[h] : ready' = [ready EXCEPT ![h] = @ \ {a}]
          /\ UNCHANGED used
    /\ UNCHANGED <<server, hcur, known, htok, disk, sync, req, user>>

\* switch_to_ready_plus_if_needed ends every round of the quota loop, also of
\* one that could not follow the server or need not; auth.json as by a user.
PlusWatch(h) ==
    /\ "quota" \in Loops /\ sync[h]["quota"].pc = "idle"
    /\ \E a \in (ready[h] \cap known[h]) \ {hcur[h]} :
          /\ hcur' = [hcur EXCEPT ![h] = a]
          /\ Writes(h, a, htok[h][a]) \/ disk' = disk
    /\ UNCHANGED <<server, known, htok, ready, sync, req, user, used>>

(***************************************************************************)
(* The commands of a host's user.                                          *)
(***************************************************************************)
\* switch_account: the store and auth.json, which a hot switch leaves alone.
UserSwitches(h, a) ==
    /\ user[h].pc = "idle"
    /\ Command
    /\ a \in known[h]
    /\ hcur' = [hcur EXCEPT ![h] = a]
    /\ Writes(h, a, htok[h][a]) \/ disk' = disk
    /\ user' = [user EXCEPT ![h] = [pc |-> "push", acct |-> a]]
    /\ UNCHANGED <<scur, stok, spent, known, htok, ready, sync, req>>

\* POST /solo/current, handle_solo_current.
UserPushes(h) ==
    /\ user[h].pc = "push"
    /\ scur' = user[h].acct
    /\ user' = [user EXCEPT ![h] = NoCommand]
    /\ UNCHANGED <<stok, spent, host, sync, req, used>>

PushFails(h) ==
    /\ user[h].pc = "push"
    /\ Fault
    /\ user' = [user EXCEPT ![h] = NoCommand]
    /\ UNCHANGED <<server, host, sync, req>>

\* remote_pull_all_tokens: the list and its tokens.
UserPulls(h) ==
    /\ user[h].pc = "idle"
    /\ Command
    /\ known' = [known EXCEPT ![h] = Accounts]
    /\ htok' = [htok EXCEPT ![h] = stok]
    /\ user' = [user EXCEPT ![h].pc = "pulling"]
    /\ UNCHANGED <<server, hcur, ready, disk, sync, req>>

\* GET /current.
PullAsks(h) ==
    /\ user[h].pc = "pulling"
    /\ user' = [user EXCEPT ![h] = [pc |-> "pulled", acct |-> scur]]
    /\ UNCHANGED <<server, host, sync, req, used>>

\* It moves the pointer whether or not the host owns it.
PullApplies(h) ==
    LET a == user[h].acct IN
    /\ user[h].pc = "pulled"
    /\ Writes(h, a, htok[h][a])
    /\ hcur' = [hcur EXCEPT ![h] = a]
    /\ user' = [user EXCEPT ![h] = NoCommand]
    /\ UNCHANGED <<server, known, htok, ready, sync, req, used>>

(***************************************************************************)
(* A request.                                                              *)
(***************************************************************************)
Req(h, r) == req' = [req EXCEPT ![h] = r]
At(h, pc) == req[h].pc = pc
Go(h, pc) == Req(h, [req[h] EXCEPT !.pc = pc])
Ends(h) == Req(h, NoRequest)

\* handle_request: to the server's proxy, or upstream with the host's token if
\* client_direct_upstream is set at that time.
Begins(h) ==
    /\ At(h, "idle")
    /\ Spend("requests", MaxRequests)
    /\ \E pc \in {"token", "forward"} :
          Req(h, [NoRequest EXCEPT !.pc = pc, !.acct = hcur[h]])
    /\ UNCHANGED <<server, host, sync, user>>

\* get_current_token: from the cache, from the server, or else from the store.
TokenAtHand(h) ==
    /\ At(h, "token")
    /\ Go(h, "sent")
    /\ UNCHANGED <<server, host, sync, user, used>>

TokenFetched(h) ==
    /\ At(h, "token")
    /\ Req(h, [req[h] EXCEPT !.pc = "tokengot", !.ver = stok[req[h].acct]])
    /\ UNCHANGED <<server, host, sync, user, used>>

\* It writes auth.json for the account it began with.
TokenApplied(h) ==
    LET r == req[h] IN
    /\ At(h, "tokengot")
    /\ known' = known
    /\ Holds(h, r.acct, r.ver)
    /\ Writes(h, r.acct, r.ver)
    /\ Go(h, "sent")
    /\ UNCHANGED <<server, hcur, ready, sync, user, used>>

\* The upstream answers, or refuses before or inside the stream: `from` is the
\* account that is current by then.
Answered(h) ==
    /\ At(h, "sent")
    /\ req[h].acct \notin Empty
    /\ Ends(h)
    /\ UNCHANGED <<server, host, sync, user, used>>

Refused(h) ==
    /\ At(h, "sent")
    /\ req[h].acct \in Empty
    /\ \E k \in {"chain", "stream"} :
          Req(h, [req[h] EXCEPT !.pc = "ask", !.kind = k, !.from = hcur[h], !.round = 0])
    /\ UNCHANGED <<server, host, sync, user, used>>

\* 401: the token of the current account is asked of the server anew.
Unauthorized(h) ==
    /\ At(h, "sent")
    /\ Fault
    /\ Req(h, [req[h] EXCEPT !.pc = "refresh", !.acct = hcur[h]])
    /\ UNCHANGED <<server, host, sync, user>>

\* POST /accounts/:id/refresh rotates on the server, the only place that does.
ServerRefreshes(h) ==
    LET a == req[h].acct IN
    /\ At(h, "refresh")
    /\ Spend("rotations", MaxRotations)
    /\ stok' = [stok EXCEPT ![a] = @ + 1]
    /\ Req(h, [req[h] EXCEPT !.pc = "tokengot", !.ver = stok[a] + 1])
    /\ UNCHANGED <<scur, spent, host, sync, user>>

\* Mutant: a host that cannot reach the server rotates the token itself.
RefreshFailsOver(h) ==
    LET a == req[h].acct IN
    /\ At(h, "refresh")
    /\ Spend("rotations", MaxRotations)
    /\ htok' = [htok EXCEPT ![h][a] = @ + 1]
    /\ Ends(h)
    /\ UNCHANGED <<server, hcur, known, ready, disk, sync, user>>

\* A host never does: the 401 is passed on.
RefreshFails(h) ==
    /\ At(h, "refresh")
    /\ Ends(h)
    /\ UNCHANGED <<server, host, sync, user, used>>

\* POST /switch.  A limit reported inside a stream, the first time or after a
\* repeat, marks nothing; the labels of the other refusals do.
Asks(h) ==
    LET r == req[h] IN
    /\ At(h, "ask")
    /\ \E into \in Accounts \cup {NoAccount}, marks \in {FALSE, r.kind = "chain"} :
          /\ Switch(r.from, marks, into)
          /\ IF into # NoAccount THEN Req(h, [r EXCEPT !.pc = "adopt", !.acct = into])
             ELSE IF r.kind = "stream" THEN Ends(h) ELSE Go(h, "local")
    /\ UNCHANGED <<host, sync, user, used>>

GivesUp(h) == IF req[h].kind = "stream" THEN Ends(h)
              ELSE Req(h, [req[h] EXCEPT !.pc = "local", !.round = 0])

\* The server cannot be reached, before or after it obeyed.
AskFails(h) ==
    LET r == req[h] IN
    /\ r.pc \in {"ask", "adopt"}
    /\ Fault
    /\ \/ UNCHANGED server
       \/ /\ r.pc = "ask"
          /\ \E into \in Accounts \cup {NoAccount}, marks \in {FALSE, r.kind = "chain"} :
                Switch(r.from, marks, into)
    /\ GivesUp(h)
    /\ UNCHANGED <<host, sync, user>>

\* adopt_remote_current.
AdoptFetches(h) ==
    /\ At(h, "adopt")
    /\ Req(h, [req[h] EXCEPT !.pc = "adoptgot", !.ver = stok[req[h].acct]])
    /\ UNCHANGED <<server, host, sync, user, used>>

\* An account the host lacks is looked for in the server's list first.
AdoptApplies(h) ==
    LET r == req[h] IN
    /\ At(h, "adoptgot")
    /\ known' = IF r.acct \in known[h] THEN known ELSE [known EXCEPT ![h] = Accounts]
    /\ Holds(h, r.acct, r.ver)
    /\ hcur' = [hcur EXCEPT ![h] = r.acct]
    /\ Writes(h, r.acct, r.ver)
    /\ Go(h, "resend")
    /\ UNCHANGED <<server, ready, sync, user, used>>

\* get_current_token once more: whichever account is current now.
Resends(h) ==
    /\ At(h, "resend")
    /\ Req(h, [req[h] EXCEPT !.pc = "resent", !.acct = hcur[h]])
    /\ UNCHANGED <<server, host, sync, user, used>>

\* The next attempt names the account the first one left.
ResentAnswers(h) ==
    LET r == req[h] IN
    /\ At(h, "resent")
    /\ IF r.acct \notin Empty THEN Ends(h)
       ELSE IF r.kind = "chain" /\ r.round + 1 < Attempts
       THEN Req(h, [r EXCEPT !.pc = "ask", !.round = @ + 1])
       ELSE GivesUp(h)
    /\ UNCHANGED <<server, host, sync, user, used>>

\* do_switch of the local chain and of try_local_fallback.
LocalSwitches(h) ==
    /\ At(h, "local")
    /\ \E a \in known[h] \ {hcur[h]} :
          /\ hcur' = [hcur EXCEPT ![h] = a]
          /\ Writes(h, a, htok[h][a]) \/ disk' = disk
          /\ Req(h, [req[h] EXCEPT !.pc = "localsent", !.acct = a])
    /\ UNCHANGED <<server, known, htok, ready, sync, user, used>>

LocalGivesUp(h) ==
    /\ At(h, "local")
    /\ Ends(h)
    /\ UNCHANGED <<server, host, sync, user, used>>

LocalAnswers(h) ==
    LET r == req[h] IN
    /\ At(h, "localsent")
    /\ IF r.acct \notin Empty \/ r.kind = "fallback" \/ r.round + 1 >= Attempts
       THEN Ends(h)
       ELSE Req(h, [r EXCEPT !.pc = "local", !.round = @ + 1])
    /\ UNCHANGED <<server, host, sync, user, used>>

\* forward_to_server_with_silent_retry: the server's current account answers.
Forwarded(h) ==
    LET r == req[h] IN
    /\ At(h, "forward")
    /\ IF scur \in Empty /\ r.round < Attempts THEN Go(h, "askonly") ELSE Ends(h)
    /\ UNCHANGED <<server, host, sync, user, used>>

\* 402 leads to the local fallback, a server out of reach to the local path.
ForwardFails(h) ==
    /\ At(h, "forward")
    /\ Fault
    /\ \/ Req(h, [req[h] EXCEPT !.pc = "local", !.kind = "fallback"])
       \/ Req(h, [req[h] EXCEPT !.pc = "token", !.acct = hcur[h]])
    /\ UNCHANGED <<server, host, sync, user>>

\* call_remote_switch_silently names the host's current account and adopts
\* nothing; whatever it answers, the request is forwarded again.
AsksOnly(h) ==
    LET r == req[h] IN
    /\ At(h, "askonly")
    /\ \E into \in Accounts \cup {NoAccount} : Switch(hcur[h], TRUE, into)
    /\ Req(h, [r EXCEPT !.pc = "forward", !.round = @ + 1])
    /\ UNCHANGED <<host, sync, user, used>>

AsksOnlyFails(h) ==
    /\ At(h, "askonly")
    /\ Fault
    /\ Req(h, [req[h] EXCEPT !.pc = "forward", !.round = @ + 1])
    /\ UNCHANGED <<server, host, sync, user>>

Request(h) ==
    \/ TokenAtHand(h) \/ TokenFetched(h) \/ TokenApplied(h)
    \/ Answered(h) \/ Refused(h) \/ ServerRefreshes(h) \/ RefreshFails(h)
    \/ Asks(h) \/ AdoptFetches(h) \/ AdoptApplies(h) \/ Resends(h) \/ ResentAnswers(h)
    \/ LocalSwitches(h) \/ LocalGivesUp(h) \/ LocalAnswers(h)
    \/ Forwarded(h) \/ AsksOnly(h)

RequestFault(h) ==
    Unauthorized(h) \/ AskFails(h) \/ ForwardFails(h) \/ AsksOnlyFails(h)

Sync(h, l) == SyncAsks(h, l) \/ SyncFetches(h, l) \/ SyncApplies(h, l)
User(h) == UserPushes(h) \/ PullAsks(h) \/ PullApplies(h)

Next ==
    \/ \E a \in Accounts : ServerMoves(a) \/ Rotates(a) \/ Requeries(a)
    \/ \E h \in Hosts, l \in Loops : Sync(h, l) \/ SyncFails(h, l)
    \/ \E h \in Hosts, a \in Accounts : UserSwitches(h, a)
    \/ \E h \in Hosts : SyncAsksInVain(h) \/ QuotasArrive(h) \/ PlusWatch(h)
    \/ \E h \in Hosts : User(h) \/ PushFails(h) \/ UserPulls(h)
                        \/ Begins(h) \/ Request(h) \/ RequestFault(h)

Spec == Init /\ [][Next]_vars

\* The loops keep running; a request or a command that waits for an answer gets
\* one or an error, all of them have timeouts.
FairSpec ==
    /\ Spec
    /\ \A h \in Hosts : WF_vars(Request(h)) /\ WF_vars(User(h))
    /\ \A h \in Hosts, l \in Loops : WF_vars(Sync(h, l))

(***************************************************************************)
(* Properties.                                                             *)
(***************************************************************************)
\* Once nobody switches, rotates or fails any more, a host that follows the
\* server has its current account and, in auth.json, the newest token of it,
\* whatever late answers, local fallbacks and captured pointers were applied in
\* between, unless its Plus watch keeps seeing another account with a full
\* window: then each loop undoes what the other did, for ever
\* (do_one_fast_auth_sync, lib.rs:1817-1908; lib.rs:2696).
Converges ==
    \A h \in Followers :
        <>[](ready[h] \subseteq {scur}) =>
            <>[](hcur[h] = scur /\ disk[h] = [acct |-> scur, ver |-> stok[scur]])

==============================================================================
