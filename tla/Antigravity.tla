---------------------------- MODULE Antigravity ----------------------------
(***************************************************************************)
(* The Google (Antigravity) accounts of two hosts: the server, which holds *)
(* their refresh tokens, and a client, which has mirrors without tokens,   *)
(* or whole records when its user pulls everything, and leases short-lived *)
(* tokens from the server.  A request goes from account to account; the    *)
(* account that answers becomes the selected one unless the user has       *)
(* chosen meanwhile.                                                       *)
(*                                                                         *)
(* One model of Google's is modelled, as used up or not.  A step runs from *)
(* one await to the next.                                                  *)
(***************************************************************************)
EXTENDS Naturals

CONSTANTS
    Accounts,    \* the Google accounts
    NoAccount,
    Free,        \* the value of a lock nobody holds
    Requests,    \* requests to a proxy, each on the server or on the client
    Loops,       \* refresh loops of the server's catalog
    Born,        \* bound: the accounts that exist at the start
    Flagged,     \* accounts that are banned, logged out or invalid
    MaxEvents    \* bound: commands, changes of the quota upstream, tokens that
                 \* expire and calls that fail

Hosts == {"server", "client"}
Tasks == Requests \cup Loops

ASSUME GoogleAssumption ==
    /\ Born \subseteq Accounts /\ Flagged \subseteq Accounts
    /\ NoAccount \notin Accounts /\ Free \notin Tasks /\ Requests \cap Loops = {}
    /\ MaxEvents \in Nat

VARIABLES
    google,     \* the Google accounts in each host's store
    selected,   \* current_antigravity_account_id of each host
    exhausted,  \* accounts whose stored model_quotas say: used up
    secret,     \* accounts whose refresh token the server holds
    whole,      \* accounts whose record on the client has it too
    expired,    \* accounts whose stored access token has expired
    leased,     \* REMOTE_ANTIGRAVITY_TOKEN_CACHE: usable entries
    lock,       \* antigravity_refresh_locks: the holder per account
    spent,      \* upstream: accounts without quota
    pc, acct,   \* of each task: where it is, its account
    todo,       \* routes, ids: accounts the task has still to try
    read,       \* what fetch_model_quotas returned to a loop
    host, warm, \* of each request: its host; a prewarm
    at,         \* selected_at_start
    armed,      \* routes that came with a refresh token
    forced,     \* the lease was asked for with force_refresh
    tails,      \* refreshes after a success, not yet written
    pages,      \* what the client's two loops, and its user, got from the server
    joining,    \* accounts just created for the client
    born,       \* accounts that ever existed
    began,      \* ghost: the pointer when the request came
    choice,     \* ghost: what the user of each host selected last
    overruled,  \* ghost: requests under way when the user selected another
                \* account than the one they began with
    leaked,     \* ghost: accounts whose refresh token the client ever had
    wiped,      \* ghost: accounts that were deleted on the server
    events

copies == <<whole, leaked, wiped>>
stores == <<google, selected, exhausted, secret, expired, born, copies>>
wishes == <<began, choice, overruled>>
request == <<host, warm, at, armed, forced, tails, wishes>>
loops == <<read, pages, joining>>
vars == <<stores, request, loops, leased, lock, spent, pc, acct, todo, events>>

Usable(h) == google[h] \ Flagged

\* GET /quotas, GET /antigravity/accounts and GET /accounts.
Replies == {"quotas", "mirror", "all"}

Init ==
    /\ google = [h \in Hosts |-> Born] /\ secret = Born /\ born = Born
    /\ whole \in {{}, Born} /\ leaked = whole /\ wiped = {}
    /\ selected \in [Hosts -> IF Born = {} THEN {NoAccount} ELSE Born]
    /\ exhausted = [h \in Hosts |-> {}]
    /\ expired \in SUBSET Born /\ leased = {} /\ spent = {}
    /\ lock = [a \in Accounts |-> Free]
    /\ pc = [t \in Tasks |-> IF t \in Loops THEN "route" ELSE "new"]
    /\ acct = [t \in Tasks |-> NoAccount] /\ todo = [t \in Tasks |-> {}]
    /\ read = [q \in Loops |-> "none"]
    /\ host \in [Requests -> Hosts]
    /\ warm = [r \in Requests |-> FALSE] /\ at = [r \in Requests |-> NoAccount]
    /\ forced = [t \in Tasks |-> FALSE]
    /\ tails = [r \in Requests |-> {}]
    /\ armed = [r \in Requests |-> {}]
    /\ began = [r \in Requests |-> NoAccount]
    /\ choice = [h \in Hosts |-> NoAccount] /\ overruled = {}
    /\ pages = [x \in Replies |-> {}] /\ joining = {}
    /\ events = 0

Go(t, label) == pc' = [pc EXCEPT ![t] = label]
MoveOn(t) == Go(t, "route") /\ acct' = [acct EXCEPT ![t] = NoAccount]
GoOn(t, label) == Go(t, label) /\ UNCHANGED acct

Event == events < MaxEvents /\ events' = events + 1

\* Mutant: the pointer keeps naming the account that was removed.
EnsuredStale(accounts, id) == IF id # NoAccount \/ accounts = {} THEN {id} ELSE accounts

\* ensure_current_antigravity_account: what it may leave in the pointer; the
\* oldest account, whichever that is.
Ensured(accounts, id) ==
    IF id \in accounts THEN {id} ELSE IF accounts = {} THEN {NoAccount} ELSE accounts

\* The store of a host has these accounts from now on.
Keep(h, accounts) ==
    /\ google' = [google EXCEPT ![h] = accounts]
    /\ \E id \in Ensured(accounts, selected[h]) : selected' = [selected EXCEPT ![h] = id]

(***************************************************************************)
(* A request: its routes                                                   *)
(***************************************************************************)
\* antigravity_routes
Routes(h) == Usable(h) \ exhausted[h]

\* The answer or the error of the last account is sent; what the request
\* remembered goes with it.
End(r) ==
    /\ Go(r, "over")
    /\ acct' = [acct EXCEPT ![r] = NoAccount] /\ todo' = [todo EXCEPT ![r] = {}]
    /\ at' = [at EXCEPT ![r] = NoAccount] /\ armed' = [armed EXCEPT ![r] = {}]
    /\ forced' = [forced EXCEPT ![r] = FALSE]
    /\ began' = [began EXCEPT ![r] = NoAccount] /\ overruled' = overruled \ {r}
    /\ UNCHANGED choice

Kept == UNCHANGED <<at, armed, forced, wishes>>
Stays == Kept /\ UNCHANGED <<acct, todo>>

Arrive(r) ==
    /\ pc[r] = "new"
    /\ IF Routes(host[r]) = {}
       THEN End(r)
       ELSE /\ at' = [at EXCEPT ![r] = selected[host[r]]]
            /\ began' = [began EXCEPT ![r] = selected[host[r]]]
            /\ armed' = [armed EXCEPT ![r] =
                            Routes(host[r]) \cap IF host[r] = "client" THEN whole ELSE secret]
            /\ todo' = [todo EXCEPT ![r] = Routes(host[r])]
            /\ Go(r, "route") /\ UNCHANGED <<acct, forced, choice, overruled>>
    /\ UNCHANGED <<stores, host, warm, tails, loops, leased, lock, spent, events>>

\* google_prewarm_target: the selected account, on a client only.
Prewarm(r) ==
    /\ pc[r] = "new" /\ host[r] = "client" /\ selected["client"] \in Usable("client")
    /\ warm' = [warm EXCEPT ![r] = TRUE]
    /\ todo' = [todo EXCEPT ![r] = {selected["client"]}]
    /\ Go(r, "route")
    /\ UNCHANGED <<stores, host, at, armed, forced, tails, wishes, loops, leased, lock, spent,
                   acct, events>>

\* The next route: the selected account first, the others by quota and age.
\* A client leases a token unless it has one; the server itself refreshes its
\* own, with what the store held when the request came, and without the lock.
Take(t) ==
    /\ pc[t] = "route" /\ todo[t] # {}
    /\ \E a \in IF t \in Requests /\ at[t] \in todo[t] THEN {at[t]} ELSE todo[t] :
         /\ acct' = [acct EXCEPT ![t] = a] /\ todo' = [todo EXCEPT ![t] = @ \ {a}]
         /\ Go(t, IF t \in Loops THEN "lease"
                  ELSE IF host[t] = "client"
                       THEN IF a \notin leased THEN "lease" ELSE IF warm[t] THEN "route" ELSE "send"
                  ELSE IF a \in expired THEN "renew" ELSE "send")
    /\ forced' = [forced EXCEPT ![t] = FALSE]
    /\ UNCHANGED <<stores, host, warm, at, armed, tails, wishes, loops, leased, lock, spent, events>>

\* No account is left: the error of the last one.
GiveUp(r) ==
    /\ pc[r] = "route" /\ todo[r] = {}
    /\ End(r)
    /\ UNCHANGED <<stores, host, warm, tails, loops, leased, lock, spent, events>>

\* refresh_antigravity_route_if_needed on the server: refreshed and written
\* back, unless the account is gone.
Renew(r) ==
    /\ pc[r] = "renew"
    /\ \/ /\ acct[r] \in google["server"]
          /\ expired' = expired \ {acct[r]}
          /\ GoOn(r, "send") /\ UNCHANGED events
       \/ acct[r] \notin google["server"] /\ MoveOn(r) /\ UNCHANGED <<expired, events>>
       \/ Event /\ MoveOn(r) /\ UNCHANGED expired
    /\ UNCHANGED <<google, selected, exhausted, secret, born, copies, request, loops, leased,
                   lock, spent, todo>>

(***************************************************************************)
(* antigravity_token_for_store: a lease, under the account's lock          *)
(***************************************************************************)
\* The token reaches a client, or the loop that asked for it.
Leased(t) ==
    /\ GoOn(t, IF t \in Loops THEN "fetch" ELSE IF warm[t] THEN "route" ELSE "send")
    /\ leased' = IF t \in Loops THEN leased ELSE leased \cup {acct[t]}

\* The store is read once the lock is there: a token that another task has
\* refreshed meanwhile is handed out as it is.
Lease(t) ==
    /\ pc[t] = "lease" /\ lock[acct[t]] = Free
    /\ IF acct[t] \notin google["server"] \cap secret
       THEN MoveOn(t) /\ UNCHANGED <<leased, lock>>
       ELSE IF forced[t] \/ acct[t] \in expired
       THEN /\ lock' = [lock EXCEPT ![acct[t]] = t]
            /\ GoOn(t, "refresh") /\ UNCHANGED leased
       ELSE Leased(t) /\ UNCHANGED lock
    /\ UNCHANGED <<stores, request, loops, spent, todo, events>>

Refreshed(t) ==
    /\ pc[t] = "refresh"
    /\ lock' = [lock EXCEPT ![acct[t]] = Free]
    /\ IF acct[t] \in google["server"]
       THEN expired' = expired \ {acct[t]} /\ Leased(t)
       ELSE MoveOn(t) /\ UNCHANGED <<expired, leased>>
    /\ UNCHANGED <<google, selected, exhausted, secret, born, copies, request, loops, spent,
                   todo, events>>

\* The server or Google cannot be reached.  The handler is dropped with the
\* connection, and its guard with it.
LeaseFails(t) ==
    /\ pc[t] \in {"lease", "refresh"} /\ Event
    /\ lock' = IF pc[t] = "refresh" THEN [lock EXCEPT ![acct[t]] = Free] ELSE lock
    /\ MoveOn(t)
    /\ UNCHANGED <<stores, request, loops, leased, spent, todo>>

(***************************************************************************)
(* A request: the answers                                                  *)
(***************************************************************************)
\* 401 on a route without a refresh token, a client's: the token is leased once
\* more, by force.  Otherwise, and for the second time, it is a status like any
\* other.
Answer401(r) ==
    /\ pc[r] = "send"
    /\ IF acct[r] \notin armed[r] /\ ~forced[r]
       THEN /\ leased' = leased \ {acct[r]} /\ forced' = [forced EXCEPT ![r] = TRUE]
            /\ GoOn(r, "lease")
       ELSE MoveOn(r) /\ UNCHANGED <<leased, forced>>
    /\ UNCHANGED <<stores, host, warm, at, armed, tails, wishes, loops, lock, spent, todo, events>>

\* 429: mark_model_exhausted.  The mark keeps the stored time of the reset: if
\* that has passed the account stays available.
Answer429(r) ==
    /\ pc[r] = "send" /\ acct[r] \in spent
    /\ LET h == host[r]
       IN  exhausted' \in {exhausted, [exhausted EXCEPT ![h] = @ \cup ({acct[r]} \cap google[h])]}
    /\ MoveOn(r)
    /\ UNCHANGED <<google, selected, secret, expired, born, copies, request, loops, leased,
                   lock, spent, todo, events>>

\* 400 is the request's fault: it is not put to another account.
Answer400(r) ==
    /\ pc[r] = "send"
    /\ End(r)
    /\ UNCHANGED <<stores, host, warm, tails, loops, leased, lock, spent, events>>

\* Another status, or none.
AnswerOther(r) ==
    /\ pc[r] = "send" /\ MoveOn(r)
    /\ UNCHANGED <<stores, request, loops, leased, lock, spent, todo, events>>

\* Mutant: the account that answered is selected whatever the user did.
AdoptBlind(r) ==
    IF acct[r] \in google[host[r]] THEN [selected EXCEPT ![host[r]] = acct[r]] ELSE selected

\* adopt_antigravity_after_success
Adopt(r) ==
    LET h == host[r]
    IN  IF selected[h] = at[r] /\ at[r] # acct[r] /\ acct[r] \in google[h]
        THEN [selected EXCEPT ![h] = acct[r]] ELSE selected

\* 200: the answer is a stream, which is passed on, or a body yet to be read.
Answer200(r) ==
    /\ pc[r] = "send" /\ acct[r] \notin spent
    /\ selected' = Adopt(r)
    /\ tails' = [tails EXCEPT ![r] = @ \cup {<<acct[r], "fetch">>}]
    /\ \/ End(r)
       \/ Go(r, "body") /\ Stays
    /\ UNCHANGED <<google, exhausted, secret, expired, born, copies, host, warm,
                   loops, leased, lock, spent, events>>

\* A body that breaks off sends the request to the next account, although this
\* one has been adopted; one that makes no sense is an error.
Body(r) ==
    /\ pc[r] = "body"
    /\ \/ End(r)
       \/ MoveOn(r) /\ Kept /\ UNCHANGED todo
    /\ UNCHANGED <<stores, host, warm, tails, loops, leased, lock, spent, events>>

\* write_model_quotas, if the account is still there.
Recorded(h, a, used) ==
    IF a \notin google[h] THEN exhausted
    ELSE [exhausted EXCEPT ![h] = IF used = "spent" THEN @ \cup {a} ELSE @ \ {a}]

Quota(a) == IF a \in spent THEN "spent" ELSE "some"

\* schedule_antigravity_success_refresh: the quota is read, and written later;
\* if it cannot be read, only last_used is.
Tail(r) ==
    /\ \E x \in tails[r] :
         \/ /\ x[2] = "fetch"
            /\ \E next \in {{}, {<<x[1], Quota(x[1])>>}} :
                 tails' = [tails EXCEPT ![r] = (@ \ {x}) \cup next]
            /\ UNCHANGED exhausted
         \/ /\ x[2] # "fetch"
            /\ exhausted' = Recorded(host[r], x[1], x[2])
            /\ tails' = [tails EXCEPT ![r] = @ \ {x}]
    /\ UNCHANGED <<google, selected, secret, expired, born, copies, host, warm, at, armed, forced,
                   wishes, loops, leased, lock, spent, pc, acct, todo, events>>

(***************************************************************************)
(* start_antigravity_catalog_refresh on the server                         *)
(***************************************************************************)
\* Every five minutes; an account that fails is tried again in the next round.
Round(q) ==
    /\ pc[q] = "route" /\ todo[q] = {}
    /\ todo' = [todo EXCEPT ![q] = Usable("server")]
    /\ UNCHANGED <<stores, request, loops, leased, lock, spent, pc, acct, events>>

\* fetch_model_quotas: an answer without quotas is an error, not a zero.
Fetch(q) ==
    /\ pc[q] = "fetch"
    /\ \/ read' = [read EXCEPT ![q] = Quota(acct[q])] /\ GoOn(q, "write") /\ UNCHANGED events
       \/ Event /\ MoveOn(q) /\ UNCHANGED read
    /\ UNCHANGED <<stores, request, pages, joining, leased, lock, spent, todo>>

\* refresh_antigravity_quota_local: an account deleted meanwhile stays deleted.
Write(q) ==
    /\ pc[q] = "write"
    /\ exhausted' = Recorded("server", acct[q], read[q])
    /\ read' = [read EXCEPT ![q] = "none"] /\ MoveOn(q)
    /\ UNCHANGED <<google, selected, secret, expired, born, copies, request, pages, joining,
                   leased, lock, spent, todo, events>>

(***************************************************************************)
(* The client's copies of the server's accounts                            *)
(***************************************************************************)
Page == [ids |-> google["server"], used |-> exhausted["server"]]

\* A reply of the server; bound: one of them at a time.  All of it is what a
\* user asks for.
Ask(x) ==
    /\ \A y \in DOMAIN pages : pages[y] = {}
    /\ IF x = "all" THEN Event ELSE UNCHANGED events
    /\ pages' = [pages EXCEPT ![x] = {Page}]
    /\ UNCHANGED <<stores, request, read, joining, leased, lock, spent, pc, acct, todo>>

\* The background pull: the server's quotas replace the client's, and accounts
\* the server no longer has are removed, except young ones.
Pull ==
    /\ pages' = [pages EXCEPT !["quotas"] = {}]
    /\ \E page \in pages["quotas"] :
         LET gone == google["client"] \ page.ids
         IN  \E young \in SUBSET (gone \ Born) :
             /\ Keep("client", google["client"] \ (gone \ young)) /\ whole' = whole \ (gone \ young)
             /\ exhausted' = [exhausted EXCEPT !["client"] =
                                (@ \cap young) \cup (google["client"] \cap page.used)]
    /\ UNCHANGED <<secret, expired, born, leaked, wiped, request, read, joining, leased, lock,
                   spent, pc, acct, todo, events>>

\* The catalog loop of a client: accounts it does not have are added.
Mirror ==
    /\ pages' = [pages EXCEPT !["mirror"] = {}]
    /\ \E page \in pages["mirror"] :
         LET new == page.ids \ google["client"]
         IN  /\ IF page.ids = {} THEN UNCHANGED <<google, selected>>
                ELSE Keep("client", google["client"] \cup new)
             /\ exhausted' = [exhausted EXCEPT !["client"] = @ \cup (new \cap page.used)]
    /\ UNCHANGED <<secret, expired, born, copies, request, read, joining, leased, lock, spent,
                   pc, acct, todo, events>>

\* remote_pull_all, remote_pull_all_tokens: whole records, and nobody looks
\* after the pointer.
PullAll ==
    /\ pages' = [pages EXCEPT !["all"] = {}]
    /\ \E page \in pages["all"] :
         /\ google' = [google EXCEPT !["client"] = @ \cup page.ids]
         /\ whole' = whole \cup page.ids /\ leaked' = leaked \cup page.ids
         /\ exhausted' = [exhausted EXCEPT !["client"] = (@ \ page.ids) \cup page.used]
    /\ UNCHANGED <<selected, secret, expired, born, wiped, request, read, joining, leased, lock, spent,
                   pc, acct, todo, events>>

(***************************************************************************)
(* The users                                                               *)
(***************************************************************************)
\* switch_antigravity_to
Select(h, a) ==
    /\ Event /\ a \in Usable(h)
    /\ selected' = [selected EXCEPT ![h] = a]
    /\ choice' = [choice EXCEPT ![h] = a]
    /\ LET here == {r \in Requests : host[r] = h}
       IN  overruled' = (overruled \ here)
                        \cup {r \in here : pc[r] \notin {"new", "over"} /\ began[r] # a}
    /\ UNCHANGED <<google, exhausted, secret, expired, born, copies, host, warm, at, armed, forced,
                   tails, began, loops, leased, lock, spent, pc, acct, todo>>

\* A login, on the server or for a client: a new account on the server.
Login(a, forClient) ==
    /\ Event /\ a \notin born
    /\ born' = born \cup {a} /\ secret' = secret \cup {a}
    /\ google' = [google EXCEPT !["server"] = @ \cup {a}]
    /\ selected' = [selected EXCEPT !["server"] = IF @ = NoAccount THEN a ELSE @]
    /\ exhausted' = [exhausted EXCEPT !["server"] = IF a \in spent THEN @ \cup {a} ELSE @]
    /\ joining' = IF forClient THEN joining \cup {a} ELSE joining
    /\ UNCHANGED <<expired, copies, request, read, pages, leased, lock, spent, pc, acct, todo>>

\* finalize_antigravity_oauth_login on the client, if the answer arrives: a
\* mirror.
Join(a) ==
    /\ a \in joining /\ joining' = joining \ {a}
    /\ \/ Keep("client", google["client"] \cup {a}) /\ whole' = whole \ {a}
       \/ UNCHANGED <<google, selected, whole>>
    /\ UNCHANGED <<exhausted, secret, expired, born, leaked, wiped, request, read, pages,
                   leased, lock, spent, pc, acct, todo, events>>

\* delete_account; the client's is passed to the server, if that answers.
Delete(h, a, passed) ==
    /\ Event /\ a \in google[h]
    /\ LET on == IF passed THEN Hosts ELSE {h}
       IN  /\ google' = [x \in Hosts |-> IF x \in on THEN google[x] \ {a} ELSE google[x]]
           /\ \E id \in [Hosts -> Accounts \cup {NoAccount}] :
                /\ \A x \in Hosts : IF x \in on /\ selected[x] = a
                                    THEN id[x] \in Ensured(google'[x], NoAccount) ELSE id[x] = selected[x]
                /\ selected' = id
           /\ exhausted' = [x \in Hosts |-> IF x \in on THEN exhausted[x] \ {a} ELSE exhausted[x]]
           /\ secret' = IF "server" \in on THEN secret \ {a} ELSE secret
           /\ expired' = IF "server" \in on THEN expired \ {a} ELSE expired
           /\ wiped' = IF "server" \in on THEN wiped \cup ({a} \cap google["server"]) ELSE wiped
           /\ whole' = IF "client" \in on THEN whole \ {a} ELSE whole
    /\ UNCHANGED <<born, leaked, request, loops, leased, lock, spent, pc, acct, todo>>

\* The record of the client replaces the server's, or creates it; its access
\* token may be an old one.  Nobody looks after the pointer.
Replace(a) ==
    /\ google' = [google EXCEPT !["server"] = @ \cup {a}] /\ secret' = secret \cup {a}
    /\ expired' \in {expired, expired \cup {a}}

\* Mutant: a copy without a token is taken like any other.
PushTokenless(a) ==
    /\ Event /\ a \in google["client"]
    /\ Replace(a)
    /\ exhausted' = [exhausted EXCEPT !["server"] = (@ \ {a}) \cup (exhausted["client"] \cap {a})]
    /\ UNCHANGED <<selected, born, copies, request, loops, leased, lock, spent, pc, acct, todo>>

\* handle_upsert of a client's copy.  One without a token may change the quotas
\* of an account the server has, and cannot create one.
Push(a) ==
    /\ Event /\ a \in google["client"]
    /\ IF a \in whole THEN Replace(a) ELSE UNCHANGED <<google, secret, expired>>
    /\ IF a \in whole \cup google["server"]
       THEN exhausted' = [exhausted EXCEPT !["server"] = (@ \ {a}) \cup (exhausted["client"] \cap {a})]
       ELSE UNCHANGED exhausted
    /\ UNCHANGED <<selected, born, copies, request, loops, leased, lock, spent, pc, acct, todo>>

(***************************************************************************)
(* Google                                                                  *)
(***************************************************************************)
Deplete(a) ==
    /\ Event /\ a \notin spent /\ spent' = spent \cup {a}
    /\ UNCHANGED <<stores, request, loops, leased, lock, pc, acct, todo>>

\* The quota is back; hosts that have stored its time notice by themselves.
Reset(a) ==
    /\ Event /\ a \in spent /\ spent' = spent \ {a}
    /\ \E known \in SUBSET Hosts :
         exhausted' = [h \in Hosts |-> IF h \in known THEN exhausted[h] \ {a} ELSE exhausted[h]]
    /\ UNCHANGED <<google, selected, secret, expired, born, copies, request, loops, leased,
                   lock, pc, acct, todo>>

\* A token comes within five minutes of its end; a leased one is no younger
\* than the stored one.
Expire(a) ==
    /\ Event
    /\ leased' = leased \ {a}
    /\ expired' \in {expired, expired \cup ({a} \cap google["server"])}
    /\ UNCHANGED <<google, selected, exhausted, secret, born, copies, request, loops, lock,
                   spent, pc, acct, todo>>

Serving(t) == Take(t) \/ Lease(t) \/ Refreshed(t) \/ LeaseFails(t)

Asking(r) ==
    \/ Arrive(r) \/ Prewarm(r) \/ GiveUp(r) \/ Renew(r) \/ Serving(r)
    \/ Answer401(r) \/ Answer429(r) \/ Answer400(r) \/ AnswerOther(r) \/ Answer200(r) \/ Body(r)

Looping(q) == Round(q) \/ Serving(q) \/ Fetch(q) \/ Write(q)

Copying == Pull \/ Mirror \/ PullAll \/ \E x \in DOMAIN pages : Ask(x)

Using ==
    \E a \in Accounts :
      \/ \E h \in Hosts : Select(h, a)
      \/ \E forClient \in BOOLEAN : Login(a, forClient)
      \/ Join(a)
      \/ Delete("server", a, FALSE)
      \/ \E passed \in BOOLEAN : Delete("client", a, passed)
      \/ Push(a)

Next ==
    \/ \E r \in Requests : Asking(r) \/ Tail(r)
    \/ \E q \in Loops : Looping(q)
    \/ Copying \/ Using
    \/ \E a \in Accounts : Deplete(a) \/ Reset(a) \/ Expire(a)

Spec == Init /\ [][Next]_vars

(***************************************************************************)
(* Properties                                                              *)
(***************************************************************************)
\* Type invariant: the pointer of a host, if it has one, names one of its
\* accounts, whatever is deleted, pruned, mirrored or pulled under a request
\* (account.rs lines 859-881, 1591-1594), and a lock is held by the one that
\* refreshes.
TypeOK ==
    /\ google \in [Hosts -> SUBSET Accounts]
    /\ \A h \in Hosts : selected[h] \in google[h] \cup {NoAccount}
    /\ \A h \in Hosts : exhausted[h] \subseteq Accounts
    /\ {secret, expired, leased, spent, born, joining, whole, leaked, wiped} \subseteq SUBSET Accounts
    /\ \A a \in Accounts : lock[a] # Free => pc[lock[a]] = "refresh" /\ acct[lock[a]] = a
    /\ \A t \in Tasks : pc[t] = "refresh" => lock[acct[t]] = t
    /\ \A r \in Requests : pc[r] \in {"new", "route", "lease", "refresh", "renew", "send", "body", "over"}
    /\ \A q \in Loops : pc[q] \in {"route", "lease", "refresh", "fetch", "write"}

\* Every Google account of the server has its refresh token, whatever a client
\* pushes, and one that was deleted there comes back only where a client had
\* pulled its whole record (remote_server.rs lines 767-829; lib.rs 5783, 5814).
SecretsKept ==
    /\ google["server"] = secret
    /\ wiped \cap secret \subseteq leaked

\* The account a user chose stays selected until it is gone or the user chooses
\* again.  Answers may move the pointer only for requests that came after the
\* choice or had begun with the account chosen, never for one that was under
\* way with another (account.rs lines 888-889).
ChoiceKept ==
    [][\A h \in Hosts :
         choice[h] # NoAccount /\ selected[h] = choice[h] /\ selected'[h] # choice'[h] =>
           \/ choice[h] \notin google'[h]
           \/ \E r \in Requests \ overruled :
                host[r] = h /\ pc[r] = "send" /\ pc'[r] \in {"body", "over"}]_vars
=============================================================================
