------------------------------ MODULE UserCache ------------------------------
(***************************************************************************)
(* One user's row in Postgres and its copies in Redis: the read-through    *)
(* and write-through CachedUserRepository (infrastructure/.../redis/       *)
(* user_repository.rs and cache.rs), the use cases that load a user, edit  *)
(* a copy and save the whole row back (UpdateUser, UploadAvatar, the       *)
(* demo's top_up and account), and the raw balance changes of bets, whose  *)
(* outbox events evict the copy (events/user_cache.rs).  Also the access   *)
(* tokens, which carry the role the user had when they were issued: a      *)
(* login takes it from the cache, the exchange of a refresh token from the *)
(* database, and until a token expires its role is what requests act with. *)
(*                                                                         *)
(* Every Redis and every database round trip is a step of its own.  No use *)
(* case changes a username or an email, so a user's three keys are fixed.  *)
(***************************************************************************)
EXTENDS Integers, FiniteSets

CONSTANTS Requests,
          Aliases,           \* the keys beside the id: email, username
          Kinds,             \* what requests may do, of AllKinds
          StartingBalance,   \* 10_000 in the code
          MaxChanges         \* bound: balance changes by bets

AllKinds == {"get", "role", "avatar", "top_up", "account", "login", "refresh"}

ASSUME CacheAssumption ==
  /\ Kinds \subseteq AllKinds
  /\ "id" \notin Aliases
  /\ StartingBalance \in Nat
  /\ MaxChanges \in Nat

VARIABLES
  task,       \* what each request does, and the key it looks the user up by
  row,        \* the committed row
  committed,  \* history: every row there has been
  cache,      \* the Redis entry under each key, or Absent
  owed,       \* UserBalanceChanged events not yet delivered
  changes,    \* balance changes by bets so far
  pc, copy,   \* where each request stands; its copy of the user
  adminToken, \* an access token that has not expired carries the admin role
  overtaken,  \* history: requests about to cache a copy that a later commit outdated
  lapse       \* history: how the id's entry escaped its last correction, if it did

history == <<overtaken, lapse>>
vars == <<task, row, committed, cache, owed, changes, pc, copy, adminToken, history>>

Keys    == {"id"} \cup Aliases
Roles   == {"user", "admin"}
Amounts == 0 .. StartingBalance + MaxChanges
User    == [balance : Amounts, role : Roles, avatar : BOOLEAN]
Absent  == [balance |-> -1, role |-> "none", avatar |-> FALSE]

\* User::new.
NewUser == [balance |-> StartingBalance, role |-> "user", avatar |-> FALSE]

\* A plain lookup goes by any key, a login and the demo's account by email, the
\* rest by id.
Tasks ==
  {t \in [kind : Kinds, key : Keys] :
     /\ t.kind \in {"role", "avatar", "top_up", "refresh"} => t.key = "id"
     /\ t.kind \in {"account", "login"} => t.key = "email"}

Running == {"missed", "loaded", "found", "saved"}

\* A request that has read or written the row and goes on to cache its copy.
Caching == {"loaded", "saved"}

TypeOK ==
  /\ task \in [Requests -> Tasks]
  /\ row \in User /\ committed \subseteq User
  /\ cache \in [Keys -> User \cup {Absent}]
  /\ owed \in 0 .. MaxChanges /\ changes \in 0 .. MaxChanges
  /\ pc \in [Requests -> {"idle"} \cup Running \cup {"done", "failed"}]
  /\ copy \in [Requests -> User \cup {Absent}]
  /\ adminToken \in BOOLEAN
  /\ overtaken \subseteq Requests
  /\ lapse \in {"none", "race", "failure"}

Init ==
  /\ task \in [Requests -> Tasks]
  /\ row \in {[NewUser EXCEPT !.role = v] : v \in Roles}
  /\ committed = {row}
  /\ cache = [k \in Keys |-> Absent]
  /\ owed = 0 /\ changes = 0
  /\ pc = [r \in Requests |-> "idle"]
  /\ copy = [r \in Requests |-> Absent]
  /\ adminToken = FALSE
  /\ overtaken = {} /\ lapse = "none"

-----------------------------------------------------------------------------
(* Looking a user up: get_or_load *)

\* The GET: a hit, or a miss, which every cache failure counts as.
Lookup(r) ==
  LET entry == cache[task[r].key] IN
  /\ pc[r] = "idle" /\ task[r].kind # "refresh"
  /\ \/ /\ entry # Absent
        /\ pc' = [pc EXCEPT ![r] = "found"]
        /\ copy' = [copy EXCEPT ![r] = entry]
     \/ /\ pc' = [pc EXCEPT ![r] = "missed"]
        /\ UNCHANGED copy
  /\ UNCHANGED <<task, row, committed, cache, owed, changes, adminToken, history>>

\* The SELECT.
Load(r) ==
  /\ pc[r] = "missed"
  /\ pc' = [pc EXCEPT ![r] = "loaded"]
  /\ copy' = [copy EXCEPT ![r] = row]
  /\ UNCHANGED <<task, row, committed, cache, owed, changes, adminToken, history>>

\* A save that never reaches the cache leaves the id's entry as it was, unless a
\* later commit has taken its correction over.
Missed(r) == IF pc[r] = "saved" /\ r \notin overtaken THEN "failure" ELSE lapse

\* put: a pipeline of SETEX, one per key.  When it fails or times out some of
\* the keys may have been written; the request goes on all the same.
Put(r) ==
  /\ \E ks \in SUBSET Keys :
       /\ cache' = [k \in Keys |-> IF k \in ks THEN copy[r] ELSE cache[k]]
       /\ lapse' = IF "id" \notin ks THEN Missed(r)
                   ELSE IF r \in overtaken THEN "race" ELSE "none"
  /\ overtaken' = overtaken \ {r}

Fill(r) ==
  /\ pc[r] = "loaded"
  /\ Put(r)
  /\ pc' = [pc EXCEPT ![r] = "found"]
  /\ UNCHANGED <<task, row, committed, owed, changes, copy, adminToken>>

\* RefreshSession reads the user in its transaction, past the cache.
LoadInTx(r) ==
  /\ pc[r] = "idle" /\ task[r].kind = "refresh"
  /\ pc' = [pc EXCEPT ![r] = "found"]
  /\ copy' = [copy EXCEPT ![r] = row]
  /\ UNCHANGED <<task, row, committed, cache, owed, changes, adminToken, history>>

-----------------------------------------------------------------------------
(* Editing and saving *)

\* The stake the bettor is about to place, here a whole starting balance.
NeedsTopUp(user) == user.balance < StartingBalance

\* The demo's account gives the user the role it was asked for, if that is another.
RoleCorrections(r) == {[copy[r] EXCEPT !.role = v] : v \in Roles \ {copy[r].role}}

\* What a request may save: set_role to any role, also the one the user has,
\* set_avatar_url, credit up to the starting balance.
Edits(r) ==
  CASE task[r].kind = "role" -> {[copy[r] EXCEPT !.role = v] : v \in Roles}
    [] task[r].kind = "avatar" -> {[copy[r] EXCEPT !.avatar = TRUE]}
    [] task[r].kind = "account" -> RoleCorrections(r)
    [] task[r].kind = "top_up" /\ NeedsTopUp(copy[r]) -> {[copy[r] EXCEPT !.balance = StartingBalance]}
    [] OTHER -> {}

\* A patch is always saved, a top-up when it is needed; the account's role may be
\* the one it was asked for.
MustSave(r) ==
  \/ task[r].kind \in {"role", "avatar"}
  \/ task[r].kind = "top_up" /\ NeedsTopUp(copy[r])

Issues(r) == task[r].kind \in {"login", "refresh"}

\* Login and RefreshSession: the access token carries the role of the copy.
Issue(r) ==
  /\ pc[r] = "found" /\ Issues(r)
  /\ pc' = [pc EXCEPT ![r] = "done"]
  /\ adminToken' = (adminToken \/ copy[r].role = "admin")
  /\ UNCHANGED <<task, row, committed, cache, owed, changes, copy, history>>

\* Nothing to save: the request returns its copy.
Return(r) ==
  /\ pc[r] = "found" /\ ~MustSave(r) /\ ~Issues(r)
  /\ pc' = [pc EXCEPT ![r] = "done"]
  /\ UNCHANGED <<task, row, committed, cache, owed, changes, copy, adminToken, history>>

\* Mutant: the cache is refreshed although the database refused the save.
SaveIgnoringError(r) ==
  /\ pc[r] = "found"
  /\ \E user \in Edits(r) : copy' = [copy EXCEPT ![r] = user]
  /\ pc' = [pc EXCEPT ![r] = "saved"]
  /\ UNCHANGED <<task, row, committed, cache, owed, changes, adminToken, history>>

\* A commit outdates every copy on its way into the cache.
Outdated == {q \in Requests : pc[q] \in Caching}

\* save_user: the upsert writes every column from the copy.
Save(r) ==
  /\ pc[r] = "found"
  /\ \E user \in Edits(r) :
       /\ copy' = [copy EXCEPT ![r] = user]
       /\ row' = user
       /\ committed' = committed \cup {user}
  /\ overtaken' = Outdated
  /\ pc' = [pc EXCEPT ![r] = "saved"]
  /\ UNCHANGED <<task, cache, owed, changes, adminToken, lapse>>

\* The write-through half of save.
Refresh(r) ==
  /\ pc[r] = "saved"
  /\ Put(r)
  /\ pc' = [pc EXCEPT ![r] = "done"]
  /\ UNCHANGED <<task, row, committed, owed, changes, copy, adminToken>>

\* A storage error or a dropped request.
Fail(r) ==
  /\ pc[r] \in Running
  /\ pc' = [pc EXCEPT ![r] = "failed"]
  /\ lapse' = Missed(r) /\ overtaken' = overtaken \ {r}
  /\ UNCHANGED <<task, row, committed, cache, owed, changes, copy, adminToken>>

Step(r) ==
  \/ Lookup(r) \/ Load(r) \/ Fill(r) \/ LoadInTx(r)
  \/ Issue(r) \/ Return(r) \/ Save(r) \/ Refresh(r)

-----------------------------------------------------------------------------
(* Bets, evictions, expiry *)

\* A stake or a payout commits, and its event with it (Betting).
BalanceCommit(d) ==
  /\ changes < MaxChanges
  /\ row.balance + d \in Amounts
  /\ row' = [row EXCEPT !.balance = @ + d]
  /\ committed' = committed \cup {row'}
  /\ owed' = owed + 1
  /\ changes' = changes + 1
  /\ overtaken' = Outdated
  /\ UNCHANGED <<task, cache, pc, copy, adminToken, lapse>>

\* Mutant: the event's user is evicted under the wrong key.
EvictAliasOnly ==
  /\ owed > 0
  /\ cache' = [k \in Keys |-> IF k \in Aliases THEN Absent ELSE cache[k]]
  /\ owed' \in {owed - 1, owed}
  /\ UNCHANGED <<task, row, committed, changes, pc, copy, adminToken, history>>

\* UserCacheInvalidator: the DEL of the id's entry.  An unconfirmed one, done
\* or not, leaves the event pending.
Evict ==
  /\ owed > 0
  /\ cache' = [cache EXCEPT !["id"] = Absent]
  /\ owed' \in {owed - 1, owed}
  /\ lapse' = "none"
  /\ UNCHANGED <<task, row, committed, changes, pc, copy, adminToken, overtaken>>

\* Mutant: the entry under the id is stored without a TTL.
ExpireAliasOnly(k) ==
  /\ k # "id"
  /\ cache[k] # Absent
  /\ cache' = [cache EXCEPT ![k] = Absent]
  /\ UNCHANGED <<task, row, committed, owed, changes, pc, copy, adminToken, history>>

\* The TTL of an entry runs out.
Expire(k) ==
  /\ cache[k] # Absent
  /\ cache' = [cache EXCEPT ![k] = Absent]
  /\ lapse' = IF k = "id" THEN "none" ELSE lapse
  /\ UNCHANGED <<task, row, committed, owed, changes, pc, copy, adminToken, overtaken>>

\* The last access token with the admin role expires; the other role allows
\* nothing that needs a role.
TokensExpire ==
  /\ adminToken
  /\ adminToken' = FALSE
  /\ UNCHANGED <<task, row, committed, cache, owed, changes, pc, copy, history>>

\* CurrentUser and can_manage_markets: an admin's token is enough, the row is
\* not looked at.
MayManageMarkets == adminToken

Next ==
  \/ \E r \in Requests : Step(r) \/ Fail(r)
  \/ \E d \in {-1, 1} : BalanceCommit(d)
  \/ Evict
  \/ \E k \in Keys : Expire(k)
  \/ TokensExpire

Spec == Init /\ [][Next]_vars

\* Requests run on, and every entry's and every token's time runs out.
FairSpec ==
  /\ Spec
  /\ \A r \in Requests : WF_vars(Step(r))
  /\ \A k \in Keys : WF_vars(Expire(k))
  /\ WF_vars(TokensExpire)

-----------------------------------------------------------------------------
(* Properties *)

\* Redis never holds a user that was never committed: a save that the database
\* refuses leaves no trace in the cache.
CacheHoldsCommittedRows == \A k \in Keys : cache[k] \in committed \cup {Absent}

\* So nobody acts with a role that was never given, although a login takes the
\* role from the cache.
TokensWereGranted == MayManageMarkets => \E u \in committed : u.role = "admin"

\* With the types, that a balance is never negative among them.
CacheInv == TypeOK /\ CacheHoldsCommittedRows /\ TokensWereGranted

\* An entry under the id's key that is not the committed row is on its way out or
\* explained: an eviction is owed, or the request that wrote the row is about to
\* cache it; or the last correction did not do its work, because a copy that a
\* later commit had outdated was cached after it (cache.rs fills after the load,
\* save writes through after the upsert), or because a save failed to write
\* through.  Without such a lapse the invalidation is exact.
StaleIsExplained ==
  (cache["id"] # Absent /\ cache["id"] # row) =>
    \/ owed > 0
    \/ \E r \in Requests \ overtaken : pc[r] = "saved"
    \/ lapse # "none"

\* Whatever races happened, the cache comes to agree with the database once the
\* writes are over (redis/user_repository.rs: stale entries live "for at most
\* `ttl`").
CacheSettles == <>[](\A k \in Keys : cache[k] \in {row, Absent})

\* And a role that was taken away is not acted with for ever, whichever stale
\* copy the last login saw.
AccessFollowsRole == <>[](MayManageMarkets => row.role = "admin")

SettlesDown == CacheSettles /\ AccessFollowsRole

\* No run checks this one, because it does not hold (README, "More follows"):
\* a patch changes the field it names and no other (update_user.rs: "a `None`
\* leaves that field untouched, so callers patch only what they send").
PatchTouchesOnlyItsField ==
  [][\A r \in Requests : (pc[r] = "found" /\ pc'[r] = "saved") =>
       /\ task[r].kind = "role" => row'.balance = row.balance /\ row'.avatar = row.avatar
       /\ task[r].kind = "avatar" => row'.balance = row.balance /\ row'.role = row.role]_vars
=============================================================================
