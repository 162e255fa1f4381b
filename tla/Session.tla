------------------------------- MODULE Session -------------------------------
(***************************************************************************)
(* Accounts and refresh tokens: Register, Login, RefreshSession and Logout *)
(* (application/src/use_cases/auth) over Postgres.  Register and Refresh   *)
(* run in a unit of work, one transaction that commits at the end or is    *)
(* dropped; Login and Logout are single auto-committed statements.         *)
(*                                                                         *)
(* A request that issues a token gives it its own name, and a Register     *)
(* request also names the account it creates.  Who has deleted a row or    *)
(* inserted a unique key without having committed follows from the         *)
(* program counters, so row locks are not variables.  Passwords are        *)
(* checked outside: a login may always be refused.                         *)
(***************************************************************************)
EXTENDS Integers, FiniteSets

CONSTANTS Registers, Logins, Refreshers, Logouts,  \* requests
          Emails, Usernames

ASSUME SessionAssumption ==
  /\ Registers \cap (Logins \cup Refreshers \cup Logouts) = {}
  /\ Logins \cap (Refreshers \cup Logouts) = {}
  /\ Refreshers \cap Logouts = {}

Tokens       == Registers \cup Logins \cup Refreshers
AuthRequests == Tokens \cup Logouts
Users        == Registers

VARIABLES
  \* Inputs, fixed from the start.
  identity,  \* the email and username each Register request asks for
  loginAs,   \* the account each Login request names
  presented, \* the token each Refresh or Logout request presents
  \* Committed tables.
  users,     \* accounts
  tokens,    \* rows of refresh_tokens
  owner,     \* the account of each token issued
  expired,   \* tokens past their expires_at
  stage      \* where each request stands

inputs      == <<identity, loginAs, presented>>
sessionVars == <<inputs, users, tokens, owner, expired, stage>>

\* The owner of a token not yet issued.
NoUser == "nobody"

Identity == [email : Emails, username : Usernames]
States   == {"idle", "checked", "inserted", "found", "deleted", "done", "rejected"}

SessionTypeOK ==
  /\ identity \in [Registers -> Identity]
  /\ loginAs \in [Logins -> Users]
  /\ presented \in [Refreshers \cup Logouts -> Tokens]
  /\ users \subseteq Users
  /\ tokens \subseteq Tokens
  /\ owner \in [Tokens -> Users \cup {NoUser}]
  /\ expired \subseteq Tokens
  /\ stage \in [AuthRequests -> States]

SessionInit ==
  /\ identity \in [Registers -> Identity]
  /\ loginAs \in [Logins -> Users]
  /\ presented \in [Refreshers \cup Logouts -> Tokens]
  /\ users = {}
  /\ tokens = {}
  /\ owner = [t \in Tokens |-> NoUser]
  /\ expired = {}
  /\ stage = [r \in AuthRequests |-> "idle"]

-----------------------------------------------------------------------------

Becomes(r, state) == stage' = [stage EXCEPT ![r] = state]

\* The request ends in an error; its open transaction, if any, rolls back.
Reject(r) ==
  /\ Becomes(r, "rejected")
  /\ UNCHANGED <<inputs, users, tokens, owner, expired>>

SameIdentity(a, b) ==
  identity[a].email = identity[b].email \/ identity[a].username = identity[b].username

-----------------------------------------------------------------------------
(* Register *)

Taken(r) == \E u \in users : SameIdentity(u, r)

\* The two friendly lookups inside the transaction.
RegisterCheck(r) ==
  /\ stage[r] = "idle"
  /\ \/ /\ ~Taken(r)
        /\ Becomes(r, "checked")
        /\ UNCHANGED <<inputs, users, tokens, owner, expired>>
     \/ Taken(r) /\ Reject(r)

\* Mutant: a table without the UNIQUE constraints.
RegisterInsertAnyway(r) ==
  /\ stage[r] = "checked"
  /\ Becomes(r, "inserted")
  /\ UNCHANGED <<inputs, users, tokens, owner, expired>>

\* The INSERT waits for an open transaction that has inserted the same email
\* or username, and fails when one has committed it.
RegisterInsert(r) ==
  /\ stage[r] = "checked"
  /\ \A o \in Registers \ {r} : stage[o] = "inserted" => ~SameIdentity(o, r)
  /\ \/ /\ ~Taken(r)
        /\ Becomes(r, "inserted")
        /\ UNCHANGED <<inputs, users, tokens, owner, expired>>
     \/ Taken(r) /\ Reject(r)

\* issue inserts the first token; the commit makes both visible.
RegisterCommit(r) ==
  /\ stage[r] = "inserted"
  /\ users' = users \cup {r}
  /\ tokens' = tokens \cup {r}
  /\ owner' = [owner EXCEPT ![r] = r]
  /\ Becomes(r, "done")
  /\ UNCHANGED <<inputs, expired>>

-----------------------------------------------------------------------------
(* Login *)

Login(l) ==
  /\ stage[l] = "idle"
  /\ \/ /\ loginAs[l] \in users
        /\ tokens' = tokens \cup {l}
        /\ owner' = [owner EXCEPT ![l] = loginAs[l]]
        /\ Becomes(l, "done")
        /\ UNCHANGED <<inputs, users, expired>>
     \/ Reject(l)

-----------------------------------------------------------------------------
(* Refresh and Logout *)

\* Transactions that have deleted the token's row and are still open.
Deleters(t) == {f \in Refreshers : stage[f] = "deleted" /\ presented[f] = t}

\* A client presents a token it was given; the table may know it no more.
Presents(r) == stage[r] = "idle" /\ stage[presented[r]] = "done"

\* find_by_token_hash.
RefreshFind(f) ==
  /\ Presents(f)
  /\ \/ /\ presented[f] \in tokens
        /\ Becomes(f, "found")
        /\ UNCHANGED <<inputs, users, tokens, owner, expired>>
     \/ presented[f] \notin tokens /\ Reject(f)

\* Mutant: the answer of delete is ignored.
RefreshDeleteUnchecked(f) ==
  /\ stage[f] = "found"
  /\ Deleters(presented[f]) = {}
  /\ Becomes(f, "deleted")
  /\ UNCHANGED <<inputs, users, tokens, owner, expired>>

\* Mutant: the delete runs on the pool, outside the unit of work.
RefreshDeleteOutsideTx(f) ==
  /\ stage[f] = "found"
  /\ \/ /\ presented[f] \in tokens
        /\ Becomes(f, "deleted")
        /\ tokens' = tokens \ {presented[f]}
        /\ UNCHANGED <<inputs, users, owner, expired>>
     \/ presented[f] \notin tokens /\ Reject(f)

\* The DELETE waits for an open transaction that has deleted the row, and
\* affects no row when one has committed that.
RefreshDelete(f) ==
  /\ stage[f] = "found"
  /\ Deleters(presented[f]) = {}
  /\ \/ /\ presented[f] \in tokens
        /\ Becomes(f, "deleted")
        /\ UNCHANGED <<inputs, users, tokens, owner, expired>>
     \/ presented[f] \notin tokens /\ Reject(f)

\* A stale token: its deletion is kept and the request refused.
RefreshExpired(f) ==
  /\ stage[f] = "deleted"
  /\ presented[f] \in expired
  /\ tokens' = tokens \ {presented[f]}
  /\ Becomes(f, "rejected")
  /\ UNCHANGED <<inputs, users, owner, expired>>

\* The user is found, a new token inserted, and both writes committed.
RefreshCommit(f) ==
  /\ stage[f] = "deleted"
  /\ presented[f] \notin expired
  /\ owner[presented[f]] \in users
  /\ tokens' = (tokens \ {presented[f]}) \cup {f}
  /\ owner' = [owner EXCEPT ![f] = owner[presented[f]]]
  /\ Becomes(f, "done")
  /\ UNCHANGED <<inputs, users, expired>>

\* find_by_token_hash; an unknown token is no error.
LogoutFind(o) ==
  /\ Presents(o)
  /\ Becomes(o, IF presented[o] \in tokens THEN "found" ELSE "done")
  /\ UNCHANGED <<inputs, users, tokens, owner, expired>>

\* Mutant: a row somebody has locked is taken for gone.
LogoutDeleteSkipLocked(o) ==
  /\ stage[o] = "found"
  /\ tokens' = IF Deleters(presented[o]) = {} THEN tokens \ {presented[o]} ELSE tokens
  /\ Becomes(o, "done")
  /\ UNCHANGED <<inputs, users, owner, expired>>

\* The auto-committed DELETE waits for the row; deleting nothing is fine.
LogoutDelete(o) ==
  /\ stage[o] = "found"
  /\ Deleters(presented[o]) = {}
  /\ tokens' = tokens \ {presented[o]}
  /\ Becomes(o, "done")
  /\ UNCHANGED <<inputs, users, owner, expired>>

-----------------------------------------------------------------------------

\* expires_at passes.
TokenExpires(t) ==
  /\ t \in tokens \ expired
  /\ expired' = expired \cup {t}
  /\ UNCHANGED <<inputs, users, tokens, owner, stage>>

\* A storage error or a dropped request.
FailRequest(r) == stage[r] \in {"checked", "inserted", "found", "deleted"} /\ Reject(r)

RegisterStep(r) == RegisterCheck(r) \/ RegisterInsert(r) \/ RegisterCommit(r)
RefreshStep(f)  == RefreshFind(f) \/ RefreshDelete(f) \/ RefreshExpired(f) \/ RefreshCommit(f)
LogoutStep(o)   == LogoutFind(o) \/ LogoutDelete(o)

SessionNext ==
  \/ \E r \in Registers : RegisterStep(r)
  \/ \E l \in Logins : Login(l)
  \/ \E f \in Refreshers : RefreshStep(f)
  \/ \E o \in Logouts : LogoutStep(o)
  \/ \E r \in AuthRequests : FailRequest(r)
  \/ \E t \in Tokens : TokenExpires(t)

SessionSpec == SessionInit /\ [][SessionNext]_sessionVars

-----------------------------------------------------------------------------
(* Properties *)

\* A refresh token is exchanged at most once, however many requests present it
\* at a time (refresh.rs: "only one transaction's DELETE reports an affected
\* row").
SingleUse ==
  \A f, g \in Refreshers :
    (stage[f] = "done" /\ stage[g] = "done" /\ presented[f] = presented[g]) => f = g

\* After a logout was answered its token opens no session: it is gone, and no
\* exchange of it is still under way.
LogoutRevokes ==
  \A o \in Logouts : stage[o] = "done" =>
    presented[o] \notin tokens /\ Deleters(presented[o]) = {}

\* A session does not get lost: a token that has left the table was exchanged,
\* logged out or expired, never just dropped by a request that failed.
NoSessionLost ==
  \A t \in Tokens : (stage[t] = "done" /\ t \notin tokens) =>
    \/ t \in expired
    \/ \E f \in Refreshers : stage[f] = "done" /\ presented[f] = t
    \/ \E o \in Logouts : stage[o] = "done" /\ presented[o] = t

\* No two accounts share an email or a username, also when registrations race
\* past each other's checks (register.rs: they "hit the DB unique constraints").
IdentitiesUnique ==
  \A a, b \in users : SameIdentity(a, b) => a = b

-----------------------------------------------------------------------------
(* The inductive invariant behind them *)

\* A token in the table was issued, to an account that exists.
TokensIssued ==
  /\ \A t \in tokens : stage[t] = "done" /\ owner[t] \in users
  /\ \A u \in users : stage[u] = "done"

\* An open exchange holds the only claim on a row still in the table; one that
\* is done has taken its token out for good.
ExchangesSound ==
  /\ \A f \in Refreshers : stage[f] = "deleted" =>
       presented[f] \in tokens /\ Deleters(presented[f]) = {f}
  /\ \A f \in Refreshers : stage[f] = "done" => presented[f] \notin tokens
  /\ \A r \in Refreshers \cup Logouts :
       stage[r] \in {"found", "deleted", "done"} => stage[presented[r]] = "done"

\* An open registration is the only one with its email and username.
RegistrationsSound ==
  \A r \in Registers : stage[r] = "inserted" =>
    /\ ~Taken(r)
    /\ \A o \in Registers : (stage[o] = "inserted" /\ SameIdentity(o, r)) => o = r

SessionInv ==
  /\ SessionTypeOK
  /\ TokensIssued
  /\ ExchangesSound
  /\ RegistrationsSound
  /\ SingleUse
  /\ LogoutRevokes
  /\ NoSessionLost
  /\ IdentitiesUnique
=============================================================================
