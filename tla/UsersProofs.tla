----------------------------- MODULE UsersProofs -----------------------------
(***************************************************************************)
(* Proofs about the parts that keep users: UserCache, for any number of    *)
(* requests of every kind racing each other, any number of balance changes *)
(* and any alias keys; Demo, whose bots are among those users, for any     *)
(* cast, any questions and any number of faults; Session, for any number   *)
(* of registrations, logins, refreshes and logouts racing each other; and  *)
(* Images, for any number of uploads of one owner, of any types, and any   *)
(* time.                                                                   *)
(***************************************************************************)
EXTENDS UserCache, Demo, Session, Images, FiniteSetTheorems, TLAPS

-----------------------------------------------------------------------------
(* The user cache *)

USE CacheAssumption

\* What a request has loaded, found or saved is a user that was committed, and no
\* change owes two evictions.
CopiesCommitted ==
  /\ row \in committed
  /\ owed <= changes
  /\ \A r \in Requests : pc[r] \in {"loaded", "found", "saved"} => copy[r] \in committed

\* A copy on its way into the cache is the row, unless a commit has outdated it.
CopiesCurrent ==
  /\ overtaken \subseteq Outdated
  /\ \A r \in Outdated \ overtaken : copy[r] = row

\* CacheInv is not inductive by itself: a request fills the cache, and issues
\* tokens, from its copy.
CacheIInv == CacheInv /\ StaleIsExplained /\ CopiesCommitted /\ CopiesCurrent

-----------------------------------------------------------------------------

\* The empty cache satisfies the invariant.
LEMMA InitCache == Init => CacheIInv
<1> SUFFICES ASSUME Init PROVE CacheIInv
  OBVIOUS
<1>1. row \in User /\ committed = {row}
  <2>1. PICK v \in Roles : row = [NewUser EXCEPT !.role = v]
    BY DEF Init
  <2>2. row = [balance |-> StartingBalance, role |-> v, avatar |-> FALSE]
    BY <2>1 DEF NewUser
  <2>3. StartingBalance \in Amounts
    BY DEF Amounts
  <2>4. QED
    BY <2>2, <2>3 DEF Init, User
<1>2. TypeOK
  <2>1. cache \in [Keys -> User \cup {Absent}] /\ copy \in [Requests -> User \cup {Absent}]
    BY DEF Init
  <2>2. task \in [Requests -> Tasks] /\ pc \in [Requests -> {"idle"} \cup Running \cup {"done", "failed"}]
    BY DEF Init
  <2>3. 0 \in 0 .. MaxChanges
    OBVIOUS
  <2>4. row \in User /\ committed \subseteq User
    BY <1>1
  <2>5. owed \in 0 .. MaxChanges /\ changes \in 0 .. MaxChanges
          /\ adminToken \in BOOLEAN
          /\ overtaken \subseteq Requests /\ lapse \in {"none", "race", "failure"}
    BY <2>3 DEF Init
  <2>6. QED
    BY <2>1, <2>2, <2>4, <2>5 DEF TypeOK
<1>3. CacheHoldsCommittedRows /\ TokensWereGranted /\ StaleIsExplained /\ CopiesCommitted
      /\ CopiesCurrent
  BY <1>1 DEF Init, CacheHoldsCommittedRows, TokensWereGranted, MayManageMarkets,
              StaleIsExplained, CopiesCommitted, CopiesCurrent, Outdated, Caching, Keys
<1>4. QED
  BY <1>2, <1>3 DEF CacheIInv, CacheInv

\* An edited copy is a user: the edits keep the role a role and the balance in
\* its bounds.
LEMMA EditedUser ==
  ASSUME NEW r \in Requests, TypeOK, copy[r] \in User, NEW user \in Edits(r)
  PROVE  user \in User
<1>1. copy[r].role \in Roles /\ copy[r].balance \in Amounts /\ copy[r].avatar \in BOOLEAN
  BY DEF User
<1>2. StartingBalance \in Amounts
  BY DEF Amounts
<1>3. \/ \E v \in Roles : user = [copy[r] EXCEPT !.role = v]
      \/ user = [copy[r] EXCEPT !.avatar = TRUE]
      \/ user = [copy[r] EXCEPT !.balance = StartingBalance]
  BY DEF Edits, RoleCorrections
<1>4. QED
  BY <1>1, <1>2, <1>3 DEF User

\* Reading a user, from the cache or the database, leaves the tables alone and
\* gives the request a committed copy.
LEMMA ReadCache ==
  ASSUME CacheIInv, NEW r \in Requests, Lookup(r) \/ Load(r) \/ LoadInTx(r)
  PROVE  CacheIInv'
<1> USE DEF CacheIInv
<1>1. /\ UNCHANGED <<task, row, committed, cache, owed, changes, adminToken, overtaken, lapse>>
      /\ pc[r] \in {"idle", "missed"}
      /\ \E s \in {"missed", "loaded", "found"} : pc' = [pc EXCEPT ![r] = s]
  BY DEF Lookup, Load, LoadInTx, history
<1>2. CacheHoldsCommittedRows' /\ TokensWereGranted' /\ StaleIsExplained' /\ CopiesCurrent'
  <2>1. \A q \in Requests \ {r} : pc'[q] = pc[q] /\ copy'[q] = copy[q]
    BY DEF Lookup, Load, LoadInTx, CacheInv, TypeOK
  <2>2. r \notin Outdated /\ pc'[r] # "saved" /\ (pc'[r] = "loaded" => copy'[r] = row)
    BY <1>1 DEF Lookup, Load, LoadInTx, CacheInv, TypeOK, Outdated, Caching
  <2>3. CopiesCurrent'
    BY <1>1, <2>1, <2>2 DEF CopiesCurrent, Outdated, Caching
  <2>4. StaleIsExplained'
    BY <1>1, <2>1 DEF StaleIsExplained
  <2>5. QED
    BY <1>1, <2>3, <2>4 DEF CacheInv, CacheHoldsCommittedRows, TokensWereGranted, MayManageMarkets
<1>3. TypeOK' /\ CopiesCommitted'
  <2>1. task[r] \in Tasks /\ task[r].key \in Keys
    BY DEF CacheInv, TypeOK, Tasks
  <2>2. CASE Lookup(r)
    <3>1. cache[task[r].key] \in committed \cup {Absent}
      BY <2>1 DEF CacheInv, CacheHoldsCommittedRows
    <3>2. QED
      BY <1>1, <2>1, <2>2, <3>1 DEF CacheInv, TypeOK, CopiesCommitted, Lookup, Running
  <2>3. CASE Load(r) \/ LoadInTx(r)
    BY <1>1, <2>3 DEF CacheInv, TypeOK, CopiesCommitted, Load, LoadInTx, Running
  <2>4. QED
    BY <2>2, <2>3
<1>4. QED
  BY <1>2, <1>3 DEF CacheInv

\* A request that stops caching its copy leaves the other copies as they were.
LEMMA CachingEnds ==
  ASSUME CacheIInv, NEW r \in Requests, pc'[r] \notin Caching, overtaken' = overtaken \ {r},
         \A q \in Requests \ {r} : pc'[q] = pc[q], UNCHANGED <<row, copy>>
  PROVE  CopiesCurrent'
<1>1. Outdated' = Outdated \ {r}
  BY DEF Outdated, Caching
<1>2. QED
  BY <1>1 DEF CacheIInv, CopiesCurrent

\* A pipeline of SETEX, also one that stopped half-way, writes a committed user;
\* one that is out of date, or does not reach the id, is recorded as such.
LEMMA PutCache ==
  ASSUME CacheIInv, NEW r \in Requests, Put(r), pc[r] \in Caching,
         \A q \in Requests \ {r} : pc'[q] = pc[q], UNCHANGED <<row, committed, owed>>
  PROVE  CacheHoldsCommittedRows' /\ StaleIsExplained' /\ cache' \in [Keys -> User \cup {Absent}]
           /\ lapse' \in {"none", "race", "failure"}
<1> USE DEF CacheIInv
<1>1. PICK ks \in SUBSET Keys :
        /\ cache' = [k \in Keys |-> IF k \in ks THEN copy[r] ELSE cache[k]]
        /\ lapse' = IF "id" \notin ks THEN Missed(r)
                    ELSE IF r \in overtaken THEN "race" ELSE "none"
  BY DEF Put
<1>2. copy[r] \in committed /\ "id" \in Keys /\ overtaken' = overtaken \ {r}
  BY DEF CopiesCommitted, Caching, Keys, Put
<1>3. CacheHoldsCommittedRows' /\ cache' \in [Keys -> User \cup {Absent}]
  BY <1>1, <1>2 DEF CacheInv, CacheHoldsCommittedRows, TypeOK
<1>4. lapse' \in {"none", "race", "failure"}
  BY <1>1 DEF CacheInv, TypeOK, Missed
<1>5. StaleIsExplained'
  <2>1. CASE "id" \in ks /\ r \notin overtaken
    <3>1. copy[r] = row
      BY <2>1 DEF CopiesCurrent, Outdated
    <3>2. QED
      BY <1>1, <1>2, <2>1, <3>1 DEF StaleIsExplained
  <2>2. CASE "id" \in ks /\ r \in overtaken
    BY <1>1, <2>2 DEF StaleIsExplained
  <2>3. CASE "id" \notin ks
    <3>1. cache'["id"] = cache["id"] /\ lapse' = Missed(r)
      BY <1>1, <1>2, <2>3
    <3>2. QED
      BY <1>2, <3>1 DEF StaleIsExplained, Missed
  <2>4. QED
    BY <2>1, <2>2, <2>3
<1>6. QED
  BY <1>3, <1>4, <1>5

\* Filling the cache after a load, or writing it through after a save.
LEMMA WriteCache ==
  ASSUME CacheIInv, NEW r \in Requests, Fill(r) \/ Refresh(r)
  PROVE  CacheIInv'
<1> USE DEF CacheIInv
<1>1. /\ Put(r) /\ pc[r] \in Caching /\ pc'[r] \in {"found", "done"}
      /\ \A q \in Requests \ {r} : pc'[q] = pc[q]
      /\ UNCHANGED <<task, row, committed, owed, changes, copy, adminToken>>
  BY DEF Fill, Refresh, Caching, CacheInv, TypeOK
<1>2. /\ CacheHoldsCommittedRows' /\ StaleIsExplained'
      /\ cache' \in [Keys -> User \cup {Absent}] /\ lapse' \in {"none", "race", "failure"}
  BY <1>1, PutCache
<1>3. overtaken' = overtaken \ {r}
  BY <1>1 DEF Put
<1>4. pc' \in [Requests -> {"idle"} \cup Running \cup {"done", "failed"}]
  BY DEF Fill, Refresh, CacheInv, TypeOK, Running
<1>5. TypeOK' /\ TokensWereGranted'
  BY <1>1, <1>2, <1>3, <1>4 DEF CacheInv, TypeOK, TokensWereGranted, MayManageMarkets
<1>6. CopiesCommitted'
  BY <1>1 DEF CopiesCommitted, Caching
<1>7. CopiesCurrent'
  BY <1>1, <1>3, CachingEnds DEF Caching
<1>8. QED
  BY <1>2, <1>5, <1>6, <1>7 DEF CacheInv

\* A save commits the copy it caches later, and outdates every other copy on its
\* way into the cache.
LEMMA SaveCache ==
  ASSUME CacheIInv, NEW r \in Requests, Save(r)
  PROVE  CacheIInv'
<1> USE DEF CacheIInv
<1>1. PICK user \in Edits(r) :
        /\ copy' = [copy EXCEPT ![r] = user] /\ row' = user
        /\ committed' = committed \cup {user}
  BY DEF Save
<1>2. /\ pc[r] = "found" /\ overtaken' = Outdated /\ pc' = [pc EXCEPT ![r] = "saved"]
      /\ UNCHANGED <<task, cache, owed, changes, adminToken, lapse>>
  BY DEF Save
<1>3. user \in User
  <2>1. copy[r] \in User
    BY <1>2 DEF CopiesCommitted, CacheInv, TypeOK
  <2>2. QED
    BY <2>1, EditedUser DEF CacheInv
<1>4. Outdated \subseteq Requests /\ r \notin Outdated
  BY <1>2 DEF Outdated, Caching
<1>5. TypeOK'
  BY <1>1, <1>2, <1>3, <1>4 DEF CacheInv, TypeOK, Running
<1>6. CacheHoldsCommittedRows' /\ TokensWereGranted' /\ CopiesCommitted'
  BY <1>1, <1>2 DEF CacheInv, TypeOK, CacheHoldsCommittedRows, TokensWereGranted, MayManageMarkets,
                    CopiesCommitted
<1>7. Outdated' = Outdated \cup {r} /\ pc'[r] = "saved" /\ copy'[r] = row'
  BY <1>1, <1>2 DEF Outdated, Caching, CacheInv, TypeOK
<1>8. StaleIsExplained' /\ CopiesCurrent'
  BY <1>2, <1>4, <1>7 DEF StaleIsExplained, CopiesCurrent
<1>9. QED
  BY <1>5, <1>6, <1>8 DEF CacheInv

\* A request that ends without a save; a token it issues carries a role of a
\* committed user.
LEMMA EndCache ==
  ASSUME CacheIInv, NEW r \in Requests, Issue(r) \/ Return(r) \/ Fail(r)
  PROVE  CacheIInv'
<1> USE DEF CacheIInv
<1>1. /\ UNCHANGED <<task, row, committed, cache, owed, changes, copy>>
      /\ \E s \in {"done", "failed"} : pc' = [pc EXCEPT ![r] = s]
      /\ lapse' = Missed(r) /\ overtaken' = overtaken \ {r}
  BY DEF Issue, Return, Fail, history, Missed, CopiesCurrent, Outdated, Caching
<1>2. /\ pc'[r] \in {"done", "failed"}
      /\ \A q \in Requests \ {r} : pc'[q] = pc[q]
  BY <1>1 DEF CacheInv, TypeOK
<1>3. TypeOK' /\ CopiesCommitted'
  <2>1. adminToken' \in BOOLEAN
    BY DEF Issue, Return, Fail, CacheInv, TypeOK
  <2>2. QED
    BY <1>1, <1>2, <2>1 DEF CacheInv, TypeOK, CopiesCommitted, Running, Missed
<1>4. CacheHoldsCommittedRows' /\ StaleIsExplained'
  BY <1>1, <1>2 DEF CacheInv, CacheHoldsCommittedRows, StaleIsExplained, Missed
<1>5. TokensWereGranted'
  BY <1>1 DEF Issue, Return, Fail, CacheInv, TokensWereGranted, MayManageMarkets, CopiesCommitted
<1>6. CopiesCurrent'
  BY <1>1, <1>2, CachingEnds DEF Caching
<1>7. QED
  BY <1>3, <1>4, <1>5, <1>6 DEF CacheInv

\* Bets, evictions and expiry.
LEMMA OtherStepsCache ==
  ASSUME CacheIInv,
         \/ \E d \in {-1, 1} : BalanceCommit(d)
         \/ Evict
         \/ \E k \in Keys : Expire(k)
         \/ TokensExpire
  PROVE  CacheIInv'
<1> USE DEF CacheIInv
<1>1. ASSUME NEW d \in {-1, 1}, BalanceCommit(d) PROVE CacheIInv'
  <2>1. row' \in User
    BY <1>1 DEF BalanceCommit, CacheInv, TypeOK, User
  <2>2. changes' \in 0 .. MaxChanges /\ owed' \in 0 .. MaxChanges /\ owed' <= changes' /\ owed' > 0
    BY <1>1 DEF BalanceCommit, CacheInv, TypeOK, CopiesCommitted
  <2>3. Outdated' = Outdated /\ overtaken' = Outdated /\ Outdated \subseteq Requests
    BY <1>1 DEF BalanceCommit, Outdated
  <2>4. TypeOK'
    BY <1>1, <2>1, <2>2, <2>3 DEF BalanceCommit, CacheInv, TypeOK
  <2>5. CacheHoldsCommittedRows' /\ TokensWereGranted'
    BY <1>1 DEF BalanceCommit, CacheInv, CacheHoldsCommittedRows, TokensWereGranted, MayManageMarkets
  <2>6. StaleIsExplained' /\ CopiesCurrent'
    BY <2>2, <2>3 DEF StaleIsExplained, CopiesCurrent
  <2>7. CopiesCommitted'
    BY <1>1, <2>2 DEF BalanceCommit, CacheInv, TypeOK, CopiesCommitted
  <2>8. QED
    BY <2>4, <2>5, <2>6, <2>7 DEF CacheInv
<1>2. CASE Evict
  BY <1>2 DEF Evict, CacheInv, TypeOK, CacheHoldsCommittedRows, TokensWereGranted,
    MayManageMarkets, StaleIsExplained, CopiesCommitted, CopiesCurrent, Outdated, Keys
<1>3. ASSUME NEW k \in Keys, Expire(k) PROVE CacheIInv'
  BY <1>3 DEF Expire, CacheInv, TypeOK, CacheHoldsCommittedRows, TokensWereGranted,
    MayManageMarkets, StaleIsExplained, CopiesCommitted, CopiesCurrent, Outdated, Keys
<1>4. CASE TokensExpire
  BY <1>4 DEF TokensExpire, CacheInv, TypeOK, CacheHoldsCommittedRows, TokensWereGranted,
    MayManageMarkets, StaleIsExplained, CopiesCommitted, CopiesCurrent, Outdated, history
<1>5. QED
  BY <1>1, <1>2, <1>3, <1>4

\* Every step keeps the invariant.
LEMMA NextCache == CacheIInv /\ [Next]_vars => CacheIInv'
<1> SUFFICES ASSUME CacheIInv, [Next]_vars PROVE CacheIInv'
  OBVIOUS
<1>1. CASE UNCHANGED vars
  BY <1>1 DEF vars, history, CacheIInv, CacheInv, TypeOK, CacheHoldsCommittedRows, TokensWereGranted,
    MayManageMarkets, StaleIsExplained, CopiesCommitted, CopiesCurrent, Outdated
<1>2. ASSUME NEW r \in Requests, Step(r) \/ Fail(r) PROVE CacheIInv'
  BY <1>2, ReadCache, WriteCache, SaveCache, EndCache DEF Step
<1>3. QED
  BY <1>1, <1>2, OtherStepsCache DEF Next

\* Redis never holds a user, and an access token never carries a role, that was
\* not committed, although Redis may fail in the middle of every pipeline and
\* the database may refuse every save (CachedUserRepository, Login).
THEOREM CacheSafe == Spec => []CacheInv
<1>1. CacheIInv => CacheInv
  BY DEF CacheIInv
<1>2. QED
  BY <1>1, InitCache, NextCache, PTL DEF Spec

\* An entry under the id that is not the row is owed an eviction or about to be
\* written through by the request that saved the row, unless the last correction
\* was undone by a copy that a later commit had outdated or lost with the cache
\* (UserCacheInvalidator, cache.rs, CachedUserRepository::save).
THEOREM InvalidationExact == Spec => []StaleIsExplained
<1>1. CacheIInv => StaleIsExplained
  BY DEF CacheIInv
<1>2. QED
  BY <1>1, InitCache, NextCache, PTL DEF Spec

-----------------------------------------------------------------------------
(* The demo: its cast *)

USE DemoAssumption

\* The types of what provisioning reads and writes.
CastTypes ==
  /\ phase \in {"down", "provisioning", "running", "disabled"}
  /\ todo \subseteq Names
  /\ looked \in {"unread", "absent", "user", "admin"}
  /\ account \in [Names -> {"none", "user", "admin", "foreign"}]
  /\ faults \in 0 .. MaxFaults

Provisioned(n) == account[n] \in {"user", "admin"}

\* An account is never given up, and while the server provisions, the accounts it is
\* done with are there, and so is the one it has found.
CastInv ==
  /\ CastTypes
  /\ CastComplete
  /\ phase = "provisioning" =>
       /\ \A n \in Names \ todo : Provisioned(n)
       /\ looked \in {"user", "admin"} => \A n \in todo : NextAccount(n) => Provisioned(n)

\* There is one next account.
LEMMA OneNext ==
  ASSUME NEW m, NEW n, NextAccount(m), NextAccount(n)
  PROVE  m = n
BY DEF NextAccount

\* At first no process runs.
LEMMA InitCast == DemoInit => CastInv
BY DEF DemoInit, CastInv, CastTypes, CastComplete

\* Every step keeps the cast together.
LEMMA NextCast == CastInv /\ [DemoNext]_demoVars => CastInv'
<1> SUFFICES ASSUME CastInv, [DemoNext]_demoVars PROVE CastInv'
  OBVIOUS
<1> USE DEF CastInv, CastTypes, CastComplete, Provisioned
<1>1. CASE Start
  BY <1>1 DEF Start
<1>2. ASSUME NEW n \in Names, LookUp(n) PROVE CastInv'
  <2>1. \A m \in todo : NextAccount(m) => m = n
    BY <1>2, OneNext DEF LookUp
  <2>2. looked' \in {"user", "admin"} => Provisioned(n)
    BY <1>2 DEF LookUp
  <2>3. \A m : NextAccount(m)' <=> NextAccount(m)
    BY <1>2 DEF LookUp, NextAccount
  <2>4. CastTypes' /\ phase' = phase /\ todo' = todo /\ account' = account
    BY <1>2 DEF LookUp
  <2>5. QED
    BY <2>1, <2>2, <2>3, <2>4
<1>3. ASSUME NEW n \in Names, Provision(n) PROVE CastInv'
  <2>1. CASE looked = "absent" /\ account[n] # "none"
    BY <1>3, <2>1 DEF Provision
  <2>2. CASE ~(looked = "absent" /\ account[n] # "none")
    <3>1. /\ phase = "provisioning" /\ n \in todo /\ looked # "unread" /\ NextAccount(n)
          /\ account' = IF looked = RoleOf(n) THEN account ELSE [account EXCEPT ![n] = RoleOf(n)]
          /\ todo' = todo \ {n} /\ looked' = "unread" /\ faults' = faults
          /\ phase' = IF todo = {n} THEN "running" ELSE phase
      BY <1>3, <2>2 DEF Provision, NextAccount
    <3>2. RoleOf(n) \in {"user", "admin"}
      BY DEF RoleOf
    <3>3. Provisioned(n)' /\ \A m \in Names : Provisioned(m) => Provisioned(m)'
      BY <3>1, <3>2
    <3>4. \A m \in Names \ todo' : Provisioned(m)'
      BY <3>1, <3>3
    <3>5. phase' = "running" => todo' = {}
      BY <3>1
    <3>6. CastTypes'
      BY <3>1, <3>2
    <3>7. QED
      BY <3>1, <3>4, <3>5, <3>6
  <2>3. QED
    BY <2>1, <2>2
<1>4. CASE ProvisionFails \/ Crash
  BY <1>4 DEF ProvisionFails, Crash
<1>5. ASSUME castVars' = castVars, account' = account, faults' \in 0 .. MaxFaults
      PROVE  CastInv'
  BY <1>5 DEF castVars, NextAccount
<1>6. CASE RoundFails
  BY <1>5, <1>6 DEF RoundFails
<1>7. CASE MakerStep \/ (\E i \in Ids : DeadlinePasses(i)) \/ OthersCreate \/ OthersResolve
           \/ UNCHANGED demoVars
  <2>1. castVars' = castVars /\ account' = account /\ faults' = faults
    BY <1>7 DEF MakerStep, NothingDue, PickExpired, ResolvePicked, ResolveTooLate,
                AnnounceResolved, NothingToOpen, PickTitle, CreatePicked, AnnounceOpened,
                DeadlinePasses, OthersCreate, OthersResolve, demoVars
  <2>2. QED
    BY <1>5, <2>1
<1>8. ASSUME NEW n \in Names, OthersTakeAccount(n) \/ OthersChangeRole(n) PROVE CastInv'
  <2>1. PICK v \in {RoleOf(n), "foreign", "user", "admin"} :
          /\ account' = [account EXCEPT ![n] = v]
          /\ account[n] # "none" => v \in {"user", "admin"}
    BY <1>8 DEF OthersTakeAccount, OthersChangeRole
  <2>2. v \in {"user", "admin", "foreign"}
    BY DEF RoleOf
  <2>3. castVars' = castVars /\ faults' \in 0 .. MaxFaults
    BY <1>8 DEF OthersTakeAccount, OthersChangeRole
  <2>4. \A m \in Names : Provisioned(m) => Provisioned(m)'
    BY <2>1
  <2>5. \A m : NextAccount(m)' <=> NextAccount(m)
    BY <2>3 DEF castVars, NextAccount
  <2>6. CastTypes'
    BY <2>1, <2>2, <2>3 DEF castVars
  <2>7. QED
    BY <2>3, <2>4, <2>5, <2>6 DEF castVars
<1>9. QED
  BY <1>1, <1>2, <1>3, <1>4, <1>6, <1>7, <1>8 DEF DemoNext, CastStep

\* A running simulation has its whole cast, for any cast and any number of faults,
\* however often it was started and whoever else creates or changes the accounts
\* (cast.rs).
THEOREM CastIsWhole == DemoSpec => []CastComplete
<1>1. CastInv => CastComplete
  BY DEF CastInv
<1>2. QED
  BY <1>1, InitCast, NextCast, PTL DEF DemoSpec
-----------------------------------------------------------------------------
(* The demo: its board *)

MarketsOf(b) == {k \in DOMAIN board : board[k].by = b}

\* The k-th open market is the maker's and asks question t.
Asks(k, t) == board[k].by = "maker" /\ board[k].title = t

BoardTypes ==
  board \in Seq([id : Ids, title : Titles, expired : BOOLEAN, by : {"maker", "other"}])

\* What the board is like between steps: its ids tell its markets apart.
BoardSound ==
  /\ BoardTypes
  /\ \A j, k \in DOMAIN board : board[j].id = board[k].id => j = k
  /\ NeverTwiceAtOnce
  /\ Cardinality(MarketsOf("other")) <= MaxOthers

\* Nobody but the maker opens its questions: the one it has picked from its list is
\* still free when it creates the market.
BoardInv ==
  /\ BoardSound
  /\ maker \in MakerStates
  /\ maker.at = "creating" => \A k \in DOMAIN board : ~Asks(k, maker.title)

\* A list shows every open market there can be.
ListsFit == Sample >= Cardinality(Titles) + MaxOthers

\* The open markets, one by one.
LEMMA OpenMarkets ==
  ASSUME BoardTypes
  PROVE  /\ DOMAIN board = 1 .. Len(board) /\ Len(board) \in Nat
         /\ \A k \in DOMAIN board :
              /\ board[k] \in [id : Ids, title : Titles, expired : BOOLEAN, by : {"maker", "other"}]
              /\ board[k].id \in Ids /\ board[k].title \in Titles
              /\ board[k].by \in {"maker", "other"}
<1>1. \A S : \A s \in Seq(S) : \A k \in 1 .. Len(s) : s[k] \in S
  OBVIOUS
<1>2. DOMAIN board = 1 .. Len(board) /\ Len(board) \in Nat
  BY DEF BoardTypes
<1>3. \A k \in DOMAIN board :
        board[k] \in [id : Ids, title : Titles, expired : BOOLEAN, by : {"maker", "other"}]
  BY <1>1, <1>2 DEF BoardTypes
<1>4. QED
  BY <1>2, <1>3

\* As many markets are open as questions and others' markets allow.
LEMMA BoardSize ==
  ASSUME BoardSound
  PROVE  /\ IsFiniteSet(DOMAIN board) /\ Cardinality(DOMAIN board) = Len(board)
         /\ \A b : IsFiniteSet(MarketsOf(b)) /\ Cardinality(MarketsOf(b)) \in Nat
         /\ Cardinality(Titles) \in Nat
         /\ Len(board) <= Cardinality(Titles) + Cardinality(MarketsOf("other"))
<1>1. DOMAIN board = 1 .. Len(board) /\ Len(board) \in Nat
  BY DEF BoardSound, BoardTypes
<1>2. IsFiniteSet(DOMAIN board) /\ Cardinality(DOMAIN board) = Len(board)
  <2>1. PICK n \in Nat : n = Len(board)
    BY <1>1
  <2>2. IsFiniteSet(1 .. n) /\ Cardinality(1 .. n) = IF 1 > n THEN 0 ELSE n - 1 + 1
    BY FS_Interval
  <2>3. QED
    BY <1>1, <2>1, <2>2
<1>3. \A b : MarketsOf(b) \in SUBSET DOMAIN board
  BY DEF MarketsOf
<1>4. \A b : IsFiniteSet(MarketsOf(b)) /\ Cardinality(MarketsOf(b)) \in Nat
  BY <1>2, <1>3, FS_Subset, FS_CardinalityType
<1>5. Cardinality(Titles) \in Nat
  BY FS_CardinalityType
<1>6. PICK f : f = [k \in MarketsOf("maker") |-> board[k].title]
  OBVIOUS
<1>7. f \in Injection(MarketsOf("maker"), Titles)
  <2>1. f \in [MarketsOf("maker") -> Titles]
    BY <1>6, OpenMarkets DEF BoardSound, MarketsOf
  <2>2. \A j, k \in MarketsOf("maker") : f[j] = f[k] => j = k
    BY <1>6 DEF BoardSound, MarketsOf, NeverTwiceAtOnce
  <2>3. QED
    BY <2>1, <2>2 DEF Injection, IsInjective
<1>8. Cardinality(MarketsOf("maker")) <= Cardinality(Titles)
  BY <1>7, FS_Injection
<1>9. DOMAIN board = MarketsOf("maker") \cup MarketsOf("other")
  <2>1. \A k \in DOMAIN board : board[k].by \in {"maker", "other"}
    BY OpenMarkets DEF BoardSound
  <2>2. QED
    BY <2>1 DEF MarketsOf
<1>10. MarketsOf("maker") \cap MarketsOf("other") = {}
  BY DEF MarketsOf
<1>11. Len(board) = Cardinality(MarketsOf("maker")) + Cardinality(MarketsOf("other"))
  <2>1. Cardinality(DOMAIN board) = Cardinality(MarketsOf("maker")) + Cardinality(MarketsOf("other"))
                                      - Cardinality(MarketsOf("maker") \cap MarketsOf("other"))
    BY <1>4, <1>9, FS_Union
  <2>2. Cardinality(MarketsOf("maker") \cap MarketsOf("other")) = 0
    BY <1>10, FS_EmptySet
  <2>3. QED
    BY <1>2, <1>4, <2>1, <2>2
<1>12. QED
  BY <1>1, <1>2, <1>4, <1>5, <1>8, <1>11

\* The market that is created has an id of its own.
LEMMA FreshIdExists ==
  ASSUME BoardSound, maker \in MakerStates,
         maker.at = "resolving" => Cardinality(MarketsOf("other")) < MaxOthers
  PROVE  FreshId \in Ids /\ ~Open(FreshId)
<1>1. PICK f : f = [k \in DOMAIN board |-> board[k].id]
  OBVIOUS
<1>2. PICK used : used = {board[k].id : k \in DOMAIN board}
  OBVIOUS
<1>3. f \in Surjection(DOMAIN board, used)
  BY <1>1, <1>2 DEF Surjection
<1>4. IsFiniteSet(used) /\ Cardinality(used) <= Len(board)
  BY <1>3, BoardSize, FS_Surjection
<1>5. PICK taken : taken = used \cup (IF maker.at = "resolving" THEN {maker.id} ELSE {})
  OBVIOUS
<1>6. Cardinality(used) \in Nat /\ Cardinality(Ids) \in Nat
  BY <1>4, FS_CardinalityType
<1>7. /\ IsFiniteSet(taken)
      /\ Cardinality(taken) <= Cardinality(used) + (IF maker.at = "resolving" THEN 1 ELSE 0)
  <2>1. CASE maker.at = "resolving"
    <3>1. /\ IsFiniteSet(used \cup {maker.id})
          /\ Cardinality(used \cup {maker.id}) =
               IF maker.id \in used THEN Cardinality(used) ELSE Cardinality(used) + 1
      BY <1>4, FS_AddElement
    <3>2. QED
      BY <1>5, <1>6, <2>1, <3>1
  <2>2. CASE maker.at # "resolving"
    BY <1>4, <1>5, <1>6, <2>2
  <2>3. QED
    BY <2>1, <2>2
<1>8. Len(board) \in Nat
  BY DEF BoardSound, BoardTypes
<1>9. Cardinality(taken) < Cardinality(Ids)
  BY <1>4, <1>6, <1>7, <1>8, BoardSize, FS_CardinalityType DEF BoardSound
<1>10. ~(Ids \subseteq taken)
  <2> SUFFICES ASSUME Ids \subseteq taken PROVE FALSE
    OBVIOUS
  <2>1. Cardinality(Ids) <= Cardinality(taken)
    BY <1>7, FS_Subset
  <2>2. QED
    BY <2>1, <1>6, <1>7, <1>9, FS_CardinalityType
<1>11. PICK i \in Ids : i \notin taken
  BY <1>10
<1>12. ~Open(i) /\ (maker.at = "resolving" => maker.id # i)
  BY <1>2, <1>5, <1>11 DEF Open
<1>13. QED
  BY <1>12 DEF FreshId

-----------------------------------------------------------------------------

\* Every market of the next board is one of this board, in the same words.
Embeds ==
  \E old \in [DOMAIN board' -> DOMAIN board] :
    /\ \A j, k \in DOMAIN board' : old[j] = old[k] => j = k
    /\ \A k \in DOMAIN board' : /\ board'[k].id = board[old[k]].id
                                /\ board'[k].title = board[old[k]].title
                                /\ board'[k].by = board[old[k]].by

\* Nothing is lost by closing a market, or by a deadline.
LEMMA EmbeddedBoard ==
  ASSUME BoardSound, BoardTypes', Embeds
  PROVE  /\ BoardSound'
         /\ \A t : (\A k \in DOMAIN board : ~Asks(k, t)) => \A k \in DOMAIN board' : ~Asks(k, t)'
<1>1. PICK old \in [DOMAIN board' -> DOMAIN board] :
        /\ \A j, k \in DOMAIN board' : old[j] = old[k] => j = k
        /\ \A k \in DOMAIN board' : /\ board'[k].id = board[old[k]].id
                                    /\ board'[k].title = board[old[k]].title
                                    /\ board'[k].by = board[old[k]].by
  BY DEF Embeds
<1>2. \A j, k \in DOMAIN board' : board'[j].id = board'[k].id => j = k
  BY <1>1 DEF BoardSound
<1>3. NeverTwiceAtOnce'
  BY <1>1 DEF BoardSound, NeverTwiceAtOnce
<1>4. Cardinality(MarketsOf("other"))' <= MaxOthers
  <2>1. PICK f : f = [k \in MarketsOf("other")' |-> old[k]]
    OBVIOUS
  <2>2. f \in Injection(MarketsOf("other")', MarketsOf("other"))
    <3>1. f \in [MarketsOf("other")' -> MarketsOf("other")]
      BY <1>1, <2>1 DEF MarketsOf
    <3>2. \A j, k \in MarketsOf("other")' : f[j] = f[k] => j = k
      BY <1>1, <2>1 DEF MarketsOf
    <3>3. QED
      BY <3>1, <3>2 DEF Injection, IsInjective
  <2>3. IsFiniteSet(MarketsOf("other")') /\ Cardinality(MarketsOf("other")') <= Cardinality(MarketsOf("other"))
    BY <2>2, BoardSize, FS_Injection
  <2>4. Cardinality(MarketsOf("other")') \in Nat
    BY <2>3, FS_CardinalityType
  <2>5. QED
    BY <2>3, <2>4, BoardSize DEF BoardSound
<1>5. \A t : (\A k \in DOMAIN board : ~Asks(k, t)) => \A k \in DOMAIN board' : ~Asks(k, t)'
  BY <1>1 DEF Asks
<1>6. QED
  BY <1>2, <1>3, <1>4, <1>5 DEF BoardSound

\* Closing a market moves those behind it up.
LEMMA RemoveEmbeds ==
  ASSUME BoardTypes, NEW k \in DOMAIN board, Remove(k)
  PROVE  BoardTypes' /\ Embeds
<1>1. DOMAIN board = 1 .. Len(board) /\ Len(board) \in Nat
  BY DEF BoardTypes
<1>2. \A j \in 1 .. Len(board) - 1 : (IF j < k THEN j ELSE j + 1) \in DOMAIN board
  BY <1>1
<1>3. board' = [j \in 1 .. Len(board) - 1 |-> IF j < k THEN board[j] ELSE board[j + 1]]
  BY DEF Remove
<1>4. Len(board) - 1 \in Nat
  BY <1>1
<1>5. BoardTypes'
  <2>1. PICK Market : Market = [id : Ids, title : Titles, expired : BOOLEAN, by : {"maker", "other"}]
    OBVIOUS
  <2>2. \A j \in DOMAIN board : board[j] \in Market
    BY <2>1, OpenMarkets
  <2>3. board' \in [1 .. Len(board) - 1 -> Market]
    BY <1>1, <1>3, <2>2
  <2>4. board' \in Seq(Market)
    BY <1>4, <2>3
  <2>5. QED
    BY <2>1, <2>4 DEF BoardTypes
<1>6. PICK old : old = [j \in 1 .. Len(board) - 1 |-> IF j < k THEN j ELSE j + 1]
  OBVIOUS
<1>7. DOMAIN board' = 1 .. Len(board) - 1
  BY <1>3
<1>8. old \in [DOMAIN board' -> DOMAIN board]
  BY <1>2, <1>6, <1>7
<1>9. \A i, j \in DOMAIN board' : old[i] = old[j] => i = j
  BY <1>1, <1>6, <1>7
<1>10. \A j \in DOMAIN board' : board'[j] = board[old[j]]
  BY <1>3, <1>6, <1>7
<1>11. QED
  BY <1>5, <1>8, <1>9, <1>10 DEF Embeds

\* A new market has its own id, and its own question if it is the maker's.
LEMMA CreateSound ==
  ASSUME BoardSound, NEW t \in Titles, NEW b \in {"maker", "other"}, Create(t, b),
         FreshId \in Ids, ~Open(FreshId),
         b = "maker" => \A k \in DOMAIN board : ~Asks(k, t),
         b = "other" => Cardinality(MarketsOf("other")) < MaxOthers
  PROVE  /\ BoardSound'
         /\ b = "other" =>
              \A u : (\A k \in DOMAIN board : ~Asks(k, u)) => \A k \in DOMAIN board' : ~Asks(k, u)'
<1>1. PICK m : m = [id |-> FreshId, title |-> t, expired |-> FALSE, by |-> b]
  OBVIOUS
<1>2. board' = Append(board, m)
  BY <1>1 DEF Create
<1>3. DOMAIN board = 1 .. Len(board) /\ Len(board) \in Nat
  BY OpenMarkets DEF BoardSound
<1>4. BoardTypes'
  <2>1. PICK Market : Market = [id : Ids, title : Titles, expired : BOOLEAN, by : {"maker", "other"}]
    OBVIOUS
  <2>2. m \in Market /\ board \in Seq(Market)
    BY <1>1, <2>1 DEF BoardSound, BoardTypes
  <2>3. board' \in Seq(Market)
    BY <1>2, <2>2
  <2>4. QED
    BY <2>1, <2>3 DEF BoardTypes
<1>5. /\ DOMAIN board' = 1 .. Len(board) + 1
      /\ board'[Len(board) + 1] = m
      /\ \A k \in DOMAIN board : k \in DOMAIN board' /\ board'[k] = board[k]
  BY <1>2, <1>3 DEF BoardSound, BoardTypes
<1>6. \A k \in DOMAIN board' : k \in DOMAIN board \/ k = Len(board) + 1
  BY <1>3, <1>5
<1>7. \A k \in DOMAIN board : board[k].id # m.id
  BY <1>1 DEF Open
<1>8. \A j, k \in DOMAIN board' : board'[j].id = board'[k].id => j = k
  BY <1>5, <1>6, <1>7 DEF BoardSound
<1>9. \A k \in DOMAIN board : board[k].by = "maker" /\ m.by = "maker" => board[k].title # m.title
  BY <1>1 DEF Asks
<1>10. NeverTwiceAtOnce'
  <2>1. \A j, k \in DOMAIN board :
          (board[j].by = "maker" /\ board[k].by = "maker" /\ board[j].title = board[k].title) => j = k
    BY DEF BoardSound, NeverTwiceAtOnce
  <2>2. \A j, k \in DOMAIN board' :
          (board'[j].by = "maker" /\ board'[k].by = "maker" /\ board'[j].title = board'[k].title) => j = k
    BY <1>5, <1>6, <1>9, <2>1
  <2>3. QED
    BY <2>2 DEF NeverTwiceAtOnce
<1>11. Cardinality(MarketsOf("other"))' <= MaxOthers
  <2>1. CASE b = "maker"
    <3>1. MarketsOf("other")' = MarketsOf("other")
      BY <1>1, <1>5, <1>6, <2>1 DEF MarketsOf
    <3>2. QED
      BY <3>1 DEF BoardSound
  <2>2. CASE b = "other"
    <3>1. MarketsOf("other")' = MarketsOf("other") \cup {Len(board) + 1}
      BY <1>1, <1>5, <1>6, <2>2 DEF MarketsOf
    <3>2. Len(board) + 1 \notin MarketsOf("other")
      BY <1>3 DEF MarketsOf
    <3>3. Cardinality(MarketsOf("other") \cup {Len(board) + 1}) = Cardinality(MarketsOf("other")) + 1
      BY <3>2, BoardSize, FS_AddElement
    <3>4. Cardinality(MarketsOf("other")) < MaxOthers /\ Cardinality(MarketsOf("other")) \in Nat
      BY <2>2, BoardSize
    <3>5. Cardinality(MarketsOf("other") \cup {Len(board) + 1}) <= MaxOthers
      BY <3>3, <3>4
    <3>6. QED
      BY <3>1, <3>5
  <2>3. QED
    BY <2>1, <2>2
<1>12. b = "other" =>
         \A u : (\A k \in DOMAIN board : ~Asks(k, u)) => \A k \in DOMAIN board' : ~Asks(k, u)'
  BY <1>1, <1>5, <1>6 DEF Asks
<1>13. QED
  BY <1>4, <1>8, <1>10, <1>11, <1>12 DEF BoardSound

\* What a round remembers.
LEMMA RoundOf ==
  ASSUME maker \in MakerStates
  PROVE  /\ maker.at = "creating" => maker.title \in Titles
         /\ maker.at = "resolving" => maker.id \in Ids
BY DEF MakerStates, Idle

\* A round that does not stand before creating its market is sound when the board
\* is.
LEMMA OtherRounds ==
  ASSUME BoardSound', maker' \in MakerStates, maker'.at # "creating"
  PROVE  BoardInv'
BY DEF BoardInv

\* Markets that others close, or that reach their deadline, leave the round as it is.
LEMMA BoardShrinks ==
  ASSUME BoardInv, BoardTypes', Embeds, maker' = maker
  PROVE  BoardInv'
<1>1. BoardSound'
  BY EmbeddedBoard DEF BoardInv
<1>2. \A t : (\A k \in DOMAIN board : ~Asks(k, t)) => \A k \in DOMAIN board' : ~Asks(k, t)'
  BY EmbeddedBoard DEF BoardInv
<1>3. maker.at = "creating" => \A k \in DOMAIN board' : ~Asks(k, maker.title)'
  BY <1>2 DEF BoardInv
<1>4. QED
  BY <1>1, <1>3 DEF BoardInv, Asks

\* A deadline changes nothing but the market's own flag.
LEMMA DeadlineEmbeds ==
  ASSUME BoardTypes, NEW k \in DOMAIN board, board' = [board EXCEPT ![k].expired = TRUE]
  PROVE  BoardTypes' /\ Embeds
<1>1. PICK Market : Market = [id : Ids, title : Titles, expired : BOOLEAN, by : {"maker", "other"}]
  OBVIOUS
<1>2. DOMAIN board = 1 .. Len(board) /\ Len(board) \in Nat /\ \A j \in DOMAIN board : board[j] \in Market
  BY <1>1, OpenMarkets
<1>3. PICK m : m = [board[k] EXCEPT !.expired = TRUE]
  OBVIOUS
<1>4. m \in Market /\ m.id = board[k].id /\ m.title = board[k].title /\ m.by = board[k].by
  BY <1>1, <1>2, <1>3
<1>5. board' = [board EXCEPT ![k] = m]
  BY <1>3
<1>6. DOMAIN board' = DOMAIN board /\ \A j \in DOMAIN board : board'[j] = IF j = k THEN m ELSE board[j]
  BY <1>2, <1>5
<1>7. BoardTypes'
  <2>1. board \in Seq(Market)
    BY <1>1 DEF BoardTypes
  <2>2. board' \in Seq(Market)
    <3>1. board' \in [1 .. Len(board) -> Market]
      BY <1>2, <1>4, <1>5
    <3>2. QED
      BY <1>2, <3>1
  <2>3. QED
    BY <1>1, <2>2 DEF BoardTypes
<1>8. PICK old : old = [j \in DOMAIN board |-> j]
  OBVIOUS
<1>9. QED
  BY <1>4, <1>6, <1>7, <1>8 DEF Embeds

\* Every step keeps the board sound, when a list shows all of it.
LEMMA NextBoard == ListsFit /\ BoardInv /\ [DemoNext]_demoVars => BoardInv'
<1> SUFFICES ASSUME ListsFit, BoardInv, [DemoNext]_demoVars PROVE BoardInv'
  OBVIOUS
<1>1. BoardSound /\ BoardTypes /\ maker \in MakerStates
  BY DEF BoardInv, BoardSound
<1>2. ASSUME board' = board PROVE BoardSound'
  BY <1>1, <1>2 DEF BoardSound, BoardTypes, NeverTwiceAtOnce, MarketsOf
<1>3. ASSUME board' = board, maker' = maker PROVE BoardInv'
  BY <1>2, <1>3 DEF BoardInv, Asks
<1>4. ASSUME board' = board, maker' \in MakerStates, maker'.at # "creating" PROVE BoardInv'
  BY <1>2, <1>4, OtherRounds
<1>5. /\ Idle \in MakerStates /\ Idle.at # "creating"
      /\ \A w \in {"resolved", "opening", "opened"} : [at |-> w] \in MakerStates
      /\ \A i \in Ids : [at |-> "resolving", id |-> i] \in MakerStates
      /\ \A t \in Titles : [at |-> "creating", title |-> t] \in MakerStates
  BY DEF MakerStates, Idle
<1>6. CASE CastStep \/ ProvisionFails \/ Crash \/ RoundFails
           \/ (\E n \in Names : OthersTakeAccount(n) \/ OthersChangeRole(n)) \/ UNCHANGED demoVars
  <2>1. board' = board /\ (maker' = maker \/ maker' = Idle)
    BY <1>6 DEF CastStep, Start, LookUp, Provision, ProvisionFails, Crash, RoundFails,
                OthersTakeAccount, OthersChangeRole, demoVars
  <2>2. QED
    BY <1>3, <1>4, <1>5, <2>1
<1>7. CASE NothingDue \/ ResolveTooLate \/ AnnounceResolved \/ NothingToOpen \/ AnnounceOpened
  <2>1. board' = board /\ (maker' = Idle \/ maker' = [at |-> "opening"])
    BY <1>7 DEF NothingDue, ResolveTooLate, AnnounceResolved, NothingToOpen, AnnounceOpened
  <2>2. QED
    BY <1>4, <1>5, <2>1
<1>8. ASSUME NEW i \in Ids, PickExpired(i) PROVE BoardInv'
  <2>1. board' = board /\ maker' = [at |-> "resolving", id |-> i]
    BY <1>8 DEF PickExpired
  <2>2. QED
    BY <1>4, <1>5, <2>1
<1>9. CASE ResolvePicked
  <2>1. PICK k \in DOMAIN board : Remove(k)
    BY <1>9 DEF ResolvePicked
  <2>2. BoardSound'
    BY <1>1, <2>1, RemoveEmbeds, EmbeddedBoard
  <2>3. maker' = [at |-> "resolved"]
    BY <1>9 DEF ResolvePicked
  <2>4. QED
    BY <1>5, <2>2, <2>3, OtherRounds
<1>10. ASSUME NEW t \in Titles, PickTitle(t) PROVE BoardInv'
  <2>1. board' = board /\ maker' = [at |-> "creating", title |-> t] /\ t \notin Live(board)
    BY <1>10 DEF PickTitle
  <2>2. \A k \in DOMAIN board : board[k] \in Listed(board)
    <3>1. Len(board) <= Sample
      BY <1>1, BoardSize DEF ListsFit, BoardSound
    <3>2. QED
      BY <1>1, <3>1, OpenMarkets DEF Listed
  <2>3. \A k \in DOMAIN board : ~Asks(k, t)
    BY <2>1, <2>2 DEF Live, Asks
  <2>4. QED
    BY <1>2, <1>5, <2>1, <2>3 DEF BoardInv, Asks
<1>11. CASE CreatePicked
  <2>1. maker.at = "creating" /\ Create(maker.title, "maker") /\ maker' = [at |-> "opened"]
    BY <1>11 DEF CreatePicked
  <2>2. maker.title \in Titles /\ \A k \in DOMAIN board : ~Asks(k, maker.title)
    BY <1>1, <2>1, RoundOf DEF BoardInv
  <2>3. FreshId \in Ids /\ ~Open(FreshId)
    BY <1>1, <2>1, FreshIdExists
  <2>4. BoardSound'
    BY <1>1, <2>1, <2>2, <2>3, CreateSound
  <2>5. QED
    BY <1>5, <2>1, <2>4, OtherRounds
<1>12. CASE OthersCreate
  <2>1. PICK t \in Titles : Create(t, "other")
    BY <1>12 DEF OthersCreate
  <2>2. Cardinality(MarketsOf("other")) < MaxOthers /\ maker' = maker
    BY <1>12 DEF OthersCreate, MarketsOf
  <2>3. FreshId \in Ids /\ ~Open(FreshId)
    BY <1>1, <2>2, FreshIdExists
  <2>4. /\ BoardSound'
        /\ \A u : (\A k \in DOMAIN board : ~Asks(k, u)) => \A k \in DOMAIN board' : ~Asks(k, u)'
    BY <1>1, <2>1, <2>2, <2>3, CreateSound
  <2>5. maker.at = "creating" => \A k \in DOMAIN board' : ~Asks(k, maker.title)'
    BY <2>2, <2>4 DEF BoardInv, Asks
  <2>6. QED
    BY <1>1, <2>2, <2>4, <2>5 DEF BoardInv, Asks
<1>13. CASE OthersResolve
  <2>1. PICK k \in DOMAIN board : Remove(k)
    BY <1>13 DEF OthersResolve
  <2>2. maker' = maker
    BY <1>13 DEF OthersResolve
  <2>3. QED
    BY <1>1, <2>1, <2>2, RemoveEmbeds, BoardShrinks
<1>14. ASSUME NEW i \in Ids, DeadlinePasses(i) PROVE BoardInv'
  <2>1. PICK k \in DOMAIN board : board' = [board EXCEPT ![k].expired = TRUE]
    BY <1>14 DEF DeadlinePasses
  <2>2. maker' = maker
    BY <1>14 DEF DeadlinePasses
  <2>3. QED
    BY <1>1, <2>1, <2>2, DeadlineEmbeds, BoardShrinks
<1>15. QED
  BY <1>6, <1>7, <1>8, <1>9, <1>10, <1>11, <1>12, <1>13, <1>14 DEF DemoNext, MakerStep

\* The empty board is sound.
LEMMA InitBoard == DemoInit => BoardInv
<1> SUFFICES ASSUME DemoInit PROVE BoardInv
  OBVIOUS
<1>1. board = << >> /\ maker = Idle
  BY DEF DemoInit
<1>2. DOMAIN board = {}
  BY <1>1
<1>3. Cardinality(MarketsOf("other")) <= MaxOthers
  <2>1. MarketsOf("other") = {}
    BY <1>2 DEF MarketsOf
  <2>2. QED
    BY <2>1, FS_EmptySet
<1>4. BoardSound
  BY <1>1, <1>2, <1>3 DEF BoardSound, BoardTypes, NeverTwiceAtOnce
<1>5. QED
  BY <1>1, <1>4 DEF BoardInv, MakerStates, Idle

\* "The same question can come back around once its previous round has resolved, but
\* never twice at once" (market_maker.rs): whatever happens between the maker's list
\* and its market, across restarts and failed rounds, provided that no more markets
\* are open than a list of the bots holds (MARKET_SAMPLE); and the whole cast runs.
THEOREM NeverTwice == ListsFit => (DemoSpec => []DemoInv)
<1>1. CastInv /\ BoardInv => DemoInv
  BY DEF CastInv, CastTypes, BoardInv, BoardSound, BoardTypes, DemoInv, DemoTypeOK
<1>2. ListsFit /\ BoardInv /\ [DemoNext]_demoVars => BoardInv'
  BY NextBoard
<1>3. ASSUME ListsFit PROVE DemoSpec => []DemoInv
  <2>1. BoardInv /\ [DemoNext]_demoVars => BoardInv'
    BY <1>2, <1>3
  <2>2. QED
    BY <1>1, <2>1, InitBoard, InitCast, NextCast, PTL DEF DemoSpec
<1>4. QED
  BY <1>3

-----------------------------------------------------------------------------
(* Accounts and sessions *)

USE SessionAssumption

\* The empty tables satisfy the invariant.
LEMMA InitSession == SessionInit => SessionInv
<1> SUFFICES ASSUME SessionInit PROVE SessionInv
  OBVIOUS
<1>1. SessionTypeOK
  BY DEF SessionInit, SessionTypeOK, States, AuthRequests, Tokens
<1>2. TokensIssued /\ ExchangesSound /\ RegistrationsSound
  BY DEF SessionInit, TokensIssued, ExchangesSound, RegistrationsSound, AuthRequests, Tokens
<1>3. SingleUse /\ LogoutRevokes /\ NoSessionLost /\ IdentitiesUnique
  BY DEF SessionInit, SingleUse, LogoutRevokes, NoSessionLost, IdentitiesUnique, AuthRequests,
         Tokens
<1>4. QED
  BY <1>1, <1>2, <1>3 DEF SessionInv

\* A request that ends in an error, its transaction rolled back, keeps the
\* invariant.
LEMMA RejectSession ==
  ASSUME SessionInv, NEW r \in AuthRequests, stage[r] # "done", Reject(r)
  PROVE  SessionInv'
<1>1. /\ stage' = [stage EXCEPT ![r] = "rejected"]
      /\ UNCHANGED <<identity, loginAs, presented, users, tokens, owner, expired>>
  BY DEF Reject, Becomes, inputs
<1>2. \A q \in AuthRequests : stage'[q] = (IF q = r THEN "rejected" ELSE stage[q])
  BY <1>1 DEF SessionInv, SessionTypeOK
<1>3. SessionTypeOK'
  BY <1>1 DEF SessionInv, SessionTypeOK, States
<1>4. TokensIssued'
  BY <1>1, <1>2 DEF SessionInv, SessionTypeOK, TokensIssued, AuthRequests, Tokens, Users
<1>5. \A t : Deleters(t)' = Deleters(t) \ {r}
  BY <1>1, <1>2 DEF Deleters, AuthRequests, Tokens
<1>6. ExchangesSound'
  BY <1>1, <1>2, <1>5 DEF SessionInv, SessionTypeOK, ExchangesSound, AuthRequests, Tokens
<1>7. RegistrationsSound'
  BY <1>1, <1>2 DEF SessionInv, RegistrationsSound, Taken, SameIdentity, AuthRequests, Tokens
<1>8. SingleUse' /\ LogoutRevokes'
  BY <1>1, <1>2, <1>5 DEF SessionInv, SingleUse, LogoutRevokes, AuthRequests, Tokens
<1>9. NoSessionLost'
  BY <1>1, <1>2 DEF SessionInv, NoSessionLost, AuthRequests, Tokens
<1>10. IdentitiesUnique'
  BY <1>1 DEF SessionInv, IdentitiesUnique, SameIdentity
<1>11. QED
  BY <1>3, <1>4, <1>6, <1>7, <1>8, <1>9, <1>10 DEF SessionInv

\* Register: the unique index keeps open registrations apart from each other
\* and from the committed accounts.
LEMMA RegisterSession ==
  ASSUME SessionInv, NEW r \in Registers, RegisterStep(r)
  PROVE  SessionInv'
<1> r \in AuthRequests /\ r \in Tokens
  BY DEF AuthRequests, Tokens
<1>1. CASE RegisterCheck(r) /\ Taken(r)
  BY <1>1, RejectSession DEF RegisterCheck
<1>2. CASE RegisterCheck(r) /\ ~Taken(r)
  <2>1. /\ stage[r] = "idle" /\ stage' = [stage EXCEPT ![r] = "checked"]
        /\ UNCHANGED <<identity, loginAs, presented, users, tokens, owner, expired>>
    BY <1>2 DEF RegisterCheck, Becomes, inputs
  <2>2. \A q \in AuthRequests : stage'[q] = (IF q = r THEN "checked" ELSE stage[q])
    BY <2>1 DEF SessionInv, SessionTypeOK
  <2>3. SessionTypeOK'
    BY <2>1 DEF SessionInv, SessionTypeOK, States
  <2>4. TokensIssued' /\ RegistrationsSound'
    BY <2>1, <2>2 DEF SessionInv, SessionTypeOK, TokensIssued, RegistrationsSound, Taken,
                      SameIdentity,
                      AuthRequests, Tokens, Users
  <2>5. \A t : Deleters(t)' = Deleters(t)
    BY <2>1, <2>2 DEF Deleters, AuthRequests, Tokens
  <2>6. ExchangesSound'
    BY <2>1, <2>2, <2>5 DEF SessionInv, SessionTypeOK, ExchangesSound, AuthRequests, Tokens
  <2>7. SingleUse' /\ LogoutRevokes'
    BY <2>1, <2>2, <2>5 DEF SessionInv, SingleUse, LogoutRevokes, AuthRequests, Tokens
  <2>8. NoSessionLost' /\ IdentitiesUnique'
    BY <2>1, <2>2 DEF SessionInv, NoSessionLost, IdentitiesUnique, SameIdentity, AuthRequests,
                      Tokens
  <2>9. QED
    BY <2>3, <2>4, <2>6, <2>7, <2>8 DEF SessionInv
<1>3. CASE RegisterInsert(r) /\ Taken(r)
  BY <1>3, RejectSession DEF RegisterInsert
<1>4. CASE RegisterInsert(r) /\ ~Taken(r)
  <2>1. /\ stage[r] = "checked" /\ stage' = [stage EXCEPT ![r] = "inserted"]
        /\ \A o \in Registers \ {r} : stage[o] = "inserted" => ~SameIdentity(o, r)
        /\ UNCHANGED <<identity, loginAs, presented, users, tokens, owner, expired>>
    BY <1>4 DEF RegisterInsert, Becomes, inputs
  <2>2. \A q \in AuthRequests : stage'[q] = (IF q = r THEN "inserted" ELSE stage[q])
    BY <2>1 DEF SessionInv, SessionTypeOK
  <2>3. SessionTypeOK'
    BY <2>1 DEF SessionInv, SessionTypeOK, States
  <2>4. TokensIssued'
    BY <2>1, <2>2 DEF SessionInv, SessionTypeOK, TokensIssued, AuthRequests, Tokens, Users
  <2>5. \A t : Deleters(t)' = Deleters(t)
    BY <2>1, <2>2 DEF Deleters, AuthRequests, Tokens
  <2>6. ExchangesSound'
    BY <2>1, <2>2, <2>5 DEF SessionInv, SessionTypeOK, ExchangesSound, AuthRequests, Tokens
  <2>7. SingleUse' /\ LogoutRevokes'
    BY <2>1, <2>2, <2>5 DEF SessionInv, SingleUse, LogoutRevokes, AuthRequests, Tokens
  <2>8. NoSessionLost' /\ IdentitiesUnique'
    BY <2>1, <2>2 DEF SessionInv, NoSessionLost, IdentitiesUnique, SameIdentity, AuthRequests,
                      Tokens
  <2>9. RegistrationsSound'
    <3>1. \A a \in Registers : Taken(a)' = Taken(a)
      BY <2>1 DEF Taken, SameIdentity
    <3>2. \A a, b \in Registers : SameIdentity(a, b)' = SameIdentity(a, b)
      BY <2>1 DEF SameIdentity
    <3>3. \A a, b \in Registers : SameIdentity(a, b) = SameIdentity(b, a)
      BY DEF SameIdentity
    <3>4. \A a \in Registers : a \in AuthRequests
      BY DEF AuthRequests, Tokens
    <3>5. QED
      BY <1>4, <2>1, <2>2, <3>1, <3>2, <3>3, <3>4 DEF SessionInv, RegistrationsSound
  <2>10. QED
    BY <2>3, <2>4, <2>6, <2>7, <2>8, <2>9 DEF SessionInv
<1>5. CASE RegisterCommit(r)
  <2>1. /\ stage[r] = "inserted" /\ stage' = [stage EXCEPT ![r] = "done"]
        /\ users' = users \cup {r} /\ tokens' = tokens \cup {r}
        /\ owner' = [owner EXCEPT ![r] = r]
        /\ UNCHANGED <<identity, loginAs, presented, expired>>
    BY <1>5 DEF RegisterCommit, Becomes, inputs
  <2>2. \A q \in AuthRequests : stage'[q] = (IF q = r THEN "done" ELSE stage[q])
    BY <2>1 DEF SessionInv, SessionTypeOK
  <2>3. SessionTypeOK'
    BY <2>1 DEF SessionInv, SessionTypeOK, States, Users
  <2>4. TokensIssued'
    BY <2>1, <2>2 DEF SessionInv, SessionTypeOK, TokensIssued, AuthRequests, Tokens, Users
  <2>5. \A t : Deleters(t)' = Deleters(t)
    BY <2>1, <2>2 DEF Deleters, AuthRequests, Tokens
  <2>6. \A q \in Refreshers \cup Logouts : stage[q] \in {"found", "deleted", "done"} => presented[q] # r
    BY <2>1 DEF SessionInv, ExchangesSound
  <2>7. ExchangesSound'
    BY <2>1, <2>2, <2>5, <2>6 DEF SessionInv, SessionTypeOK, ExchangesSound, AuthRequests, Tokens
  <2>8. SingleUse' /\ LogoutRevokes'
    BY <2>1, <2>2, <2>5, <2>6 DEF SessionInv, SingleUse, LogoutRevokes, AuthRequests, Tokens
  <2>9. NoSessionLost'
    BY <2>1, <2>2 DEF SessionInv, NoSessionLost, AuthRequests, Tokens
  <2>10. ~Taken(r) /\ \A o \in Registers : (stage[o] = "inserted" /\ SameIdentity(o, r)) => o = r
    BY <2>1 DEF SessionInv, RegistrationsSound
  <2>11. \A a, b \in Registers : SameIdentity(a, b)' = SameIdentity(a, b)
    BY <2>1 DEF SameIdentity
  <2>12. \A a, b \in Registers : SameIdentity(a, b) = SameIdentity(b, a)
    BY DEF SameIdentity
  <2>13. users \subseteq Registers /\ \A a \in Registers : a \in AuthRequests
    BY DEF SessionInv, SessionTypeOK, Users, AuthRequests, Tokens
  <2>14. IdentitiesUnique'
    BY <2>1, <2>10, <2>11, <2>12, <2>13 DEF SessionInv, IdentitiesUnique, Taken
  <2>15. RegistrationsSound'
    <3> SUFFICES ASSUME NEW a \in Registers, stage'[a] = "inserted"
                 PROVE  /\ ~Taken(a)'
                        /\ \A o \in Registers : (stage'[o] = "inserted" /\ SameIdentity(o, a)') => o = a
      BY DEF RegistrationsSound
    <3>1. a # r /\ stage[a] = "inserted"
      BY <2>2, <2>13
    <3>2. ~SameIdentity(r, a)
      BY <2>10, <2>12, <3>1
    <3>3. ~Taken(a)'
      BY <2>1, <2>11, <2>13, <3>1, <3>2 DEF SessionInv, RegistrationsSound, Taken
    <3>4. QED
      BY <2>2, <2>11, <2>13, <3>1, <3>3 DEF SessionInv, RegistrationsSound
  <2>16. QED
    BY <2>3, <2>4, <2>7, <2>8, <2>9, <2>14, <2>15 DEF SessionInv
<1>6. QED
  BY <1>1, <1>2, <1>3, <1>4, <1>5 DEF RegisterStep, RegisterCheck, RegisterInsert

\* Login adds a token nobody has presented yet.
LEMMA LoginSession ==
  ASSUME SessionInv, NEW l \in Logins, Login(l)
  PROVE  SessionInv'
<1> l \in AuthRequests /\ l \in Tokens /\ l \notin Registers
  BY DEF AuthRequests, Tokens
<1>1. CASE Reject(l)
  BY <1>1, RejectSession DEF Login
<1>2. CASE ~Reject(l)
  <2>1. /\ stage[l] = "idle" /\ stage' = [stage EXCEPT ![l] = "done"]
        /\ loginAs[l] \in users /\ tokens' = tokens \cup {l}
        /\ owner' = [owner EXCEPT ![l] = loginAs[l]]
        /\ UNCHANGED <<identity, loginAs, presented, users, expired>>
    BY <1>2 DEF Login, Becomes, inputs
  <2>2. \A q \in AuthRequests : stage'[q] = (IF q = l THEN "done" ELSE stage[q])
    BY <2>1 DEF SessionInv, SessionTypeOK
  <2>3. SessionTypeOK'
    BY <2>1 DEF SessionInv, SessionTypeOK, States
  <2>4. TokensIssued'
    BY <2>1, <2>2 DEF SessionInv, SessionTypeOK, TokensIssued, AuthRequests, Tokens, Users
  <2>5. \A t : Deleters(t)' = Deleters(t)
    BY <2>1, <2>2 DEF Deleters, AuthRequests, Tokens
  <2>6. \A q \in Refreshers \cup Logouts : stage[q] \in {"found", "deleted", "done"} => presented[q] # l
    BY <2>1 DEF SessionInv, ExchangesSound
  <2>7. ExchangesSound'
    BY <2>1, <2>2, <2>5, <2>6 DEF SessionInv, SessionTypeOK, ExchangesSound, AuthRequests, Tokens
  <2>8. SingleUse' /\ LogoutRevokes'
    BY <2>1, <2>2, <2>5, <2>6 DEF SessionInv, SingleUse, LogoutRevokes, AuthRequests, Tokens
  <2>9. NoSessionLost'
    BY <2>1, <2>2 DEF SessionInv, NoSessionLost, AuthRequests, Tokens
  <2>10. IdentitiesUnique' /\ RegistrationsSound'
    BY <2>1, <2>2 DEF SessionInv, SessionTypeOK, IdentitiesUnique, RegistrationsSound, Taken,
                      SameIdentity,
                      AuthRequests, Tokens, Users
  <2>11. QED
    BY <2>3, <2>4, <2>7, <2>8, <2>9, <2>10 DEF SessionInv
<1>3. QED
  BY <1>1, <1>2

\* Refresh: the row lock of the DELETE leaves one exchange of a token at a time.
LEMMA RefreshSession ==
  ASSUME SessionInv, NEW f \in Refreshers, RefreshStep(f)
  PROVE  SessionInv'
<1> f \in AuthRequests /\ f \in Tokens /\ f \notin Registers /\ f \notin Logouts
  BY DEF AuthRequests, Tokens
<1> presented[f] \in Tokens /\ presented[f] \in AuthRequests
  BY DEF SessionInv, SessionTypeOK, AuthRequests
<1>1. CASE RefreshFind(f) /\ presented[f] \notin tokens
  BY <1>1, RejectSession DEF RefreshFind, Presents
<1>2. CASE RefreshFind(f) /\ presented[f] \in tokens
  <2>1. /\ stage[f] = "idle" /\ stage[presented[f]] = "done" /\ stage' = [stage EXCEPT ![f] = "found"]
        /\ UNCHANGED <<identity, loginAs, presented, users, tokens, owner, expired>>
    BY <1>2 DEF RefreshFind, Presents, Becomes, inputs
  <2>2. \A q \in AuthRequests : stage'[q] = (IF q = f THEN "found" ELSE stage[q])
    BY <2>1 DEF SessionInv, SessionTypeOK
  <2>3. SessionTypeOK'
    BY <2>1 DEF SessionInv, SessionTypeOK, States
  <2>4. TokensIssued' /\ RegistrationsSound'
    BY <2>1, <2>2 DEF SessionInv, SessionTypeOK, TokensIssued, RegistrationsSound, Taken,
                      SameIdentity,
                      AuthRequests, Tokens, Users
  <2>5. \A t : Deleters(t)' = Deleters(t)
    BY <2>1, <2>2 DEF Deleters, AuthRequests, Tokens
  <2>6. ExchangesSound'
    BY <2>1, <2>2, <2>5 DEF SessionInv, SessionTypeOK, ExchangesSound, AuthRequests, Tokens
  <2>7. SingleUse' /\ LogoutRevokes'
    BY <2>1, <2>2, <2>5 DEF SessionInv, SingleUse, LogoutRevokes, AuthRequests, Tokens
  <2>8. NoSessionLost' /\ IdentitiesUnique'
    BY <2>1, <2>2 DEF SessionInv, NoSessionLost, IdentitiesUnique, SameIdentity, AuthRequests,
                      Tokens
  <2>9. QED
    BY <2>3, <2>4, <2>6, <2>7, <2>8 DEF SessionInv
<1>3. CASE RefreshDelete(f) /\ presented[f] \notin tokens
  BY <1>3, RejectSession DEF RefreshDelete
<1>4. CASE RefreshDelete(f) /\ presented[f] \in tokens
  <2>1. /\ stage[f] = "found" /\ Deleters(presented[f]) = {} /\ stage' = [stage EXCEPT ![f] = "deleted"]
        /\ UNCHANGED <<identity, loginAs, presented, users, tokens, owner, expired>>
    BY <1>4 DEF RefreshDelete, Becomes, inputs
  <2>2. \A q \in AuthRequests : stage'[q] = (IF q = f THEN "deleted" ELSE stage[q])
    BY <2>1 DEF SessionInv, SessionTypeOK
  <2>3. SessionTypeOK'
    BY <2>1 DEF SessionInv, SessionTypeOK, States
  <2>4. TokensIssued' /\ RegistrationsSound'
    BY <2>1, <2>2 DEF SessionInv, SessionTypeOK, TokensIssued, RegistrationsSound, Taken,
                      SameIdentity,
                      AuthRequests, Tokens, Users
  <2>5. \A t : Deleters(t)' = IF t = presented[f] THEN {f} ELSE Deleters(t)
    BY <2>1, <2>2 DEF Deleters, AuthRequests, Tokens
  <2>6. ExchangesSound'
    <3>1. \A g \in Refreshers : (g # f /\ stage[g] = "deleted") => presented[g] # presented[f]
      BY <2>1 DEF Deleters
    <3>2. QED
      BY <1>4, <2>1, <2>2, <2>5, <3>1 DEF SessionInv, SessionTypeOK, ExchangesSound, AuthRequests,
                                          Tokens
  <2>7. SingleUse' /\ LogoutRevokes'
    BY <1>4, <2>1, <2>2, <2>5 DEF SessionInv, SingleUse, LogoutRevokes, AuthRequests, Tokens
  <2>8. NoSessionLost' /\ IdentitiesUnique'
    BY <2>1, <2>2 DEF SessionInv, NoSessionLost, IdentitiesUnique, SameIdentity, AuthRequests,
                      Tokens
  <2>9. QED
    BY <2>3, <2>4, <2>6, <2>7, <2>8 DEF SessionInv
<1>5. CASE RefreshExpired(f)
  <2>1. /\ stage[f] = "deleted" /\ stage' = [stage EXCEPT ![f] = "rejected"]
        /\ presented[f] \in expired /\ tokens' = tokens \ {presented[f]}
        /\ UNCHANGED <<identity, loginAs, presented, users, owner, expired>>
    BY <1>5 DEF RefreshExpired, Becomes, inputs
  <2>2. \A q \in AuthRequests : stage'[q] = (IF q = f THEN "rejected" ELSE stage[q])
    BY <2>1 DEF SessionInv, SessionTypeOK
  <2>3. SessionTypeOK'
    BY <2>1 DEF SessionInv, SessionTypeOK, States
  <2>4. TokensIssued' /\ RegistrationsSound'
    BY <2>1, <2>2 DEF SessionInv, SessionTypeOK, TokensIssued, RegistrationsSound, Taken,
                      SameIdentity,
                      AuthRequests, Tokens, Users
  <2>5. \A t : Deleters(t)' = Deleters(t) \ {f}
    BY <2>1, <2>2 DEF Deleters, AuthRequests, Tokens
  <2>6. \A g \in Refreshers : (g # f /\ stage[g] = "deleted") => presented[g] # presented[f]
    BY <2>1 DEF SessionInv, ExchangesSound, Deleters
  <2>7. ExchangesSound'
    BY <2>1, <2>2, <2>5, <2>6 DEF SessionInv, SessionTypeOK, ExchangesSound, AuthRequests, Tokens
  <2>8. SingleUse' /\ LogoutRevokes'
    BY <2>1, <2>2, <2>5 DEF SessionInv, SingleUse, LogoutRevokes, AuthRequests, Tokens
  <2>9. NoSessionLost' /\ IdentitiesUnique'
    BY <2>1, <2>2 DEF SessionInv, NoSessionLost, IdentitiesUnique, SameIdentity, AuthRequests,
                      Tokens
  <2>10. QED
    BY <2>3, <2>4, <2>7, <2>8, <2>9 DEF SessionInv
<1>6. CASE RefreshCommit(f)
  <2>1. /\ stage[f] = "deleted" /\ stage' = [stage EXCEPT ![f] = "done"]
        /\ owner[presented[f]] \in users
        /\ tokens' = (tokens \ {presented[f]}) \cup {f}
        /\ owner' = [owner EXCEPT ![f] = owner[presented[f]]]
        /\ UNCHANGED <<identity, loginAs, presented, users, expired>>
    BY <1>6 DEF RefreshCommit, Becomes, inputs
  <2>2. \A q \in AuthRequests : stage'[q] = (IF q = f THEN "done" ELSE stage[q])
    BY <2>1 DEF SessionInv, SessionTypeOK
  <2>3. SessionTypeOK'
    BY <2>1 DEF SessionInv, SessionTypeOK, States
  <2>4. TokensIssued' /\ RegistrationsSound'
    BY <2>1, <2>2 DEF SessionInv, SessionTypeOK, TokensIssued, RegistrationsSound, Taken,
                      SameIdentity,
                      AuthRequests, Tokens, Users
  <2>5. \A t : Deleters(t)' = Deleters(t) \ {f}
    BY <2>1, <2>2 DEF Deleters, AuthRequests, Tokens
  <2>6. \A g \in Refreshers : (g # f /\ stage[g] = "deleted") => presented[g] # presented[f]
    BY <2>1 DEF SessionInv, ExchangesSound, Deleters
  <2>7. \A q \in Refreshers \cup Logouts : stage[q] \in {"found", "deleted", "done"} => presented[q] # f
    BY <2>1 DEF SessionInv, ExchangesSound
  <2>8. presented[f] \in tokens /\ stage[presented[f]] = "done" /\ presented[f] # f
    BY <2>1, <2>7 DEF SessionInv, ExchangesSound
  <2>9. ExchangesSound'
    BY <2>1, <2>2, <2>5, <2>6, <2>7, <2>8 DEF SessionInv, SessionTypeOK, ExchangesSound,
                                              AuthRequests, Tokens
  <2>10. SingleUse'
    BY <2>1, <2>2, <2>8 DEF SessionInv, SingleUse, ExchangesSound, AuthRequests, Tokens
  <2>11. LogoutRevokes'
    BY <2>1, <2>2, <2>5, <2>7 DEF SessionInv, LogoutRevokes, AuthRequests, Tokens
  <2>12. NoSessionLost' /\ IdentitiesUnique'
    BY <2>1, <2>2 DEF SessionInv, NoSessionLost, IdentitiesUnique, SameIdentity, AuthRequests,
                      Tokens
  <2>13. QED
    BY <2>3, <2>4, <2>9, <2>10, <2>11, <2>12 DEF SessionInv
<1>7. QED
  BY <1>1, <1>2, <1>3, <1>4, <1>5, <1>6 DEF RefreshStep, RefreshFind, RefreshDelete

\* Logout: its DELETE waits for an open exchange of the token it removes.
LEMMA LogoutSession ==
  ASSUME SessionInv, NEW o \in Logouts, LogoutStep(o)
  PROVE  SessionInv'
<1> o \in AuthRequests /\ o \notin Tokens /\ o \notin Refreshers /\ o \notin Registers
  BY DEF AuthRequests, Tokens
<1> presented[o] \in Tokens /\ presented[o] \in AuthRequests
  BY DEF SessionInv, SessionTypeOK, AuthRequests
<1>1. CASE LogoutFind(o)
  <2> DEFINE next == IF presented[o] \in tokens THEN "found" ELSE "done"
  <2>1. /\ stage[o] = "idle" /\ stage[presented[o]] = "done" /\ stage' = [stage EXCEPT ![o] = next]
        /\ UNCHANGED <<identity, loginAs, presented, users, tokens, owner, expired>>
    BY <1>1 DEF LogoutFind, Presents, Becomes, inputs
  <2>2. \A q \in AuthRequests : stage'[q] = (IF q = o THEN next ELSE stage[q])
    BY <2>1 DEF SessionInv, SessionTypeOK
  <2>3. SessionTypeOK'
    BY <2>1 DEF SessionInv, SessionTypeOK, States
  <2>4. TokensIssued' /\ RegistrationsSound'
    BY <2>1, <2>2 DEF SessionInv, SessionTypeOK, TokensIssued, RegistrationsSound, Taken,
                      SameIdentity,
                      AuthRequests, Tokens, Users
  <2>5. \A t : Deleters(t)' = Deleters(t)
    BY <2>1, <2>2 DEF Deleters, AuthRequests, Tokens
  <2>6. ExchangesSound' /\ SingleUse'
    BY <2>1, <2>2, <2>5 DEF SessionInv, SessionTypeOK, ExchangesSound, SingleUse, AuthRequests,
                            Tokens
  <2>7. presented[o] \notin tokens => Deleters(presented[o]) = {}
    BY DEF SessionInv, ExchangesSound, Deleters
  <2>8. LogoutRevokes'
    BY <2>1, <2>2, <2>5, <2>7 DEF SessionInv, LogoutRevokes, AuthRequests, Tokens
  <2>9. NoSessionLost' /\ IdentitiesUnique'
    BY <2>1, <2>2 DEF SessionInv, NoSessionLost, IdentitiesUnique, SameIdentity, AuthRequests,
                      Tokens
  <2>10. QED
    BY <2>3, <2>4, <2>6, <2>8, <2>9 DEF SessionInv
<1>2. CASE LogoutDelete(o)
  <2>1. /\ stage[o] = "found" /\ Deleters(presented[o]) = {} /\ stage' = [stage EXCEPT ![o] = "done"]
        /\ tokens' = tokens \ {presented[o]}
        /\ UNCHANGED <<identity, loginAs, presented, users, owner, expired>>
    BY <1>2 DEF LogoutDelete, Becomes, inputs
  <2>2. \A q \in AuthRequests : stage'[q] = (IF q = o THEN "done" ELSE stage[q])
    BY <2>1 DEF SessionInv, SessionTypeOK
  <2>3. SessionTypeOK'
    BY <2>1 DEF SessionInv, SessionTypeOK, States
  <2>4. TokensIssued' /\ RegistrationsSound'
    BY <2>1, <2>2 DEF SessionInv, SessionTypeOK, TokensIssued, RegistrationsSound, Taken,
                      SameIdentity,
                      AuthRequests, Tokens, Users
  <2>5. \A t : Deleters(t)' = Deleters(t)
    BY <2>1, <2>2 DEF Deleters, AuthRequests, Tokens
  <2>6. \A g \in Refreshers : stage[g] = "deleted" => presented[g] # presented[o]
    BY <2>1 DEF Deleters
  <2>7. ExchangesSound' /\ SingleUse'
    BY <2>1, <2>2, <2>5, <2>6 DEF SessionInv, SessionTypeOK, ExchangesSound, SingleUse,
                                  AuthRequests, Tokens
  <2>8. LogoutRevokes'
    BY <2>1, <2>2, <2>5 DEF SessionInv, LogoutRevokes, AuthRequests, Tokens
  <2>9. NoSessionLost' /\ IdentitiesUnique'
    BY <2>1, <2>2 DEF SessionInv, NoSessionLost, IdentitiesUnique, SameIdentity, AuthRequests,
                      Tokens
  <2>10. QED
    BY <2>3, <2>4, <2>7, <2>8, <2>9 DEF SessionInv
<1>3. QED
  BY <1>1, <1>2 DEF LogoutStep

\* The passing of expires_at only adds to what may be refused.
LEMMA ExpirySession ==
  ASSUME SessionInv, NEW t \in Tokens, TokenExpires(t)
  PROVE  SessionInv'
<1>1. /\ expired' = expired \cup {t}
      /\ UNCHANGED <<identity, loginAs, presented, users, tokens, owner, stage>>
  BY DEF TokenExpires, inputs
<1>2. SessionTypeOK' /\ TokensIssued' /\ NoSessionLost'
  BY <1>1 DEF SessionInv, SessionTypeOK, TokensIssued, NoSessionLost
<1>3. \A s : Deleters(s)' = Deleters(s)
  BY <1>1 DEF Deleters
<1>4. ExchangesSound' /\ SingleUse' /\ LogoutRevokes'
  BY <1>1, <1>3 DEF SessionInv, ExchangesSound, SingleUse, LogoutRevokes
<1>5. RegistrationsSound' /\ IdentitiesUnique'
  BY <1>1 DEF SessionInv, RegistrationsSound, IdentitiesUnique, Taken, SameIdentity
<1>6. QED
  BY <1>2, <1>4, <1>5 DEF SessionInv

\* Every step keeps the invariant.
LEMMA NextSession == SessionInv /\ [SessionNext]_sessionVars => SessionInv'
<1> SUFFICES ASSUME SessionInv, [SessionNext]_sessionVars PROVE SessionInv'
  OBVIOUS
<1>1. ASSUME NEW r \in Registers, RegisterStep(r) PROVE SessionInv'
  BY <1>1, RegisterSession
<1>2. ASSUME NEW l \in Logins, Login(l) PROVE SessionInv'
  BY <1>2, LoginSession
<1>3. ASSUME NEW f \in Refreshers, RefreshStep(f) PROVE SessionInv'
  BY <1>3, RefreshSession
<1>4. ASSUME NEW o \in Logouts, LogoutStep(o) PROVE SessionInv'
  BY <1>4, LogoutSession
<1>5. ASSUME NEW r \in AuthRequests, FailRequest(r) PROVE SessionInv'
  BY <1>5, RejectSession DEF FailRequest
<1>6. ASSUME NEW t \in Tokens, TokenExpires(t) PROVE SessionInv'
  BY <1>6, ExpirySession
<1>7. CASE UNCHANGED sessionVars
  <2>1. UNCHANGED <<identity, loginAs, presented, users, tokens, owner, expired, stage>>
    BY <1>7 DEF sessionVars, inputs
  <2>2. SessionTypeOK' /\ TokensIssued' /\ NoSessionLost'
    BY <2>1 DEF SessionInv, SessionTypeOK, TokensIssued, NoSessionLost
  <2>3. \A s : Deleters(s)' = Deleters(s)
    BY <2>1 DEF Deleters
  <2>4. ExchangesSound' /\ SingleUse' /\ LogoutRevokes'
    BY <2>1, <2>3 DEF SessionInv, ExchangesSound, SingleUse, LogoutRevokes
  <2>5. RegistrationsSound' /\ IdentitiesUnique'
    BY <2>1 DEF SessionInv, RegistrationsSound, IdentitiesUnique, Taken, SameIdentity
  <2>6. QED
    BY <2>2, <2>4, <2>5 DEF SessionInv
<1>8. QED
  BY <1>1, <1>2, <1>3, <1>4, <1>5, <1>6, <1>7 DEF SessionNext

\* The tables and the open transactions agree in every reachable state.
THEOREM SessionSafe == SessionSpec => []SessionInv
<1>1. QED
  BY InitSession, NextSession, PTL DEF SessionSpec

\* However many requests present a refresh token at the same time, one of them
\* at most is given a new session for it.
THEOREM TokensSingleUse == SessionSpec => []SingleUse
<1>1. SessionInv => SingleUse
  BY DEF SessionInv
<1>2. QED
  BY <1>1, SessionSafe, PTL

\* An answered logout has removed its token, and no open exchange of it is left.
THEOREM LoggedOut == SessionSpec => []LogoutRevokes
<1>1. SessionInv => LogoutRevokes
  BY DEF SessionInv
<1>2. QED
  BY <1>1, SessionSafe, PTL

\* A token leaves the table by being exchanged, by logout or by expiry; a refresh
\* that fails half-way leaves it usable.
THEOREM SessionsKept == SessionSpec => []NoSessionLost
<1>1. SessionInv => NoSessionLost
  BY DEF SessionInv
<1>2. QED
  BY <1>1, SessionSafe, PTL

\* Registrations that race past each other's checks never create two accounts
\* with one email or username.
THEOREM UniqueAccounts == SessionSpec => []IdentitiesUnique
<1>1. SessionInv => IdentitiesUnique
  BY DEF SessionInv
<1>2. QED
  BY <1>1, SessionSafe, PTL

-----------------------------------------------------------------------------
(* Images *)

USE ImagesAssumption

(* The inductive invariant *)

\* Whatever runs now has run since every upload that has started.
SinceSound ==
  /\ \A u, w \in Uploads : (step[u] # "idle" /\ step[w] \in Underway) => w \in since[u]
  /\ \A u \in Uploads : step[u] # "idle" => u \in since[u]

\* An upload removes other types than its own.
LeftSound == \A u \in Uploads : left[u] \subseteq Exts \ {ext[u]}

\* The files are what one upload left: its own type, and nothing else.
Only(u, image) == files = [e \in Exts |-> IF e = ext[u] THEN image ELSE "none"]

\* What an undisturbed upload has made of the files so far.
UndisturbedSound ==
  \A u \in Uploads : (step[u] # "idle" /\ since[u] = {u}) =>
    /\ step[u] = "deleting" => \A e \in Exts \ {ext[u]} : e \in left[u] \/ files[e] = "none"
    /\ step[u] = "opened" => Only(u, "torn")
    /\ step[u] # "detached"
    /\ step[u] \in {"written", "stamped", "saved"} => Only(u, u)

\* Uploads of one type do not remove each other's file.
SameTypeSound ==
  \A u \in Uploads :
    (/\ step[u] \in {"opened", "detached", "written", "stamped", "saved"}
     /\ \A w \in since[u] : ext[w] = ext[u]) => files[ext[u]] # "none"

\* The URL in a row was made by a saved upload.
RowSound ==
  url # NoUrl => /\ url.by \in Uploads /\ step[url.by] = "saved"
                 /\ UrlIn(url) = [ext |-> ext[url.by], v |-> stamp[url.by]]

\* What is cached was downloaded under the URL of a saved upload, and is its
\* image if nothing has disturbed it.
CachedSound ==
  \A c \in cached : \E x \in Uploads :
    /\ step[x] = "saved" /\ c.url = [ext |-> ext[x], v |-> stamp[x]]
    /\ since[x] = {x} => c.image = x

ImagesInv ==
  /\ ImagesTypeOK /\ SinceSound /\ LeftSound /\ UndisturbedSound /\ SameTypeSound
  /\ RowSound /\ CachedSound

-----------------------------------------------------------------------------

\* No upload, no file.
LEMMA InitImages == ImagesInit => ImagesInv
<1> SUFFICES ASSUME ImagesInit PROVE ImagesInv
  OBVIOUS
<1>1. ImagesTypeOK
  BY DEF ImagesInit, ImagesTypeOK, Image, Versions
<1>2. \A u \in Uploads : step[u] = "idle" /\ left[u] = {}
  BY DEF ImagesInit
<1>3. url = NoUrl /\ cached = {}
  BY DEF ImagesInit
<1>4. QED
  BY <1>1, <1>2, <1>3 DEF ImagesInv, SinceSound, LeftSound, UndisturbedSound, SameTypeSound,
    RowSound, CachedSound, Underway

\* A saved upload is over: as long as it stays saved with its stamp, and no
\* set of disturbers shrinks, what is cached stays explained.
LEMMA CachedStays ==
  ASSUME ImagesInv, UNCHANGED <<ext, cached>>,
         \A x \in Uploads : step[x] = "saved" =>
           /\ step'[x] = "saved" /\ stamp'[x] = stamp[x]
           /\ since[x] \subseteq since'[x] /\ since'[x] \subseteq Uploads
  PROVE  CachedSound'
<1> SUFFICES ASSUME NEW c \in cached
             PROVE  \E x \in Uploads :
                      /\ step'[x] = "saved" /\ c.url = [ext |-> ext[x], v |-> stamp'[x]]
                      /\ since'[x] = {x} => c.image = x
  BY DEF CachedSound
<1>1. PICK x \in Uploads : /\ step[x] = "saved" /\ c.url = [ext |-> ext[x], v |-> stamp[x]]
                           /\ since[x] = {x} => c.image = x
  BY DEF ImagesInv, CachedSound
<1>2. x \in since[x]
  BY <1>1 DEF ImagesInv, SinceSound
<1>3. since'[x] = {x} => since[x] = {x}
  BY <1>1, <1>2
<1>4. QED
  BY <1>1, <1>3

\* An upload that starts disturbs all that are not idle.
LEMMA StartImages ==
  ASSUME ImagesInv, NEW r \in Uploads, StartUpload(r)
  PROVE  ImagesInv'
<1> USE DEF ImagesInv
<1>1. /\ step[r] = "idle" /\ step' = [step EXCEPT ![r] = "deleting"]
      /\ left' = [left EXCEPT ![r] = Exts \ {ext[r]}]
      /\ UNCHANGED <<ext, stamp, files, url, clock, cached>>
  BY DEF StartUpload, Variants
<1>2. \A u \in Uploads : since'[u] = IF u = r THEN InFlight \cup {r}
                                     ELSE IF step[u] = "idle" THEN {} ELSE since[u] \cup {r}
  BY DEF StartUpload
<1>3. InFlight \subseteq Uploads
  BY DEF InFlight
<1>4. ImagesTypeOK'
  <2>1. step' \in [Uploads -> {"idle", "saved", "failed"} \cup Underway]
    BY <1>1 DEF ImagesTypeOK, Underway
  <2>2. left' \in [Uploads -> SUBSET Exts]
    BY <1>1 DEF ImagesTypeOK
  <2>3. since' \in [Uploads -> SUBSET Uploads]
    BY <1>3 DEF StartUpload, ImagesTypeOK
  <2>4. QED
    BY <1>1, <2>1, <2>2, <2>3 DEF ImagesTypeOK
<1>5. SinceSound'
  BY <1>1, <1>2 DEF ImagesTypeOK, SinceSound, InFlight, Underway
<1>6. LeftSound'
  BY <1>1 DEF ImagesTypeOK, LeftSound
<1>7. UndisturbedSound'
  <2>1. \A u \in Uploads : (u # r /\ step'[u] # "idle") => r \in since'[u]
    BY <1>1, <1>2 DEF ImagesTypeOK
  <2>2. step'[r] = "deleting" /\ left'[r] = Exts \ {ext[r]}
    BY <1>1 DEF ImagesTypeOK
  <2>3. QED
    BY <1>1, <2>1, <2>2 DEF UndisturbedSound
<1>8. SameTypeSound'
  BY <1>1, <1>2 DEF ImagesTypeOK, SameTypeSound
<1>9. RowSound'
  BY <1>1 DEF ImagesTypeOK, RowSound, UrlIn
<1>10. CachedSound'
  <2>1. \A x \in Uploads : step[x] = "saved" =>
          /\ step'[x] = "saved" /\ stamp'[x] = stamp[x]
          /\ since[x] \subseteq since'[x] /\ since'[x] \subseteq Uploads
    BY <1>1, <1>2 DEF ImagesTypeOK
  <2>2. QED
    BY <1>1, <2>1, CachedStays
<1>11. QED
  BY <1>4, <1>5, <1>6, <1>7, <1>8, <1>9, <1>10

\* What the steps of an upload that is on its way have in common.
OwnStep(r) ==
  /\ step[r] \in Underway /\ step'[r] \in Underway \cup {"failed", "saved"}
  /\ \A u \in Uploads \ {r} : step'[u] = step[u] \/ (step[u] = "opened" /\ step'[u] = "detached")
  /\ \A u \in Uploads : step[u] = "saved" => stamp'[u] = stamp[u]
  /\ ext' = ext /\ since' = since /\ cached' = cached

\* Such a step has been seen by every other upload that is not idle.
OthersDisturbed(r) == \A u \in Uploads \ {r} : step'[u] # "idle" => since[u] # {u}

\* It keeps what is known of the others' time, of the row and of the cached images.
LEMMA OwnStepKeeps ==
  ASSUME ImagesInv, NEW r \in Uploads, OwnStep(r)
  PROVE  SinceSound' /\ CachedSound' /\ OthersDisturbed(r) /\ (url' = url => RowSound')
<1> USE DEF ImagesInv, OwnStep
<1>1. \A u \in Uploads : step'[u] \in Underway => step[u] \in Underway
  BY DEF Underway, ImagesTypeOK
<1>2. \A u \in Uploads : step'[u] # "idle" <=> step[u] # "idle"
  BY DEF Underway, ImagesTypeOK
<1>3. SinceSound'
  BY <1>1, <1>2 DEF SinceSound
<1>4. \A u \in Uploads : step[u] = "saved" => step'[u] = "saved"
  BY DEF Underway
<1>5. CachedSound'
  BY <1>4, CachedStays DEF ImagesTypeOK
<1>6. OthersDisturbed(r)
  BY <1>2 DEF SinceSound, OthersDisturbed
<1>7. url' = url => RowSound'
  BY <1>4 DEF RowSound, UrlIn
<1>8. QED
  BY <1>3, <1>5, <1>6, <1>7

\* One variant is removed, and whoever had it open has lost its name.
LEMMA DeleteImages ==
  ASSUME ImagesInv, NEW r \in Uploads, NEW e \in Exts, DeleteVariant(r, e)
  PROVE  ImagesInv'
<1> USE DEF ImagesInv
<1>1. /\ step[r] = "deleting" /\ e \in left[r]
      /\ left' = [left EXCEPT ![r] = @ \ {e}] /\ files' = [files EXCEPT ![e] = "none"]
      /\ step' = [u \in Uploads |-> IF step[u] = "opened" /\ ext[u] = e THEN "detached" ELSE step[u]]
      /\ UNCHANGED <<ext, stamp, url, clock, cached, since>>
  BY DEF DeleteVariant
<1>2. e # ext[r]
  BY <1>1 DEF LeftSound
<1>3. step[r] \in Underway /\ step'[r] = "deleting" /\ step'[r] \in Underway
  BY <1>1 DEF Underway
<1>4. ImagesTypeOK'
  <2>1. step' \in [Uploads -> {"idle", "saved", "failed"} \cup Underway]
    BY <1>1 DEF ImagesTypeOK, Underway
  <2>2. left' \in [Uploads -> SUBSET Exts] /\ files' \in [Exts -> Image]
    BY <1>1 DEF ImagesTypeOK, Image
  <2>3. QED
    BY <1>1, <2>1, <2>2 DEF ImagesTypeOK
<1>5. SinceSound' /\ CachedSound' /\ RowSound' /\ OthersDisturbed(r)
  <2>1. OwnStep(r)
    BY <1>1, <1>3 DEF OwnStep
  <2>2. QED
    BY <1>1, <2>1, OwnStepKeeps
<1>6. LeftSound'
  BY <1>1 DEF ImagesTypeOK, LeftSound
<1>7. UndisturbedSound'
  <2>1. \A o \in Exts \ {ext[r]} : since[r] = {r} => o \in left'[r] \/ files'[o] = "none"
    BY <1>1 DEF ImagesTypeOK, UndisturbedSound
  <2>2. QED
    BY <1>1, <1>3, <1>5, <2>1 DEF UndisturbedSound, OthersDisturbed
<1>8. SameTypeSound'
  <2> SUFFICES ASSUME NEW u \in Uploads,
                      step'[u] \in {"opened", "detached", "written", "stamped", "saved"},
                      \A w \in since[u] : ext[w] = ext[u]
               PROVE  files'[ext[u]] # "none"
    BY <1>1 DEF SameTypeSound
  <2>1. step[u] \in {"opened", "detached", "written", "stamped", "saved"}
    BY <1>1
  <2>2. files[ext[u]] # "none"
    BY <2>1 DEF SameTypeSound
  <2>3. r \in since[u]
    BY <1>3, <2>1 DEF SinceSound
  <2>4. QED
    BY <1>1, <1>2, <2>2, <2>3 DEF ImagesTypeOK
<1>9. QED
  BY <1>4, <1>5, <1>6, <1>7, <1>8

\* The file is cut to nothing.
LEMMA OpenImages ==
  ASSUME ImagesInv, NEW r \in Uploads, OpenFile(r)
  PROVE  ImagesInv'
<1> USE DEF ImagesInv
<1>1. /\ step[r] = "deleting" /\ left[r] = {} /\ step' = [step EXCEPT ![r] = "opened"]
      /\ files' = [files EXCEPT ![ext[r]] = "torn"]
      /\ UNCHANGED <<ext, left, stamp, url, clock, cached, since>>
  BY DEF OpenFile
<1>2. step[r] \in Underway /\ step'[r] = "opened" /\ ext[r] \in Exts
  BY <1>1 DEF Underway, ImagesTypeOK
<1>3. ImagesTypeOK'
  <2>1. files' \in [Exts -> Image]
    BY <1>1 DEF ImagesTypeOK, Image
  <2>2. QED
    BY <1>1, <2>1 DEF ImagesTypeOK, Underway
<1>4. SinceSound' /\ CachedSound' /\ RowSound' /\ OthersDisturbed(r)
  <2>1. OwnStep(r)
    BY <1>1, <1>2 DEF OwnStep, Underway, ImagesTypeOK
  <2>2. QED
    BY <1>1, <2>1, OwnStepKeeps
<1>5. LeftSound'
  BY <1>1 DEF LeftSound
<1>6. UndisturbedSound'
  <2>1. since[r] = {r} => \A e \in Exts \ {ext[r]} : files[e] = "none"
    BY <1>1 DEF UndisturbedSound
  <2>2. since[r] = {r} => Only(r, "torn")'
    BY <1>1, <2>1 DEF Only, ImagesTypeOK
  <2>3. QED
    BY <1>1, <1>2, <1>4, <2>2 DEF UndisturbedSound, OthersDisturbed
<1>7. SameTypeSound'
  BY <1>1, <1>2 DEF SameTypeSound, ImagesTypeOK
<1>8. QED
  BY <1>3, <1>4, <1>5, <1>6, <1>7

\* The bytes are written, whole when nobody else was at the file.
LEMMA WriteImages ==
  ASSUME ImagesInv, NEW r \in Uploads, WriteFile(r)
  PROVE  ImagesInv'
<1> USE DEF ImagesInv
<1>1. /\ step[r] \in {"opened", "detached"} /\ step' = [step EXCEPT ![r] = "written"]
      /\ \/ step[r] = "opened" /\ files' = [files EXCEPT ![ext[r]] = r]
         \/ step[r] = "opened" /\ files[ext[r]] # "torn" /\ files' = [files EXCEPT ![ext[r]] = "torn"]
         \/ step[r] = "detached" /\ UNCHANGED files
      /\ UNCHANGED <<ext, left, stamp, url, clock, cached, since>>
  BY DEF WriteFile
<1>2. step[r] \in Underway /\ step'[r] = "written" /\ ext[r] \in Exts
  BY <1>1 DEF Underway, ImagesTypeOK
<1>3. ImagesTypeOK'
  <2>1. files' \in [Exts -> Image]
    BY <1>1 DEF ImagesTypeOK, Image
  <2>2. QED
    BY <1>1, <2>1 DEF ImagesTypeOK, Underway
<1>4. SinceSound' /\ CachedSound' /\ RowSound' /\ OthersDisturbed(r)
  <2>1. OwnStep(r)
    BY <1>1, <1>2 DEF OwnStep, Underway, ImagesTypeOK
  <2>2. QED
    BY <1>1, <2>1, OwnStepKeeps
<1>5. LeftSound'
  BY <1>1 DEF LeftSound
<1>6. UndisturbedSound'
  <2>1. since[r] = {r} => step[r] = "opened" /\ Only(r, "torn")
    BY <1>1 DEF UndisturbedSound
  <2>2. since[r] = {r} => files' = [files EXCEPT ![ext[r]] = r]
    BY <1>1, <1>2, <2>1 DEF Only
  <2>3. since[r] = {r} => Only(r, r)'
    BY <1>1, <1>2, <2>1, <2>2 DEF Only
  <2>4. QED
    BY <1>1, <1>2, <1>4, <2>3 DEF UndisturbedSound, OthersDisturbed
<1>7. SameTypeSound'
  <2>1. \A e \in Exts : files[e] # "none" => files'[e] # "none"
    BY <1>1 DEF ImagesTypeOK
  <2>2. QED
    BY <1>1, <1>2, <2>1 DEF SameTypeSound, ImagesTypeOK
<1>8. QED
  BY <1>3, <1>4, <1>5, <1>6, <1>7

\* The URL is made, the row saved, or the upload given up; the files stay.
LEMMA EndImages ==
  ASSUME ImagesInv, NEW r \in Uploads, Stamp(r) \/ SaveRow(r) \/ FailUpload(r)
  PROVE  ImagesInv'
<1> USE DEF ImagesInv
<1>1. /\ step[r] \in Underway /\ UNCHANGED <<ext, left, files, clock, cached, since>>
      /\ \E s \in {"stamped", "saved", "failed"} : step' = [step EXCEPT ![r] = s]
      /\ step'[r] \in {"stamped", "saved"} => step[r] \in {"written", "stamped"}
      /\ stamp' = stamp \/ stamp' = [stamp EXCEPT ![r] = clock]
  BY DEF Stamp, SaveRow, FailUpload, Underway, ImagesTypeOK
<1>2. step'[r] \in {"stamped", "saved", "failed"} /\ \A u \in Uploads \ {r} : step'[u] = step[u]
  BY <1>1 DEF ImagesTypeOK
<1>3. \A u \in Uploads \ {r} : stamp'[u] = stamp[u]
  BY <1>1 DEF ImagesTypeOK
<1>4. SaveRow(r) => /\ step'[r] = "saved" /\ stamp' = stamp
                    /\ url' = [ext |-> ext[r], v |-> stamp[r], by |-> r]
  BY DEF SaveRow, Version, ImagesTypeOK
<1>5. ImagesTypeOK'
  <2>1. step' \in [Uploads -> {"idle", "saved", "failed"} \cup Underway]
    BY <1>1 DEF ImagesTypeOK, Underway
  <2>2. stamp' \in [Uploads -> Versions]
    BY <1>1 DEF ImagesTypeOK
  <2>3. url' \in Row \cup {NoUrl}
    <3>1. CASE SaveRow(r)
      BY <1>4, <3>1 DEF ImagesTypeOK, Row
    <3>2. CASE ~SaveRow(r)
      BY <3>2 DEF ImagesTypeOK, Stamp, FailUpload
    <3>3. QED
      BY <3>1, <3>2
  <2>4. QED
    BY <1>1, <2>1, <2>2, <2>3 DEF ImagesTypeOK
<1>6. SinceSound' /\ CachedSound' /\ OthersDisturbed(r) /\ (url' = url => RowSound')
  <2>1. OwnStep(r)
    BY <1>1, <1>2, <1>3 DEF OwnStep, Underway
  <2>2. QED
    BY <2>1, OwnStepKeeps
<1>7. RowSound'
  <2>1. CASE SaveRow(r)
    BY <1>1, <1>4, <2>1 DEF RowSound, UrlIn
  <2>2. CASE ~SaveRow(r)
    BY <1>6, <2>2 DEF Stamp, FailUpload
  <2>3. QED
    BY <2>1, <2>2
<1>8. LeftSound'
  BY <1>1 DEF LeftSound
<1>9. UndisturbedSound'
  BY <1>1, <1>2, <1>6 DEF UndisturbedSound, OthersDisturbed, Only
<1>10. SameTypeSound'
  BY <1>1, <1>2 DEF SameTypeSound
<1>11. QED
  BY <1>5, <1>6, <1>7, <1>8, <1>9, <1>10

\* The clock, and the client.
LEMMA ClientImages ==
  ASSUME ImagesInv, Tick \/ Download \/ \E c \in cached : CacheExpires(c)
  PROVE  ImagesInv'
<1> USE DEF ImagesInv
<1>1. UNCHANGED <<step, ext, left, stamp, files, url, since>>
  BY DEF Tick, Download, CacheExpires
<1>2. SinceSound' /\ LeftSound' /\ UndisturbedSound' /\ SameTypeSound' /\ RowSound'
  BY <1>1 DEF SinceSound, LeftSound, UndisturbedSound, Only, SameTypeSound, RowSound
<1>3. CASE Tick
  <2>1. clock' \in Versions /\ cached' = cached
    BY <1>3 DEF Tick, ImagesTypeOK, Versions
  <2>2. ImagesTypeOK'
    BY <1>1, <2>1 DEF ImagesTypeOK
  <2>3. CachedSound'
    BY <1>1, <2>1 DEF CachedSound
  <2>4. QED
    BY <1>2, <2>2, <2>3
<1>4. CASE Download
  <2> DEFINE c == [url |-> UrlIn(url), image |-> files[url.ext]]
  <2>1. url # NoUrl /\ cached' = cached \cup {c} /\ clock' = clock
    BY <1>4 DEF Download
  <2>2. url \in Row
    BY <2>1 DEF ImagesTypeOK
  <2>3. c \in [url : Url, image : Image]
    BY <2>2 DEF ImagesTypeOK, Row, Url, UrlIn
  <2>4. PICK x \in Uploads : x = url.by /\ step[x] = "saved" /\ c.url = [ext |-> ext[x], v |-> stamp[x]]
    BY <2>1 DEF RowSound
  <2>5. url.ext = ext[x] /\ ext[x] \in Exts
    BY <2>2, <2>4 DEF UrlIn, ImagesTypeOK
  <2>6. since[x] = {x} => c.image = x
    BY <2>4, <2>5 DEF UndisturbedSound, Only
  <2> HIDE DEF c
  <2>7. CachedSound'
    BY <1>1, <2>1, <2>4, <2>6 DEF CachedSound
  <2>8. ImagesTypeOK'
    BY <1>1, <2>1, <2>3 DEF ImagesTypeOK
  <2>9. QED
    BY <1>2, <2>7, <2>8
<1>5. CASE \E c \in cached : CacheExpires(c)
  <2>1. cached' \subseteq cached /\ clock' = clock
    BY <1>5 DEF CacheExpires
  <2>2. ImagesTypeOK'
    BY <1>1, <2>1 DEF ImagesTypeOK
  <2>3. CachedSound'
    BY <1>1, <2>1 DEF CachedSound
  <2>4. QED
    BY <1>2, <2>2, <2>3
<1>6. QED
  BY <1>3, <1>4, <1>5

\* Every step keeps the invariant.
LEMMA NextImages == ImagesInv /\ [ImagesNext]_imagesVars => ImagesInv'
<1> SUFFICES ASSUME ImagesInv, [ImagesNext]_imagesVars PROVE ImagesInv'
  OBVIOUS
<1>1. CASE UNCHANGED imagesVars
  <2> USE DEF ImagesInv
  <2>1. UNCHANGED <<step, ext, left, stamp, files, url, clock, cached, since>>
    BY <1>1 DEF imagesVars
  <2>2. ImagesTypeOK' /\ SinceSound' /\ LeftSound'
    BY <2>1 DEF ImagesTypeOK, SinceSound, LeftSound
  <2>3. UndisturbedSound' /\ SameTypeSound'
    BY <2>1 DEF UndisturbedSound, Only, SameTypeSound
  <2>4. RowSound' /\ CachedSound'
    BY <2>1 DEF RowSound, CachedSound
  <2>5. QED
    BY <2>2, <2>3, <2>4
<1>2. ASSUME NEW r \in Uploads, UploadStep(r) PROVE ImagesInv'
  BY <1>2, StartImages, DeleteImages, OpenImages, WriteImages, EndImages DEF UploadStep
<1>3. QED
  BY <1>1, <1>2, ClientImages DEF ImagesNext

\* The invariant holds in every reachable state.
THEOREM UploadsSafe == ImagesSpec => []ImagesInv
<1>1. QED
  BY InitImages, NextImages, PTL DEF ImagesSpec

\* However uploads of one owner interleave and wherever they fail, an undisturbed
\* one leaves its own image behind its URL and nothing beside it, and uploads of
\* one type never leave the URL without a file (image.rs, store).
THEOREM StorageSound == ImagesSpec => []StorageMatchesRow
<1>1. ImagesInv => StorageMatchesRow
  <2> SUFFICES ASSUME ImagesInv, url # NoUrl
               PROVE  /\ Disturbers = {} =>
                           files = [e \in Exts |-> IF e = url.ext THEN url.by ELSE "none"]
                      /\ (\A u \in Disturbers : ext[u] = url.ext) => files[url.ext] # "none"
    BY DEF StorageMatchesRow
  <2> USE DEF ImagesInv
  <2>1. PICK x \in Uploads : x = url.by /\ step[x] = "saved" /\ url.ext = ext[x]
    BY DEF RowSound, UrlIn
  <2>2. Disturbers = since[x] \ {x} /\ x \in since[x]
    BY <2>1 DEF Disturbers, SinceSound
  <2>3. Disturbers = {} => Only(x, x)
    BY <2>1, <2>2 DEF UndisturbedSound
  <2>4. (\A u \in Disturbers : ext[u] = url.ext) => files[url.ext] # "none"
    BY <2>1, <2>2 DEF SameTypeSound
  <2>5. QED
    BY <2>1, <2>3, <2>4 DEF Only
<1>2. QED
  BY <1>1, UploadsSafe, PTL

\* A client that keeps an image under the row's URL keeps the row's image, but
\* for two uploads of one type in one second (files.rs, get_file).
THEOREM CachingSound == ImagesSpec => []CachedImageIsCurrent
<1>1. ImagesInv => CachedImageIsCurrent
  <2> SUFFICES ASSUME ImagesInv, NEW c \in cached, url # NoUrl, c.url = UrlIn(url), Disturbers = {}
               PROVE  \/ c.image = url.by
                      \/ \E u \in Uploads \ {url.by} :
                           step[u] = "saved" /\ ext[u] = url.ext /\ stamp[u] = stamp[url.by]
    BY DEF CachedImageIsCurrent
  <2> USE DEF ImagesInv
  <2>1. url.by \in Uploads /\ UrlIn(url) = [ext |-> ext[url.by], v |-> stamp[url.by]]
    BY DEF RowSound
  <2>2. url.ext = ext[url.by]
    BY <2>1 DEF UrlIn
  <2>3. since[url.by] = {url.by}
    BY <2>1 DEF Disturbers, SinceSound, RowSound
  <2>4. PICK x \in Uploads : /\ step[x] = "saved" /\ c.url = [ext |-> ext[x], v |-> stamp[x]]
                             /\ since[x] = {x} => c.image = x
    BY DEF CachedSound
  <2>5. ext[x] = ext[url.by] /\ stamp[x] = stamp[url.by]
    BY <2>1, <2>4
  <2>6. QED
    BY <2>2, <2>3, <2>4, <2>5
<1>2. QED
  BY <1>1, UploadsSafe, PTL
=============================================================================
