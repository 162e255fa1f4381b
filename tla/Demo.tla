--------------------------------- MODULE Demo --------------------------------
(***************************************************************************)
(* The demo simulation of one server process (crate demo): how it finds or *)
(* creates its bot accounts at a start (cast.rs), and the loop that keeps  *)
(* the board stocked (market_maker.rs), which settles one market past its  *)
(* deadline and opens one question in every round.                         *)
(*                                                                         *)
(* The loop acts on lists it read a moment ago, and it is not alone: human *)
(* admins and other servers create and resolve markets, take accounts and  *)
(* names, change roles; the process may end and start again anywhere.      *)
(* ResolveMarket and CreateMarket are single steps here, and winners are   *)
(* left out: Betting has both.  A resolved market leaves the board and its *)
(* id may be used again once nothing refers to it: ids only tell open      *)
(* markets apart.                                                          *)
(***************************************************************************)
EXTENDS Naturals, FiniteSets, Sequences

CONSTANTS Names, Host,    \* bot accounts, and the market maker's among them
          Titles,         \* questions there are templates for
          Ids,            \* ids of markets open at a time
          Sample,         \* how many open markets a bot lists (50 in the code)
          MaxOthers,      \* bound: markets of others open at a time
          MaxFaults       \* bound: crashes, errors, role changes

ASSUME DemoAssumption ==
  /\ Host \in Names /\ IsFiniteSet(Titles) /\ IsFiniteSet(Ids)
  /\ Sample \in Nat \ {0} /\ MaxOthers \in Nat /\ MaxFaults \in Nat
  /\ Cardinality(Ids) > Cardinality(Titles) + MaxOthers

VARIABLES phase,     \* the simulation in this process
          todo,      \* accounts it has still to provision
          looked,    \* what it found under the next one's email
          account,   \* role of the account with each name
          board,     \* open markets, oldest first
          maker,     \* where the market maker's round stands
          faults

castVars == <<phase, todo, looked>>
demoVars     == <<castVars, account, board, maker, faults>>

Idle == [at |-> "idle"]
RoleOf(n) == IF n = Host THEN "admin" ELSE "user"

MakerStates ==
  {Idle} \cup [at : {"resolved", "opening", "opened"}]
    \cup [at : {"creating"}, title : Titles] \cup [at : {"resolving"}, id : Ids]

DemoTypeOK ==
  /\ phase \in {"down", "provisioning", "running", "disabled"}
  /\ todo \subseteq Names
  /\ looked \in {"unread", "absent", "user", "admin"}
  /\ account \in [Names -> {"none", "user", "admin", "foreign"}]
  /\ board \in Seq([id : Ids, title : Titles, expired : BOOLEAN, by : {"maker", "other"}])
  /\ maker \in MakerStates
  /\ faults \in 0 .. MaxFaults

DemoInit ==
  /\ phase = "down" /\ todo = {} /\ looked = "unread"
  /\ account = [n \in Names |-> "none"]
  /\ board = << >>
  /\ maker = Idle /\ faults = 0

-----------------------------------------------------------------------------
(* Provisioning *)

Start ==
  /\ phase = "down"
  /\ phase' = "provisioning" /\ todo' = Names /\ looked' = "unread"
  /\ UNCHANGED <<account, board, maker, faults>>

\* The host is provisioned first, then the others in an order that is always the
\* same.
NextAccount(n) ==
  n \in todo /\ n = IF Host \in todo THEN Host ELSE CHOOSE m \in todo : TRUE

\* find_by_email.  A real user may have taken the username, not the email.
LookUp(n) ==
  /\ phase = "provisioning" /\ NextAccount(n) /\ looked = "unread"
  /\ looked' = IF account[n] \in {"user", "admin"} THEN account[n] ELSE "absent"
  /\ UNCHANGED <<phase, todo, account, board, maker, faults>>

\* The account is created, or its role corrected.  A username or an email taken
\* meanwhile is a conflict, which disables the simulation.
Provision(n) ==
  /\ phase = "provisioning" /\ NextAccount(n) /\ looked # "unread"
  /\ looked' = "unread"
  /\ \/ /\ looked = "absent" /\ account[n] # "none"
        /\ phase' = "disabled" /\ todo' = {} /\ UNCHANGED account
     \/ /\ looked = "absent" => account[n] = "none"
        /\ account' = IF looked = RoleOf(n) THEN account ELSE [account EXCEPT ![n] = RoleOf(n)]
        /\ todo' = todo \ {n}
        /\ phase' = IF todo = {n} THEN "running" ELSE phase
  /\ UNCHANGED <<board, maker, faults>>

ProvisionFails ==
  /\ phase = "provisioning" /\ faults < MaxFaults
  /\ phase' = "disabled" /\ todo' = {} /\ looked' = "unread"
  /\ faults' = faults + 1
  /\ UNCHANGED <<account, board, maker>>

\* The process ends; what it had committed stays.
Crash ==
  /\ phase # "down" /\ faults < MaxFaults
  /\ phase' = "down" /\ todo' = {} /\ looked' = "unread"
  /\ maker' = Idle
  /\ faults' = faults + 1
  /\ UNCHANGED <<account, board>>

-----------------------------------------------------------------------------
(* The market maker *)

\* open_markets: the newest Sample open ones.
Listed(markets) == {markets[k] : k \in {j \in DOMAIN markets : j + Sample > Len(markets)}}

\* Mutant: as in the other loops, markets past their deadline are skipped.
LiveUnexpired(markets) == {m.title : m \in {l \in Listed(markets) : ~l.expired}}

\* The questions that are live: of every open market listed, expired or not.
Live(markets) == {m.title : m \in Listed(markets)}

Open(i) == \E k \in DOMAIN board : board[k].id = i
Expired(i) == \E k \in DOMAIN board : board[k].id = i /\ board[k].expired

\* The k-th market is no longer open.
Remove(k) ==
  board' = [j \in 1 .. Len(board) - 1 |-> IF j < k THEN board[j] ELSE board[j + 1]]

\* settle_expired finds nothing to settle.
NothingDue ==
  /\ phase = "running" /\ maker = Idle
  /\ \A m \in Listed(board) : ~m.expired
  /\ maker' = [at |-> "opening"]
  /\ UNCHANGED <<castVars, account, board, faults>>

\* settle_expired picks one expired market.
PickExpired(i) ==
  /\ phase = "running" /\ maker = Idle
  /\ \E m \in Listed(board) : m.id = i /\ m.expired
  /\ maker' = [at |-> "resolving", id |-> i]
  /\ UNCHANGED <<castVars, account, board, faults>>

ResolvePicked ==
  /\ maker.at = "resolving"
  /\ \E k \in DOMAIN board : board[k].id = maker.id /\ Remove(k)
  /\ maker' = [at |-> "resolved"]
  /\ UNCHANGED <<castVars, account, faults>>

\* Mutant: the round is not given up.
ResolveRetried ==
  /\ maker.at = "resolving" /\ ~Open(maker.id)
  /\ UNCHANGED demoVars

\* Somebody was faster: the error ends the round, and no question is opened.
ResolveTooLate ==
  /\ maker.at = "resolving" /\ ~Open(maker.id)
  /\ maker' = Idle
  /\ UNCHANGED <<castVars, account, board, faults>>

\* The message goes to the market's room.
AnnounceResolved ==
  /\ maker.at = "resolved"
  /\ maker' = [at |-> "opening"]
  /\ UNCHANGED <<castVars, account, board, faults>>

NothingToOpen ==
  /\ maker.at = "opening" /\ Titles \subseteq Live(board)
  /\ maker' = Idle
  /\ UNCHANGED <<castVars, account, board, faults>>

PickTitle(t) ==
  /\ maker.at = "opening" /\ t \in Titles \ Live(board)
  /\ maker' = [at |-> "creating", title |-> t]
  /\ UNCHANGED <<castVars, account, board, faults>>

\* An id no open market has and no round refers to.
FreshId ==
  CHOOSE i \in Ids : ~Open(i) /\ (maker.at = "resolving" => maker.id # i)

Create(title, by) ==
  board' = Append(board, [id |-> FreshId, title |-> title, expired |-> FALSE, by |-> by])

CreatePicked ==
  /\ maker.at = "creating"
  /\ Create(maker.title, "maker")
  /\ maker' = [at |-> "opened"]
  /\ UNCHANGED <<castVars, account, faults>>

\* The message goes to the global room.
AnnounceOpened ==
  /\ maker.at = "opened"
  /\ maker' = Idle
  /\ UNCHANGED <<castVars, account, board, faults>>

\* An error of a use case ends the round; the next one starts over.
RoundFails ==
  /\ maker # Idle /\ faults < MaxFaults
  /\ maker' = Idle
  /\ faults' = faults + 1
  /\ UNCHANGED <<castVars, account, board>>

-----------------------------------------------------------------------------
(* Everyone else *)

DeadlinePasses(i) ==
  /\ \E k \in DOMAIN board :
       /\ board[k].id = i /\ ~board[k].expired
       /\ board' = [board EXCEPT ![k].expired = TRUE]
  /\ UNCHANGED <<castVars, account, maker, faults>>

OthersCreate ==
  /\ Cardinality({k \in DOMAIN board : board[k].by = "other"}) < MaxOthers
  /\ \E t \in Titles : Create(t, "other")
  /\ UNCHANGED <<castVars, account, maker, faults>>

OthersResolve ==
  /\ \E k \in DOMAIN board : Remove(k)
  /\ UNCHANGED <<castVars, account, maker, faults>>

\* Another server provisions the account, or a real user takes the username.
OthersTakeAccount(n) ==
  /\ account[n] = "none"
  /\ \E v \in {RoleOf(n), "foreign"} : account' = [account EXCEPT ![n] = v]
  /\ UNCHANGED <<castVars, board, maker, faults>>

\* An admin changes a role.
OthersChangeRole(n) ==
  /\ account[n] \in {"user", "admin"} /\ faults < MaxFaults
  /\ \E v \in {"user", "admin"} \ {account[n]} : account' = [account EXCEPT ![n] = v]
  /\ faults' = faults + 1
  /\ UNCHANGED <<castVars, board, maker>>

MakerStep ==
  \/ NothingDue \/ (\E i \in Ids : PickExpired(i)) \/ ResolvePicked \/ ResolveTooLate
  \/ AnnounceResolved \/ NothingToOpen \/ (\E t \in Titles : PickTitle(t))
  \/ CreatePicked \/ AnnounceOpened

CastStep == Start \/ \E n \in Names : LookUp(n) \/ Provision(n)

DemoNext ==
  \/ CastStep \/ MakerStep \/ ProvisionFails \/ Crash \/ RoundFails
  \/ (\E i \in Ids : DeadlinePasses(i)) \/ OthersCreate \/ OthersResolve
  \/ \E n \in Names : OthersTakeAccount(n) \/ OthersChangeRole(n)

\* A server that went down is started again; the loop goes on; its random
\* choices leave no market and no title out for ever; and others do not win the
\* race to resolve every market it picks.
Fairness ==
  /\ WF_demoVars(CastStep) /\ WF_demoVars(MakerStep)
  /\ \A i \in Ids : SF_demoVars(PickExpired(i))
  /\ \A t \in Titles : SF_demoVars(PickTitle(t))
  /\ SF_demoVars(ResolvePicked)

DemoSpec == DemoInit /\ [][DemoNext]_demoVars /\ Fairness

-----------------------------------------------------------------------------
(* Properties *)

\* "The same question can come back around once its previous round has
\* resolved, but never twice at once" (market_maker.rs): no two open markets of
\* the maker ask the same question, across restarts and whatever happened
\* between its list and its create.
NeverTwiceAtOnce ==
  \A j, k \in DOMAIN board :
    (board[j].by = "maker" /\ board[k].by = "maker" /\ board[j].title = board[k].title) => j = k

\* A running simulation has all its accounts, however often it was started and
\* whoever else was provisioning them.
CastComplete == phase = "running" => \A n \in Names : account[n] \in {"user", "admin"}

DemoInv ==
  /\ DemoTypeOK
  /\ NeverTwiceAtOnce
  /\ CastComplete

\* A market past its deadline is settled sooner or later, unless the
\* simulation was disabled, when fewer markets are open than a list holds.
ExpiredIsSettled == \A i \in Ids : Expired(i) ~> (~Expired(i) \/ phase = "disabled")

\* Every question is on the board again and again: nothing that others resolve,
\* and no failed round, stops the maker from opening it.
StaysStocked ==
  \A t \in Titles : []<>(phase = "disabled" \/ \E k \in DOMAIN board : board[k].title = t)

\* The board turns over for as long as the simulation runs.
BoardTurnsOver == ExpiredIsSettled /\ StaysStocked
=============================================================================
