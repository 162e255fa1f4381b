------------------------------- MODULE Betting -------------------------------
(***************************************************************************)
(* The money core of betsphere: placing bets and resolving markets against *)
(* Postgres at READ COMMITTED.                                             *)
(*                                                                         *)
(* PlaceBet (application/.../bet/place_bet.rs) and ResolveMarket           *)
(* (.../market/resolve_market.rs) read what they need in separate          *)
(* auto-committed statements and then run one transaction of the bet       *)
(* repository (infrastructure/.../postgres/bet_repository.rs).  Every read *)
(* and every statement that can wait for a row lock is an action here, so  *)
(* requests interleave exactly where the code lets them.                   *)
(*                                                                         *)
(* A transaction's writes become visible at its commit, and a row it has   *)
(* updated stays locked until then.  Who holds which row follows from the  *)
(* requests' program counters, so the locks are not variables (see         *)
(* UserRowHolders, OutcomeRowHolders, MarketRowHolders).  A bet's id is    *)
(* the PlaceBet request that creates it.                                   *)
(***************************************************************************)
EXTENDS Pricing, Sequences

CONSTANTS Users, Markets,
          BetIds,           \* PlaceBet requests; each creates at most one bet
          Resolvers,        \* ResolveMarket requests
          MaxOutcomes,      \* bound: outcomes of a market
          StakeSizes,       \* amounts asked for, zero included
          StartingBalance   \* balance of a new user (10_000 in the code)

ASSUME BettingAssumption ==
  /\ MaxOutcomes \in Nat /\ MaxOutcomes >= 2
  /\ StakeSizes \subseteq Int
  /\ StartingBalance \in Nat
  /\ BetIds \cap Resolvers = {}
  /\ IsFiniteSet(BetIds) /\ IsFiniteSet(Resolvers)

VARIABLES
  \* Inputs, fixed from the start.
  order,        \* what each PlaceBet request asks for
  verdict,      \* what each ResolveMarket request asks for
  \* Committed tables.
  balance,      \* users.balance
  market,       \* markets
  volume,       \* outcomes.volume, per market and position
  price,        \* outcomes.current_price, per market and position
  betStatus,    \* bets.status; "none" until the bet is inserted
  outbox,       \* outbox_events, one set of events per committed transaction
  \* PlaceBet requests in flight.
  pc,           \* where each request stands
  board,        \* the copy of the market's outcomes it has read
  buyPrice,     \* the price of its bet, fixed when the board is read
  repeat,       \* the answer to the repeat_bettor query
  \* ResolveMarket requests in flight.
  rpc,          \* where each request stands
  snapshot,     \* the active bets it has read; once done, those it settled
  pending,      \* those its transaction has still to update
  credit        \* payouts its transaction has added to users' rows

inputs     == <<order, verdict>>
tables     == <<balance, market, volume, price, betStatus, outbox>>
placeVars  == <<pc, board, buyPrice, repeat>>
resolveVars == <<rpc, snapshot, pending, credit>>
vars       == <<inputs, tables, placeVars, resolveVars>>

-----------------------------------------------------------------------------
(* Rows and requests *)

Roles == {"user", "admin"}

Order   == [user : Users, market : Markets, outcome : 1 .. MaxOutcomes, amount : StakeSizes]
Verdict == [role : Roles, market : Markets, winner : 1 .. MaxOutcomes]

\* `expired' is closes_at in the past.  No code writes the status "closed".
MarketRow ==
  [status : {"absent", "open", "resolved"}, outcomes : 0 .. MaxOutcomes, expired : BOOLEAN,
   winner : 0 .. MaxOutcomes, total_volume : Int, participants : Int]

AbsentMarket ==
  [status |-> "absent", outcomes |-> 0, expired |-> FALSE,
   winner |-> 0, total_volume |-> 0, participants |-> 0]

\* Market::new.
NewMarket(n) ==
  [status |-> "open", outcomes |-> n, expired |-> FALSE,
   winner |-> 0, total_volume |-> 0, participants |-> 0]

\* A vector over a market's outcomes; the empty one stands for no market.
NoVector == [i \in 1 .. 0 |-> 0]
NoBoard == [volumes |-> NoVector, prices |-> NoVector]

PlaceInTx    == {"debited", "written"}
PlaceRunning == {"accepted", "priced", "checked"} \cup PlaceInTx
ResolveRunning == {"read", "loaded", "settling"}
Over == {"done", "rejected"}

Event == [type : {"BetPlaced"}, bet : BetIds]
    \cup [type : {"MarketPricesUpdated"}, market : Markets]
    \cup [type : {"UserBalanceChanged"}, user : Users]

BetStatuses == {"none", "active", "won", "lost"}

TypeOK ==
  /\ order \in [BetIds -> Order]
  /\ verdict \in [Resolvers -> Verdict]
  /\ balance \in [Users -> Int]
  /\ market \in [Markets -> MarketRow]
  /\ volume = [m \in Markets |-> volume[m]]
  /\ price = [m \in Markets |-> price[m]]
  /\ \A m \in Markets : /\ volume[m] \in [1 .. market[m].outcomes -> Int]
                        /\ price[m] \in [1 .. market[m].outcomes -> Price]
  /\ betStatus \in [BetIds -> BetStatuses]
  /\ outbox \in Seq(SUBSET Event)
  /\ pc \in [BetIds -> {"idle"} \cup PlaceRunning \cup Over]
  /\ board = [r \in BetIds |-> board[r]]  \* vectors as in BoardsFit
  /\ buyPrice \in [BetIds -> Price]
  /\ repeat \in [BetIds -> BOOLEAN]
  /\ rpc \in [Resolvers -> {"idle"} \cup ResolveRunning \cup Over]
  /\ snapshot \in [Resolvers -> SUBSET BetIds]
  /\ pending \in [Resolvers -> SUBSET BetIds]
  /\ credit \in [Resolvers -> [Users -> Int]]

-----------------------------------------------------------------------------
(* Row locks, as the statements executed so far imply them *)

\* UPDATE users: the debit of a placement, the credits of a settlement.
UserRowHolders(u) ==
  {r \in BetIds : pc[r] \in PlaceInTx /\ order[r].user = u}
    \cup {s \in Resolvers : rpc[s] = "settling" /\ credit[s][u] > 0}

\* UPDATE outcomes, in seq order: the first row taken decides who has them all.
OutcomeRowHolders(m) == {r \in BetIds : pc[r] = "written" /\ order[r].market = m}

\* UPDATE markets.  A placement takes this row last and commits at once.
MarketRowHolders(m) == {s \in Resolvers : rpc[s] = "settling" /\ verdict[s].market = m}

-----------------------------------------------------------------------------
(* Markets *)

Init ==
  /\ order \in [BetIds -> Order]
  /\ verdict \in [Resolvers -> Verdict]
  /\ balance = [u \in Users |-> StartingBalance]
  /\ market = [m \in Markets |-> AbsentMarket]
  /\ volume = [m \in Markets |-> NoVector]
  /\ price = [m \in Markets |-> NoVector]
  /\ betStatus = [b \in BetIds |-> "none"]
  /\ outbox = << >>
  /\ pc = [r \in BetIds |-> "idle"]
  /\ board = [r \in BetIds |-> NoBoard]
  /\ buyPrice = [r \in BetIds |-> 0]
  /\ repeat = [r \in BetIds |-> FALSE]
  /\ rpc = [s \in Resolvers |-> "idle"]
  /\ snapshot = [s \in Resolvers |-> {}]
  /\ pending = [s \in Resolvers |-> {}]
  /\ credit = [s \in Resolvers |-> [u \in Users |-> 0]]

CanManageMarkets(role) == role = "admin"

\* CreateMarket by an admin: n outcomes without volume at normalised prices.
CreateMarket(m, role, n) ==
  LET zeros == [i \in 1 .. n |-> 0] IN
  /\ CanManageMarkets(role)
  /\ n >= 2
  /\ market[m].status = "absent"
  /\ market' = [market EXCEPT ![m] = NewMarket(n)]
  /\ volume' = [volume EXCEPT ![m] = zeros]
  /\ price' = [price EXCEPT ![m] = RecalculatePrices(zeros, zeros)]
  /\ UNCHANGED <<inputs, balance, betStatus, outbox, placeVars, resolveVars>>

\* The clock passes the market's closes_at.
DeadlinePasses(m) ==
  /\ market[m].status = "open"
  /\ ~market[m].expired
  /\ market' = [market EXCEPT ![m].expired = TRUE]
  /\ UNCHANGED <<inputs, balance, volume, price, betStatus, outbox, placeVars, resolveVars>>

AcceptsBets(m) == market[m].status = "open" /\ ~market[m].expired

-----------------------------------------------------------------------------
(* PlaceBet *)

\* The request ends without a bet: an error answer, or the rollback of its
\* transaction.  Nothing it did is visible.
GiveUp(r) ==
  /\ pc' = [pc EXCEPT ![r] = "rejected"]
  /\ board' = [board EXCEPT ![r] = NoBoard]
  /\ buyPrice' = [buyPrice EXCEPT ![r] = 0]
  /\ repeat' = [repeat EXCEPT ![r] = FALSE]
  /\ UNCHANGED <<inputs, tables, resolveVars>>

\* outcome_by_id, find_by_id and the accepts_bets check.
PlaceStart(r) ==
  LET m == order[r].market
      ok == order[r].outcome \in 1 .. market[m].outcomes /\ AcceptsBets(m)
  IN
  /\ pc[r] = "idle"
  /\ \/ /\ ok
        /\ pc' = [pc EXCEPT ![r] = "accepted"]
        /\ UNCHANGED <<inputs, tables, board, buyPrice, repeat, resolveVars>>
     \/ ~ok /\ GiveUp(r)

\* outcomes_for: the copy the new prices are computed on, and the price of
\* the bet.
PlaceReadBoard(r) ==
  LET m == order[r].market IN
  /\ pc[r] = "accepted"
  /\ pc' = [pc EXCEPT ![r] = "priced"]
  /\ board' = [board EXCEPT ![r] = [volumes |-> volume[m], prices |-> price[m]]]
  /\ buyPrice' = [buyPrice EXCEPT ![r] = BuyPrice(price[m][order[r].outcome])]
  /\ UNCHANGED <<inputs, tables, repeat, resolveVars>>

\* The friendly pre-check, on a copy of the user that may come stale from the
\* cache, so that either answer is possible; then Bet::place, which refuses
\* an amount that is not positive.
PlaceCheckBalance(r) ==
  /\ pc[r] = "priced"
  /\ \/ /\ order[r].amount > 0
        /\ pc' = [pc EXCEPT ![r] = "checked"]
        /\ UNCHANGED <<inputs, tables, board, buyPrice, repeat, resolveVars>>
     \/ GiveUp(r)

\* SELECT EXISTS over the bets of this user on this market.
RepeatBettor(r) ==
  \E b \in BetIds : /\ betStatus[b] # "none"
                    /\ order[b].user = order[r].user
                    /\ order[b].market = order[r].market

\* Mutant: an unconditional debit, trusting the pre-check.
PlaceDebitUnchecked(r) ==
  /\ pc[r] = "checked"
  /\ UserRowHolders(order[r].user) = {}
  /\ pc' = [pc EXCEPT ![r] = "debited"]
  /\ repeat' = [repeat EXCEPT ![r] = RepeatBettor(r)]
  /\ UNCHANGED <<inputs, tables, board, buyPrice, resolveVars>>

\* The conditional debit waits for the user's row, then takes it or ends in a
\* conflict.  The repeat_bettor query and the insert of the bet follow under
\* that lock, which every placement of the user needs, so they are one step
\* with it.
PlaceDebit(r) ==
  LET u == order[r].user IN
  /\ pc[r] = "checked"
  /\ UserRowHolders(u) = {}
  /\ \/ /\ balance[u] >= order[r].amount
        /\ pc' = [pc EXCEPT ![r] = "debited"]
        /\ repeat' = [repeat EXCEPT ![r] = RepeatBettor(r)]
        /\ UNCHANGED <<inputs, tables, board, buyPrice, resolveVars>>
     \/ balance[u] < order[r].amount /\ GiveUp(r)

\* Mutant: the bettor is loaded again FOR UPDATE on a second connection, which
\* waits for the row the transaction itself has locked.
PlaceWriteOutcomesReloading(r) ==
  /\ pc[r] = "debited"
  /\ OutcomeRowHolders(order[r].market) = {}
  /\ UserRowHolders(order[r].user) = {}
  /\ pc' = [pc EXCEPT ![r] = "written"]
  /\ UNCHANGED <<inputs, tables, board, buyPrice, repeat, resolveVars>>

\* The updates of the outcome rows: waits for another placement on the market.
PlaceWriteOutcomes(r) ==
  /\ pc[r] = "debited"
  /\ OutcomeRowHolders(order[r].market) = {}
  /\ pc' = [pc EXCEPT ![r] = "written"]
  /\ UNCHANGED <<inputs, tables, board, buyPrice, repeat, resolveVars>>

\* Mutant: prices recalculated before the stake is added to the copy.
NewPricesBeforeStake(r) == RecalculatePrices(board[r].volumes, board[r].prices)

\* The prices PlaceBet computed from its copy of the board.
NewPrices(r) ==
  RecalculatePrices(AddVolume(board[r].volumes, order[r].outcome, order[r].amount),
                    board[r].prices)

\* Mutant: the balance event is not published.
PlaceEventsWithoutBalance(r) ==
  {[type |-> "BetPlaced", bet |-> r],
   [type |-> "MarketPricesUpdated", market |-> order[r].market]}

PlaceEvents(r) ==
  {[type |-> "UserBalanceChanged", user |-> order[r].user],
   [type |-> "BetPlaced", bet |-> r],
   [type |-> "MarketPricesUpdated", market |-> order[r].market]}

\* Mutant: the volumes of the copy are written back instead of an increment.
WrittenVolumesAbsolute(r) ==
  AddVolume(board[r].volumes, order[r].outcome, order[r].amount)

\* volume = volume + staked, on the row as it is now.
WrittenVolumes(r) ==
  [volume[order[r].market] EXCEPT ![order[r].outcome] = @ + order[r].amount]

\* current_price = snapshot, last writer wins.
WrittenPrices(r) == NewPrices(r)

\* Mutant: every bet counts as a new participant.
StakedRowEveryBet(r) ==
  [market[order[r].market] EXCEPT !.total_volume = @ + order[r].amount,
                                  !.participants = @ + 1]

\* UPDATE markets: the aggregates move relatively, the status is left alone.
StakedRow(r) ==
  [market[order[r].market] EXCEPT !.total_volume = @ + order[r].amount,
                                  !.participants = @ + (IF repeat[r] THEN 0 ELSE 1)]

\* The market row, the price points, the events and the commit: everything the
\* transaction wrote becomes visible.
PlaceCommit(r) ==
  LET m == order[r].market IN
  /\ pc[r] = "written"
  /\ MarketRowHolders(m) = {}
  /\ balance' = [balance EXCEPT ![order[r].user] = @ - order[r].amount]
  /\ market' = [market EXCEPT ![m] = StakedRow(r)]
  /\ volume' = [volume EXCEPT ![m] = WrittenVolumes(r)]
  /\ price' = [price EXCEPT ![m] = WrittenPrices(r)]
  /\ betStatus' = [betStatus EXCEPT ![r] = "active"]
  /\ outbox' = Append(outbox, PlaceEvents(r))
  /\ pc' = [pc EXCEPT ![r] = "done"]
  /\ board' = [board EXCEPT ![r] = NoBoard]
  /\ repeat' = [repeat EXCEPT ![r] = FALSE]
  /\ UNCHANGED <<inputs, buyPrice, resolveVars>>

\* A storage error, a deadlock victim or a dropped request, at any point.
PlaceFail(r) == pc[r] \in PlaceRunning /\ GiveUp(r)

PlaceStep(r) ==
  \/ PlaceReadBoard(r) \/ PlaceCheckBalance(r) \/ PlaceDebit(r)
  \/ PlaceWriteOutcomes(r) \/ PlaceCommit(r)

-----------------------------------------------------------------------------
(* ResolveMarket *)

Abandon(s) ==
  /\ rpc' = [rpc EXCEPT ![s] = "rejected"]
  /\ snapshot' = [snapshot EXCEPT ![s] = {}]
  /\ pending' = [pending EXCEPT ![s] = {}]
  /\ credit' = [credit EXCEPT ![s] = [u \in Users |-> 0]]
  /\ UNCHANGED <<inputs, tables, placeVars>>

\* Mutant: the status of the copy is not looked at.
ResolveStartUnguarded(s) ==
  LET ok == /\ CanManageMarkets(verdict[s].role)
            /\ verdict[s].winner \in 1 .. market[verdict[s].market].outcomes
  IN
  /\ rpc[s] = "idle"
  /\ \/ /\ ok
        /\ rpc' = [rpc EXCEPT ![s] = "read"]
        /\ UNCHANGED <<inputs, tables, placeVars, snapshot, pending, credit>>
     \/ ~ok /\ Abandon(s)

\* The admin check, the reads of the market and its outcomes, and
\* Market::resolve on the copy, which refuses a resolved market.
ResolveStart(s) ==
  LET m  == verdict[s].market
      ok == /\ CanManageMarkets(verdict[s].role)
            /\ verdict[s].winner \in 1 .. market[m].outcomes
            /\ market[m].status # "resolved"
  IN
  /\ rpc[s] = "idle"
  /\ \/ /\ ok
        /\ rpc' = [rpc EXCEPT ![s] = "read"]
        /\ UNCHANGED <<inputs, tables, placeVars, snapshot, pending, credit>>
     \/ ~ok /\ Abandon(s)

\* active_for_market; each bet of the copy is then settled in memory.
ResolveLoadBets(s) ==
  /\ rpc[s] = "read"
  /\ rpc' = [rpc EXCEPT ![s] = "loaded"]
  /\ snapshot' = [snapshot EXCEPT ![s] =
       {b \in BetIds : betStatus[b] = "active" /\ order[b].market = verdict[s].market}]
  /\ UNCHANGED <<inputs, tables, placeVars, pending, credit>>

\* UPDATE markets by id alone: waits for the row, never looks at its status.
ResolveMarketRow(s) ==
  /\ rpc[s] = "loaded"
  /\ MarketRowHolders(verdict[s].market) = {}
  /\ rpc' = [rpc EXCEPT ![s] = "settling"]
  /\ pending' = [pending EXCEPT ![s] = snapshot[s]]
  /\ UNCHANGED <<inputs, tables, placeVars, snapshot, credit>>

Wins(s, b) == order[b].outcome = verdict[s].winner
BetPayout(b) == Payout(order[b].amount, buyPrice[b])

\* One round of settle's loop: the bet's row and, for a winner, the user's row,
\* which it may have to wait for.  The loop's order is the query's, any order.
SettleBet(s, b) ==
  LET u == order[b].user IN
  /\ rpc[s] = "settling"
  /\ b \in pending[s]
  /\ Wins(s, b) => UserRowHolders(u) \subseteq {s}
  /\ credit' = [credit EXCEPT ![s][u] = IF Wins(s, b) THEN @ + BetPayout(b) ELSE @]
  /\ pending' = [pending EXCEPT ![s] = @ \ {b}]
  /\ UNCHANGED <<inputs, tables, placeVars, rpc, snapshot>>

PaidUsers(s) == {order[b].user : b \in {c \in snapshot[s] : Wins(s, c)}}

ResolvedRow(s) ==
  [market[verdict[s].market] EXCEPT !.status = "resolved", !.winner = verdict[s].winner]

\* The events and the commit of settle.
ResolveCommit(s) ==
  /\ rpc[s] = "settling"
  /\ pending[s] = {}
  /\ market' = [market EXCEPT ![verdict[s].market] = ResolvedRow(s)]
  /\ betStatus' = [b \in BetIds |->
       IF b \in snapshot[s] THEN (IF Wins(s, b) THEN "won" ELSE "lost") ELSE betStatus[b]]
  /\ balance' = [u \in Users |-> balance[u] + credit[s][u]]
  /\ outbox' = Append(outbox, {[type |-> "UserBalanceChanged", user |-> u] : u \in PaidUsers(s)})
  /\ rpc' = [rpc EXCEPT ![s] = "done"]
  /\ credit' = [credit EXCEPT ![s] = [u \in Users |-> 0]]
  /\ UNCHANGED <<inputs, volume, price, placeVars, snapshot, pending>>

ResolveFail(s) == rpc[s] \in ResolveRunning /\ Abandon(s)

ResolveStep(s) ==
  \/ ResolveLoadBets(s) \/ ResolveMarketRow(s)
  \/ \E b \in BetIds : SettleBet(s, b)
  \/ ResolveCommit(s)

-----------------------------------------------------------------------------

Next ==
  \/ \E m \in Markets, role \in Roles, n \in 0 .. MaxOutcomes : CreateMarket(m, role, n)
  \/ \E m \in Markets : DeadlinePasses(m)
  \/ \E r \in BetIds : PlaceStart(r)
  \/ \E r \in BetIds : PlaceStep(r)
  \/ \E r \in BetIds : PlaceFail(r)
  \/ \E s \in Resolvers : ResolveStart(s)
  \/ \E s \in Resolvers : ResolveStep(s)
  \/ \E s \in Resolvers : ResolveFail(s)

Spec == Init /\ [][Next]_vars

\* Postgres' deadlock detector: what a transaction waits for, a minimal set of
\* transactions each waiting for another of the set, and the abort of one.
WaitsFor(t) ==
  IF t \in BetIds
  THEN CASE pc[t] = "checked" -> UserRowHolders(order[t].user)
         [] pc[t] = "debited" -> OutcomeRowHolders(order[t].market)
         [] pc[t] = "written" -> MarketRowHolders(order[t].market)
         [] OTHER             -> {}
  ELSE CASE rpc[t] = "loaded"   -> MarketRowHolders(verdict[t].market)
         [] rpc[t] = "settling" ->
              IF \E b \in pending[t] : Wins(t, b) => UserRowHolders(order[b].user) \subseteq {t}
              THEN {}
              ELSE UNION {UserRowHolders(order[b].user) \ {t} : b \in pending[t]}
         [] OTHER               -> {}

WaitCycle(T) == T # {} /\ \A t \in T : WaitsFor(t) \cap T # {}

Waiting == {t \in BetIds \cup Resolvers : WaitsFor(t) # {}}

BreakDeadlock ==
  \E T \in SUBSET Waiting :
    /\ WaitCycle(T)
    /\ \A U \in SUBSET T : WaitCycle(U) => U = T
    /\ \/ \E r \in T \cap BetIds : PlaceFail(r)
       \/ \E s \in T \cap Resolvers : ResolveFail(s)

\* A started request keeps being polled, and Postgres breaks deadlocks.
Fairness ==
  /\ \A r \in BetIds : WF_vars(PlaceStep(r))
  /\ \A s \in Resolvers : WF_vars(ResolveStep(s))
  /\ WF_vars(BreakDeadlock)

FairSpec == Spec /\ Fairness

-----------------------------------------------------------------------------
(* Properties *)

Placed(b) == betStatus[b] # "none"
BetsOn(m) == {b \in BetIds : Placed(b) /\ order[b].market = m}
StakedBy(bs) == SumFunction([b \in bs |-> order[b].amount])
PaidFor(bs) == SumFunction([b \in bs |-> BetPayout(b)])

Settled(b) == betStatus[b] \in {"won", "lost"}

\* The resolutions of a market that have committed: one, unless they raced.
Resolutions(m) == {s \in Resolvers : rpc[s] = "done" /\ verdict[s].market = m}

\* The bets of user u that s has read and declares winners.
Winners(s, u) == {b \in snapshot[s] : Wins(s, b) /\ order[b].user = u}

\* What s has paid to u.
PaidBy(s, u) == IF rpc[s] = "done" THEN PaidFor(Winners(s, u)) ELSE 0

\* No balance is ever negative, although every placement decides on copies
\* that other requests make stale (bet_repository.rs: the conditional debit
\* "is what keeps balances from ever going negative").
BalanceNeverNegative == \A u \in Users : balance[u] >= 0

\* No concurrent bet is lost: an outcome's volume is what the bets placed on
\* it staked, and the market's total is the sum (bet_repository.rs: "Volumes
\* are applied relatively so concurrent bets on one market both land").
VolumesMatchBets ==
  \A m \in Markets :
    /\ market[m].total_volume = StakedBy(BetsOn(m))
    /\ \A i \in DOMAIN volume[m] :
         volume[m][i] = StakedBy({b \in BetsOn(m) : order[b].outcome = i})

\* participants_count counts every bettor of the market once, also when the
\* first bets of one user race each other.
ParticipantsAreDistinct ==
  \A m \in Markets : market[m].participants = Cardinality({order[b].user : b \in BetsOn(m)})

\* The committed prices of a market sum to exactly 1.0000 at all times, though
\* concurrent placements overwrite each other's (docs/websocket.md).
PricesSumToOne ==
  \A m \in Markets : market[m].status # "absent" => SumFunction(price[m]) = SCALE

\* A user's balance is the starting balance, less the stakes of the bets
\* placed, plus the payouts of each resolution that committed: nothing is paid
\* twice by one resolution, taken twice or left over from a rolled-back
\* transaction.  Two resolutions that raced each pay (see SettlementFinal).
LedgerBalanced ==
  \A u \in Users :
    balance[u] = StartingBalance
      - StakedBy({b \in BetIds : Placed(b) /\ order[b].user = u})
      + SumFunction([s \in Resolvers |-> PaidBy(s, u)])

\* The books of every market and every user against the bets: the counters each
\* bet raises, the prices it writes and the money it moves.
BooksBalance ==
  VolumesMatchBets /\ ParticipantsAreDistinct /\ PricesSumToOne /\ LedgerBalanced

\* A settled bet's market is resolved, and the bet agrees with it, won on the
\* winning outcome and lost on another, unless resolutions that raced disagreed
\* about the winner.
SettlementAgrees ==
  \A b \in BetIds :
    LET m == order[b].market IN
    Settled(b) =>
      /\ market[m].status = "resolved"
      /\ (\A s, t \in Resolutions(m) : verdict[s].winner = verdict[t].winner) =>
           (betStatus[b] = "won" <=> market[m].winner = order[b].outcome)

\* Settlement is final: a settled bet never changes, nor does the winner of a
\* resolved market (resolve_market.rs: "Domain guards against resolving
\* twice").  Two admins who resolve one market at a time violate it.
SettlementFinal ==
  [][/\ \A b \in BetIds : Settled(b) => betStatus'[b] = betStatus[b]
     /\ \A m \in Markets : market[m].status = "resolved" =>
          market'[m].status = "resolved" /\ market'[m].winner = market[m].winner]_vars

CommitsResolution(s) == rpc[s] = "settling" /\ rpc'[s] = "done"

\* Only a race settles anything again: a resolution is let in only while its
\* market is open to every reader, no other having committed, and nothing but
\* the commit of a resolution changes a settled bet, which it had read while it
\* was active, or a resolved market (Market::resolve: AlreadyResolved).
SettledAgainOnlyByRace ==
  [][/\ \A s \in Resolvers :
          rpc[s] = "idle" /\ rpc'[s] = "read" => Resolutions(verdict[s].market) = {}
     /\ \A b \in BetIds : Settled(b) /\ betStatus'[b] # betStatus[b] =>
          \E s \in Resolvers : CommitsResolution(s) /\ b \in snapshot[s]
     /\ \A m \in Markets :
          (/\ market[m].status = "resolved"
           /\ <<market'[m].status, market'[m].winner>> # <<"resolved", market[m].winner>>) =>
             \E s \in Resolvers : CommitsResolution(s) /\ verdict[s].market = m]_vars

\* A resolved market has no active bet left: resolving credits "every active
\* bet on the winner" and marks "every other active bet" lost
\* (resolve_market.rs).
ResolvedLeavesNoActiveBet ==
  \A b \in BetIds : betStatus[b] = "active" => market[order[b].market].status # "resolved"

\* Every committed change of a balance commits a UserBalanceChanged event for
\* that user with it: what the cache invalidation depends on.
BalanceChangesAnnounced ==
  [][\A u \in Users : balance'[u] # balance[u] =>
       /\ Len(outbox') = Len(outbox) + 1
       /\ [type |-> "UserBalanceChanged", user |-> u] \in outbox'[Len(outbox')]]_vars

\* A placement whose copy of the board is still current at its commit leaves
\* the market priced by its volumes, whatever lag earlier races left
\* (bet_repository.rs: "the next bet's recalculation corrects it").
FreshBoardCorrectsPrices ==
  [][\A r \in BetIds :
       (/\ pc[r] = "written" /\ pc'[r] = "done"
        /\ board[r].volumes = volume[order[r].market]) =>
         price'[order[r].market] =
           RecalculatePrices(volume'[order[r].market], price[order[r].market])]_vars

\* No request waits forever: each one that has started ends in an answer,
\* also when placements and settlements lock rows in opposite orders.
RequestsEnd ==
  /\ \A r \in BetIds : pc[r] \in PlaceRunning ~> pc[r] \in Over
  /\ \A s \in Resolvers : rpc[s] \in ResolveRunning ~> rpc[s] \in Over

-----------------------------------------------------------------------------
(* The inductive invariant behind BalanceNeverNegative *)

\* A row has one writer at a time.
RowsExclusive ==
  /\ \A u \in Users : \A t1, t2 \in UserRowHolders(u) : t1 = t2
  /\ \A m \in Markets : \A t1, t2 \in OutcomeRowHolders(m) : t1 = t2
  /\ \A m \in Markets : \A t1, t2 \in MarketRowHolders(m) : t1 = t2

\* What the debit found stays true until the commit applies it.
DebitsCovered ==
  \A r \in BetIds : pc[r] \in PlaceInTx => balance[order[r].user] >= order[r].amount

\* A request past its checks stakes a positive amount at a positive price.
OrdersSound ==
  \A r \in BetIds :
    /\ pc[r] \in {"checked", "done"} \cup PlaceInTx => order[r].amount > 0
    /\ pc[r] \in {"priced", "checked", "done"} \cup PlaceInTx => buyPrice[r] >= MinTick

\* A copy of the board has the shape of the market it was read from.
BoardsFit ==
  /\ \A m \in Markets : market[m].status = "absent" => market[m].outcomes = 0
  /\ \A r \in BetIds :
       LET n == market[order[r].market].outcomes IN
       /\ pc[r] \in PlaceRunning => order[r].outcome <= n
       /\ pc[r] \in PlaceRunning \ {"accepted"} =>
            board[r].volumes \in [1 .. n -> Int] /\ board[r].prices \in [1 .. n -> Price]

\* Settlements work on bets that exist and only ever add to balances.
SettlementsSound ==
  /\ \A b \in BetIds : betStatus[b] # "none" <=> pc[b] = "done"
  /\ \A s \in Resolvers :
       /\ pending[s] \subseteq snapshot[s]
       /\ \A b \in snapshot[s] : betStatus[b] # "none"
       /\ \A u \in Users : credit[s][u] >= 0
       /\ rpc[s] # "settling" => pending[s] = {} /\ \A u \in Users : credit[s][u] = 0

\* Together inductive: no conditional debit is undone by another request
\* between its check and its commit.
MoneyInv ==
  /\ TypeOK
  /\ RowsExclusive
  /\ DebitsCovered
  /\ OrdersSound
  /\ BoardsFit
  /\ SettlementsSound
  /\ BalanceNeverNegative

\* Whatever is settled was settled by a resolution that committed, and carries
\* the verdict of one.
SettledByVerdict ==
  /\ \A m \in Markets : market[m].status = "resolved" <=> Resolutions(m) # {}
  /\ \A m \in Markets : market[m].status = "resolved" =>
       \E s \in Resolutions(m) : verdict[s].winner = market[m].winner
  /\ \A b \in BetIds : Settled(b) =>
       \E s \in Resolutions(order[b].market) :
         b \in snapshot[s] /\ (betStatus[b] = "won" <=> Wins(s, b))
  /\ \A s \in Resolvers : \A b \in snapshot[s] : order[b].market = verdict[s].market

\* The inductive invariant behind SettlementAgrees and SettledAgainOnlyByRace.
SettlementInv == MoneyInv /\ SettledByVerdict

-----------------------------------------------------------------------------
(* The inductive invariants behind BooksBalance *)

\* The copies of a board a placement holds lag behind the rows: volumes only
\* grow.
BoardsLag ==
  /\ \A m \in Markets : \A i \in DOMAIN volume[m] : volume[m][i] >= 0
  /\ \A r \in BetIds : pc[r] \in PlaceRunning \ {"accepted"} =>
       \A i \in DOMAIN volume[order[r].market] :
         board[r].volumes[i] \in 0 .. volume[order[r].market][i]

\* A placed bet and a verdict underway name an outcome their market has, and a
\* market has at least two.
ChoicesFit ==
  /\ \A b \in BetIds : Placed(b) => order[b].outcome <= market[order[b].market].outcomes
  /\ \A s \in Resolvers : rpc[s] \in ResolveRunning =>
       verdict[s].winner <= market[verdict[s].market].outcomes
  /\ \A m \in Markets : market[m].status # "absent" => market[m].outcomes >= 2

\* The volumes of a market's outcomes make up its total.
VolumesAddUp == \A m \in Markets : SumFunction(volume[m]) = market[m].total_volume

\* Under the lock of the user's row the answer to the repeat_bettor query stays
\* true until the commit counts by it.
RepeatsKnown == \A r \in BetIds : pc[r] \in PlaceInTx => (repeat[r] <=> RepeatBettor(r))

\* The inductive invariant behind VolumesMatchBets and ParticipantsAreDistinct.
CountersInv ==
  /\ MoneyInv
  /\ BoardsLag
  /\ ChoicesFit
  /\ VolumesAddUp
  /\ RepeatsKnown
  /\ VolumesMatchBets
  /\ ParticipantsAreDistinct

\* All the stakes asked for, times the price scale, stay within an i64.
StakesFit == \A bs \in SUBSET BetIds : StakedBy(bs) * SCALE <= I64MAX

\* What a settlement has credited pays for the winners it is done with.
CreditsMatch ==
  \A s \in Resolvers : rpc[s] = "settling" =>
    \A u \in Users : credit[s][u] = PaidFor(Winners(s, u) \ pending[s])

\* The inductive invariant behind LedgerBalanced.
LedgerInv ==
  /\ SettlementInv
  /\ CreditsMatch
  /\ LedgerBalanced

\* What BooksBalance rests on, apart from the prices: copies and answers that
\* requests hold still fit the rows, and credits the bets they pay.
BooksInv == CountersInv /\ LedgerInv
=============================================================================
