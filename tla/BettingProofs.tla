---------------------------- MODULE BettingProofs ----------------------------
(***************************************************************************)
(* Proofs about Betting, for any numbers of users, markets, outcomes and   *)
(* requests and any stakes.                                                *)
(***************************************************************************)
EXTENDS Betting, PricingProofs

USE PricingAssumption, BettingAssumption

\* The clock changes nothing of a markets row but its deadline.
LEMMA ExpiredRow ==
  ASSUME NEW row \in MarketRow, NEW new, new = [row EXCEPT !.expired = TRUE]
  PROVE  /\ new \in MarketRow /\ new.outcomes = row.outcomes
         /\ new.status = row.status /\ new.winner = row.winner
<1> row = [status |-> row.status, outcomes |-> row.outcomes, expired |-> row.expired,
           winner |-> row.winner, total_volume |-> row.total_volume, participants |-> row.participants]
  BY DEF MarketRow
<1>1. QED
  BY DEF MarketRow

\* A placement changes only the aggregates of a markets row.
LEMMA StakedRowType ==
  ASSUME TypeOK, NEW r \in BetIds
  PROVE  LET old == market[order[r].market]
         IN  /\ StakedRow(r) \in MarketRow /\ StakedRow(r).outcomes = old.outcomes
             /\ StakedRow(r).status = old.status /\ StakedRow(r).winner = old.winner
<1> DEFINE row == StakedRow(r)
           old == market[order[r].market]
           v == old.total_volume + order[r].amount
           k == old.participants + (IF repeat[r] THEN 0 ELSE 1)
<1>1. order[r] \in Order
  BY DEF TypeOK
<1>2. order[r].market \in Markets /\ order[r].amount \in Int
  BY <1>1 DEF Order
<1>3. old \in MarketRow
  BY <1>2 DEF TypeOK
<1>4. v \in Int /\ k \in Int
  BY <1>2, <1>3 DEF MarketRow
<1>5. old = [status |-> old.status, outcomes |-> old.outcomes, expired |-> old.expired,
             winner |-> old.winner, total_volume |-> old.total_volume, participants |-> old.participants]
  BY <1>3 DEF MarketRow
<1>6. row = [old EXCEPT !.total_volume = v, !.participants = k]
  BY DEF StakedRow
<1> HIDE DEF old, v, k, row
<1>7. row = [status |-> old.status, outcomes |-> old.outcomes, expired |-> old.expired,
             winner |-> old.winner, total_volume |-> v, participants |-> k]
  BY <1>5, <1>6
<1>8. row \in MarketRow /\ row.outcomes = old.outcomes /\ row.status = old.status /\ row.winner = old.winner
  BY <1>3, <1>4, <1>7 DEF MarketRow
<1>9. QED
  BY <1>8 DEF row, old

\* A resolution changes only the status and the winner of a markets row.
LEMMA ResolvedRowType ==
  ASSUME TypeOK, NEW s \in Resolvers
  PROVE  LET old == market[verdict[s].market]
         IN  /\ ResolvedRow(s) \in MarketRow /\ ResolvedRow(s).outcomes = old.outcomes
             /\ ResolvedRow(s).status = "resolved" /\ ResolvedRow(s).winner = verdict[s].winner
<1> DEFINE row == ResolvedRow(s)
           old == market[verdict[s].market]
           w == verdict[s].winner
<1>1. verdict[s] \in Verdict
  BY DEF TypeOK
<1>2. verdict[s].market \in Markets /\ w \in 0 .. MaxOutcomes
  BY <1>1 DEF Verdict
<1>3. old \in MarketRow
  BY <1>2 DEF TypeOK
<1>4. old = [status |-> old.status, outcomes |-> old.outcomes, expired |-> old.expired,
             winner |-> old.winner, total_volume |-> old.total_volume, participants |-> old.participants]
  BY <1>3 DEF MarketRow
<1>5. row = [old EXCEPT !.status = "resolved", !.winner = w]
  BY DEF ResolvedRow
<1> HIDE DEF old, w, row
<1>6. row = [status |-> "resolved", outcomes |-> old.outcomes, expired |-> old.expired,
             winner |-> w, total_volume |-> old.total_volume, participants |-> old.participants]
  BY <1>4, <1>5
<1>7. row \in MarketRow /\ row.outcomes = old.outcomes /\ row.status = "resolved" /\ row.winner = w
  BY <1>2, <1>3, <1>6 DEF MarketRow
<1>8. QED
  BY <1>7 DEF row, old, w

-----------------------------------------------------------------------------

\* The initial states satisfy the inductive invariant.
LEMMA InitMoney == Init => MoneyInv
<1> SUFFICES ASSUME Init PROVE MoneyInv
  OBVIOUS
<1>1. TypeOK
  <2>1. AbsentMarket \in MarketRow /\ AbsentMarket.outcomes = 0
    BY DEF AbsentMarket, MarketRow
  <2>2. NoVector \in [1 .. 0 -> Int] /\ NoVector \in [1 .. 0 -> Price]
    BY DEF NoVector, Price
  <2>3. /\ order \in [BetIds -> Order] /\ verdict \in [Resolvers -> Verdict]
        /\ balance \in [Users -> Int] /\ market \in [Markets -> MarketRow]
        /\ betStatus \in [BetIds -> BetStatuses] /\ outbox \in Seq(SUBSET Event)
    BY <2>1 DEF Init, BetStatuses
  <2>4. /\ volume = [m \in Markets |-> volume[m]]
        /\ price = [m \in Markets |-> price[m]]
        /\ \A m \in Markets : /\ volume[m] \in [1 .. market[m].outcomes -> Int]
                              /\ price[m] \in [1 .. market[m].outcomes -> Price]
    BY <2>1, <2>2 DEF Init
  <2>5. /\ pc \in [BetIds -> {"idle"} \cup PlaceRunning \cup Over]
        /\ buyPrice \in [BetIds -> Price] /\ repeat \in [BetIds -> BOOLEAN]
    BY DEF Init, Price
  <2>6. board = [r \in BetIds |-> board[r]]
    BY DEF Init
  <2>7. /\ rpc \in [Resolvers -> {"idle"} \cup ResolveRunning \cup Over]
        /\ snapshot \in [Resolvers -> SUBSET BetIds]
        /\ pending \in [Resolvers -> SUBSET BetIds]
        /\ credit \in [Resolvers -> [Users -> Int]]
    BY DEF Init
  <2>8. QED
    BY <2>3, <2>4, <2>5, <2>6, <2>7 DEF TypeOK
<1>2. RowsExclusive
  BY DEF Init, RowsExclusive, UserRowHolders, OutcomeRowHolders, MarketRowHolders, PlaceInTx
<1>3. DebitsCovered /\ OrdersSound /\ BoardsFit
  BY DEF Init, DebitsCovered, OrdersSound, BoardsFit, PlaceInTx, PlaceRunning, AbsentMarket
<1>4. SettlementsSound /\ BalanceNeverNegative
  BY DEF Init, SettlementsSound, BalanceNeverNegative
<1>5. QED
  BY <1>1, <1>2, <1>3, <1>4 DEF MoneyInv

-----------------------------------------------------------------------------
(* Every action preserves MoneyInv *)

\* A request that gives up, at any point, leaves the invariant standing.
LEMMA GiveUpMoney ==
  ASSUME MoneyInv, NEW r \in BetIds, pc[r] \in {"idle"} \cup PlaceRunning, GiveUp(r)
  PROVE  MoneyInv'
<1> USE DEF GiveUp, inputs, tables, resolveVars
<1>1. TypeOK'
  <2>1. /\ pc' \in [BetIds -> {"idle"} \cup PlaceRunning \cup Over]
        /\ buyPrice' \in [BetIds -> Price]
        /\ repeat' \in [BetIds -> BOOLEAN]
    BY DEF MoneyInv, TypeOK, Over, Price
  <2>2. QED
    BY <2>1 DEF MoneyInv, TypeOK
<1>2. RowsExclusive'
  BY DEF MoneyInv, TypeOK, RowsExclusive, UserRowHolders, OutcomeRowHolders, MarketRowHolders, PlaceInTx
<1>3. (DebitsCovered /\ OrdersSound /\ BoardsFit)'
  BY DEF MoneyInv, TypeOK, DebitsCovered, OrdersSound, BoardsFit, PlaceInTx, PlaceRunning
<1>4. (SettlementsSound /\ BalanceNeverNegative)'
  BY DEF MoneyInv, TypeOK, SettlementsSound, BalanceNeverNegative, PlaceRunning, PlaceInTx
<1>5. QED
  BY <1>1, <1>2, <1>3, <1>4 DEF MoneyInv

\* Market creation and the passing of a deadline touch no request.
LEMMA MarketMoney ==
  ASSUME MoneyInv, NEW m \in Markets,
         \/ DeadlinePasses(m)
         \/ \E role \in Roles, n \in 0 .. MaxOutcomes : CreateMarket(m, role, n)
  PROVE  MoneyInv'
<1> USE DEF inputs, placeVars, resolveVars
<1>1. CASE DeadlinePasses(m)
  <2> USE <1>1 DEF DeadlinePasses
  <2>1. market' \in [Markets -> MarketRow]
        /\ \A k \in Markets : market'[k].outcomes = market[k].outcomes /\ market'[k].status = market[k].status
    <3>1. market[m] \in MarketRow
      BY DEF MoneyInv, TypeOK
    <3>2. market' = [market EXCEPT ![m] = [market[m] EXCEPT !.expired = TRUE]]
      OBVIOUS
    <3> DEFINE row == [market[m] EXCEPT !.expired = TRUE]
    <3>3. row \in MarketRow /\ row.outcomes = market[m].outcomes /\ row.status = market[m].status
      BY <3>1, ExpiredRow
    <3>4. market' = [market EXCEPT ![m] = row]
      BY <3>2
    <3> HIDE DEF row
    <3>5. market \in [Markets -> MarketRow]
      BY DEF MoneyInv, TypeOK
    <3>6. QED
      BY <3>3, <3>4, <3>5
  <2>2. TypeOK'
    BY <2>1 DEF MoneyInv, TypeOK
  <2>3. (RowsExclusive /\ DebitsCovered /\ OrdersSound)'
    BY DEF MoneyInv, RowsExclusive, UserRowHolders, OutcomeRowHolders, MarketRowHolders, DebitsCovered, OrdersSound
  <2>4. BoardsFit'
    BY <2>1 DEF MoneyInv, TypeOK, BoardsFit, Order
  <2>5. (SettlementsSound /\ BalanceNeverNegative)'
    BY DEF MoneyInv, SettlementsSound, BalanceNeverNegative
  <2>6. QED
    BY <2>2, <2>3, <2>4, <2>5 DEF MoneyInv
<1>2. ASSUME NEW role \in Roles, NEW n \in 0 .. MaxOutcomes, CreateMarket(m, role, n)
      PROVE  MoneyInv'
  <2> DEFINE zeros == [i \in 1 .. n |-> 0]
             row == NewMarket(n)
  <2>1. zeros \in [1 .. n -> Int] /\ zeros \in [1 .. n -> Price]
    BY DEF Price
  <2>2. RecalculatePrices(zeros, zeros) \in [1 .. n -> Price]
    BY <2>1, RecalculatePricesType
  <2>3. row \in MarketRow /\ row.outcomes = n /\ row.status = "open"
    BY DEF MarketRow, NewMarket
  <2>4. /\ market' = [market EXCEPT ![m] = row]
        /\ volume' = [volume EXCEPT ![m] = zeros]
        /\ price' = [price EXCEPT ![m] = RecalculatePrices(zeros, zeros)]
        /\ market[m].status = "absent"
        /\ UNCHANGED <<inputs, balance, betStatus, outbox, placeVars, resolveVars>>
    BY <1>2 DEF CreateMarket
  <2> HIDE DEF zeros, row
  <2>5. TypeOK'
    <3>1. market' \in [Markets -> MarketRow]
      BY <2>3, <2>4 DEF MoneyInv, TypeOK
    <3>2. ASSUME NEW k \in Markets
          PROVE  /\ volume'[k] \in [1 .. market'[k].outcomes -> Int]
                 /\ price'[k] \in [1 .. market'[k].outcomes -> Price]
      BY <2>1, <2>2, <2>3, <2>4 DEF MoneyInv, TypeOK
    <3>3. volume' = [k \in Markets |-> volume'[k]] /\ price' = [k \in Markets |-> price'[k]]
      BY <2>4 DEF MoneyInv, TypeOK
    <3>4. QED
      BY <2>4, <3>1, <3>2, <3>3 DEF MoneyInv, TypeOK
  <2>6. (RowsExclusive /\ DebitsCovered /\ OrdersSound)'
    BY <2>4 DEF MoneyInv, RowsExclusive, UserRowHolders, OutcomeRowHolders, MarketRowHolders, DebitsCovered, OrdersSound
  <2>7. BoardsFit'
    <3>1. \A r \in BetIds : pc[r] \in PlaceRunning => order[r].market # m
      <4>1. market[m].outcomes = 0
        BY <2>4 DEF MoneyInv, BoardsFit
      <4>2. \A r \in BetIds : order[r].outcome >= 1
        BY DEF MoneyInv, TypeOK, Order
      <4>3. \A r \in BetIds : pc[r] \in PlaceRunning => order[r].outcome <= market[order[r].market].outcomes
        BY DEF MoneyInv, BoardsFit
      <4>4. \A r \in BetIds : order[r].outcome \in Int
        BY DEF MoneyInv, TypeOK, Order
      <4>5. QED
        BY <4>1, <4>2, <4>3, <4>4
    <3>2. QED
      BY <2>3, <2>4, <3>1 DEF MoneyInv, TypeOK, BoardsFit, Order
  <2>8. (SettlementsSound /\ BalanceNeverNegative)'
    BY <2>4 DEF MoneyInv, SettlementsSound, BalanceNeverNegative
  <2>9. QED
    BY <2>5, <2>6, <2>7, <2>8 DEF MoneyInv
<1>3. QED
  BY <1>1, <1>2

\* The reads of PlaceBet.
LEMMA PlaceReadsMoney ==
  ASSUME MoneyInv, NEW r \in BetIds,
         PlaceStart(r) \/ PlaceReadBoard(r) \/ PlaceCheckBalance(r)
  PROVE  MoneyInv'
<1> USE DEF inputs, tables, placeVars, resolveVars
<1>1. CASE pc[r] \in {"idle"} \cup PlaceRunning /\ GiveUp(r)
  BY <1>1, GiveUpMoney
<1>2. CASE /\ pc[r] = "idle" /\ pc' = [pc EXCEPT ![r] = "accepted"]
           /\ order[r].outcome \in 1 .. market[order[r].market].outcomes
           /\ UNCHANGED <<inputs, tables, board, buyPrice, repeat, resolveVars>>
  <2>1. TypeOK'
    BY <1>2 DEF MoneyInv, TypeOK, PlaceRunning
  <2>2. (RowsExclusive /\ DebitsCovered /\ OrdersSound)'
    BY <1>2 DEF MoneyInv, TypeOK, RowsExclusive, UserRowHolders, OutcomeRowHolders, MarketRowHolders, DebitsCovered, OrdersSound, PlaceInTx
  <2>3. BoardsFit'
    <3>1. order[r].outcome <= market[order[r].market].outcomes
      BY <1>2 DEF MoneyInv, TypeOK, Order, MarketRow
    <3>2. pc'[r] = "accepted" /\ \A q \in BetIds : q # r => pc'[q] = pc[q]
      BY <1>2 DEF MoneyInv, TypeOK
    <3>3. QED
      BY <1>2, <3>1, <3>2 DEF MoneyInv, BoardsFit
  <2>4. (SettlementsSound /\ BalanceNeverNegative)'
    BY <1>2 DEF MoneyInv, TypeOK, SettlementsSound, BalanceNeverNegative
  <2>5. QED
    BY <2>1, <2>2, <2>3, <2>4 DEF MoneyInv
<1>3. CASE PlaceReadBoard(r)
  <2> DEFINE m == order[r].market
             bp == BuyPrice(price[m][order[r].outcome])
  <2> USE <1>3 DEF PlaceReadBoard
  <2>1. m \in Markets /\ order[r].outcome \in 1 .. market[m].outcomes
    BY DEF MoneyInv, TypeOK, Order, MarketRow, BoardsFit, PlaceRunning
  <2>2. volume[m] \in [1 .. market[m].outcomes -> Int] /\ price[m] \in [1 .. market[m].outcomes -> Price]
    BY <2>1 DEF MoneyInv, TypeOK
  <2>3. bp \in Price /\ bp >= MinTick
    BY <2>1, <2>2, BuyPriceType
  <2>4. TypeOK'
    BY <2>3 DEF MoneyInv, TypeOK, PlaceRunning
  <2>5. (RowsExclusive /\ DebitsCovered)'
    BY DEF MoneyInv, TypeOK, RowsExclusive, UserRowHolders, OutcomeRowHolders, MarketRowHolders, DebitsCovered, PlaceInTx
  <2>6. OrdersSound'
    BY <2>3 DEF MoneyInv, TypeOK, OrdersSound, PlaceInTx
  <2>7. BoardsFit'
    <3>1. /\ pc[r] = "accepted" /\ order' = order /\ market' = market
          /\ board'[r] = [volumes |-> volume[m], prices |-> price[m]]
      BY DEF MoneyInv, TypeOK
    <3>2. \A q \in BetIds \ {r} : pc'[q] = pc[q] /\ board'[q] = board[q]
      BY DEF MoneyInv, TypeOK
    <3>3. \A q \in BetIds : pc'[q] \in PlaceRunning => pc[q] \in PlaceRunning
      BY <3>1, <3>2 DEF PlaceRunning
    <3>4. \A k \in Markets : market[k].status = "absent" => market[k].outcomes = 0
      BY DEF MoneyInv, BoardsFit
    <3>5. ASSUME NEW q \in BetIds, pc'[q] \in PlaceRunning
          PROVE  /\ order[q].outcome <= market[order[q].market].outcomes
                 /\ pc'[q] # "accepted" =>
                      /\ board'[q].volumes \in [1 .. market[order[q].market].outcomes -> Int]
                      /\ board'[q].prices \in [1 .. market[order[q].market].outcomes -> Price]
      <4>1. CASE q = r
        BY <2>1, <2>2, <3>1, <4>1
      <4>2. CASE q # r
        BY <3>2, <3>5, <4>2 DEF MoneyInv, BoardsFit
      <4>3. QED
        BY <4>1, <4>2
    <3>6. QED
      BY <3>1, <3>4, <3>5 DEF BoardsFit
  <2>8. (SettlementsSound /\ BalanceNeverNegative)'
    BY DEF MoneyInv, TypeOK, SettlementsSound, BalanceNeverNegative
  <2>9. QED
    BY <2>4, <2>5, <2>6, <2>7, <2>8 DEF MoneyInv
<1>4. CASE /\ pc[r] = "priced" /\ order[r].amount > 0 /\ pc' = [pc EXCEPT ![r] = "checked"]
           /\ UNCHANGED <<inputs, tables, board, buyPrice, repeat, resolveVars>>
  <2>1. TypeOK'
    BY <1>4 DEF MoneyInv, TypeOK, PlaceRunning
  <2>2. (RowsExclusive /\ DebitsCovered /\ OrdersSound)'
    BY <1>4 DEF MoneyInv, TypeOK, RowsExclusive, UserRowHolders, OutcomeRowHolders, MarketRowHolders, DebitsCovered, OrdersSound, PlaceInTx
  <2>3. BoardsFit'
    <3>1. \A q \in BetIds :
            /\ pc'[q] \in PlaceRunning => pc[q] \in PlaceRunning
            /\ pc'[q] \in PlaceRunning \ {"accepted"} => pc[q] \in PlaceRunning \ {"accepted"}
      BY <1>4 DEF MoneyInv, TypeOK, PlaceRunning
    <3>2. order' = order /\ market' = market /\ board' = board
      BY <1>4
    <3>3. \A k \in Markets : market[k].status = "absent" => market[k].outcomes = 0
      BY DEF MoneyInv, BoardsFit
    <3>4. ASSUME NEW q \in BetIds, pc'[q] \in PlaceRunning
          PROVE  /\ order[q].outcome <= market[order[q].market].outcomes
                 /\ pc'[q] # "accepted" =>
                      /\ board[q].volumes \in [1 .. market[order[q].market].outcomes -> Int]
                      /\ board[q].prices \in [1 .. market[order[q].market].outcomes -> Price]
      <4>1. BoardsFit
        BY DEF MoneyInv
      <4>2. order[q].outcome <= market[order[q].market].outcomes
        BY <3>1, <3>4, <4>1 DEF BoardsFit
      <4>3. ASSUME pc'[q] # "accepted"
            PROVE  /\ board[q].volumes \in [1 .. market[order[q].market].outcomes -> Int]
                   /\ board[q].prices \in [1 .. market[order[q].market].outcomes -> Price]
        <5>1. pc[q] \in PlaceRunning \ {"accepted"}
          BY <3>1, <3>4, <4>3
        <5>2. QED
          BY <4>1, <5>1 DEF BoardsFit
      <4>4. QED
        BY <4>2, <4>3
    <3>5. QED
      BY <3>2, <3>3, <3>4 DEF BoardsFit
  <2>4. (SettlementsSound /\ BalanceNeverNegative)'
    BY <1>4 DEF MoneyInv, TypeOK, SettlementsSound, BalanceNeverNegative
  <2>5. QED
    BY <2>1, <2>2, <2>3, <2>4 DEF MoneyInv
<1>5. QED
  BY <1>1, <1>2, <1>3, <1>4 DEF PlaceStart, PlaceCheckBalance, PlaceRunning

\* Taking a row of a user or of a market's outcomes: it had no holder.
LEMMA PlaceLocksMoney ==
  ASSUME MoneyInv, NEW r \in BetIds, PlaceDebit(r) \/ PlaceWriteOutcomes(r)
  PROVE  MoneyInv'
<1> USE DEF inputs, tables, placeVars, resolveVars
<1>1. CASE pc[r] = "checked" /\ GiveUp(r)
  BY <1>1, GiveUpMoney DEF PlaceRunning
<1>2. CASE /\ pc[r] = "checked" /\ UserRowHolders(order[r].user) = {}
           /\ balance[order[r].user] >= order[r].amount
           /\ pc' = [pc EXCEPT ![r] = "debited"]
           /\ repeat' = [repeat EXCEPT ![r] = RepeatBettor(r)]
           /\ UNCHANGED <<inputs, tables, board, buyPrice, resolveVars>>
  <2>1. TypeOK'
    <3>1. RepeatBettor(r) \in BOOLEAN
      BY DEF RepeatBettor
    <3>2. QED
      BY <1>2, <3>1 DEF MoneyInv, TypeOK, PlaceRunning, PlaceInTx
  <2>2. RowsExclusive'
    <3>1. ASSUME NEW u \in Users
          PROVE  UserRowHolders(u)' = IF u = order[r].user THEN {r} ELSE UserRowHolders(u)
      BY <1>2 DEF MoneyInv, TypeOK, UserRowHolders, PlaceInTx
    <3>2. ASSUME NEW m \in Markets
          PROVE  /\ OutcomeRowHolders(m)' = OutcomeRowHolders(m)
                 /\ MarketRowHolders(m)' = MarketRowHolders(m)
      BY <1>2 DEF MoneyInv, TypeOK, OutcomeRowHolders, MarketRowHolders
    <3>3. QED
      BY <3>1, <3>2 DEF MoneyInv, RowsExclusive
  <2>3. (DebitsCovered /\ OrdersSound)'
    BY <1>2 DEF MoneyInv, TypeOK, DebitsCovered, OrdersSound, PlaceInTx
  <2>4. BoardsFit'
    BY <1>2 DEF MoneyInv, TypeOK, BoardsFit, PlaceRunning, PlaceInTx
  <2>5. (SettlementsSound /\ BalanceNeverNegative)'
    BY <1>2 DEF MoneyInv, TypeOK, SettlementsSound, BalanceNeverNegative
  <2>6. QED
    BY <2>1, <2>2, <2>3, <2>4, <2>5 DEF MoneyInv
<1>3. CASE PlaceWriteOutcomes(r)
  <2> USE <1>3 DEF PlaceWriteOutcomes
  <2>1. TypeOK'
    BY DEF MoneyInv, TypeOK, PlaceRunning, PlaceInTx
  <2>2. RowsExclusive'
    <3>1. ASSUME NEW m \in Markets
          PROVE  /\ OutcomeRowHolders(m)' = IF m = order[r].market THEN {r} ELSE OutcomeRowHolders(m)
                 /\ MarketRowHolders(m)' = MarketRowHolders(m)
      BY DEF MoneyInv, TypeOK, OutcomeRowHolders, MarketRowHolders
    <3>2. ASSUME NEW u \in Users
          PROVE  UserRowHolders(u)' = UserRowHolders(u)
      BY DEF MoneyInv, TypeOK, UserRowHolders, PlaceInTx
    <3>3. QED
      BY <3>1, <3>2 DEF MoneyInv, RowsExclusive
  <2>3. (DebitsCovered /\ OrdersSound)'
    BY DEF MoneyInv, TypeOK, DebitsCovered, OrdersSound, PlaceInTx
  <2>4. BoardsFit'
    BY DEF MoneyInv, TypeOK, BoardsFit, PlaceRunning, PlaceInTx
  <2>5. (SettlementsSound /\ BalanceNeverNegative)'
    BY DEF MoneyInv, TypeOK, SettlementsSound, BalanceNeverNegative
  <2>6. QED
    BY <2>1, <2>2, <2>3, <2>4, <2>5 DEF MoneyInv
<1>4. QED
  BY <1>1, <1>2, <1>3 DEF PlaceDebit

\* A placement's commit: the debit it checked under the user's row lock is
\* still covered, and no other open transaction relies on that balance.
LEMMA PlaceCommitMoney ==
  ASSUME MoneyInv, NEW r \in BetIds, PlaceCommit(r)
  PROVE  MoneyInv'
<1> DEFINE m == order[r].market
           u == order[r].user
           a == order[r].amount
           row == StakedRow(r)
           n == market[m].outcomes
<1> USE DEF inputs, tables, placeVars, resolveVars
<1>1. /\ m \in Markets /\ u \in Users /\ a \in Int
      /\ n \in 0 .. MaxOutcomes /\ order[r].outcome \in 1 .. n
      /\ order[r] \in Order /\ market[m] \in MarketRow
  <2>1. order[r] \in Order /\ pc[r] \in PlaceRunning
    BY DEF MoneyInv, TypeOK, PlaceCommit, PlaceRunning, PlaceInTx
  <2>2. m \in Markets /\ u \in Users /\ a \in Int /\ order[r].outcome \in 1 .. MaxOutcomes
    BY <2>1 DEF Order
  <2>3. market[m] \in MarketRow
    BY <2>2 DEF MoneyInv, TypeOK
  <2>4. n \in 0 .. MaxOutcomes
    BY <2>3 DEF MarketRow
  <2>5. order[r].outcome <= n
    BY <2>1 DEF MoneyInv, BoardsFit
  <2>6. QED
    BY <2>1, <2>2, <2>3, <2>4, <2>5
<1>2. row \in MarketRow /\ row.outcomes = n /\ row.status = market[m].status
  BY StakedRowType DEF MoneyInv
<1>3. WrittenVolumes(r) \in [1 .. n -> Int]
  <2>1. volume[m] \in [1 .. n -> Int]
    BY <1>1 DEF MoneyInv, TypeOK
  <2>2. \A f \in [1 .. n -> Int], i \in 1 .. n, x \in Int : [f EXCEPT ![i] = @ + x] \in [1 .. n -> Int]
    OBVIOUS
  <2>3. QED
    BY <1>1, <2>1, <2>2 DEF WrittenVolumes
<1>4. WrittenPrices(r) \in [1 .. n -> Price]
  <2>1. board[r].volumes \in [1 .. n -> Int] /\ board[r].prices \in [1 .. n -> Price]
    BY DEF MoneyInv, BoardsFit, PlaceCommit, PlaceRunning, PlaceInTx
  <2>2. n \in Nat /\ order[r].outcome \in 1 .. n /\ a \in Int
    BY <1>1
  <2> DEFINE staked == AddVolume(board[r].volumes, order[r].outcome, a)
  <2> HIDE DEF n, a
  <2>3. staked \in [1 .. n -> Int]
    BY <2>1, <2>2, AddVolumeType
  <2>4. WrittenPrices(r) = RecalculatePrices(staked, board[r].prices)
    BY DEF WrittenPrices, NewPrices, a
  <2> HIDE DEF staked
  <2>5. QED
    BY <2>1, <2>2, <2>3, <2>4, RecalculatePricesType
<1> HIDE DEF row
<1>5. /\ pc[r] = "written"
      /\ balance' = [balance EXCEPT ![u] = @ - a]
      /\ market' = [market EXCEPT ![m] = row]
      /\ volume' = [volume EXCEPT ![m] = WrittenVolumes(r)]
      /\ price' = [price EXCEPT ![m] = WrittenPrices(r)]
      /\ betStatus' = [betStatus EXCEPT ![r] = "active"]
      /\ outbox' = Append(outbox, PlaceEvents(r))
      /\ pc' = [pc EXCEPT ![r] = "done"]
      /\ board' = [board EXCEPT ![r] = NoBoard]
      /\ repeat' = [repeat EXCEPT ![r] = FALSE]
      /\ UNCHANGED <<inputs, buyPrice, resolveVars>>
  BY DEF PlaceCommit, row
<1>6. TypeOK'
  <2>1. balance' \in [Users -> Int] /\ market' \in [Markets -> MarketRow]
    BY <1>1, <1>2, <1>5 DEF MoneyInv, TypeOK
  <2>2. ASSUME NEW k \in Markets
        PROVE  /\ volume'[k] \in [1 .. market'[k].outcomes -> Int]
               /\ price'[k] \in [1 .. market'[k].outcomes -> Price]
    BY <1>1, <1>2, <1>3, <1>4, <1>5 DEF MoneyInv, TypeOK
  <2>3. volume' = [k \in Markets |-> volume'[k]] /\ price' = [k \in Markets |-> price'[k]]
    BY <1>5 DEF MoneyInv, TypeOK
  <2>4. outbox' \in Seq(SUBSET Event)
    <3>1. PlaceEvents(r) \subseteq Event
      BY <1>1 DEF PlaceEvents, Event
    <3>2. QED
      BY <1>5, <3>1 DEF MoneyInv, TypeOK
  <2>5. /\ betStatus' \in [BetIds -> BetStatuses]
        /\ pc' \in [BetIds -> {"idle"} \cup PlaceRunning \cup Over]
        /\ board' = [q \in BetIds |-> board'[q]]
        /\ repeat' \in [BetIds -> BOOLEAN]
    BY <1>5 DEF MoneyInv, TypeOK, BetStatuses, Over
  <2>6. QED
    BY <1>5, <2>1, <2>2, <2>3, <2>4, <2>5 DEF MoneyInv, TypeOK
<1>7. RowsExclusive'
  BY <1>5 DEF MoneyInv, TypeOK, RowsExclusive, UserRowHolders, OutcomeRowHolders, MarketRowHolders, PlaceInTx
<1>8. DebitsCovered'
  <2>1. ASSUME NEW q \in BetIds, pc'[q] \in PlaceInTx
        PROVE  q # r /\ pc[q] \in PlaceInTx /\ order[q].user # u
    <3>1. q # r /\ pc[q] \in PlaceInTx
      BY <1>5, <2>1 DEF MoneyInv, TypeOK, PlaceInTx
    <3>2. r \in UserRowHolders(u)
      BY <1>5 DEF UserRowHolders, PlaceInTx
    <3>3. order[q].user = u => q \in UserRowHolders(u)
      BY <3>1 DEF UserRowHolders
    <3>4. QED
      BY <1>1, <3>1, <3>2, <3>3 DEF MoneyInv, RowsExclusive
  <2>2. \A q \in BetIds : order[q].user \in Users
    BY DEF MoneyInv, TypeOK, Order
  <2>3. QED
    BY <1>5, <2>1, <2>2 DEF MoneyInv, TypeOK, DebitsCovered
<1>9. OrdersSound'
  BY <1>5 DEF MoneyInv, TypeOK, OrdersSound, PlaceInTx
<1>10. BoardsFit'
  <2>1. \A k \in Markets : market'[k].outcomes = market[k].outcomes /\ market'[k].status = market[k].status
    BY <1>1, <1>2, <1>5 DEF MoneyInv, TypeOK
  <2>2. \A q \in BetIds : order[q].market \in Markets
    BY DEF MoneyInv, TypeOK, Order
  <2>3. \A q \in BetIds : pc'[q] \in PlaceRunning => q # r /\ pc'[q] = pc[q] /\ board'[q] = board[q]
    BY <1>5 DEF MoneyInv, TypeOK, PlaceRunning, PlaceInTx
  <2>4. \A k \in Markets : market'[k].status = "absent" => market'[k].outcomes = 0
    BY <2>1 DEF MoneyInv, BoardsFit
  <2>5. ASSUME NEW q \in BetIds, pc'[q] \in PlaceRunning
        PROVE  /\ order[q].outcome <= market'[order[q].market].outcomes
               /\ pc'[q] # "accepted" =>
                    /\ board'[q].volumes \in [1 .. market'[order[q].market].outcomes -> Int]
                    /\ board'[q].prices \in [1 .. market'[order[q].market].outcomes -> Price]
    BY <2>1, <2>2, <2>3, <2>5 DEF MoneyInv, BoardsFit
  <2>6. order' = order
    BY <1>5
  <2>7. QED
    BY <2>4, <2>5, <2>6 DEF BoardsFit
<1>11. SettlementsSound'
  BY <1>5 DEF MoneyInv, TypeOK, SettlementsSound
<1>12. BalanceNeverNegative'
  <2>1. balance[u] >= a
    BY <1>5 DEF MoneyInv, DebitsCovered, PlaceInTx
  <2>2. QED
    BY <1>1, <1>5, <2>1 DEF MoneyInv, TypeOK, BalanceNeverNegative
<1>13. QED
  BY <1>6, <1>7, <1>8, <1>9, <1>10, <1>11, <1>12 DEF MoneyInv

\* A resolution that is rejected or rolled back leaves the invariant standing.
LEMMA AbandonMoney ==
  ASSUME MoneyInv, NEW s \in Resolvers, Abandon(s)
  PROVE  MoneyInv'
<1> USE DEF Abandon, inputs, tables, placeVars
<1>1. TypeOK'
  BY DEF MoneyInv, TypeOK, Over
<1>2. RowsExclusive'
  BY DEF MoneyInv, TypeOK, RowsExclusive, UserRowHolders, OutcomeRowHolders, MarketRowHolders
<1>3. (DebitsCovered /\ OrdersSound /\ BoardsFit)'
  BY DEF MoneyInv, DebitsCovered, OrdersSound, BoardsFit
<1>4. (SettlementsSound /\ BalanceNeverNegative)'
  BY DEF MoneyInv, TypeOK, SettlementsSound, BalanceNeverNegative
<1>5. QED
  BY <1>1, <1>2, <1>3, <1>4 DEF MoneyInv

\* The reads of ResolveMarket and the lock of the market's row.
LEMMA ResolveReadsMoney ==
  ASSUME MoneyInv, NEW s \in Resolvers,
         ResolveStart(s) \/ ResolveLoadBets(s) \/ ResolveMarketRow(s)
  PROVE  MoneyInv'
<1> USE DEF inputs, tables, placeVars
<1>1. CASE Abandon(s)
  BY <1>1, AbandonMoney
<1>2. CASE /\ rpc[s] = "idle" /\ rpc' = [rpc EXCEPT ![s] = "read"]
           /\ UNCHANGED <<inputs, tables, placeVars, snapshot, pending, credit>>
  <2>1. TypeOK'
    BY <1>2 DEF MoneyInv, TypeOK, ResolveRunning
  <2>2. RowsExclusive'
    BY <1>2 DEF MoneyInv, TypeOK, RowsExclusive, UserRowHolders, OutcomeRowHolders, MarketRowHolders
  <2>3. (DebitsCovered /\ OrdersSound /\ BoardsFit)'
    BY <1>2 DEF MoneyInv, DebitsCovered, OrdersSound, BoardsFit
  <2>4. (SettlementsSound /\ BalanceNeverNegative)'
    BY <1>2 DEF MoneyInv, SettlementsSound, BalanceNeverNegative
  <2>5. QED
    BY <2>1, <2>2, <2>3, <2>4 DEF MoneyInv
<1>3. CASE ResolveLoadBets(s)
  <2> USE <1>3 DEF ResolveLoadBets
  <2>1. TypeOK'
    BY DEF MoneyInv, TypeOK, ResolveRunning
  <2>2. RowsExclusive'
    BY DEF MoneyInv, TypeOK, RowsExclusive, UserRowHolders, OutcomeRowHolders, MarketRowHolders
  <2>3. (DebitsCovered /\ OrdersSound /\ BoardsFit)'
    BY DEF MoneyInv, DebitsCovered, OrdersSound, BoardsFit
  <2>4. (SettlementsSound /\ BalanceNeverNegative)'
    BY DEF MoneyInv, TypeOK, SettlementsSound, BalanceNeverNegative
  <2>5. QED
    BY <2>1, <2>2, <2>3, <2>4 DEF MoneyInv
<1>4. CASE ResolveMarketRow(s)
  <2> USE <1>4 DEF ResolveMarketRow
  <2>1. TypeOK'
    BY DEF MoneyInv, TypeOK, ResolveRunning
  <2>2. RowsExclusive'
    <3>1. ASSUME NEW u \in Users
          PROVE  UserRowHolders(u)' = UserRowHolders(u)
      <4>1. credit[s][u] = 0
        BY DEF MoneyInv, SettlementsSound
      <4>2. \A t \in Resolvers : t # s => rpc'[t] = rpc[t]
        BY DEF MoneyInv, TypeOK
      <4>3. QED
        BY <4>1, <4>2 DEF UserRowHolders
    <3>2. ASSUME NEW m \in Markets
          PROVE  /\ MarketRowHolders(m)' = IF m = verdict[s].market THEN {s} ELSE MarketRowHolders(m)
                 /\ OutcomeRowHolders(m)' = OutcomeRowHolders(m)
      BY DEF MoneyInv, TypeOK, MarketRowHolders, OutcomeRowHolders
    <3>3. QED
      BY <3>1, <3>2 DEF MoneyInv, RowsExclusive
  <2>3. (DebitsCovered /\ OrdersSound /\ BoardsFit)'
    BY DEF MoneyInv, DebitsCovered, OrdersSound, BoardsFit
  <2>4. (SettlementsSound /\ BalanceNeverNegative)'
    BY DEF MoneyInv, TypeOK, SettlementsSound, BalanceNeverNegative
  <2>5. QED
    BY <2>1, <2>2, <2>3, <2>4 DEF MoneyInv
<1>5. QED
  BY <1>1, <1>2, <1>3, <1>4 DEF ResolveStart

\* One round of the settlement loop: a non-negative credit on a row nobody
\* else holds.
LEMMA SettleBetMoney ==
  ASSUME MoneyInv, NEW s \in Resolvers, NEW b \in BetIds, SettleBet(s, b)
  PROVE  MoneyInv'
<1> DEFINE u == order[b].user
           d == IF Wins(s, b) THEN BetPayout(b) ELSE 0
<1> USE DEF inputs, tables, placeVars
<1>1. u \in Users /\ order[b].amount \in Int
  BY DEF MoneyInv, TypeOK, Order
<1>2. BetPayout(b) \in Nat
  <2>1. pc[b] = "done"
    BY DEF SettleBet, MoneyInv, SettlementsSound
  <2>2. order[b].amount > 0 /\ buyPrice[b] >= MinTick /\ buyPrice[b] \in Price
    BY <2>1 DEF MoneyInv, TypeOK, OrdersSound
  <2>3. QED
    BY <1>1, <2>2, PayoutNat DEF BetPayout
<1>3. /\ rpc[s] = "settling" /\ b \in pending[s]
      /\ Wins(s, b) => UserRowHolders(u) \subseteq {s}
      /\ credit' = [credit EXCEPT ![s] = [credit[s] EXCEPT ![u] = credit[s][u] + d]]
      /\ pending' = [pending EXCEPT ![s] = @ \ {b}]
      /\ UNCHANGED <<inputs, tables, placeVars, rpc, snapshot>>
  <2>1. credit[s][u] + 0 = credit[s][u]
    BY <1>1 DEF MoneyInv, TypeOK
  <2>2. QED
    BY <2>1 DEF SettleBet
<1>4. d \in Nat /\ (~Wins(s, b) => d = 0)
  BY <1>2
<1> HIDE DEF d
<1>5. /\ credit' \in [Resolvers -> [Users -> Int]]
      /\ \A t \in Resolvers, v \in Users :
           credit'[t][v] = IF t = s /\ v = u THEN credit[t][v] + d ELSE credit[t][v]
  <2>1. credit \in [Resolvers -> [Users -> Int]] /\ d \in Int
    BY <1>4 DEF MoneyInv, TypeOK
  <2>2. credit' = [credit EXCEPT ![s] = [credit[s] EXCEPT ![u] = credit[s][u] + d]]
    BY <1>3
  <2>3. QED
    BY <1>1, <2>1, <2>2
<1>6. TypeOK'
  BY <1>3, <1>5 DEF MoneyInv, TypeOK
<1>7. RowsExclusive'
  <2>1. ASSUME NEW v \in Users, NEW t \in UserRowHolders(v)'
        PROVE  t \in UserRowHolders(v) \/ (t = s /\ v = u /\ Wins(s, b))
    BY <1>3, <1>4, <1>5, <2>1 DEF MoneyInv, TypeOK, UserRowHolders
  <2>2. ASSUME NEW m \in Markets
        PROVE  /\ MarketRowHolders(m)' = MarketRowHolders(m)
               /\ OutcomeRowHolders(m)' = OutcomeRowHolders(m)
    BY <1>3 DEF MarketRowHolders, OutcomeRowHolders
  <2>3. ASSUME NEW v \in Users, NEW t1 \in UserRowHolders(v)', NEW t2 \in UserRowHolders(v)'
        PROVE  t1 = t2
    BY <1>3, <2>1, <2>3 DEF MoneyInv, RowsExclusive
  <2>4. QED
    BY <2>2, <2>3 DEF MoneyInv, RowsExclusive
<1>8. (DebitsCovered /\ OrdersSound /\ BoardsFit)'
  BY <1>3 DEF MoneyInv, DebitsCovered, OrdersSound, BoardsFit
<1>9. SettlementsSound'
  <2>1. \A t \in Resolvers, v \in Users : credit[t][v] \in Int /\ credit[t][v] >= 0
    BY DEF MoneyInv, TypeOK, SettlementsSound
  <2>2. \A t \in Resolvers, v \in Users : credit'[t][v] >= 0
    BY <1>4, <1>5, <2>1
  <2>3. \A t \in Resolvers : rpc[t] # "settling" => \A v \in Users : credit'[t][v] = credit[t][v]
    BY <1>3, <1>5
  <2>4. QED
    BY <1>3, <2>2, <2>3 DEF MoneyInv, TypeOK, SettlementsSound
<1>10. BalanceNeverNegative'
  BY <1>3 DEF MoneyInv, BalanceNeverNegative
<1>11. QED
  BY <1>6, <1>7, <1>8, <1>9, <1>10 DEF MoneyInv

\* A settlement's commit adds its credits: no balance falls, so no debit
\* another placement has checked becomes uncovered.
LEMMA ResolveCommitMoney ==
  ASSUME MoneyInv, NEW s \in Resolvers, ResolveCommit(s)
  PROVE  MoneyInv'
<1> DEFINE m == verdict[s].market
           row == ResolvedRow(s)
<1> USE DEF inputs, placeVars
<1>1. m \in Markets
  BY DEF MoneyInv, TypeOK, Verdict
<1>2. row \in MarketRow /\ row.outcomes = market[m].outcomes /\ row.status = "resolved"
  BY ResolvedRowType DEF MoneyInv
<1>3. /\ market' = [market EXCEPT ![m] = row]
      /\ betStatus' = [b \in BetIds |->
           IF b \in snapshot[s] THEN (IF Wins(s, b) THEN "won" ELSE "lost") ELSE betStatus[b]]
      /\ balance' = [u \in Users |-> balance[u] + credit[s][u]]
      /\ outbox' = Append(outbox, {[type |-> "UserBalanceChanged", user |-> u] : u \in PaidUsers(s)})
      /\ rpc[s] = "settling" /\ rpc' = [rpc EXCEPT ![s] = "done"]
      /\ credit' = [credit EXCEPT ![s] = [u \in Users |-> 0]]
      /\ pending[s] = {}
      /\ UNCHANGED <<inputs, volume, price, placeVars, snapshot, pending>>
  BY DEF ResolveCommit
<1> HIDE DEF row
<1>4. \A u \in Users : balance'[u] \in Int /\ balance'[u] >= balance[u]
  BY <1>3 DEF MoneyInv, TypeOK, SettlementsSound
<1>5. market' \in [Markets -> MarketRow]
      /\ \A k \in Markets : market'[k].outcomes = market[k].outcomes
  BY <1>1, <1>2, <1>3 DEF MoneyInv, TypeOK
<1>6. TypeOK'
  <2>1. balance' \in [Users -> Int]
    BY <1>3, <1>4
  <2>2. outbox' \in Seq(SUBSET Event)
    <3>1. PaidUsers(s) \subseteq Users
      BY DEF PaidUsers, MoneyInv, TypeOK, Order
    <3>2. {[type |-> "UserBalanceChanged", user |-> u] : u \in PaidUsers(s)} \subseteq Event
      BY <3>1 DEF Event
    <3>3. QED
      BY <1>3, <3>2 DEF MoneyInv, TypeOK
  <2>3. betStatus' \in [BetIds -> BetStatuses]
    BY <1>3 DEF MoneyInv, TypeOK, BetStatuses
  <2>4. \A k \in Markets : /\ volume'[k] \in [1 .. market'[k].outcomes -> Int]
                           /\ price'[k] \in [1 .. market'[k].outcomes -> Price]
    BY <1>3, <1>5 DEF MoneyInv, TypeOK
  <2>5. /\ rpc' \in [Resolvers -> {"idle"} \cup ResolveRunning \cup Over]
        /\ snapshot' \in [Resolvers -> SUBSET BetIds]
        /\ credit' \in [Resolvers -> [Users -> Int]]
    BY <1>3 DEF MoneyInv, TypeOK, Over
  <2>6. QED
    BY <1>3, <1>5, <2>1, <2>2, <2>3, <2>4, <2>5 DEF MoneyInv, TypeOK
<1>7. RowsExclusive'
  BY <1>3 DEF MoneyInv, TypeOK, RowsExclusive, UserRowHolders, OutcomeRowHolders, MarketRowHolders
<1>8. DebitsCovered'
  <2>1. \A r \in BetIds : order[r].user \in Users /\ order[r].amount \in Int
    BY DEF MoneyInv, TypeOK, Order
  <2>2. QED
    BY <1>3, <1>4, <2>1 DEF MoneyInv, TypeOK, DebitsCovered
<1>9. OrdersSound'
  BY <1>3 DEF MoneyInv, OrdersSound
<1>10. BoardsFit'
  <2>1. \A k \in Markets : market'[k].status = "absent" => market[k].status = "absent"
    BY <1>1, <1>2, <1>3 DEF MoneyInv, TypeOK
  <2>2. \A r \in BetIds : order[r].market \in Markets
    BY DEF MoneyInv, TypeOK, Order
  <2>3. QED
    BY <1>3, <1>5, <2>1, <2>2 DEF MoneyInv, BoardsFit
<1>11. SettlementsSound'
  BY <1>3 DEF MoneyInv, TypeOK, SettlementsSound
<1>12. BalanceNeverNegative'
  BY <1>4 DEF MoneyInv, TypeOK, BalanceNeverNegative
<1>13. QED
  BY <1>6, <1>7, <1>8, <1>9, <1>10, <1>11, <1>12 DEF MoneyInv

\* Every step preserves the invariant.
LEMMA NextMoney == MoneyInv /\ [Next]_vars => MoneyInv'
<1> SUFFICES ASSUME MoneyInv, [Next]_vars PROVE MoneyInv'
  OBVIOUS
<1>1. ASSUME NEW m \in Markets,
             \/ DeadlinePasses(m)
             \/ \E role \in Roles, n \in 0 .. MaxOutcomes : CreateMarket(m, role, n)
      PROVE  MoneyInv'
  BY <1>1, MarketMoney
<1>2. ASSUME NEW r \in BetIds, PlaceStart(r) PROVE MoneyInv'
  BY <1>2, PlaceReadsMoney
<1>3. ASSUME NEW r \in BetIds, PlaceStep(r) PROVE MoneyInv'
  BY <1>3, PlaceReadsMoney, PlaceLocksMoney, PlaceCommitMoney DEF PlaceStep
<1>4. ASSUME NEW r \in BetIds, PlaceFail(r) PROVE MoneyInv'
  BY <1>4, GiveUpMoney DEF PlaceFail
<1>5. ASSUME NEW s \in Resolvers, ResolveStart(s) PROVE MoneyInv'
  BY <1>5, ResolveReadsMoney
<1>6. ASSUME NEW s \in Resolvers, ResolveStep(s) PROVE MoneyInv'
  BY <1>6, ResolveReadsMoney, SettleBetMoney, ResolveCommitMoney DEF ResolveStep
<1>7. ASSUME NEW s \in Resolvers, ResolveFail(s) PROVE MoneyInv'
  BY <1>7, AbandonMoney DEF ResolveFail
<1>8. CASE UNCHANGED vars
  <2>1. UNCHANGED <<order, verdict, balance, market, volume, price, betStatus, outbox,
                    pc, board, buyPrice, repeat, rpc, snapshot, pending, credit>>
    BY <1>8 DEF vars, inputs, tables, placeVars, resolveVars
  <2>2. TypeOK'
    BY <2>1 DEF MoneyInv, TypeOK
  <2>3. (RowsExclusive /\ DebitsCovered /\ OrdersSound /\ BoardsFit)'
    BY <2>1 DEF MoneyInv, RowsExclusive, UserRowHolders, OutcomeRowHolders, MarketRowHolders,
                DebitsCovered, OrdersSound, BoardsFit
  <2>4. (SettlementsSound /\ BalanceNeverNegative)'
    BY <2>1 DEF MoneyInv, SettlementsSound, BalanceNeverNegative
  <2>5. QED
    BY <2>2, <2>3, <2>4 DEF MoneyInv
<1>9. QED
  BY <1>1, <1>2, <1>3, <1>4, <1>5, <1>6, <1>7, <1>8 DEF Next

\* MoneyInv holds in every reachable state, for any number of users, markets
\* and concurrent requests.
THEOREM MoneySafe == Spec => []MoneyInv
<1>1. Init => MoneyInv
  BY InitMoney
<1>2. MoneyInv /\ [Next]_vars => MoneyInv'
  BY NextMoney
<1>3. QED
  BY <1>1, <1>2, PTL DEF Spec

\* The tables and the requests keep their types.
THEOREM TypeCorrect == Spec => []TypeOK
<1>1. MoneyInv => TypeOK
  BY DEF MoneyInv
<1>2. QED
  BY <1>1, MoneySafe, PTL

\* No balance is ever negative (the conditional debit of bet_repository.rs),
\* however many placements and settlements race and wherever they fail.
THEOREM NeverNegative == Spec => []BalanceNeverNegative
<1>1. MoneyInv => BalanceNeverNegative
  BY DEF MoneyInv
<1>2. QED
  BY <1>1, MoneySafe, PTL

-----------------------------------------------------------------------------
(* Settlement, with any number of resolutions of one market *)

\* A step in which no resolution commits: bets and markets keep what settlement
\* wrote, committed resolutions keep what they read, and snapshots hold bets of
\* their market.
QuietStep ==
  /\ order' = order /\ verdict' = verdict
  /\ \A b \in BetIds : Settled(b) \/ Settled(b)' => betStatus'[b] = betStatus[b]
  /\ \A m \in Markets :
       /\ market'[m].status = "resolved" <=> market[m].status = "resolved"
       /\ market[m].status = "resolved" => market'[m].winner = market[m].winner
  /\ \A s \in Resolvers : /\ rpc'[s] = "done" <=> rpc[s] = "done"
                          /\ rpc[s] = "done" => snapshot'[s] = snapshot[s]
  /\ \A s \in Resolvers : \A b \in snapshot'[s] : order[b].market = verdict[s].market

\* Such a step keeps SettlementInv.
LEMMA QuietStepSettlement ==
  ASSUME SettlementInv, MoneyInv', QuietStep
  PROVE  SettlementInv'
<1>1. \A b \in BetIds : order[b].market \in Markets
  BY DEF SettlementInv, MoneyInv, TypeOK, Order
<1>2. \A m \in Markets : Resolutions(m)' = Resolutions(m)
  BY DEF QuietStep, Resolutions
<1>3. \A m \in Markets : market'[m].status = "resolved" <=> Resolutions(m)' # {}
  BY <1>2 DEF QuietStep, SettlementInv, SettledByVerdict
<1>4. ASSUME NEW m \in Markets, market'[m].status = "resolved"
      PROVE  \E s \in Resolutions(m)' : verdict'[s].winner = market'[m].winner
  <2>1. PICK s \in Resolutions(m) : verdict[s].winner = market[m].winner
    BY <1>4 DEF QuietStep, SettlementInv, SettledByVerdict
  <2>2. QED
    BY <1>2, <1>4, <2>1 DEF QuietStep
<1>5. ASSUME NEW b \in BetIds, Settled(b)'
      PROVE  \E s \in Resolutions(order[b].market)' :
               b \in snapshot'[s] /\ (betStatus'[b] = "won" <=> Wins(s, b)')
  <2>1. betStatus'[b] = betStatus[b] /\ Settled(b)
    BY <1>5 DEF QuietStep, Settled
  <2>2. PICK s \in Resolutions(order[b].market) : b \in snapshot[s] /\ (betStatus[b] = "won" <=> Wins(s, b))
    BY <2>1 DEF SettlementInv, SettledByVerdict
  <2>3. s \in Resolvers /\ rpc[s] = "done"
    BY <2>2 DEF Resolutions
  <2>4. snapshot'[s] = snapshot[s] /\ (Wins(s, b)' <=> Wins(s, b))
    BY <2>3 DEF QuietStep, Wins
  <2>5. s \in Resolutions(order[b].market)'
    <3>1. PICK m \in Markets : m = order[b].market
      BY <1>1
    <3>2. s \in Resolutions(m)'
      BY <1>2, <2>2, <3>1
    <3>3. order'[b].market = m
      BY <3>1 DEF QuietStep
    <3>4. QED
      BY <3>2, <3>3 DEF Resolutions
  <2>6. QED
    BY <2>1, <2>2, <2>4, <2>5
<1>6. order' = order /\ verdict' = verdict
      /\ \A s \in Resolvers : \A b \in snapshot'[s] : order'[b].market = verdict'[s].market
  BY DEF QuietStep
<1>7. SettledByVerdict'
  BY <1>3, <1>4, <1>5, <1>6 DEF SettledByVerdict
<1>8. QED
  BY <1>7 DEF SettlementInv

\* Every step but the commit of a resolution is quiet.
LEMMA NextQuiet ==
  ASSUME SettlementInv, [Next]_vars, ~ \E s \in Resolvers : ResolveCommit(s)
  PROVE  QuietStep
<1> USE DEF inputs, tables, placeVars, resolveVars
<1>0. \A s \in Resolvers : \A b \in snapshot[s] : order[b].market = verdict[s].market
  BY DEF SettlementInv, SettledByVerdict
<1>1. CASE \E m \in Markets, role \in Roles, n \in 0 .. MaxOutcomes : CreateMarket(m, role, n)
  <2>1. PICK m \in Markets, n \in 0 .. MaxOutcomes :
          /\ market[m].status = "absent" /\ market' = [market EXCEPT ![m] = NewMarket(n)]
          /\ UNCHANGED <<inputs, balance, betStatus, outbox, placeVars, resolveVars>>
    BY <1>1 DEF CreateMarket
  <2>2. NewMarket(n).status = "open"
    BY DEF NewMarket
  <2>3. market \in [Markets -> MarketRow]
    BY DEF SettlementInv, MoneyInv, TypeOK
  <2>4. QED
    BY <1>0, <2>1, <2>2, <2>3 DEF QuietStep
<1>2. CASE \E m \in Markets : DeadlinePasses(m)
  <2>1. PICK m \in Markets : DeadlinePasses(m)
    BY <1>2
  <2> DEFINE row == [market[m] EXCEPT !.expired = TRUE]
  <2>2. market \in [Markets -> MarketRow]
    BY DEF SettlementInv, MoneyInv, TypeOK
  <2>3. row.status = market[m].status /\ row.winner = market[m].winner
    BY <2>2, ExpiredRow
  <2>4. /\ market' = [market EXCEPT ![m] = row]
        /\ UNCHANGED <<inputs, betStatus, resolveVars>>
    BY <2>1 DEF DeadlinePasses
  <2> HIDE DEF row
  <2>5. QED
    BY <1>0, <2>2, <2>3, <2>4 DEF QuietStep
<1>3. CASE \E r \in BetIds : PlaceCommit(r)
  <2>1. PICK r \in BetIds : PlaceCommit(r)
    BY <1>3
  <2> DEFINE row == StakedRow(r)
             m == order[r].market
  <2>2. market \in [Markets -> MarketRow] /\ betStatus \in [BetIds -> BetStatuses] /\ m \in Markets
    BY DEF SettlementInv, MoneyInv, TypeOK, Order
  <2>3. row.status = market[m].status /\ row.winner = market[m].winner
    BY StakedRowType DEF SettlementInv, MoneyInv
  <2>4. betStatus[r] = "none"
    BY <2>1 DEF PlaceCommit, SettlementInv, MoneyInv, SettlementsSound
  <2>5. /\ market' = [market EXCEPT ![m] = row]
        /\ betStatus' = [betStatus EXCEPT ![r] = "active"]
        /\ UNCHANGED <<inputs, resolveVars>>
    BY <2>1 DEF PlaceCommit
  <2> HIDE DEF row, m
  <2>6. QED
    BY <1>0, <2>2, <2>3, <2>4, <2>5 DEF QuietStep, Settled
<1>4. CASE UNCHANGED <<inputs, tables, resolveVars>>
  BY <1>0, <1>4 DEF QuietStep
<1>5. CASE \E s \in Resolvers :
             /\ rpc[s] # "done" /\ rpc'[s] # "done"
             /\ \A t \in Resolvers : t # s => rpc'[t] = rpc[t] /\ snapshot'[t] = snapshot[t]
             /\ snapshot'[s] \subseteq snapshot[s] \cup
                  {b \in BetIds : betStatus[b] = "active" /\ order[b].market = verdict[s].market}
             /\ UNCHANGED <<inputs, tables>>
  <2>1. PICK s \in Resolvers :
             /\ rpc[s] # "done" /\ rpc'[s] # "done"
             /\ \A t \in Resolvers : t # s => rpc'[t] = rpc[t] /\ snapshot'[t] = snapshot[t]
             /\ snapshot'[s] \subseteq snapshot[s] \cup
                  {b \in BetIds : betStatus[b] = "active" /\ order[b].market = verdict[s].market}
             /\ UNCHANGED <<inputs, tables>>
    BY <1>5
  <2>2. \A t \in Resolvers : \A b \in snapshot'[t] : order[b].market = verdict[t].market
    <3>1. \A b \in snapshot'[s] : order[b].market = verdict[s].market
      BY <1>0, <2>1
    <3>2. QED
      BY <1>0, <2>1, <3>1
  <2>3. QED
    BY <2>1, <2>2 DEF QuietStep
<1>6. ASSUME NEW r \in BetIds, PlaceStart(r) \/ PlaceStep(r) \/ PlaceFail(r), ~PlaceCommit(r)
      PROVE  UNCHANGED <<inputs, tables, resolveVars>>
  BY <1>6 DEF PlaceStart, PlaceStep, PlaceFail, GiveUp, PlaceReadBoard, PlaceCheckBalance,
              PlaceDebit, PlaceWriteOutcomes
<1>7. ASSUME NEW s \in Resolvers, ResolveStart(s) \/ ResolveStep(s) \/ ResolveFail(s)
      PROVE  /\ rpc[s] # "done" /\ rpc'[s] # "done"
             /\ \A t \in Resolvers : t # s => rpc'[t] = rpc[t] /\ snapshot'[t] = snapshot[t]
             /\ snapshot'[s] \subseteq snapshot[s] \cup
                  {b \in BetIds : betStatus[b] = "active" /\ order[b].market = verdict[s].market}
             /\ UNCHANGED <<inputs, tables>>
  <2> rpc \in [Resolvers -> {"idle"} \cup ResolveRunning \cup Over] /\ snapshot \in [Resolvers -> SUBSET BetIds]
    BY DEF SettlementInv, MoneyInv, TypeOK
  <2>1. CASE rpc[s] \in {"idle"} \cup ResolveRunning /\ Abandon(s)
    BY <2>1 DEF Abandon, ResolveRunning
  <2>2. CASE ResolveStart(s)
    BY <2>1, <2>2 DEF ResolveStart
  <2>3. CASE ResolveLoadBets(s)
    BY <2>3 DEF ResolveLoadBets
  <2>4. CASE ResolveMarketRow(s) \/ \E b \in BetIds : SettleBet(s, b)
    BY <2>4 DEF ResolveMarketRow, SettleBet
  <2>5. QED
    BY <1>7, <2>1, <2>2, <2>3, <2>4 DEF ResolveStep, ResolveFail
<1>8. UNCHANGED vars => UNCHANGED <<inputs, tables, resolveVars>>
  BY DEF vars
<1>9. QED
  BY <1>1, <1>2, <1>3, <1>4, <1>5, <1>6, <1>7, <1>8 DEF Next

\* The commit of a resolution settles exactly the bets it read, by its verdict.
LEMMA ResolveCommitSettlement ==
  ASSUME SettlementInv, NEW s \in Resolvers, ResolveCommit(s)
  PROVE  /\ SettlementInv'
         /\ CommitsResolution(s)
         /\ \A b \in BetIds : betStatus'[b] # betStatus[b] => b \in snapshot[s]
         /\ \A m \in Markets : m # verdict[s].market => market'[m] = market[m]
<1> DEFINE k == verdict[s].market
           row == ResolvedRow(s)
<1>1. MoneyInv'
  BY ResolveCommitMoney DEF SettlementInv
<1>2. /\ market' = [market EXCEPT ![k] = row]
      /\ betStatus' = [b \in BetIds |->
           IF b \in snapshot[s] THEN (IF Wins(s, b) THEN "won" ELSE "lost") ELSE betStatus[b]]
      /\ rpc[s] = "settling" /\ rpc' = [rpc EXCEPT ![s] = "done"]
      /\ snapshot' = snapshot
      /\ order' = order /\ verdict' = verdict
  BY DEF ResolveCommit, inputs
<1>3. row.status = "resolved" /\ row.winner = verdict[s].winner
  BY ResolvedRowType DEF SettlementInv, MoneyInv
<1>4. /\ market \in [Markets -> MarketRow] /\ k \in Markets
      /\ rpc \in [Resolvers -> {"idle"} \cup ResolveRunning \cup Over]
      /\ snapshot \in [Resolvers -> SUBSET BetIds]
      /\ betStatus \in [BetIds -> BetStatuses]
      /\ \A b \in BetIds : order[b].market \in Markets
  BY DEF SettlementInv, MoneyInv, TypeOK, Verdict, Order
<1>5. \A b \in snapshot[s] : order[b].market = k
  BY DEF SettlementInv, SettledByVerdict
<1> HIDE DEF row, k
<1>6. \A m \in Markets : m # k => market'[m] = market[m]
  BY <1>2, <1>4
<1>7. market'[k].status = "resolved" /\ market'[k].winner = verdict[s].winner
  BY <1>2, <1>3, <1>4
<1>8. \A m \in Markets : Resolutions(m)' = IF m = k THEN Resolutions(m) \cup {s} ELSE Resolutions(m)
  BY <1>2, <1>4 DEF Resolutions, k
<1>9. \A b \in BetIds : b \notin snapshot[s] => betStatus'[b] = betStatus[b]
  BY <1>2, <1>4
<1>10. SettledByVerdict'
  <2>1. \A m \in Markets : market'[m].status = "resolved" <=> Resolutions(m)' # {}
    BY <1>6, <1>7, <1>8 DEF SettlementInv, SettledByVerdict
  <2>2. ASSUME NEW m \in Markets, market'[m].status = "resolved"
        PROVE  \E t \in Resolutions(m)' : verdict'[t].winner = market'[m].winner
    <3>1. CASE m = k
      BY <1>2, <1>7, <1>8, <3>1
    <3>2. CASE m # k
      <4>1. PICK t \in Resolutions(m) : verdict[t].winner = market[m].winner
        BY <1>6, <2>2, <3>2 DEF SettlementInv, SettledByVerdict
      <4>2. QED
        BY <1>2, <1>6, <1>8, <3>2, <4>1
    <3>3. QED
      BY <3>1, <3>2
  <2>3. ASSUME NEW b \in BetIds, Settled(b)'
        PROVE  \E t \in Resolutions(order[b].market)' :
                 b \in snapshot'[t] /\ (betStatus'[b] = "won" <=> Wins(t, b)')
    <3>1. CASE b \in snapshot[s]
      <4>1. s \in Resolutions(order[b].market)'
        <5>1. PICK m \in Markets : m = order[b].market
          BY <1>4
        <5>2. m = k /\ order'[b].market = m
          BY <1>2, <1>5, <3>1, <5>1
        <5>3. s \in Resolutions(m)'
          BY <1>8, <5>2
        <5>4. QED
          BY <5>2, <5>3 DEF Resolutions
      <4>2. betStatus'[b] = (IF Wins(s, b) THEN "won" ELSE "lost") /\ (Wins(s, b)' <=> Wins(s, b))
        BY <1>2, <3>1 DEF Wins
      <4>3. QED
        BY <1>2, <3>1, <4>1, <4>2
    <3>2. CASE b \notin snapshot[s]
      <4>1. betStatus'[b] = betStatus[b] /\ Settled(b)
        BY <1>9, <2>3, <3>2 DEF Settled
      <4>2. PICK t \in Resolutions(order[b].market) : b \in snapshot[t] /\ (betStatus[b] = "won" <=> Wins(t, b))
        BY <4>1 DEF SettlementInv, SettledByVerdict
      <4>3. t \in Resolutions(order[b].market)'
        <5>1. PICK m \in Markets : m = order[b].market
          BY <1>4
        <5>2. t \in Resolutions(m)
          BY <4>2, <5>1
        <5>3. t \in Resolutions(m)'
          BY ONLY <1>8, <5>2, m \in Markets
        <5>4. order'[b].market = m
          BY <1>2, <5>1
        <5>5. QED
          BY <5>3, <5>4 DEF Resolutions
      <4>4. Wins(t, b)' <=> Wins(t, b)
        BY <1>2 DEF Wins
      <4>5. QED
        BY <1>2, <4>1, <4>2, <4>3, <4>4
    <3>3. QED
      BY <3>1, <3>2
  <2>4. \A t \in Resolvers : \A b \in snapshot'[t] : order'[b].market = verdict'[t].market
    BY <1>2 DEF SettlementInv, SettledByVerdict
  <2>5. QED
    BY <2>1, <2>2, <2>3, <2>4 DEF SettledByVerdict
<1>11. CommitsResolution(s)
  BY <1>2, <1>4 DEF CommitsResolution
<1>12. QED
  BY <1>1, <1>6, <1>9, <1>10, <1>11 DEF SettlementInv, k

\* Nothing is resolved or settled at the start.
LEMMA InitSettlement == Init => SettlementInv
<1> SUFFICES ASSUME Init PROVE SettlementInv
  OBVIOUS
<1>1. SettledByVerdict
  BY DEF Init, SettledByVerdict, Settled, Resolutions, AbsentMarket
<1>2. QED
  BY <1>1, InitMoney DEF SettlementInv

\* Every step preserves SettlementInv: quiet, or the commit of a resolution.
LEMMA NextSettlement == SettlementInv /\ [Next]_vars => SettlementInv'
<1> SUFFICES ASSUME SettlementInv, [Next]_vars PROVE SettlementInv'
  OBVIOUS
<1>1. CASE \E s \in Resolvers : ResolveCommit(s)
  BY <1>1, ResolveCommitSettlement
<1>2. CASE ~ \E s \in Resolvers : ResolveCommit(s)
  <2>1. MoneyInv'
    BY NextMoney DEF SettlementInv
  <2>2. QuietStep
    BY <1>2, NextQuiet
  <2>3. QED
    BY <2>1, <2>2, QuietStepSettlement
<1>3. QED
  BY <1>1, <1>2

\* SettlementInv always holds, however many resolutions of a market race.
THEOREM SettlementSafe == Spec => []SettlementInv
<1>1. Init => SettlementInv
  BY InitSettlement
<1>2. SettlementInv /\ [Next]_vars => SettlementInv'
  BY NextSettlement
<1>3. QED
  BY <1>1, <1>2, PTL DEF Spec

\* A settled bet agrees with its resolved market unless resolutions of it that
\* raced named different winners: no interleaving of placements and resolutions
\* settles it otherwise.
THEOREM SettledCorrectly == Spec => []SettlementAgrees
<1>1. SettlementInv => SettlementAgrees
  <2> SUFFICES ASSUME SettlementInv, NEW b \in BetIds, Settled(b)
               PROVE  LET m == order[b].market IN
                      /\ market[m].status = "resolved"
                      /\ (\A s, t \in Resolutions(m) : verdict[s].winner = verdict[t].winner) =>
                           (betStatus[b] = "won" <=> market[m].winner = order[b].outcome)
    BY DEF SettlementAgrees
  <2>1. PICK m \in Markets : m = order[b].market
    BY DEF SettlementInv, MoneyInv, TypeOK, Order
  <2>2. PICK s \in Resolutions(m) : b \in snapshot[s] /\ (betStatus[b] = "won" <=> Wins(s, b))
    BY <2>1 DEF SettlementInv, SettledByVerdict
  <2>3. market[m].status = "resolved"
    BY <2>2 DEF SettlementInv, SettledByVerdict
  <2>4. PICK t \in Resolutions(m) : verdict[t].winner = market[m].winner
    BY <2>3 DEF SettlementInv, SettledByVerdict
  <2>5. QED
    BY <2>1, <2>2, <2>3, <2>4 DEF Wins
<1>2. QED
  BY <1>1, SettlementSafe, PTL

\* A resolution is let in only while none of its market has committed.
LEMMA NextLetsIn ==
  ASSUME SettlementInv, [Next]_vars, NEW s \in Resolvers, rpc[s] = "idle", rpc'[s] = "read"
  PROVE  Resolutions(verdict[s].market) = {}
<1> USE DEF inputs, tables, placeVars, resolveVars
<1>1. rpc \in [Resolvers -> {"idle"} \cup ResolveRunning \cup Over] /\ verdict[s].market \in Markets
  BY DEF SettlementInv, MoneyInv, TypeOK, Verdict
<1>2. ASSUME NEW t \in Resolvers, ResolveStart(t) \/ ResolveStep(t) \/ ResolveFail(t)
      PROVE  ResolveStart(s)
  <2>1. rpc' = [rpc EXCEPT ![t] = rpc'[t]]
    BY <1>1, <1>2 DEF ResolveStart, ResolveStep, ResolveFail, Abandon, ResolveLoadBets, ResolveMarketRow,
                      SettleBet, ResolveCommit
  <2>2. t = s
    BY <1>1, <2>1
  <2>3. QED
    BY <1>2, <2>2 DEF ResolveStep, ResolveFail, ResolveLoadBets, ResolveMarketRow, SettleBet,
                      ResolveCommit, ResolveRunning
<1>3. ASSUME ~ \E t \in Resolvers : ResolveStart(t) \/ ResolveStep(t) \/ ResolveFail(t)
      PROVE  rpc' = rpc
  BY <1>3 DEF Next, vars, CreateMarket, DeadlinePasses, PlaceStart, PlaceFail, PlaceStep,
              PlaceReadBoard, PlaceCheckBalance, PlaceDebit, PlaceWriteOutcomes, PlaceCommit, GiveUp
<1>4. ResolveStart(s)
  BY <1>2, <1>3
<1>5. market[verdict[s].market].status # "resolved"
  BY <1>1, <1>4 DEF ResolveStart, Abandon
<1>6. QED
  BY <1>1, <1>5 DEF SettlementInv, SettledByVerdict

\* A settled bet or a resolved market changes only when a resolution of that
\* market commits that was let in before the first one committed: not by the
\* write of a placement that read the market while it was open, and not by a
\* resolution asked for afterwards.
THEOREM SettledTwiceOnlyByRace == Spec => SettledAgainOnlyByRace
<1>1. ASSUME SettlementInv, [Next]_vars
      PROVE  /\ \A s \in Resolvers :
                  rpc[s] = "idle" /\ rpc'[s] = "read" => Resolutions(verdict[s].market) = {}
             /\ \A b \in BetIds : Settled(b) /\ betStatus'[b] # betStatus[b] =>
                  \E s \in Resolvers : CommitsResolution(s) /\ b \in snapshot[s]
             /\ \A m \in Markets :
                  (/\ market[m].status = "resolved"
                   /\ <<market'[m].status, market'[m].winner>> # <<"resolved", market[m].winner>>) =>
                     \E s \in Resolvers : CommitsResolution(s) /\ verdict[s].market = m
  <2>1. CASE \E s \in Resolvers : ResolveCommit(s)
    BY <1>1, <2>1, NextLetsIn, ResolveCommitSettlement
  <2>2. CASE ~ \E s \in Resolvers : ResolveCommit(s)
    BY <1>1, <2>2, NextLetsIn, NextQuiet DEF QuietStep
  <2>3. QED
    BY <2>1, <2>2
<1>2. QED
  BY <1>1, SettlementSafe, PTL DEF Spec, SettledAgainOnlyByRace

-----------------------------------------------------------------------------
(* The events of balance changes *)

\* Whoever an open settlement has credited is among the users it will announce.
CreditsExplained ==
  \A s \in Resolvers : \A u \in Users : credit[s][u] # 0 => u \in PaidUsers(s)

\* It stays so: a credit goes to the user of a winning bet of the snapshot.
LEMMA NextCredits ==
  ASSUME MoneyInv, CreditsExplained, [Next]_vars
  PROVE  CreditsExplained'
<1> USE DEF inputs, tables, placeVars, resolveVars
<1>1. ASSUME UNCHANGED <<inputs, resolveVars>> PROVE CreditsExplained'
  BY <1>1 DEF CreditsExplained, PaidUsers, Wins
<1>2. ASSUME NEW s \in Resolvers, Abandon(s) PROVE CreditsExplained'
  BY <1>2 DEF Abandon, CreditsExplained, PaidUsers, Wins, MoneyInv, TypeOK
<1>3. ASSUME NEW s \in Resolvers, ResolveLoadBets(s) PROVE CreditsExplained'
  <2>1. \A u \in Users : credit[s][u] = 0
    BY <1>3 DEF ResolveLoadBets, MoneyInv, SettlementsSound
  <2>2. \A t \in Resolvers : t # s => snapshot'[t] = snapshot[t]
    BY <1>3 DEF ResolveLoadBets, MoneyInv, TypeOK
  <2>3. UNCHANGED <<inputs, credit>>
    BY <1>3 DEF ResolveLoadBets
  <2>4. QED
    BY <2>1, <2>2, <2>3 DEF CreditsExplained, PaidUsers, Wins
<1>4. ASSUME NEW s \in Resolvers, ResolveMarketRow(s) PROVE CreditsExplained'
  BY <1>4 DEF ResolveMarketRow, CreditsExplained, PaidUsers, Wins
<1>5. ASSUME NEW s \in Resolvers, NEW b \in BetIds, SettleBet(s, b) PROVE CreditsExplained'
  <2>1. b \in snapshot[s] /\ credit \in [Resolvers -> [Users -> Int]]
    BY <1>5 DEF SettleBet, MoneyInv, TypeOK, SettlementsSound
  <2>2. UNCHANGED <<inputs, snapshot>>
    BY <1>5 DEF SettleBet
  <2>3. \A t \in Resolvers : PaidUsers(t)' = PaidUsers(t)
    BY <2>2 DEF PaidUsers, Wins
  <2>4. \A t \in Resolvers, u \in Users :
          credit'[t][u] = credit[t][u] \/ (t = s /\ u = order[b].user /\ Wins(s, b))
    BY <1>5, <2>1 DEF SettleBet
  <2>5. Wins(s, b) => order[b].user \in PaidUsers(s)
    BY <2>1 DEF PaidUsers
  <2>6. QED
    BY <2>3, <2>4, <2>5 DEF CreditsExplained
<1>6. ASSUME NEW s \in Resolvers, ResolveCommit(s) PROVE CreditsExplained'
  BY <1>6 DEF ResolveCommit, CreditsExplained, PaidUsers, Wins, MoneyInv, TypeOK
<1>7. CASE UNCHANGED vars
  BY <1>1, <1>7 DEF vars
<1>8. CASE \E m \in Markets, role \in Roles, n \in 0 .. MaxOutcomes : CreateMarket(m, role, n)
  BY <1>1, <1>8 DEF CreateMarket
<1>9. CASE \E m \in Markets : DeadlinePasses(m)
  BY <1>1, <1>9 DEF DeadlinePasses
<1>10. CASE \E r \in BetIds : PlaceStart(r) \/ PlaceFail(r) \/ PlaceStep(r)
  BY <1>1, <1>10 DEF PlaceStart, PlaceFail, PlaceStep, PlaceReadBoard, PlaceCheckBalance,
    PlaceDebit, PlaceWriteOutcomes, PlaceCommit, GiveUp
<1>11. ASSUME NEW s \in Resolvers, ResolveStart(s) PROVE CreditsExplained'
  <2>1. CASE Abandon(s)
    BY <1>2, <2>1
  <2>2. CASE ~Abandon(s)
    BY <1>11, <2>2 DEF ResolveStart, CreditsExplained, PaidUsers, Wins
  <2>3. QED
    BY <2>1, <2>2
<1>12. ASSUME NEW s \in Resolvers, ResolveFail(s) PROVE CreditsExplained'
  BY <1>2, <1>12 DEF ResolveFail
<1>13. ASSUME NEW s \in Resolvers, ResolveStep(s) PROVE CreditsExplained'
  BY <1>3, <1>4, <1>5, <1>6, <1>13 DEF ResolveStep
<1>14. QED
  BY <1>7, <1>8, <1>9, <1>10, <1>11, <1>12, <1>13 DEF Next

\* A step that changes a balance appends one batch of events, with the user's
\* UserBalanceChanged in it.
LEMMA NextAnnounces ==
  ASSUME MoneyInv, CreditsExplained, [Next]_vars, NEW u \in Users, balance'[u] # balance[u]
  PROVE  /\ Len(outbox') = Len(outbox) + 1
         /\ [type |-> "UserBalanceChanged", user |-> u] \in outbox'[Len(outbox')]
<1> USE DEF inputs, tables, placeVars, resolveVars
<1>1. outbox \in Seq(SUBSET Event) /\ balance \in [Users -> Int] /\ credit \in [Resolvers -> [Users -> Int]]
  BY DEF MoneyInv, TypeOK
<1>2. ASSUME NEW es, outbox' = Append(outbox, es),
             [type |-> "UserBalanceChanged", user |-> u] \in es
      PROVE  /\ Len(outbox') = Len(outbox) + 1
             /\ [type |-> "UserBalanceChanged", user |-> u] \in outbox'[Len(outbox')]
  BY <1>1, <1>2
<1>3. ASSUME NEW r \in BetIds, PlaceCommit(r)
      PROVE  \E es : /\ outbox' = Append(outbox, es)
                     /\ [type |-> "UserBalanceChanged", user |-> u] \in es
  <2>1. u = order[r].user
    BY <1>1, <1>3 DEF PlaceCommit
  <2>2. [type |-> "UserBalanceChanged", user |-> u] \in PlaceEvents(r)
    BY <2>1 DEF PlaceEvents
  <2>3. QED
    BY <1>3, <2>2 DEF PlaceCommit
<1>4. ASSUME NEW s \in Resolvers, ResolveCommit(s)
      PROVE  \E es : /\ outbox' = Append(outbox, es)
                     /\ [type |-> "UserBalanceChanged", user |-> u] \in es
  <2>1. credit[s][u] # 0
    BY <1>1, <1>4 DEF ResolveCommit
  <2>2. u \in PaidUsers(s)
    BY <2>1 DEF CreditsExplained
  <2>3. QED
    BY <1>4, <2>2 DEF ResolveCommit
<1>5. ASSUME ~ \E r \in BetIds : PlaceCommit(r), ~ \E s \in Resolvers : ResolveCommit(s)
      PROVE  UNCHANGED balance
  BY <1>5 DEF Next, vars, CreateMarket, DeadlinePasses, PlaceStart, PlaceFail, PlaceStep,
    PlaceReadBoard, PlaceCheckBalance, PlaceDebit, PlaceWriteOutcomes, GiveUp, ResolveStart,
    ResolveFail, ResolveStep, ResolveLoadBets, ResolveMarketRow, SettleBet, Abandon
<1>6. QED
  BY <1>2, <1>3, <1>4, <1>5

\* Whatever changes a balance in a commit, a stake or a payout, publishes that
\* user's UserBalanceChanged in the same commit: the cache invalidation never
\* misses one (bet_repository.rs, place and settle).
THEOREM ChangesAnnounced == Spec => BalanceChangesAnnounced
<1>1. Init => CreditsExplained
  BY DEF Init, CreditsExplained, resolveVars
<1>2. MoneyInv /\ CreditsExplained /\ [Next]_vars => CreditsExplained'
  BY NextCredits
<1>3. MoneyInv /\ CreditsExplained /\ [Next]_vars =>
        [\A u \in Users : balance'[u] # balance[u] =>
           /\ Len(outbox') = Len(outbox) + 1
           /\ [type |-> "UserBalanceChanged", user |-> u] \in outbox'[Len(outbox')]]_vars
  BY NextAnnounces
<1>4. QED
  BY <1>1, <1>2, <1>3, MoneySafe, PTL DEF Spec, BalanceChangesAnnounced
-----------------------------------------------------------------------------
(* The books: volumes and participants *)

\* What a set of bets stakes, and one bet more.
LEMMA StakesOfBets ==
  ASSUME TypeOK, NEW bs \in SUBSET BetIds
  PROVE  /\ StakedBy(bs) \in Int
         /\ bs = {} => StakedBy(bs) = 0
         /\ \A r \in BetIds \ bs : StakedBy(bs \cup {r}) = StakedBy(bs) + order[r].amount
<1>1. IsFiniteSet(bs) /\ \A b \in BetIds : order[b].amount \in Int
  BY FS_Subset DEF TypeOK, Order
<1>2. PICK f : f = [b \in bs |-> order[b].amount]
  OBVIOUS
<1>3. StakedBy(bs) = SumFunctionOnSet(f, bs)
  BY <1>2 DEF StakedBy, SumFunction
<1>4. \A x \in bs : f[x] \in Int
  BY <1>1, <1>2
<1>5. StakedBy(bs) \in Int
  BY <1>1, <1>3, <1>4, SumType
<1>6. bs = {} => StakedBy(bs) = 0
  BY <1>3, SumEmpty
<1>7. ASSUME NEW r \in BetIds \ bs PROVE StakedBy(bs \cup {r}) = StakedBy(bs) + order[r].amount
  <2>1. PICK g : g = [b \in bs \cup {r} |-> order[b].amount]
    OBVIOUS
  <2>2. StakedBy(bs \cup {r}) = SumFunctionOnSet(g, bs \cup {r})
    BY <2>1 DEF StakedBy, SumFunction
  <2>3. (\A x \in bs : g[x] \in Int) /\ r \notin bs /\ g[r] = order[r].amount /\ g[r] \in Int
    BY <1>1, <2>1
  <2>4. SumFunctionOnSet(g, bs \cup {r}) = SumFunctionOnSet(g, bs) + g[r]
    BY <1>1, <2>3, SumAdded
  <2>5. \A x \in bs : f[x] = g[x]
    BY <1>2, <2>1
  <2>6. SumFunctionOnSet(f, bs) = SumFunctionOnSet(g, bs)
    BY <1>1, <2>5, SumSame
  <2>7. QED
    BY <1>3, <2>2, <2>3, <2>4, <2>6
<1>8. QED
  BY <1>5, <1>6, <1>7

\* A step that places no bet and creates no market: the books and the bets keep
\* what they have, a request takes a copy of the board as it is, and the answer
\* to the repeat_bettor query.
CalmStep ==
  /\ order' = order /\ verdict' = verdict /\ volume' = volume
  /\ \A b \in BetIds : betStatus'[b] = "none" <=> betStatus[b] = "none"
  /\ \A m \in Markets : /\ market'[m].outcomes = market[m].outcomes
                        /\ market'[m].total_volume = market[m].total_volume
                        /\ market'[m].participants = market[m].participants
                        /\ market'[m].status = "absent" <=> market[m].status = "absent"
  /\ \A r \in BetIds : pc'[r] \in PlaceRunning \ {"accepted"} =>
       \/ pc[r] \in PlaceRunning \ {"accepted"} /\ board'[r] = board[r]
       \/ board'[r].volumes = volume[order[r].market]
  /\ \A r \in BetIds : pc'[r] \in PlaceInTx =>
       \/ pc[r] \in PlaceInTx /\ (repeat'[r] <=> repeat[r])
       \/ repeat'[r] <=> RepeatBettor(r)
  /\ \A s \in Resolvers : rpc'[s] \in ResolveRunning =>
       \/ rpc[s] \in ResolveRunning
       \/ verdict[s].winner <= market[verdict[s].market].outcomes

\* A calm step keeps CountersInv.
LEMMA CalmCounters ==
  ASSUME CountersInv, MoneyInv', CalmStep
  PROVE  CountersInv'
<1>1. \A b \in BetIds : order[b].market \in Markets
  BY DEF CountersInv, MoneyInv, TypeOK, Order
<1>2. \A m \in Markets : BetsOn(m)' = BetsOn(m)
  BY DEF CalmStep, BetsOn, Placed
<1>3. \A r \in BetIds : RepeatBettor(r)' <=> RepeatBettor(r)
  BY DEF CalmStep, RepeatBettor
<1>4. BoardsLag'
  <2>1. ASSUME NEW m \in Markets, NEW i \in DOMAIN volume'[m] PROVE volume'[m][i] >= 0
    BY DEF CalmStep, CountersInv, BoardsLag
  <2>2. ASSUME NEW r \in BetIds, pc'[r] \in PlaceRunning \ {"accepted"},
               NEW i \in DOMAIN volume[order[r].market]
        PROVE  board'[r].volumes[i] \in 0 .. volume[order[r].market][i]
    <3>1. CASE pc[r] \in PlaceRunning \ {"accepted"} /\ board'[r] = board[r]
      BY <3>1 DEF CountersInv, BoardsLag
    <3>2. CASE board'[r].volumes = volume[order[r].market]
      <4>1. PICK m \in Markets : m = order[r].market
        BY <1>1
      <4>5. volume[m] \in [1 .. market[m].outcomes -> Int]
        BY <4>1 DEF CountersInv, MoneyInv, TypeOK
      <4>2. volume[m][i] \in Int
        BY <2>2, <4>1, <4>5
      <4>3. volume[m][i] >= 0
        BY <4>1 DEF CountersInv, BoardsLag
      <4>4. QED
        BY <3>2, <4>1, <4>2, <4>3
    <3>3. QED
      BY <2>2, <3>1, <3>2 DEF CalmStep
  <2>3. QED
    BY <2>1, <2>2 DEF BoardsLag, CalmStep
<1>5. ChoicesFit'
  <2>1. \A s \in Resolvers : verdict[s].market \in Markets
    BY DEF CountersInv, MoneyInv, TypeOK, Verdict
  <2>2. QED
    BY <1>1, <2>1 DEF CalmStep, CountersInv, ChoicesFit, Placed
<1>6. VolumesAddUp'
  BY DEF CalmStep, CountersInv, VolumesAddUp
<1>7. RepeatsKnown'
  BY <1>3 DEF CalmStep, CountersInv, RepeatsKnown
<1>8. VolumesMatchBets'
  <2>1. ASSUME NEW bs PROVE StakedBy(bs)' = StakedBy(bs)
    BY DEF StakedBy, CalmStep
  <2>2. ASSUME NEW m \in Markets
        PROVE  /\ market'[m].total_volume = StakedBy(BetsOn(m))'
               /\ \A i \in DOMAIN volume'[m] :
                    volume'[m][i] = StakedBy({b \in BetsOn(m)' : order'[b].outcome = i})
    <3>1. /\ market[m].total_volume = StakedBy(BetsOn(m))
          /\ \A i \in DOMAIN volume[m] :
               volume[m][i] = StakedBy({b \in BetsOn(m) : order[b].outcome = i})
      BY DEF CountersInv, VolumesMatchBets
    <3>2. /\ order' = order /\ volume' = volume /\ market'[m].total_volume = market[m].total_volume
          /\ BetsOn(m)' = BetsOn(m)
      BY <1>2 DEF CalmStep
    <3>3. market'[m].total_volume = StakedBy(BetsOn(m))'
      <4>1. StakedBy(BetsOn(m))' = StakedBy(BetsOn(m)')
        BY <3>2, <2>1 DEF StakedBy
      <4>2. QED
        BY <3>1, <3>2, <4>1
    <3>4. QED
      BY <3>1, <3>2, <3>3
  <2>3. QED
    BY <2>1, <2>2 DEF VolumesMatchBets
<1>9. ParticipantsAreDistinct'
  BY <1>2 DEF CalmStep, CountersInv, ParticipantsAreDistinct
<1>10. QED
  BY <1>4, <1>5, <1>6, <1>7, <1>8, <1>9 DEF CountersInv

\* The clock and the placements and resolutions short of a commit are calm, and
\* so is the commit of a settlement: it moves bets on, and the status.
LEMMA NextCalm ==
  ASSUME CountersInv, [Next]_vars, ~ \E r \in BetIds : PlaceCommit(r),
         ~ \E m \in Markets, role \in Roles, n \in 0 .. MaxOutcomes : CreateMarket(m, role, n)
  PROVE  CalmStep
<1> USE DEF inputs, tables, placeVars, resolveVars
<1>0. /\ market \in [Markets -> MarketRow] /\ betStatus \in [BetIds -> BetStatuses]
      /\ pc \in [BetIds -> {"idle"} \cup PlaceRunning \cup Over]
      /\ repeat \in [BetIds -> BOOLEAN] /\ rpc \in [Resolvers -> {"idle"} \cup ResolveRunning \cup Over]
      /\ board = [r \in BetIds |-> board[r]]
  BY DEF CountersInv, MoneyInv, TypeOK
<1>1. ASSUME UNCHANGED <<order, verdict, rpc, volume, betStatus, market, pc, board, repeat>> PROVE CalmStep
  BY <1>1 DEF CalmStep
<1>2. ASSUME NEW m \in Markets, DeadlinePasses(m) PROVE CalmStep
  <2>1. PICK row : row = [market[m] EXCEPT !.expired = TRUE]
    OBVIOUS
  <2>2. /\ row.status = market[m].status /\ row.outcomes = market[m].outcomes
        /\ row.total_volume = market[m].total_volume /\ row.participants = market[m].participants
    BY <1>0, <2>1 DEF MarketRow
  <2>3. market' = [market EXCEPT ![m] = row] /\ UNCHANGED <<order, verdict, rpc, volume, betStatus, pc, board, repeat>>
    BY <1>2, <2>1 DEF DeadlinePasses
  <2>4. QED
    BY <1>0, <2>2, <2>3 DEF CalmStep
<1>3. ASSUME NEW r \in BetIds, GiveUp(r) PROVE CalmStep
  <2>1. /\ UNCHANGED <<order, verdict, rpc, volume, betStatus, market>>
        /\ pc' = [pc EXCEPT ![r] = "rejected"]
        /\ \A q \in BetIds \ {r} : board'[q] = board[q] /\ repeat'[q] = repeat[q]
    BY <1>0, <1>3 DEF GiveUp
  <2>2. QED
    BY <1>0, <2>1 DEF CalmStep, PlaceRunning, PlaceInTx
<1>4. ASSUME NEW r \in BetIds, PlaceStart(r) PROVE CalmStep
  <2>1. CASE GiveUp(r)
    BY <1>3, <2>1
  <2>2. CASE ~GiveUp(r)
    <3>1. /\ UNCHANGED <<order, verdict, rpc, volume, betStatus, market, board, repeat>>
          /\ pc' = [pc EXCEPT ![r] = "accepted"]
      BY <1>4, <2>2 DEF PlaceStart
    <3>2. QED
      BY <1>0, <3>1 DEF CalmStep, PlaceRunning, PlaceInTx
  <2>3. QED
    BY <2>1, <2>2
<1>5. ASSUME NEW r \in BetIds, PlaceReadBoard(r) PROVE CalmStep
  <2>1. /\ UNCHANGED <<order, verdict, rpc, volume, betStatus, market, repeat>>
        /\ pc' = [pc EXCEPT ![r] = "priced"]
        /\ board'[r].volumes = volume[order[r].market]
        /\ \A q \in BetIds \ {r} : board'[q] = board[q]
    BY <1>0, <1>5 DEF PlaceReadBoard
  <2>2. QED
    BY <1>0, <2>1 DEF CalmStep, PlaceRunning, PlaceInTx
<1>6. ASSUME NEW r \in BetIds, PlaceCheckBalance(r) PROVE CalmStep
  <2>1. CASE GiveUp(r)
    BY <1>3, <2>1
  <2>2. CASE ~GiveUp(r)
    <3>1. /\ UNCHANGED <<order, verdict, rpc, volume, betStatus, market, board, repeat>>
          /\ pc[r] = "priced" /\ pc' = [pc EXCEPT ![r] = "checked"]
      BY <1>6, <2>2 DEF PlaceCheckBalance
    <3>2. QED
      BY <1>0, <3>1 DEF CalmStep, PlaceRunning, PlaceInTx
  <2>3. QED
    BY <2>1, <2>2
<1>7. ASSUME NEW r \in BetIds, PlaceDebit(r) PROVE CalmStep
  <2>1. CASE GiveUp(r)
    BY <1>3, <2>1
  <2>2. CASE ~GiveUp(r)
    <3>1. /\ UNCHANGED <<order, verdict, rpc, volume, betStatus, market, board>>
          /\ pc[r] = "checked" /\ pc' = [pc EXCEPT ![r] = "debited"]
          /\ repeat' = [repeat EXCEPT ![r] = RepeatBettor(r)]
      BY <1>7, <2>2 DEF PlaceDebit
    <3>2. \A q \in BetIds \ {r} : repeat'[q] = repeat[q] /\ pc'[q] = pc[q]
      BY <1>0, <3>1
    <3>3. repeat'[r] <=> RepeatBettor(r)
      <4> HIDE DEF RepeatBettor
      <4>1. QED
        BY <1>0, <3>1
    <3>4. pc'[r] = "debited"
      BY <1>0, <3>1
    <3>5. QED
      BY <1>0, <3>1, <3>2, <3>3, <3>4 DEF CalmStep, PlaceRunning, PlaceInTx
  <2>3. QED
    BY <2>1, <2>2
<1>8. ASSUME NEW r \in BetIds, PlaceWriteOutcomes(r) PROVE CalmStep
  <2>1. /\ UNCHANGED <<order, verdict, rpc, volume, betStatus, market, board, repeat>>
        /\ pc[r] = "debited" /\ pc' = [pc EXCEPT ![r] = "written"]
    BY <1>8 DEF PlaceWriteOutcomes
  <2>2. QED
    BY <1>0, <2>1 DEF CalmStep, PlaceRunning, PlaceInTx
<1>9. ASSUME NEW s \in Resolvers, ResolveCommit(s) PROVE CalmStep
  <2>1. PICK row : row = ResolvedRow(s)
    OBVIOUS
  <2>2. PICK m \in Markets : m = verdict[s].market
    BY DEF CountersInv, MoneyInv, TypeOK, Verdict
  <2>3. PICK old \in MarketRow : old = market[m]
    BY <1>0
  <2>4. row = [old EXCEPT !.status = "resolved", !.winner = verdict[s].winner]
    BY <2>1, <2>2, <2>3 DEF ResolvedRow
  <2>5. /\ row.outcomes = old.outcomes /\ row.status = "resolved"
        /\ row.total_volume = old.total_volume /\ row.participants = old.participants
    BY <2>3, <2>4 DEF MarketRow
  <2>6. /\ market' = [market EXCEPT ![m] = row]
        /\ UNCHANGED <<order, verdict, volume, pc, board, repeat>> /\ rpc' = [rpc EXCEPT ![s] = "done"]
        /\ \A b \in BetIds : betStatus'[b] = betStatus[b] \/ (b \in snapshot[s] /\ betStatus'[b] # "none")
    BY <1>9, <2>1, <2>2 DEF ResolveCommit
  <2>7. \A b \in snapshot[s] : betStatus[b] # "none"
    BY DEF CountersInv, MoneyInv, SettlementsSound
  <2>8. old.status # "absent"
    <3>1. rpc[s] = "settling"
      BY <1>9 DEF ResolveCommit
    <3>2. verdict[s].winner <= old.outcomes /\ verdict[s].winner >= 1
      <4>1. verdict[s].winner <= old.outcomes
        BY <2>2, <2>3, <3>1 DEF CountersInv, ChoicesFit, ResolveRunning
      <4>2. verdict[s].winner \in 1 .. MaxOutcomes
        BY DEF CountersInv, MoneyInv, TypeOK, Verdict
      <4>3. QED
        BY <4>1, <4>2
    <3>3. old.status = "absent" => old.outcomes = 0
      BY <2>2, <2>3 DEF CountersInv, MoneyInv, BoardsFit
    <3>4. verdict[s].winner \in Int
      BY DEF CountersInv, MoneyInv, TypeOK, Verdict
    <3>5. QED
      BY <3>2, <3>3, <3>4
  <2>9. QED
    BY <1>0, <2>3, <2>5, <2>6, <2>7, <2>8 DEF CalmStep, ResolveRunning
<1>10. ASSUME NEW s \in Resolvers, ResolveStart(s) \/ ResolveStep(s) \/ ResolveFail(s), ~ResolveCommit(s)
       PROVE  CalmStep
  <2>1. /\ UNCHANGED <<order, verdict, volume, betStatus, market, pc, board, repeat>>
        /\ \A t \in Resolvers : rpc'[t] \in ResolveRunning =>
             \/ rpc[t] \in ResolveRunning
             \/ verdict[t].winner <= market[verdict[t].market].outcomes
    <3>1. CASE Abandon(s)
      BY <1>0, <3>1 DEF Abandon, ResolveRunning
    <3>2. CASE ResolveStart(s) /\ ~Abandon(s)
      <4>1. verdict[s].winner <= market[verdict[s].market].outcomes
        <5>1. verdict[s].winner \in 1 .. market[verdict[s].market].outcomes
          BY <3>2 DEF ResolveStart
        <5>2. QED
          BY <5>1
      <4>2. QED
        BY <1>0, <3>2, <4>1 DEF ResolveStart
    <3>3. CASE ResolveLoadBets(s) \/ ResolveMarketRow(s) \/ \E b \in BetIds : SettleBet(s, b)
      BY <1>0, <3>3 DEF ResolveLoadBets, ResolveMarketRow, SettleBet, ResolveRunning
    <3>4. QED
      BY <1>10, <3>1, <3>2, <3>3 DEF ResolveStep, ResolveFail
  <2>2. QED
    BY <2>1 DEF CalmStep
<1>11. UNCHANGED vars => CalmStep
  BY <1>1 DEF vars
<1>12. ASSUME NEW r \in BetIds, PlaceStart(r) \/ PlaceStep(r) \/ PlaceFail(r) PROVE CalmStep
  BY <1>3, <1>4, <1>5, <1>6, <1>7, <1>8, <1>12 DEF PlaceStep, PlaceFail
<1>13. QED
  BY <1>2, <1>9, <1>10, <1>11, <1>12 DEF Next

\* A new market has no bets and no stakes: no request could name an outcome of
\* it before.
LEMMA CreateMarketCounters ==
  ASSUME CountersInv, MoneyInv',
         NEW m \in Markets, NEW role \in Roles, NEW n \in 0 .. MaxOutcomes, CreateMarket(m, role, n)
  PROVE  CountersInv'
<1> USE DEF inputs, tables, placeVars, resolveVars
<1>1. PICK zeros \in [1 .. n -> Int] :
        /\ zeros = [i \in 1 .. n |-> 0]
        /\ volume' = [volume EXCEPT ![m] = zeros]
  <2>1. [i \in 1 .. n |-> 0] \in [1 .. n -> Int]
    OBVIOUS
  <2>2. QED
    BY <2>1 DEF CreateMarket
<1>2. PICK row : row = NewMarket(n)
  OBVIOUS
<1>3. /\ row.status = "open" /\ row.outcomes = n /\ row.total_volume = 0 /\ row.participants = 0
  BY <1>2 DEF NewMarket
<1>4. /\ n >= 2 /\ market[m].status = "absent" /\ market' = [market EXCEPT ![m] = row]
      /\ UNCHANGED <<order, verdict, betStatus, pc, board, repeat, rpc>>
  BY <1>2 DEF CreateMarket
<1>5. /\ market \in [Markets -> MarketRow]
      /\ volume = [k \in Markets |-> volume[k]]
      /\ \A b \in BetIds : order[b].market \in Markets /\ order[b].outcome \in 1 .. MaxOutcomes
      /\ \A s \in Resolvers : verdict[s].market \in Markets /\ verdict[s].winner \in 1 .. MaxOutcomes
  BY DEF CountersInv, MoneyInv, TypeOK, Order, Verdict
<1>6. market[m].outcomes = 0
  BY <1>4 DEF CountersInv, MoneyInv, BoardsFit
<1>7. \A b \in BetIds : order[b].market = m => betStatus[b] = "none" /\ pc[b] \notin PlaceRunning
  <2>1. SUFFICES ASSUME NEW b \in BetIds, order[b].market = m, betStatus[b] # "none" \/ pc[b] \in PlaceRunning
                 PROVE  FALSE
    OBVIOUS
  <2>2. order[b].outcome <= 0
    BY <1>6, <2>1 DEF CountersInv, ChoicesFit, Placed, MoneyInv, BoardsFit
  <2>3. QED
    BY <1>5, <2>2
<1>8. \A s \in Resolvers : verdict[s].market = m => rpc[s] \notin ResolveRunning
  <2>1. SUFFICES ASSUME NEW s \in Resolvers, verdict[s].market = m, rpc[s] \in ResolveRunning
                 PROVE  FALSE
    OBVIOUS
  <2>2. verdict[s].winner <= 0
    BY <1>6, <2>1 DEF CountersInv, ChoicesFit
  <2>3. QED
    BY <1>5, <2>2
<1>9. /\ \A k \in Markets \ {m} : market'[k] = market[k] /\ volume'[k] = volume[k]
      /\ market'[m] = row /\ volume'[m] = zeros
  BY <1>1, <1>4, <1>5
<1>10. /\ \A k \in Markets : BetsOn(k)' = BetsOn(k)
       /\ BetsOn(m) = {}
  BY <1>4, <1>7 DEF BetsOn, Placed
<1>11. BoardsLag'
  <2>1. ASSUME NEW k \in Markets, NEW i \in DOMAIN volume'[k] PROVE volume'[k][i] >= 0
    <3>1. CASE k = m
      BY <1>1, <1>9, <3>1
    <3>2. CASE k # m
      BY <1>9, <3>2 DEF CountersInv, BoardsLag
    <3>3. QED
      BY <3>1, <3>2
  <2>2. ASSUME NEW r \in BetIds, pc'[r] \in PlaceRunning \ {"accepted"},
               NEW i \in DOMAIN volume'[order[r].market]
        PROVE  board'[r].volumes[i] \in 0 .. volume'[order[r].market][i]
    <3>1. order[r].market # m /\ pc[r] \in PlaceRunning \ {"accepted"} /\ board'[r] = board[r]
      BY <1>4, <1>7, <2>2
    <3>2. volume'[order[r].market] = volume[order[r].market]
      BY <1>5, <1>9, <3>1
    <3>3. QED
      BY <2>2, <3>1, <3>2 DEF CountersInv, BoardsLag
  <2>3. QED
    BY <1>4, <2>1, <2>2 DEF BoardsLag
<1>12. ChoicesFit'
  <2>1. ASSUME NEW b \in BetIds, betStatus'[b] # "none"
        PROVE  order'[b].outcome <= market'[order'[b].market].outcomes
    <3>1. order[b].market # m
      BY <1>4, <1>7, <2>1
    <3>2. market'[order[b].market] = market[order[b].market]
      BY <1>5, <1>9, <3>1
    <3>3. QED
      BY <1>4, <2>1, <3>2 DEF CountersInv, ChoicesFit, Placed
  <2>2. ASSUME NEW s \in Resolvers, rpc'[s] \in ResolveRunning
        PROVE  verdict'[s].winner <= market'[verdict'[s].market].outcomes
    <3>1. verdict[s].market # m
      BY <1>4, <1>8, <2>2
    <3>2. market'[verdict[s].market] = market[verdict[s].market]
      BY <1>5, <1>9, <3>1
    <3>3. QED
      BY <1>4, <2>2, <3>2 DEF CountersInv, ChoicesFit
  <2>3. ASSUME NEW k \in Markets, market'[k].status # "absent" PROVE market'[k].outcomes >= 2
    BY <1>3, <1>4, <1>9, <2>3 DEF CountersInv, ChoicesFit
  <2>4. QED
    BY <2>1, <2>2, <2>3 DEF ChoicesFit, Placed
<1>13. VolumesAddUp'
  <2>1. SumFunction(zeros) = 0
    BY <1>1, ZeroVector
  <2>2. QED
    BY <1>3, <1>9, <2>1 DEF CountersInv, VolumesAddUp
<1>14. RepeatsKnown'
  BY <1>4 DEF CountersInv, RepeatsKnown, RepeatBettor
<1>15. VolumesMatchBets'
  <2>1. ASSUME NEW bs PROVE StakedBy(bs)' = StakedBy(bs)
    BY <1>4 DEF StakedBy
  <2>2. StakedBy({}) = 0
    BY StakesOfBets DEF CountersInv, MoneyInv
  <2>3. ASSUME NEW k \in Markets
        PROVE  /\ market'[k].total_volume = StakedBy(BetsOn(k))
               /\ \A i \in DOMAIN volume'[k] : volume'[k][i] = StakedBy({b \in BetsOn(k) : order[b].outcome = i})
    <3>1. CASE k = m
      <4>1. \A i : {b \in BetsOn(m) : order[b].outcome = i} = {}
        BY <1>10
      <4>2. QED
        <5>1. market'[k].total_volume = 0 /\ StakedBy(BetsOn(k)) = 0
          BY <1>3, <1>9, <1>10, <2>2, <3>1
        <5>2. volume'[k] = zeros /\ \A i \in DOMAIN zeros : zeros[i] = 0
          BY <1>1, <1>9, <3>1
        <5>3. \A i : StakedBy({b \in BetsOn(k) : order[b].outcome = i}) = 0
          BY <2>2, <3>1, <4>1
        <5>4. QED
          BY <5>1, <5>2, <5>3
    <3>2. CASE k # m
      <4>1. market'[k] = market[k] /\ volume'[k] = volume[k]
        BY <1>9, <3>2
      <4>2. /\ market[k].total_volume = StakedBy(BetsOn(k))
            /\ \A i \in DOMAIN volume[k] : volume[k][i] = StakedBy({b \in BetsOn(k) : order[b].outcome = i})
        BY DEF CountersInv, VolumesMatchBets
      <4>3. QED
        BY <4>1, <4>2
    <3>3. QED
      BY <3>1, <3>2
  <2>4. \A k \in Markets : StakedBy(BetsOn(k))' = StakedBy(BetsOn(k))
    <3>1. ASSUME NEW k \in Markets PROVE StakedBy(BetsOn(k))' = StakedBy(BetsOn(k))
      <4>1. StakedBy(BetsOn(k))' = StakedBy(BetsOn(k)')
        BY <1>4 DEF StakedBy
      <4>2. QED
        BY <1>10, <4>1
    <3>2. QED
      BY <3>1
  <2>5. ASSUME NEW k \in Markets
        PROVE  /\ market'[k].total_volume = StakedBy(BetsOn(k))'
               /\ \A i \in DOMAIN volume'[k] :
                    volume'[k][i] = StakedBy({b \in BetsOn(k)' : order'[b].outcome = i})
    <3>1. market'[k].total_volume = StakedBy(BetsOn(k))'
      BY <2>3, <2>4
    <3>2. BetsOn(k)' = BetsOn(k) /\ order' = order
      BY <1>4, <1>10
    <3>3. \A i \in DOMAIN volume'[k] : volume'[k][i] = StakedBy({b \in BetsOn(k) : order[b].outcome = i})
      BY <2>3
    <3>4. QED
      BY <3>1, <3>2, <3>3
  <2>6. QED
    BY <2>1, <2>5 DEF VolumesMatchBets
<1>16. ParticipantsAreDistinct'
  <2>1. ASSUME NEW k \in Markets
        PROVE  market'[k].participants = Cardinality({order[b].user : b \in BetsOn(k)})
    <3>1. CASE k = m
      <4>1. {order[b].user : b \in BetsOn(m)} = {}
        BY <1>10
      <4>2. QED
        BY <1>3, <1>9, <3>1, <4>1, FS_EmptySet
    <3>2. CASE k # m
      BY <1>9, <3>2 DEF CountersInv, ParticipantsAreDistinct
    <3>3. QED
      BY <3>1, <3>2
  <2>2. QED
    BY <1>4, <1>10, <2>1 DEF ParticipantsAreDistinct
<1>17. QED
  BY <1>11, <1>12, <1>13, <1>14, <1>15, <1>16 DEF CountersInv

\* The participants of a market with one bettor's first bet, or another bet of
\* the same bettor.
LEMMA Bettors ==
  ASSUME NEW bs \in SUBSET BetIds, NEW r \in BetIds
  PROVE  /\ Cardinality({order[b].user : b \in bs}) \in Nat
         /\ Cardinality({order[b].user : b \in bs \cup {r}}) =
              Cardinality({order[b].user : b \in bs})
                + (IF \E b \in bs : order[b].user = order[r].user THEN 0 ELSE 1)
<1>1. PICK users : users = {order[b].user : b \in bs}
  OBVIOUS
<1>2. IsFiniteSet(bs)
  BY FS_Subset
<1>3. PICK f : f = [b \in bs |-> order[b].user]
  OBVIOUS
<1>4. f \in Surjection(bs, users)
  BY <1>1, <1>3 DEF Surjection
<1>5. IsFiniteSet(users)
  BY <1>2, <1>4, FS_Surjection
<1>6. Cardinality(users) \in Nat
  BY <1>5, FS_CardinalityType
<1>7. {order[b].user : b \in bs \cup {r}} = users \cup {order[r].user}
  BY <1>1
<1>8. Cardinality(users \cup {order[r].user}) =
        IF order[r].user \in users THEN Cardinality(users) ELSE Cardinality(users) + 1
  BY <1>5, FS_AddElement
<1>9. order[r].user \in users <=> \E b \in bs : order[b].user = order[r].user
  BY <1>1
<1>10. PICK c \in Nat : c = Cardinality(users)
  BY <1>6
<1>11. CASE \E b \in bs : order[b].user = order[r].user
  <2>1. Cardinality({order[b].user : b \in bs \cup {r}}) = c
    BY <1>7, <1>8, <1>9, <1>10, <1>11
  <2>2. QED
    BY <1>1, <1>10, <1>11, <2>1
<1>12. CASE ~ \E b \in bs : order[b].user = order[r].user
  <2>1. Cardinality({order[b].user : b \in bs \cup {r}}) = c + 1
    BY <1>7, <1>8, <1>9, <1>10, <1>12
  <2>2. QED
    BY <1>1, <1>10, <1>12, <2>1
<1>13. QED
  BY <1>11, <1>12

\* The commit of a placement adds its bet to the books: the stake to the total
\* and to the volume of its outcome, the bettor if there was no bet of hers.
LEMMA PlaceCommitCounters ==
  ASSUME CountersInv, MoneyInv', NEW r \in BetIds, PlaceCommit(r)
  PROVE  CountersInv'
<1> USE DEF inputs, tables, placeVars, resolveVars
<1>1. PICK m \in Markets, o \in Int, a \in Int :
        m = order[r].market /\ o = order[r].outcome /\ a = order[r].amount /\ a > 0
  <2>1. order[r] \in Order /\ order[r].amount > 0
    BY DEF CountersInv, MoneyInv, TypeOK, OrdersSound, PlaceCommit, PlaceInTx
  <2>4. order[r].market \in Markets /\ order[r].outcome \in 1 .. MaxOutcomes /\ order[r].amount \in StakeSizes
    BY <2>1 DEF Order
  <2>2. order[r].market \in Markets /\ order[r].outcome \in Int /\ order[r].amount \in Int
    <3>1. order[r].amount \in Int
      BY <2>4
    <3>2. order[r].outcome \in Int
      BY <2>4
    <3>3. QED
      BY <2>4, <3>1, <3>2
  <2>3. QED
    BY <2>1, <2>2
<1>2. PICK n \in Nat : n = market[m].outcomes /\ volume[m] \in [1 .. n -> Int] /\ o \in 1 .. n
  <2>1. market[m] \in MarketRow /\ volume[m] \in [1 .. market[m].outcomes -> Int]
    BY DEF CountersInv, MoneyInv, TypeOK
  <2>2. market[m].outcomes \in Nat
    BY <2>1 DEF MarketRow
  <2>3. o <= market[m].outcomes
    BY <1>1 DEF CountersInv, MoneyInv, BoardsFit, PlaceCommit, PlaceRunning, PlaceInTx
  <2>4. o >= 1
    BY <1>1 DEF CountersInv, MoneyInv, TypeOK, Order
  <2>5. QED
    BY <2>1, <2>2, <2>3, <2>4
<1>3. PICK vols \in [1 .. n -> Int] :
        /\ vols = WrittenVolumes(r)
        /\ \A i \in 1 .. n : vols[i] = volume[m][i] + (IF i = o THEN a ELSE 0)
  <2>1. PICK f \in [1 .. n -> Int] : f = volume[m]
    BY <1>2
  <2>2. WrittenVolumes(r) = [f EXCEPT ![o] = @ + a]
    BY <1>1, <2>1 DEF WrittenVolumes
  <2>3. [f EXCEPT ![o] = @ + a] \in [1 .. n -> Int]
    BY <1>1, <1>2
  <2>4. \A i \in 1 .. n : [f EXCEPT ![o] = @ + a][i] = f[i] + (IF i = o THEN a ELSE 0)
    BY <1>1, <1>2
  <2>5. QED
    BY <2>1, <2>2, <2>3, <2>4
<1>4. PICK row :
        /\ row = StakedRow(r)
        /\ row.outcomes = n /\ row.status = market[m].status
        /\ row.total_volume = market[m].total_volume + a
        /\ row.participants = market[m].participants + (IF repeat[r] THEN 0 ELSE 1)
        /\ market[m].total_volume \in Int /\ market[m].participants \in Int
  <2>1. PICK old \in MarketRow : old = market[m]
    BY DEF CountersInv, MoneyInv, TypeOK
  <2>7. old.total_volume \in Int /\ old.participants \in Int
    BY <2>1 DEF MarketRow
  <2>8. PICK one \in Int : one = IF repeat[r] THEN 0 ELSE 1
    OBVIOUS
  <2>2. PICK v \in Int, k \in Int : v = old.total_volume + a
                                 /\ k = old.participants + (IF repeat[r] THEN 0 ELSE 1)
    <3>1. old.total_volume + a \in Int /\ old.participants + one \in Int
      BY <1>1, <2>7, <2>8
    <3>2. QED
      BY <2>8, <3>1
  <2>3. StakedRow(r) = [old EXCEPT !.total_volume = v, !.participants = k]
    BY <1>1, <2>1, <2>2 DEF StakedRow
  <2>4. /\ StakedRow(r).outcomes = old.outcomes /\ StakedRow(r).status = old.status
        /\ StakedRow(r).total_volume = v /\ StakedRow(r).participants = k
    BY <2>1, <2>3 DEF MarketRow
  <2>5. old.total_volume \in Int /\ old.participants \in Int
    BY <2>1 DEF MarketRow
  <2>6. QED
    BY <1>2, <2>1, <2>2, <2>4, <2>5
<1>5. /\ pc[r] = "written" /\ pc' = [pc EXCEPT ![r] = "done"]
      /\ market' = [market EXCEPT ![m] = row]
      /\ volume' = [volume EXCEPT ![m] = vols]
      /\ betStatus' = [betStatus EXCEPT ![r] = "active"]
      /\ board' = [board EXCEPT ![r] = NoBoard]
      /\ repeat' = [repeat EXCEPT ![r] = FALSE]
      /\ UNCHANGED <<order, verdict, rpc>>
  BY <1>1, <1>3, <1>4 DEF PlaceCommit
<1>6. /\ market \in [Markets -> MarketRow] /\ betStatus \in [BetIds -> BetStatuses]
      /\ volume = [k \in Markets |-> volume[k]]
      /\ pc \in [BetIds -> {"idle"} \cup PlaceRunning \cup Over]
      /\ repeat \in [BetIds -> BOOLEAN]
      /\ board = [q \in BetIds |-> board[q]]
      /\ \A b \in BetIds : order[b].market \in Markets /\ order[b].user \in Users
      /\ \A s \in Resolvers : verdict[s].market \in Markets
  BY DEF CountersInv, MoneyInv, TypeOK, Order, Verdict
<1>7. betStatus[r] = "none"
  BY <1>5 DEF CountersInv, MoneyInv, SettlementsSound
<1>8. /\ \A k \in Markets \ {m} : market'[k] = market[k] /\ volume'[k] = volume[k]
      /\ market'[m] = row /\ volume'[m] = vols
  BY <1>5, <1>6
<1>9. /\ betStatus'[r] = "active"
      /\ \A b \in BetIds \ {r} : betStatus'[b] = betStatus[b] /\ pc'[b] = pc[b]
                              /\ board'[b] = board[b] /\ repeat'[b] = repeat[b]
      /\ pc'[r] = "done"
  BY <1>5, <1>6
<1>10. /\ \A k \in Markets \ {m} : BetsOn(k)' = BetsOn(k)
       /\ BetsOn(m)' = BetsOn(m) \cup {r}
       /\ r \notin BetsOn(m)
       /\ \A k \in Markets : BetsOn(k) \in SUBSET BetIds
  BY <1>1, <1>5, <1>7, <1>9 DEF BetsOn, Placed
<1>11. BoardsLag'
  <2>1. ASSUME NEW k \in Markets, NEW i \in DOMAIN volume'[k] PROVE volume'[k][i] >= 0
    <3>1. CASE k = m
      <4>1. volume[m][i] >= 0 /\ i \in 1 .. n
        BY <1>2, <1>8, <2>1, <3>1 DEF CountersInv, BoardsLag
      <4>2. volume[m][i] \in Int
        BY <1>2, <4>1
      <4>3. QED
        BY <1>1, <1>3, <1>8, <3>1, <4>1, <4>2
    <3>2. CASE k # m
      BY <1>8, <3>2 DEF CountersInv, BoardsLag
    <3>3. QED
      BY <3>1, <3>2
  <2>2. ASSUME NEW q \in BetIds, pc'[q] \in PlaceRunning \ {"accepted"},
               NEW i \in DOMAIN volume'[order[q].market]
        PROVE  board'[q].volumes[i] \in 0 .. volume'[order[q].market][i]
    <3>1. q # r /\ pc[q] \in PlaceRunning \ {"accepted"} /\ board'[q] = board[q]
      BY <1>9, <2>2 DEF PlaceRunning, PlaceInTx
    <3>2. CASE order[q].market # m
      BY <1>6, <1>8, <2>2, <3>1, <3>2 DEF CountersInv, BoardsLag
    <3>3. CASE order[q].market = m
      <4>1. i \in 1 .. n
        BY <1>8, <2>2, <3>3
      <4>2. board[q].volumes[i] \in 0 .. volume[m][i]
        BY <1>2, <3>1, <3>3, <4>1 DEF CountersInv, BoardsLag
      <4>3. volume[m][i] \in Int /\ vols[i] \in Int /\ vols[i] >= volume[m][i]
        BY <1>1, <1>2, <1>3, <4>1
      <4>4. board'[q].volumes[i] \in 0 .. vols[i]
        BY <3>1, <4>2, <4>3
      <4>5. QED
        BY <1>8, <3>3, <4>4
    <3>4. QED
      BY <3>2, <3>3
  <2>3. QED
    BY <1>5, <2>1, <2>2 DEF BoardsLag
<1>12. ChoicesFit'
  <2>1. \A k \in Markets : market'[k].outcomes = market[k].outcomes /\ market'[k].status = market[k].status
    BY <1>2, <1>4, <1>8
  <2>2. ASSUME NEW b \in BetIds, betStatus'[b] # "none"
        PROVE  order[b].outcome <= market[order[b].market].outcomes
    <3>1. CASE b = r
      BY <1>1, <1>2, <3>1
    <3>2. CASE b # r
      BY <1>9, <2>2, <3>2 DEF CountersInv, ChoicesFit, Placed
    <3>3. QED
      BY <3>1, <3>2
  <2>3. QED
    BY <1>5, <1>6, <2>1, <2>2 DEF CountersInv, ChoicesFit, Placed
<1>13. VolumesAddUp'
  <2>1. SumFunction(vols) = SumFunction(volume[m]) + a
    <3>1. PICK f \in [1 .. n -> Int], S \in SUBSET Int : f = volume[m] /\ S = 1 .. n
      BY <1>2
    <3>2. /\ IsFiniteSet(S) /\ DOMAIN f = S /\ DOMAIN vols = S /\ o \in S
          /\ \A x \in S : f[x] \in Int /\ vols[x] \in Int
      <4>1. IsFiniteSet(S)
        BY <3>1, FS_Interval
      <4>2. DOMAIN f = S /\ DOMAIN vols = S
        BY <3>1
      <4>3. o \in S
        BY <1>2, <3>1
      <4>4. \A x \in S : f[x] \in Int /\ vols[x] \in Int
        BY <3>1
      <4>5. QED
        BY <4>1, <4>2, <4>3, <4>4
    <3>3. \A x \in S : vols[x] = f[x] + (IF x = o THEN a ELSE 0)
      BY <1>3, <3>1
    <3>4. \A x \in S \ {o} : vols[x] = f[x]
      BY <3>2, <3>3
    <3>5. SumFunction(vols) = SumFunction(f) + (vols[o] - f[o])
      BY ONLY <3>2, <3>4, VectorChanged
    <3>6. vols[o] - f[o] = a
      BY <1>1, <3>2, <3>3
    <3>7. QED
      BY <3>1, <3>5, <3>6
  <2>2. QED
    BY <1>4, <1>8, <2>1 DEF CountersInv, VolumesAddUp
<1>14. RepeatsKnown'
  <2>1. SUFFICES ASSUME NEW q \in BetIds, pc'[q] \in PlaceInTx PROVE repeat'[q] <=> RepeatBettor(q)'
    BY DEF RepeatsKnown
  <2>2. q # r /\ pc[q] \in PlaceInTx
    BY <1>9, <2>1 DEF PlaceInTx
  <2>3. order[q].user # order[r].user
    <3>1. SUFFICES ASSUME order[q].user = order[r].user PROVE FALSE
      OBVIOUS
    <3>2. q \in UserRowHolders(order[r].user) /\ r \in UserRowHolders(order[r].user)
      BY <1>5, <2>2, <3>1 DEF UserRowHolders, PlaceInTx
    <3>3. QED
      BY <1>6, <2>2, <3>2 DEF CountersInv, MoneyInv, RowsExclusive
  <2>4. RepeatBettor(q)' <=> RepeatBettor(q)
    BY <1>5, <1>9, <2>3 DEF RepeatBettor
  <2>5. repeat[q] <=> RepeatBettor(q)
    BY <2>2 DEF CountersInv, RepeatsKnown
  <2>6. QED
    BY <1>9, <2>2, <2>4, <2>5
<1>15. VolumesMatchBets'
  <2>1. ASSUME NEW bs PROVE StakedBy(bs)' = StakedBy(bs)
    BY <1>5 DEF StakedBy
  <2>2. TypeOK
    BY DEF CountersInv, MoneyInv
  <2>3. ASSUME NEW k \in Markets
        PROVE  /\ market'[k].total_volume = StakedBy(BetsOn(k)')
               /\ \A i \in DOMAIN volume'[k] :
                    volume'[k][i] = StakedBy({b \in BetsOn(k)' : order[b].outcome = i})
    <3>1. /\ market[k].total_volume = StakedBy(BetsOn(k))
          /\ \A i \in DOMAIN volume[k] : volume[k][i] = StakedBy({b \in BetsOn(k) : order[b].outcome = i})
      BY DEF CountersInv, VolumesMatchBets
    <3>2. CASE k # m
      <4>1. market'[k] = market[k] /\ volume'[k] = volume[k] /\ BetsOn(k)' = BetsOn(k)
        BY <1>8, <1>10, <3>2
      <4>2. QED
        BY <3>1, <4>1
    <3>3. CASE k = m
      <4>1. PICK bs \in SUBSET BetIds : bs = BetsOn(m) /\ r \notin bs /\ BetsOn(m)' = bs \cup {r}
        BY <1>10
      <4>2. StakedBy(bs \cup {r}) = StakedBy(bs) + a
        BY <1>1, <2>2, <4>1, StakesOfBets
      <4>3. market'[k].total_volume = StakedBy(BetsOn(k)')
        BY <1>4, <1>8, <3>1, <3>3, <4>1, <4>2
      <4>4. ASSUME NEW i \in DOMAIN volume'[k]
            PROVE  volume'[k][i] = StakedBy({b \in BetsOn(k)' : order[b].outcome = i})
        <5>1. i \in 1 .. n /\ volume'[k][i] = volume[m][i] + (IF i = o THEN a ELSE 0)
          BY <1>3, <1>8, <3>3, <4>4
        <5>2. PICK on \in SUBSET BetIds : on = {b \in bs : order[b].outcome = i}
          OBVIOUS
        <5>3. volume[m][i] = StakedBy(on)
          BY <1>2, <3>1, <3>3, <4>1, <5>1, <5>2
        <5>4. CASE i = o
          <6>1. {b \in BetsOn(k)' : order[b].outcome = i} = on \cup {r} /\ r \notin on
            BY <1>1, <3>3, <4>1, <5>2, <5>4
          <6>2. StakedBy(on \cup {r}) = StakedBy(on) + a
            BY <1>1, <2>2, <6>1, StakesOfBets
          <6>3. volume'[k][i] = StakedBy(on) + a
            BY <5>1, <5>3, <5>4
          <6>4. QED
            BY <6>1, <6>2, <6>3
        <5>5. CASE i # o
          <6>1. {b \in BetsOn(k)' : order[b].outcome = i} = on
            BY <1>1, <3>3, <4>1, <5>2, <5>5
          <6>2. volume[m][i] \in Int
            BY <1>2, <5>1
          <6>3. volume'[k][i] = StakedBy(on)
            BY <5>1, <5>3, <5>5, <6>2
          <6>4. QED
            BY <6>1, <6>3
        <5>6. QED
          BY <5>4, <5>5
      <4>5. QED
        BY <4>3, <4>4
    <3>4. QED
      BY <3>2, <3>3
  <2>4. ASSUME NEW k \in Markets
        PROVE  /\ market'[k].total_volume = StakedBy(BetsOn(k))'
               /\ \A i \in DOMAIN volume'[k] :
                    volume'[k][i] = StakedBy({b \in BetsOn(k)' : order'[b].outcome = i})
    <3>1. StakedBy(BetsOn(k))' = StakedBy(BetsOn(k)')
      BY <1>5 DEF StakedBy
    <3>2. order' = order
      BY <1>5
    <3>3. QED
      BY <2>3, <3>1, <3>2
  <2>5. QED
    BY <2>1, <2>4 DEF VolumesMatchBets
<1>16. ParticipantsAreDistinct'
  <2>1. repeat[r] <=> \E b \in BetsOn(m) : order[b].user = order[r].user
    BY <1>1, <1>5 DEF CountersInv, RepeatsKnown, PlaceInTx, RepeatBettor, BetsOn, Placed
  <2>2. ASSUME NEW k \in Markets
        PROVE  market'[k].participants = Cardinality({order[b].user : b \in BetsOn(k)'})
    <3>1. market[k].participants = Cardinality({order[b].user : b \in BetsOn(k)})
      BY DEF CountersInv, ParticipantsAreDistinct
    <3>2. CASE k # m
      BY <1>8, <1>10, <3>1, <3>2
    <3>3. CASE k = m
      <4>1. PICK bs \in SUBSET BetIds : bs = BetsOn(m) /\ BetsOn(m)' = bs \cup {r}
        BY <1>10
      <4>2. PICK c \in Nat : c = Cardinality({order[b].user : b \in bs})
        BY Bettors
      <4>3. Cardinality({order[b].user : b \in bs \cup {r}}) = c + (IF repeat[r] THEN 0 ELSE 1)
        BY <2>1, <4>1, <4>2, Bettors
      <4>4. market[m].participants = c
        BY <3>1, <3>3, <4>1, <4>2
      <4>5. market'[m].participants = c + (IF repeat[r] THEN 0 ELSE 1)
        BY <1>4, <1>8, <4>4
      <4>6. QED
        BY <3>3, <4>1, <4>3, <4>5
    <3>4. QED
      BY <3>2, <3>3
  <2>3. QED
    BY <1>5, <2>2 DEF ParticipantsAreDistinct
<1>17. QED
  BY <1>11, <1>12, <1>13, <1>14, <1>15, <1>16 DEF CountersInv

\* No market, no bet: every counter is zero.
LEMMA InitCounters == Init => CountersInv
<1> SUFFICES ASSUME Init PROVE CountersInv
  OBVIOUS
<1>1. MoneyInv
  BY InitMoney
<1>2. /\ \A m \in Markets : market[m] = AbsentMarket /\ volume[m] = NoVector
      /\ \A b \in BetIds : betStatus[b] = "none" /\ pc[b] = "idle"
      /\ \A s \in Resolvers : rpc[s] = "idle"
  BY DEF Init
<1>3. NoVector \in [1 .. 0 -> Int] /\ \A i \in 1 .. 0 : NoVector[i] = 0
  BY DEF NoVector
<1>4. SumFunction(NoVector) = 0
  BY <1>3, ZeroVector
<1>5. \A m \in Markets : BetsOn(m) = {}
  BY <1>2 DEF BetsOn, Placed
<1>6. BoardsLag
  BY <1>2, <1>3 DEF BoardsLag, PlaceRunning, PlaceInTx
<1>7. ChoicesFit
  BY <1>2 DEF ChoicesFit, Placed, ResolveRunning, AbsentMarket
<1>8. VolumesAddUp
  BY <1>2, <1>4 DEF VolumesAddUp, AbsentMarket
<1>9. RepeatsKnown
  BY <1>2 DEF RepeatsKnown, PlaceInTx
<1>10. VolumesMatchBets
  <2>1. StakedBy({}) = 0
    BY <1>1, StakesOfBets DEF MoneyInv
  <2>2. QED
    <3>1. \A m \in Markets : market[m].total_volume = StakedBy(BetsOn(m))
      BY <1>2, <1>5, <2>1 DEF AbsentMarket
    <3>2. \A m \in Markets : \A i \in DOMAIN volume[m] : FALSE
      BY <1>2, <1>3
    <3>3. QED
      BY <3>1, <3>2 DEF VolumesMatchBets
<1>11. ParticipantsAreDistinct
  <2>1. ASSUME NEW m \in Markets PROVE market[m].participants = Cardinality({order[b].user : b \in BetsOn(m)})
    <3>1. {order[b].user : b \in BetsOn(m)} = {}
      BY <1>5
    <3>2. market[m].participants = 0
      BY <1>2 DEF AbsentMarket
    <3>3. Cardinality({}) = 0
      BY FS_EmptySet
    <3>4. QED
      BY <3>1, <3>2, <3>3
  <2>2. QED
    BY <2>1 DEF ParticipantsAreDistinct
<1>12. QED
  BY <1>1, <1>6, <1>7, <1>8, <1>9, <1>10, <1>11 DEF CountersInv

\* A placement's commit and a new market move the counters, no other step does.
LEMMA NextCounters == CountersInv /\ [Next]_vars => CountersInv'
<1> SUFFICES ASSUME CountersInv, [Next]_vars PROVE CountersInv'
  OBVIOUS
<1>1. MoneyInv'
  BY NextMoney DEF CountersInv
<1>2. CASE \E r \in BetIds : PlaceCommit(r)
  BY <1>1, <1>2, PlaceCommitCounters
<1>3. CASE \E m \in Markets, role \in Roles, n \in 0 .. MaxOutcomes : CreateMarket(m, role, n)
  BY <1>1, <1>3, CreateMarketCounters
<1>4. CASE /\ ~ \E r \in BetIds : PlaceCommit(r)
           /\ ~ \E m \in Markets, role \in Roles, n \in 0 .. MaxOutcomes : CreateMarket(m, role, n)
  BY <1>1, <1>4, CalmCounters, NextCalm
<1>5. QED
  BY <1>2, <1>3, <1>4

\* CountersInv holds in every reachable state.
THEOREM CountersSafe == Spec => []CountersInv
<1>1. Init => CountersInv
  BY InitCounters
<1>2. CountersInv /\ [Next]_vars => CountersInv'
  BY NextCounters
<1>3. QED
  BY <1>1, <1>2, PTL DEF Spec

\* No stake is lost and no bettor counted twice: volumes and participants are
\* what the bets placed make them, for any number of placements that race
\* (bet_repository.rs, place; market.rs, record_bet).
THEOREM CountersMatchBets == Spec => [](VolumesMatchBets /\ ParticipantsAreDistinct)
<1>1. CountersInv => VolumesMatchBets /\ ParticipantsAreDistinct
  BY DEF CountersInv
<1>2. QED
  BY <1>1, CountersSafe, PTL

-----------------------------------------------------------------------------
(* The prices *)

\* What a placement computes its prices on: the copy of the board lags behind
\* the rows, so it fits where they do, and nothing saturates.
LEMMA StakedBoard ==
  ASSUME CountersInv, StakesFit, NEW r \in BetIds, PlaceCommit(r)
  PROVE  LET m == order[r].market
             staked == AddVolume(board[r].volumes, order[r].outcome, order[r].amount)
         IN  \E n \in Nat : /\ n >= 1
                            /\ staked \in [1 .. n -> Nat] /\ SumFunction(staked) * SCALE <= I64MAX
                            /\ WrittenVolumes(r) \in [1 .. n -> Nat]
                            /\ SumFunction(WrittenVolumes(r)) * SCALE <= I64MAX
                            /\ board[r].volumes = volume[m] => staked = WrittenVolumes(r)
<1>1. PICK m \in Markets, o \in Int, a \in Int :
        m = order[r].market /\ o = order[r].outcome /\ a = order[r].amount /\ a > 0
  <2>1. order[r] \in Order /\ order[r].amount > 0
    BY DEF CountersInv, MoneyInv, TypeOK, OrdersSound, PlaceCommit, PlaceInTx
  <2>2. order[r].market \in Markets /\ order[r].outcome \in 1 .. MaxOutcomes /\ order[r].amount \in StakeSizes
    BY <2>1 DEF Order
  <2>3. order[r].outcome \in Int
    BY <2>2
  <2>4. order[r].amount \in Int
    BY <2>2
  <2>5. QED
    BY <2>1, <2>2, <2>3, <2>4
<1>0. PICK n \in Nat :
        /\ n = market[m].outcomes /\ volume[m] \in [1 .. n -> Int] /\ o \in 1 .. n /\ n >= 1
        /\ board[r].volumes \in [1 .. n -> Int]
  <2>1. market[m] \in MarketRow /\ volume[m] \in [1 .. market[m].outcomes -> Int]
    BY DEF CountersInv, MoneyInv, TypeOK
  <2>2. market[m].outcomes \in Nat
    BY <2>1 DEF MarketRow
  <2>3. o <= market[m].outcomes /\ board[r].volumes \in [1 .. market[m].outcomes -> Int]
    BY <1>1 DEF CountersInv, MoneyInv, BoardsFit, PlaceCommit, PlaceRunning, PlaceInTx
  <2>4. o >= 1
    BY <1>1 DEF CountersInv, MoneyInv, TypeOK, Order
  <2>5. PICK n \in Nat : n = market[m].outcomes
    BY <2>2
  <2>6. o \in 1 .. n /\ n >= 1
    BY <2>3, <2>4, <2>5
  <2>7. volume[m] \in [1 .. n -> Int] /\ board[r].volumes \in [1 .. n -> Int]
    BY <2>1, <2>3, <2>5
  <2>8. QED
    BY <2>5, <2>6, <2>7
<1>2. PICK S :
        /\ n = market[m].outcomes /\ volume[m] \in [1 .. n -> Int] /\ o \in 1 .. n /\ n >= 1
        /\ S = 1 .. n /\ board[r].volumes \in [1 .. n -> Int]
  BY <1>0
<1>3. PICK v \in [S -> Int], f \in [S -> Int] : v = volume[m] /\ f = board[r].volumes
  BY <1>2
<1>4. \A i \in S : 0 <= f[i] /\ f[i] <= v[i]
  <2>1. SUFFICES ASSUME NEW i \in S PROVE 0 <= f[i] /\ f[i] <= v[i]
    OBVIOUS
  <2>2. pc[r] \in PlaceRunning \ {"accepted"}
    BY DEF PlaceCommit, PlaceRunning, PlaceInTx
  <2>3. i \in DOMAIN volume[order[r].market]
    BY <1>1, <1>3
  <2>4. board[r].volumes[i] \in 0 .. volume[order[r].market][i]
    BY <2>2, <2>3 DEF CountersInv, BoardsLag
  <2>5. QED
    BY <1>1, <1>3, <2>4
<1>5. PICK w \in [S -> Nat] : /\ w = WrittenVolumes(r)
                              /\ \A i \in S : w[i] = v[i] + (IF i = o THEN a ELSE 0)
  <2>1. WrittenVolumes(r) = [v EXCEPT ![o] = @ + a]
    BY <1>1, <1>3 DEF WrittenVolumes
  <2>2. \A i \in S : v[i] \in Nat
    BY <1>3, <1>4
  <2>3. \A i \in S : [v EXCEPT ![o] = @ + a][i] = v[i] + (IF i = o THEN a ELSE 0)
    BY <1>1, <1>2, <2>2
  <2>4. \A i \in S : [v EXCEPT ![o] = @ + a][i] \in Nat
    BY <1>1, <2>2, <2>3
  <2>5. [v EXCEPT ![o] = @ + a] \in [S -> Nat]
    BY <2>4
  <2>6. QED
    BY <2>1, <2>3, <2>5
<1>6. PICK T \in Int : T = SumFunction(w) /\ T * SCALE <= I64MAX
  <2>1. IsFiniteSet(S) /\ DOMAIN v = S /\ DOMAIN w = S /\ o \in S
    BY <1>2, FS_Interval
  <2>2. \A x \in S : v[x] \in Int /\ w[x] \in Int
    OBVIOUS
  <2>3. \A x \in S \ {o} : w[x] = v[x]
    BY <1>5, <2>2
  <2>4. SumFunction(w) = SumFunction(v) + (w[o] - v[o])
    BY ONLY <2>1, <2>2, <2>3, VectorChanged
  <2>5. w[o] - v[o] = a
    BY <1>1, <1>5, <2>1, <2>2
  <2>6. SumFunction(v) = StakedBy(BetsOn(m))
    BY <1>3 DEF CountersInv, VolumesAddUp, VolumesMatchBets
  <2>7. BetsOn(m) \in SUBSET BetIds /\ r \in BetIds \ BetsOn(m)
    BY DEF BetsOn, Placed, PlaceCommit, CountersInv, MoneyInv, SettlementsSound
  <2>8. PICK bs \in SUBSET BetIds : bs = BetsOn(m) \cup {r}
    BY <2>7
  <2>9. StakedBy(bs) = StakedBy(BetsOn(m)) + a
    BY <1>1, <2>7, <2>8, StakesOfBets DEF CountersInv, MoneyInv
  <2>10. StakedBy(bs) \in Int /\ StakedBy(bs) * SCALE <= I64MAX
    BY StakesOfBets DEF CountersInv, MoneyInv, StakesFit
  <2>11. SumFunction(w) = StakedBy(bs)
    BY <2>4, <2>5, <2>6, <2>9
  <2>12. QED
    BY <2>10, <2>11
<1>7. /\ IsFiniteSet(S) /\ DOMAIN w = S
      /\ SumFunction(w) = SumFunctionOnSet(w, S)
      /\ \A i \in S : w[i] \in Nat
  <2>1. IsFiniteSet(S)
    BY <1>2, FS_Interval
  <2>2. DOMAIN w = S /\ \A i \in S : w[i] \in Nat
    OBVIOUS
  <2>3. QED
    BY <2>1, <2>2 DEF SumFunction
<1>8. T \in Nat /\ T <= I64MAX /\ \A i \in S : w[i] <= I64MAX
  <2>1. o \in S
    BY <1>2
  <2>2. T \in Nat /\ \A i \in S : w[i] <= T
    <3>1. \A i \in S : w[i] <= SumFunctionOnSet(w, S) /\ SumFunctionOnSet(w, S) \in Nat
      BY <1>7, SumAbove
    <3>2. SumFunctionOnSet(w, S) = T
      BY <1>6, <1>7
    <3>3. QED
      BY <2>1, <3>1, <3>2
  <2>3. T <= T * SCALE
    <3>1. PICK k \in Nat : SCALE = k + 1
      <4>1. SCALE - 1 \in Nat /\ SCALE = (SCALE - 1) + 1
        OBVIOUS
      <4>2. QED
        BY <4>1
    <3>2. T * SCALE = T * k + T /\ T * k \in Nat
      BY <2>2, <3>1
    <3>3. QED
      BY <2>2, <3>2
  <2>4. T * SCALE \in Int
    BY <2>2
  <2>5. T <= I64MAX
    BY <1>6, <2>2, <2>3, <2>4
  <2>6. QED
    BY <1>7, <2>2, <2>5
<1>9. PICK s \in [S -> Nat] :
        /\ s = AddVolume(board[r].volumes, order[r].outcome, order[r].amount)
        /\ \A i \in S : s[i] = f[i] + (IF i = o THEN a ELSE 0)
  <2>1. AddVolume(f, o, a) = [f EXCEPT ![o] = SaturateI64(f[o] + a)]
    BY DEF AddVolume
  <2>2. SaturateI64(f[o] + a) = f[o] + a
    <3>1. f[o] \in Int /\ v[o] \in Int /\ w[o] \in Int /\ o \in S
      BY <1>2
    <3>2. 0 <= f[o] /\ f[o] <= v[o] /\ w[o] = v[o] + a /\ w[o] <= I64MAX
      BY <1>4, <1>5, <1>8, <3>1
    <3>3. f[o] + a \in Int /\ f[o] + a <= I64MAX /\ f[o] + a >= 0
      BY <1>1, <3>1, <3>2
    <3>4. QED
      BY <3>3 DEF SaturateI64
  <2>3. \A i \in S : f[i] \in Nat
    BY <1>4
  <2>4. \A i \in S : AddVolume(f, o, a)[i] = f[i] + (IF i = o THEN a ELSE 0)
    BY <1>2, <2>1, <2>2, <2>3
  <2>5. \A i \in S : AddVolume(f, o, a)[i] \in Nat
    BY <1>1, <2>3, <2>4
  <2>6. AddVolume(f, o, a) \in [S -> Nat]
    BY <2>1, <2>5
  <2>7. QED
    BY <1>1, <1>3, <2>4, <2>6
<1>10. PICK Z \in Nat : Z = SumFunction(s) /\ Z <= T
  <2>1. \A i \in S : s[i] \in Int /\ w[i] \in Int /\ s[i] <= w[i]
    <3>1. SUFFICES ASSUME NEW i \in S PROVE s[i] <= w[i]
      OBVIOUS
    <3>2. /\ f[i] \in Int /\ v[i] \in Int /\ f[i] <= v[i]
          /\ s[i] = f[i] + (IF i = o THEN a ELSE 0)
          /\ w[i] = v[i] + (IF i = o THEN a ELSE 0)
      BY <1>4, <1>5, <1>9
    <3>3. QED
      BY <1>1, <3>2
  <2>2. SumFunctionOnSet(s, S) <= SumFunctionOnSet(w, S)
    BY <1>7, <2>1, SumLeq
  <2>3. (\A i \in S : s[i] \in Nat) /\ o \in S
    BY <1>2
  <2>4. SumFunctionOnSet(s, S) \in Nat
    BY <1>7, <2>3, SumAbove
  <2>5. SumFunction(s) = SumFunctionOnSet(s, S)
    BY DEF SumFunction
  <2>6. QED
    BY <1>6, <1>7, <2>2, <2>4, <2>5
<1>11. Z * SCALE <= I64MAX
  <2>1. PICK d \in Nat, c \in Nat : T = Z + d /\ c = SCALE
    <3>1. T - Z \in Nat /\ T = Z + (T - Z)
      BY <1>8, <1>10
    <3>2. QED
      BY <3>1
  <2>2. (Z + d) * c = Z * c + d * c /\ Z * c \in Nat /\ d * c \in Nat
    OBVIOUS
  <2>3. PICK x \in Nat, y \in Nat : x = Z * c /\ y = d * c
    BY <2>2
  <2>4. x + y <= I64MAX
    BY <1>6, <2>1, <2>2, <2>3
  <2>5. x <= I64MAX
    BY <2>4
  <2>6. QED
    BY <2>1, <2>3, <2>5
<1>12. f = v => s = w
  <2>1. SUFFICES ASSUME f = v PROVE s = w
    OBVIOUS
  <2>2. \A i \in S : s[i] = w[i]
    BY <1>5, <1>9, <2>1
  <2>3. QED
    BY <2>2
<1>13. QED
  BY <1>1, <1>2, <1>3, <1>5, <1>6, <1>9, <1>10, <1>11, <1>12

\* The prices a placement writes, whatever the copy it computed them on, and
\* when the copy is current.
LEMMA StakedPrices ==
  ASSUME CountersInv, StakesFit, NEW r \in BetIds, PlaceCommit(r)
  PROVE  /\ SumFunction(WrittenPrices(r)) = SCALE
         /\ board[r].volumes = volume[order[r].market] =>
              \A old : WrittenPrices(r) = RecalculatePrices(WrittenVolumes(r), old)
<1>1. PICK staked : staked = AddVolume(board[r].volumes, order[r].outcome, order[r].amount)
  OBVIOUS
<1>2. PICK n \in Nat : /\ n >= 1
                       /\ staked \in [1 .. n -> Nat] /\ SumFunction(staked) * SCALE <= I64MAX
                       /\ WrittenVolumes(r) \in [1 .. n -> Nat]
                       /\ SumFunction(WrittenVolumes(r)) * SCALE <= I64MAX
                       /\ board[r].volumes = volume[order[r].market] => staked = WrittenVolumes(r)
  BY <1>1, StakedBoard
<1>3. \A old : /\ RecalculatePrices(staked, old) = SharesWithRemainder(staked)
               /\ SumFunction(SharesWithRemainder(staked)) = SCALE
  BY <1>2, RecalculatedPrices
<1>4. WrittenPrices(r) = RecalculatePrices(staked, board[r].prices)
  BY <1>1 DEF WrittenPrices, NewPrices
<1>5. QED
  BY <1>2, <1>3, <1>4

\* The inductive invariant behind PricesSumToOne.
PricesInv == CountersInv /\ StakesFit /\ PricesSumToOne

\* A new market starts at prices that sum to 1.0000.
LEMMA CreateMarketPrices ==
  ASSUME NEW m \in Markets, NEW role \in Roles, NEW n \in 0 .. MaxOutcomes, CreateMarket(m, role, n),
         PricesInv
  PROVE  PricesSumToOne'
<1>1. PICK zeros \in [1 .. n -> Nat] : zeros = [i \in 1 .. n |-> 0]
  <2>1. [i \in 1 .. n |-> 0] \in [1 .. n -> Nat]
    OBVIOUS
  <2>2. QED
    BY <2>1
<1>2. n \in Nat /\ n >= 1 /\ zeros \in [1 .. n -> Int]
  BY DEF CreateMarket
<1>3. SumFunction(zeros) = 0
  BY <1>1, <1>2, ZeroVector
<1>4. SumFunction(zeros) * SCALE <= I64MAX
  <2>1. 0 * SCALE = 0 /\ 0 <= I64MAX
    OBVIOUS
  <2>2. QED
    BY <1>3, <2>1
<1>5. SumFunction(RecalculatePrices(zeros, zeros)) = SCALE
  BY <1>2, <1>4, RecalculatedPrices
<1>6. /\ price' = [price EXCEPT ![m] = RecalculatePrices(zeros, zeros)]
      /\ market' = [market EXCEPT ![m] = NewMarket(n)]
  BY <1>1 DEF CreateMarket
<1>7. price = [k \in Markets |-> price[k]] /\ market \in [Markets -> MarketRow]
  BY DEF PricesInv, CountersInv, MoneyInv, TypeOK
<1>8. QED
  BY <1>5, <1>6, <1>7 DEF PricesInv, PricesSumToOne

\* Only a new market and a placement's commit write prices.
LEMMA NextPrices ==
  ASSUME PricesInv, [Next]_vars
  PROVE  PricesInv'
<1> USE DEF inputs, tables, placeVars, resolveVars
<1>1. CountersInv'
  BY NextCounters DEF PricesInv
<1>2. price = [k \in Markets |-> price[k]] /\ market \in [Markets -> MarketRow]
  BY DEF PricesInv, CountersInv, MoneyInv, TypeOK
<1>3. CASE \E r \in BetIds : PlaceCommit(r)
  <2>1. PICK r \in BetIds : PlaceCommit(r)
    BY <1>3
  <2>2. PICK m \in Markets : m = order[r].market
    BY DEF PricesInv, CountersInv, MoneyInv, TypeOK, Order
  <2>3. SumFunction(WrittenPrices(r)) = SCALE
    BY <2>1, StakedPrices DEF PricesInv
  <2>4. /\ price' = [price EXCEPT ![m] = WrittenPrices(r)]
        /\ market' = [market EXCEPT ![m] = StakedRow(r)]
        /\ order' = order
    BY <2>1, <2>2 DEF PlaceCommit
  <2>5. StakedRow(r).status = market[m].status
    BY <2>2, StakedRowType DEF PricesInv, CountersInv, MoneyInv
  <2>6. PricesSumToOne'
    BY <1>2, <2>3, <2>4, <2>5 DEF PricesInv, PricesSumToOne
  <2>7. StakesFit'
    BY <2>4 DEF PricesInv, StakesFit, StakedBy
  <2>8. QED
    BY <1>1, <2>6, <2>7 DEF PricesInv
<1>4. CASE \E m \in Markets, role \in Roles, n \in 0 .. MaxOutcomes : CreateMarket(m, role, n)
  <2>1. order' = order
    BY <1>4 DEF CreateMarket
  <2>2. StakesFit'
    BY <2>1 DEF PricesInv, StakesFit, StakedBy
  <2>3. PricesSumToOne'
    BY <1>4, CreateMarketPrices
  <2>4. QED
    BY <1>1, <2>2, <2>3 DEF PricesInv
<1>5. CASE /\ ~ \E r \in BetIds : PlaceCommit(r)
           /\ ~ \E m \in Markets, role \in Roles, n \in 0 .. MaxOutcomes : CreateMarket(m, role, n)
  <2>1. CalmStep
    BY <1>5, NextCalm DEF PricesInv
  <2>2. UNCHANGED price
    BY <1>5 DEF Next, vars, DeadlinePasses, PlaceStart, PlaceFail, PlaceStep,
      PlaceReadBoard, PlaceCheckBalance, PlaceDebit, PlaceWriteOutcomes, GiveUp, ResolveStart,
      ResolveFail, ResolveStep, ResolveLoadBets, ResolveMarketRow, SettleBet, ResolveCommit, Abandon
  <2>3. PricesSumToOne'
    BY <2>1, <2>2 DEF PricesInv, PricesSumToOne, CalmStep
  <2>4. StakesFit'
    BY <2>1 DEF CalmStep, PricesInv, StakesFit, StakedBy
  <2>5. QED
    BY <1>1, <2>3, <2>4 DEF PricesInv
<1>6. QED
  BY <1>3, <1>4, <1>5

\* PricesInv holds in every reachable state, when the stakes fit.
LEMMA PricesSafe == Spec /\ StakesFit => []PricesInv
<1>1. Init /\ StakesFit => PricesInv
  <2> SUFFICES ASSUME Init, StakesFit PROVE PricesInv
    OBVIOUS
  <2>1. \A m \in Markets : market[m].status = "absent"
    BY DEF Init, AbsentMarket
  <2>2. QED
    BY <2>1, InitCounters DEF PricesInv, PricesSumToOne
<1>2. PricesInv /\ [Next]_vars => PricesInv'
  BY NextPrices
<1>3. QED
  BY <1>1, <1>2, PTL DEF Spec

\* The prices of a market sum to exactly 1.0000 after every commit, however far
\* behind the copies are that concurrent placements computed them on, as long
\* as the stakes fit an i64 (pricing.rs, recalculate_prices).
THEOREM PricesExact == Spec /\ StakesFit => []PricesSumToOne
<1>1. PricesInv => PricesSumToOne
  BY DEF PricesInv
<1>2. QED
  BY <1>1, PricesSafe, PTL

\* A placement whose copy of the board is current leaves its market priced by
\* its volumes (bet_repository.rs: "the next bet's recalculation corrects it").
THEOREM FreshBoardCorrects == Spec /\ StakesFit => FreshBoardCorrectsPrices
<1>1. ASSUME PricesInv, [Next]_vars
      PROVE  [\A r \in BetIds :
                (/\ pc[r] = "written" /\ pc'[r] = "done"
                 /\ board[r].volumes = volume[order[r].market]) =>
                  price'[order[r].market] =
                    RecalculatePrices(volume'[order[r].market], price[order[r].market])]_vars
  <2>1. SUFFICES ASSUME NEW r \in BetIds, pc[r] = "written", pc'[r] = "done",
                        board[r].volumes = volume[order[r].market]
                 PROVE  price'[order[r].market] =
                          RecalculatePrices(volume'[order[r].market], price[order[r].market])
    OBVIOUS
  <2>2. pc \in [BetIds -> {"idle"} \cup PlaceRunning \cup Over]
    BY <1>1 DEF PricesInv, CountersInv, MoneyInv, TypeOK
  <2>3. PlaceCommit(r)
    <3> USE DEF inputs, tables, placeVars, resolveVars
    <3>1. SUFFICES ASSUME ~PlaceCommit(r) PROVE FALSE
      OBVIOUS
    <3>2. UNCHANGED pc => FALSE
      BY <2>1
    <3>3. ASSUME NEW q \in BetIds, GiveUp(q) PROVE FALSE
      BY <2>1, <2>2, <3>3 DEF GiveUp
    <3>4. ASSUME NEW q \in BetIds, PlaceStart(q) \/ PlaceStep(q) \/ PlaceFail(q) PROVE FALSE
      BY <2>1, <2>2, <3>1, <3>3, <3>4 DEF PlaceStart, PlaceFail, PlaceStep,
        PlaceReadBoard, PlaceCheckBalance, PlaceDebit, PlaceWriteOutcomes, PlaceCommit
    <3>5. QED
      BY <1>1, <3>2, <3>4 DEF Next, vars, CreateMarket, DeadlinePasses, ResolveStart,
        ResolveFail, ResolveStep, ResolveLoadBets, ResolveMarketRow, SettleBet, ResolveCommit, Abandon
  <2>4. \A old : WrittenPrices(r) = RecalculatePrices(WrittenVolumes(r), old)
    BY <1>1, <2>1, <2>3, StakedPrices DEF PricesInv
  <2>5. PICK m \in Markets : m = order[r].market
    BY <1>1 DEF PricesInv, CountersInv, MoneyInv, TypeOK, Order
  <2>6. /\ volume = [k \in Markets |-> volume[k]] /\ price = [k \in Markets |-> price[k]]
    BY <1>1 DEF PricesInv, CountersInv, MoneyInv, TypeOK
  <2>7. /\ volume' = [volume EXCEPT ![m] = WrittenVolumes(r)]
        /\ price' = [price EXCEPT ![m] = WrittenPrices(r)]
    BY <2>3, <2>5 DEF PlaceCommit
  <2>8. volume'[m] = WrittenVolumes(r) /\ price'[m] = WrittenPrices(r)
    BY <2>6, <2>7
  <2>9. QED
    BY <2>4, <2>5, <2>8
<1>2. QED
  BY <1>1, PricesSafe, PTL DEF Spec, FreshBoardCorrectsPrices

-----------------------------------------------------------------------------
(* The users' money *)

\* What a set of placed bets pays if they win: a natural number each.
LEMMA PaymentOfBet ==
  ASSUME MoneyInv, NEW b \in BetIds, betStatus[b] # "none"
  PROVE  BetPayout(b) \in Int
<1>1. pc[b] = "done"
  BY DEF MoneyInv, SettlementsSound
<1>2. order[b].amount > 0 /\ buyPrice[b] >= MinTick
  BY <1>1 DEF MoneyInv, OrdersSound
<1>3. order[b].amount \in Int /\ buyPrice[b] \in Price
  BY DEF MoneyInv, TypeOK, Order
<1>4. Payout(order[b].amount, buyPrice[b]) \in Nat
  BY <1>2, <1>3, PayoutNat
<1>5. QED
  BY <1>4 DEF BetPayout

\* What a set of placed bets pays, two disjoint sets of them, and one bet more.
LEMMA PaymentsOfBets ==
  ASSUME MoneyInv, NEW bs \in SUBSET {b \in BetIds : betStatus[b] # "none"}
  PROVE  /\ PaidFor(bs) \in Int
         /\ bs = {} => PaidFor(bs) = 0
         /\ \A cs \in SUBSET {b \in BetIds : betStatus[b] # "none"} :
              bs \cap cs = {} => PaidFor(bs \cup cs) = PaidFor(bs) + PaidFor(cs)
         /\ \A r \in BetIds \ bs : betStatus[r] # "none" =>
              PaidFor(bs \cup {r}) = PaidFor(bs) + BetPayout(r)
<1>1. PICK placed \in SUBSET BetIds : placed = {b \in BetIds : betStatus[b] # "none"}
  OBVIOUS
<1>2. \A s \in SUBSET placed : IsFiniteSet(s)
  BY FS_Subset
<1>3. PICK f : f = [b \in placed |-> BetPayout(b)]
  OBVIOUS
<1>4. \A b \in placed : f[b] \in Int /\ f[b] = BetPayout(b)
  BY <1>1, <1>3, PaymentOfBet
<1>5. ASSUME NEW s \in SUBSET placed PROVE PaidFor(s) = SumFunctionOnSet(f, s)
  <2>1. PICK g : g = [b \in s |-> BetPayout(b)]
    OBVIOUS
  <2>2. PaidFor(s) = SumFunctionOnSet(g, s)
    BY <2>1 DEF PaidFor, SumFunction
  <2>3. \A x \in s : f[x] = g[x]
    BY <1>3, <2>1
  <2>4. SumFunctionOnSet(f, s) = SumFunctionOnSet(g, s)
    BY <1>2, <2>3, SumSame
  <2>5. QED
    BY <2>2, <2>4
<1>6. bs \in SUBSET placed
  BY <1>1
<1>7. PaidFor(bs) \in Int
  <2>1. \A x \in bs : f[x] \in Int
    BY <1>4, <1>6
  <2>2. SumFunctionOnSet(f, bs) \in Int
    BY <1>2, <1>6, <2>1, SumType
  <2>3. QED
    BY <1>5, <1>6, <2>2
<1>8. bs = {} => PaidFor(bs) = 0
  BY <1>5, <1>6, SumEmpty
<1>9. ASSUME NEW cs \in SUBSET placed, bs \cap cs = {}
      PROVE  PaidFor(bs \cup cs) = PaidFor(bs) + PaidFor(cs)
  <2>1. PICK us \in SUBSET placed : us = bs \cup cs
    BY <1>6
  <2>2. IsFiniteSet(bs) /\ IsFiniteSet(cs) /\ \A x \in bs \cup cs : f[x] \in Int
    BY <1>2, <1>4, <1>6
  <2>3. SumFunctionOnSet(f, bs \cup cs) = SumFunctionOnSet(f, bs) + SumFunctionOnSet(f, cs)
    BY <1>9, <2>2, SumUnion
  <2>4. /\ PaidFor(us) = SumFunctionOnSet(f, us) /\ PaidFor(bs) = SumFunctionOnSet(f, bs)
        /\ PaidFor(cs) = SumFunctionOnSet(f, cs)
    BY <1>5, <1>6
  <2>5. QED
    BY <2>1, <2>3, <2>4
<1>10. ASSUME NEW r \in BetIds \ bs, betStatus[r] # "none"
       PROVE  PaidFor(bs \cup {r}) = PaidFor(bs) + BetPayout(r)
  <2>1. PICK us \in SUBSET placed : us = bs \cup {r} /\ r \in placed /\ r \notin bs
    <3>1. r \in placed /\ r \notin bs
      BY <1>1, <1>10
    <3>2. bs \cup {r} \in SUBSET placed
      BY <1>6, <3>1
    <3>3. QED
      BY <3>1, <3>2
  <2>2. IsFiniteSet(bs) /\ (\A x \in bs : f[x] \in Int) /\ f[r] \in Int
    BY <1>2, <1>4, <1>6, <2>1
  <2>3. SumFunctionOnSet(f, bs \cup {r}) = SumFunctionOnSet(f, bs) + f[r]
    BY <2>1, <2>2, SumAdded
  <2>4. PaidFor(us) = SumFunctionOnSet(f, us) /\ PaidFor(bs) = SumFunctionOnSet(f, bs)
    BY <1>5, <1>6
  <2>5. QED
    BY <1>4, <2>1, <2>3, <2>4
<1>11. QED
  BY <1>1, <1>7, <1>8, <1>9, <1>10

\* What a placed bet pays never changes: its price was fixed when its request
\* read the board.
LEMMA PaymentsKept ==
  ASSUME NEW bs \in SUBSET BetIds, order' = order, \A b \in bs : buyPrice'[b] = buyPrice[b]
  PROVE  PaidFor(bs)' = PaidFor(bs)
<1>1. [b \in bs |-> BetPayout(b)]' = [b \in bs |-> BetPayout(b)]
  BY DEF BetPayout
<1>2. QED
  BY <1>1 DEF PaidFor

\* The parts of a user's ledger.
StakedOf(u) == {b \in BetIds : Placed(b) /\ order[b].user = u}
PaidTo(u)   == SumFunction([s \in Resolvers |-> PaidBy(s, u)])

\* Every step leaves the price of a placed bet alone, and the inputs.
LEMMA NextPlacedKept ==
  ASSUME MoneyInv, [Next]_vars
  PROVE  /\ order' = order /\ verdict' = verdict
         /\ \A b \in BetIds : betStatus[b] # "none" => buyPrice'[b] = buyPrice[b]
<1> USE DEF inputs, tables, placeVars, resolveVars
<1>1. \A b \in BetIds : betStatus[b] # "none" => pc[b] = "done"
  BY DEF MoneyInv, SettlementsSound
<1>2. buyPrice \in [BetIds -> Price]
  BY DEF MoneyInv, TypeOK
<1>3. ASSUME UNCHANGED <<order, verdict, buyPrice>>
      PROVE  /\ order' = order /\ verdict' = verdict
             /\ \A b \in BetIds : betStatus[b] # "none" => buyPrice'[b] = buyPrice[b]
  BY <1>3
<1>4. ASSUME NEW r \in BetIds, pc[r] # "done", GiveUp(r) \/ PlaceReadBoard(r)
      PROVE  /\ order' = order /\ verdict' = verdict
             /\ \A b \in BetIds : betStatus[b] # "none" => buyPrice'[b] = buyPrice[b]
  BY <1>1, <1>2, <1>4 DEF GiveUp, PlaceReadBoard
<1>5. ASSUME NEW r \in BetIds, PlaceStart(r) \/ PlaceStep(r) \/ PlaceFail(r)
      PROVE  \/ UNCHANGED <<order, verdict, buyPrice>>
             \/ pc[r] # "done" /\ (GiveUp(r) \/ PlaceReadBoard(r))
  BY <1>5 DEF PlaceStart, PlaceStep, PlaceFail, PlaceReadBoard, PlaceCheckBalance, PlaceDebit,
              PlaceWriteOutcomes, PlaceCommit, PlaceRunning, PlaceInTx
<1>6. ASSUME ~ \E r \in BetIds : PlaceStart(r) \/ PlaceStep(r) \/ PlaceFail(r)
      PROVE  UNCHANGED <<order, verdict, buyPrice>>
  BY <1>6 DEF Next, vars, CreateMarket, DeadlinePasses, ResolveStart, ResolveFail, ResolveStep,
              ResolveLoadBets, ResolveMarketRow, SettleBet, ResolveCommit, Abandon
<1>7. QED
  BY <1>3, <1>4, <1>5, <1>6

\* The winners a resolution has read are placed bets, and pay what they pay.
LEMMA WinnersPlaced ==
  ASSUME MoneyInv, NEW s \in Resolvers, NEW u
  PROVE  /\ Winners(s, u) \in SUBSET {b \in BetIds : betStatus[b] # "none"}
         /\ PaidBy(s, u) \in Int
<1>1. Winners(s, u) \in SUBSET {b \in BetIds : betStatus[b] # "none"}
  BY DEF MoneyInv, TypeOK, SettlementsSound, Winners
<1>2. PaidFor(Winners(s, u)) \in Int
  BY <1>1, PaymentsOfBets
<1>3. QED
  BY <1>1, <1>2 DEF PaidBy

\* No step changes what a set of placed bets pays.
LEMMA PaymentsSame ==
  ASSUME MoneyInv, [Next]_vars, NEW bs \in SUBSET {b \in BetIds : betStatus[b] # "none"}
  PROVE  PaidFor(bs)' = PaidFor(bs)
<1>1. order' = order /\ \A b \in bs : buyPrice'[b] = buyPrice[b]
  BY NextPlacedKept
<1>2. bs \in SUBSET BetIds
  OBVIOUS
<1>3. QED
  BY <1>1, <1>2, PaymentsKept

\* A resolution that keeps what it has read keeps its winners, and if it stays
\* committed or uncommitted, what it has paid.
LEMMA WinnersKept ==
  ASSUME MoneyInv, [Next]_vars, NEW s \in Resolvers, NEW u, snapshot'[s] = snapshot[s]
  PROVE  /\ Winners(s, u)' = Winners(s, u)
         /\ PaidFor(Winners(s, u))' = PaidFor(Winners(s, u))
<1>1. order' = order /\ verdict' = verdict
  BY NextPlacedKept
<1>2. Winners(s, u)' = Winners(s, u)
  BY <1>1 DEF Winners, Wins
<1>3. PICK ws \in SUBSET {b \in BetIds : betStatus[b] # "none"} : ws = Winners(s, u)
  BY WinnersPlaced
<1>4. PaidFor(Winners(s, u))' = PaidFor(ws)'
  BY <1>2, <1>3 DEF PaidFor
<1>5. PaidFor(ws)' = PaidFor(ws)
  BY PaymentsSame
<1>6. QED
  BY <1>2, <1>3, <1>4, <1>5

\* What all resolutions have paid a user is a number.
LEMMA PaidToType ==
  ASSUME MoneyInv, NEW u
  PROVE  PaidTo(u) \in Int
<1>1. PICK f : f = [s \in Resolvers |-> PaidBy(s, u)]
  OBVIOUS
<1>2. \A s \in Resolvers : f[s] \in Int
  BY <1>1, WinnersPlaced
<1>3. SumFunctionOnSet(f, Resolvers) \in Int
  BY <1>2, SumType
<1>4. DOMAIN f = Resolvers
  BY <1>1
<1>5. QED
  BY <1>1, <1>3, <1>4 DEF PaidTo, SumFunction

LEMMA PaidByKept ==
  ASSUME MoneyInv, [Next]_vars, NEW s \in Resolvers, NEW u,
         rpc'[s] = "done" <=> rpc[s] = "done", rpc[s] = "done" => snapshot'[s] = snapshot[s]
  PROVE  PaidBy(s, u)' = PaidBy(s, u)
<1>1. CASE rpc[s] = "done"
  BY <1>1, WinnersKept DEF PaidBy
<1>2. CASE rpc[s] # "done"
  BY <1>2 DEF PaidBy
<1>3. QED
  BY <1>1, <1>2

\* A step in which no resolution commits pays nobody.
LEMMA QuietPays ==
  ASSUME MoneyInv, [Next]_vars, QuietStep, NEW u
  PROVE  PaidTo(u)' = PaidTo(u)
<1>1. \A s \in Resolvers : PaidBy(s, u)' = PaidBy(s, u)
  BY PaidByKept DEF QuietStep
<1>2. [s \in Resolvers |-> PaidBy(s, u)]' = [s \in Resolvers |-> PaidBy(s, u)]
  BY <1>1
<1>3. QED
  BY <1>2 DEF PaidTo

\* A step that moves no money keeps the ledger.
LEMMA QuietLedger ==
  ASSUME LedgerInv, SettlementInv', [Next]_vars, QuietStep, UNCHANGED <<balance, betStatus>>, CreditsMatch'
  PROVE  LedgerInv'
<1>1. MoneyInv /\ order' = order
  BY DEF LedgerInv, SettlementInv, QuietStep
<1>2. ASSUME NEW u \in Users
      PROVE  balance'[u] = StartingBalance - StakedBy(StakedOf(u))' + PaidTo(u)'
  <2>1. balance[u] = StartingBalance - StakedBy(StakedOf(u)) + PaidTo(u)
    BY DEF LedgerInv, LedgerBalanced, StakedOf, PaidTo
  <2>2. StakedOf(u)' = StakedOf(u)
    BY <1>1 DEF StakedOf, Placed
  <2>3. StakedBy(StakedOf(u))' = StakedBy(StakedOf(u))
    BY <1>1, <2>2 DEF StakedBy
  <2>4. PaidTo(u)' = PaidTo(u)
    BY <1>1, QuietPays
  <2>5. QED
    BY <2>1, <2>3, <2>4
<1>3. LedgerBalanced'
  BY <1>2 DEF LedgerBalanced, StakedOf, PaidTo
<1>4. QED
  BY <1>3 DEF LedgerInv

\* A resolution whose variables stay keeps its credits right.
LEMMA CreditKept ==
  ASSUME MoneyInv, CreditsMatch, [Next]_vars, NEW t \in Resolvers, NEW u \in Users,
         rpc'[t] = rpc[t], snapshot'[t] = snapshot[t], pending'[t] = pending[t], credit'[t] = credit[t],
         rpc'[t] = "settling"
  PROVE  credit'[t][u] = PaidFor(Winners(t, u) \ pending[t])'
<1>1. Winners(t, u)' = Winners(t, u)
  BY WinnersKept
<1>2. PICK bs \in SUBSET {b \in BetIds : betStatus[b] # "none"} : bs = Winners(t, u) \ pending[t]
  BY WinnersPlaced
<1>3. (Winners(t, u) \ pending[t])' = bs
  BY <1>1, <1>2
<1>4. PaidFor(Winners(t, u) \ pending[t])' = PaidFor(bs)'
  BY <1>3 DEF PaidFor
<1>5. PaidFor(bs)' = PaidFor(bs)
  BY PaymentsSame
<1>6. credit[t][u] = PaidFor(bs)
  BY <1>2 DEF CreditsMatch
<1>7. QED
  BY <1>4, <1>5, <1>6

\* The reads and rounds of a settlement: credits keep pace with the bets done.
LEMMA CreditsKept ==
  ASSUME LedgerInv, [Next]_vars, ~ \E s \in Resolvers : ResolveCommit(s)
  PROVE  CreditsMatch'
<1> USE DEF inputs, tables, placeVars, resolveVars
<1>0. MoneyInv /\ CreditsMatch
  BY DEF LedgerInv, SettlementInv
<1>1. order' = order /\ verdict' = verdict
  BY <1>0, NextPlacedKept
<1>2. /\ rpc \in [Resolvers -> {"idle"} \cup ResolveRunning \cup Over]
      /\ snapshot \in [Resolvers -> SUBSET BetIds] /\ pending \in [Resolvers -> SUBSET BetIds]
      /\ credit \in [Resolvers -> [Users -> Int]]
      /\ \A b \in BetIds : order[b].user \in Users
  BY <1>0 DEF MoneyInv, TypeOK, Order
\* It is enough to look at the resolver that moves.
<1>3. ASSUME NEW s \in Resolvers,
             \A t \in Resolvers \ {s} : /\ rpc'[t] = rpc[t] /\ snapshot'[t] = snapshot[t]
                                        /\ pending'[t] = pending[t] /\ credit'[t] = credit[t],
             rpc'[s] = "settling" => \A u \in Users : credit'[s][u] = PaidFor(Winners(s, u) \ pending[s])'
      PROVE  CreditsMatch'
  <2>1. ASSUME NEW t \in Resolvers, rpc'[t] = "settling", NEW u \in Users
        PROVE  credit'[t][u] = PaidFor(Winners(t, u) \ pending[t])'
    <3>1. CASE t = s
      BY <1>3, <2>1, <3>1
    <3>2. CASE t # s
      BY <1>0, <1>3, <2>1, <3>2, CreditKept
    <3>3. QED
      BY <3>1, <3>2
  <2>2. QED
    BY <2>1 DEF CreditsMatch
<1>4. ASSUME NEW s \in Resolvers, Abandon(s) \/ ResolveStart(s) \/ ResolveLoadBets(s) PROVE CreditsMatch'
  <2>1. CASE Abandon(s)
    BY <1>2, <1>3, <2>1 DEF Abandon
  <2>2. CASE ResolveStart(s) /\ ~Abandon(s)
    <3>1. rpc' = [rpc EXCEPT ![s] = "read"] /\ UNCHANGED <<snapshot, pending, credit>>
      BY <2>2 DEF ResolveStart
    <3>2. QED
      BY <1>2, <1>3, <3>1
  <2>3. CASE ResolveLoadBets(s)
    BY <1>2, <1>3, <2>3 DEF ResolveLoadBets
  <2>4. QED
    BY <1>4, <2>1, <2>2, <2>3
<1>5. ASSUME NEW s \in Resolvers, ResolveMarketRow(s) PROVE CreditsMatch'
  <2>1. /\ rpc[s] = "loaded" /\ rpc' = [rpc EXCEPT ![s] = "settling"]
        /\ pending' = [pending EXCEPT ![s] = snapshot[s]] /\ UNCHANGED <<snapshot, credit>>
    BY <1>5 DEF ResolveMarketRow
  <2>2. ASSUME NEW u \in Users
        PROVE  credit'[s][u] = PaidFor(Winners(s, u) \ pending[s])'
    <3>1. (Winners(s, u) \ pending[s])' = {}
      BY <1>2, <2>1 DEF Winners
    <3>2. PaidFor(Winners(s, u) \ pending[s])' = PaidFor({})'
      BY <3>1 DEF PaidFor
    <3>3. PaidFor({})' = PaidFor({})
      BY <1>1, PaymentsKept
    <3>4. PaidFor({}) = 0
      BY <1>0, PaymentsOfBets
    <3>5. credit[s][u] = 0
      BY <1>0, <2>1 DEF MoneyInv, SettlementsSound
    <3>6. QED
      BY <2>1, <3>2, <3>3, <3>4, <3>5
  <2>3. QED
    BY <1>2, <1>3, <2>1, <2>2
<1>6. ASSUME NEW s \in Resolvers, NEW c \in BetIds, SettleBet(s, c) PROVE CreditsMatch'
  <2>1. /\ rpc[s] = "settling" /\ UNCHANGED <<rpc, snapshot>>
        /\ c \in pending[s] /\ pending' = [pending EXCEPT ![s] = @ \ {c}]
        /\ credit' = [credit EXCEPT ![s][order[c].user] = IF Wins(s, c) THEN @ + BetPayout(c) ELSE @]
    BY <1>6 DEF SettleBet
  <2>2. c \in snapshot[s] /\ betStatus[c] # "none"
    BY <1>0, <2>1 DEF MoneyInv, SettlementsSound
  <2>3. /\ pending'[s] = pending[s] \ {c}
        /\ \A u \in Users : credit'[s][u] =
             IF u = order[c].user /\ Wins(s, c) THEN credit[s][u] + BetPayout(c) ELSE credit[s][u]
    BY <1>2, <2>1
  <2>4. ASSUME NEW u \in Users
        PROVE  credit'[s][u] = PaidFor(Winners(s, u) \ pending[s])'
    <3>1. PICK placed : placed = {b \in BetIds : betStatus[b] # "none"}
      OBVIOUS
    <3>2. PICK bs \in SUBSET placed : bs = Winners(s, u) \ pending[s]
      BY <1>0, <3>1, WinnersPlaced
    <3>3. credit[s][u] = PaidFor(bs)
      BY <1>0, <2>1, <3>2 DEF CreditsMatch
    <3>4. PICK cs \in SUBSET placed : cs = IF u = order[c].user /\ Wins(s, c) THEN bs \cup {c} ELSE bs
      BY <2>2, <3>1
    <3>5. (Winners(s, u) \ pending[s])' = cs
      <4>1. Winners(s, u)' = Winners(s, u)
        BY <1>0, <2>1, WinnersKept
      <4>2. (Winners(s, u) \ pending[s])' = Winners(s, u) \ (pending[s] \ {c})
        BY <2>3, <4>1
      <4>3. c \in Winners(s, u) <=> u = order[c].user /\ Wins(s, c)
        BY <2>2 DEF Winners
      <4>4. QED
        BY <2>1, <3>2, <3>4, <4>2, <4>3
    <3>6. PaidFor(Winners(s, u) \ pending[s])' = PaidFor(cs)'
      BY <3>5 DEF PaidFor
    <3>7. PaidFor(cs)' = PaidFor(cs)
      BY <1>0, <3>1, PaymentsSame
    <3>8. credit'[s][u] = PaidFor(cs)
      <4>1. CASE u = order[c].user /\ Wins(s, c)
        <5>1. c \in BetIds \ bs
          BY <2>1, <3>2
        <5>2. PaidFor(bs \cup {c}) = PaidFor(bs) + BetPayout(c)
          BY <1>0, <2>2, <3>1, <5>1, PaymentsOfBets
        <5>3. QED
          BY <2>3, <3>3, <3>4, <4>1, <5>2
      <4>2. CASE ~(u = order[c].user /\ Wins(s, c))
        BY <2>3, <3>3, <3>4, <4>2
      <4>3. QED
        BY <4>1, <4>2
    <3>9. QED
      BY <3>6, <3>7, <3>8
  <2>5. QED
    BY <1>2, <1>3, <2>1, <2>4
<1>7. ASSUME UNCHANGED resolveVars PROVE CreditsMatch'
  BY <1>0, <1>7, CreditKept DEF CreditsMatch
<1>8. CASE ~ \E s \in Resolvers : ResolveStart(s) \/ ResolveStep(s) \/ ResolveFail(s)
  <2>1. UNCHANGED resolveVars
    BY <1>8 DEF Next, vars, CreateMarket, DeadlinePasses, PlaceStart, PlaceFail, PlaceStep,
      PlaceReadBoard, PlaceCheckBalance, PlaceDebit, PlaceWriteOutcomes, PlaceCommit, GiveUp
  <2>2. QED
    BY <1>7, <2>1
<1>9. ASSUME NEW s \in Resolvers, ResolveStart(s) \/ ResolveStep(s) \/ ResolveFail(s)
      PROVE  CreditsMatch'
  BY <1>4, <1>5, <1>6, <1>9 DEF ResolveStep, ResolveFail
<1>10. QED
  BY <1>8, <1>9

\* A placement takes its stake from its user and from nobody else.
LEMMA PlaceCommitLedger ==
  ASSUME LedgerInv, SettlementInv', [Next]_vars, QuietStep, CreditsMatch', NEW r \in BetIds, PlaceCommit(r)
  PROVE  LedgerInv'
<1> USE DEF inputs, resolveVars
<1>1. MoneyInv /\ TypeOK
  BY DEF LedgerInv, SettlementInv, MoneyInv
<1>2. /\ order' = order
      /\ balance' = [balance EXCEPT ![order[r].user] = @ - order[r].amount]
      /\ betStatus' = [betStatus EXCEPT ![r] = "active"]
  BY DEF PlaceCommit
<1>3. /\ betStatus \in [BetIds -> BetStatuses] /\ balance \in [Users -> Int]
      /\ order[r].amount \in Int
  BY <1>1 DEF TypeOK, Order
<1>4. betStatus[r] = "none"
  BY <1>1 DEF MoneyInv, SettlementsSound, PlaceCommit
<1>5. /\ betStatus'[r] = "active"
      /\ \A b \in BetIds : b # r => betStatus'[b] = betStatus[b]
  BY <1>2, <1>3
<1>6. ASSUME NEW u \in Users
      PROVE  balance'[u] = StartingBalance - StakedBy(StakedOf(u))' + PaidTo(u)'
  <2>1. balance[u] = StartingBalance - StakedBy(StakedOf(u)) + PaidTo(u)
    BY DEF LedgerInv, LedgerBalanced, StakedOf, PaidTo
  <2>2. PaidTo(u)' = PaidTo(u) /\ PaidTo(u) \in Int
    BY <1>1, QuietPays, PaidToType
  <2>3. PICK ss \in SUBSET BetIds : ss = StakedOf(u)
    BY DEF StakedOf
  <2>4. StakedBy(ss) \in Int
    BY <1>1, StakesOfBets
  <2>5. CASE u = order[r].user
    <3>1. StakedOf(u)' = ss \cup {r}
      BY <1>2, <1>4, <1>5, <2>3, <2>5 DEF StakedOf, Placed
    <3>2. r \in BetIds \ ss
      BY <1>4, <2>3 DEF StakedOf, Placed
    <3>3. StakedBy(ss \cup {r}) = StakedBy(ss) + order[r].amount
      BY <1>1, <3>2, StakesOfBets
    <3>4. StakedBy(StakedOf(u))' = StakedBy(ss \cup {r})
      BY <1>2, <3>1 DEF StakedBy
    <3>5. balance'[u] = balance[u] - order[r].amount
      BY <1>2, <1>3, <2>5
    <3>6. PICK x \in Int, y \in Int, a \in Int, p \in Int :
            x = balance[u] /\ y = StakedBy(ss) /\ a = order[r].amount /\ p = PaidTo(u)
      BY <1>3, <2>2, <2>4
    <3>7. x = StartingBalance - y + p
      BY <2>1, <2>3, <3>6
    <3>8. x - a = StartingBalance - (y + a) + p
      BY <3>7
    <3>9. QED
      BY <2>2, <3>3, <3>4, <3>5, <3>6, <3>8
  <2>6. CASE u # order[r].user
    <3>1. StakedOf(u)' = ss
      BY <1>2, <1>4, <1>5, <2>3, <2>6 DEF StakedOf, Placed
    <3>2. StakedBy(StakedOf(u))' = StakedBy(ss)
      BY <1>2, <3>1 DEF StakedBy
    <3>3. balance'[u] = balance[u]
      BY <1>2, <1>3, <2>6
    <3>4. QED
      BY <2>1, <2>2, <2>3, <3>2, <3>3
  <2>7. QED
    BY <2>5, <2>6
<1>7. LedgerBalanced'
  BY <1>6 DEF LedgerBalanced, StakedOf, PaidTo
<1>8. QED
  BY <1>7 DEF LedgerInv

\* The commit of a resolution pays the winners it has read, each once.
LEMMA ResolveCommitLedger ==
  ASSUME LedgerInv, SettlementInv', [Next]_vars, NEW s \in Resolvers, ResolveCommit(s)
  PROVE  LedgerInv'
<1> USE DEF inputs, placeVars
<1>1. MoneyInv /\ TypeOK /\ MoneyInv' /\ CreditsMatch
  BY DEF LedgerInv, SettlementInv, MoneyInv
<1>2. /\ order' = order /\ pending' = pending /\ snapshot' = snapshot
      /\ rpc[s] = "settling" /\ pending[s] = {}
      /\ rpc' = [rpc EXCEPT ![s] = "done"]
      /\ credit' = [credit EXCEPT ![s] = [u \in Users |-> 0]]
      /\ balance' = [u \in Users |-> balance[u] + credit[s][u]]
      /\ betStatus' = [b \in BetIds |->
           IF b \in snapshot[s] THEN (IF Wins(s, b) THEN "won" ELSE "lost") ELSE betStatus[b]]
  BY DEF ResolveCommit
<1>3. /\ betStatus \in [BetIds -> BetStatuses] /\ balance \in [Users -> Int]
      /\ rpc \in [Resolvers -> {"idle"} \cup ResolveRunning \cup Over]
      /\ credit \in [Resolvers -> [Users -> Int]]
  BY <1>1 DEF TypeOK
<1>4. \A t \in Resolvers \ {s} : rpc'[t] = rpc[t] /\ credit'[t] = credit[t]
  BY <1>2, <1>3
<1>5. rpc'[s] = "done"
  BY <1>2, <1>3
<1>6. \A b \in BetIds : betStatus'[b] # "none" <=> betStatus[b] # "none"
  BY <1>1, <1>2 DEF MoneyInv, SettlementsSound
<1>7. ASSUME NEW u \in Users
      PROVE  balance'[u] = StartingBalance - StakedBy(StakedOf(u))' + PaidTo(u)'
  <2>1. balance[u] = StartingBalance - StakedBy(StakedOf(u)) + PaidTo(u)
    BY DEF LedgerInv, LedgerBalanced, StakedOf, PaidTo
  <2>2. PICK f, g : /\ f = [t \in Resolvers |-> PaidBy(t, u)]
                    /\ g = [t \in Resolvers |-> PaidBy(t, u)']
    OBVIOUS
  <2>3. PaidTo(u) = SumFunction(f) /\ PaidTo(u)' = SumFunction(g)
    BY <2>2 DEF PaidTo
  <2>4. g[s] = credit[s][u]
    <3>1. PaidBy(s, u)' = PaidFor(Winners(s, u))'
      BY <1>5 DEF PaidBy
    <3>2. PaidFor(Winners(s, u))' = PaidFor(Winners(s, u))
      BY <1>1, <1>2, WinnersKept
    <3>3. credit[s][u] = PaidFor(Winners(s, u) \ pending[s])
      BY <1>1, <1>2 DEF CreditsMatch
    <3>4. Winners(s, u) \ pending[s] = Winners(s, u)
      BY <1>2
    <3>5. QED
      BY <2>2, <3>1, <3>2, <3>3, <3>4
  <2>5. \A t \in Resolvers \ {s} : g[t] = f[t]
    <3>1. \A t \in Resolvers \ {s} : PaidBy(t, u)' = PaidBy(t, u)
      BY <1>1, <1>2, <1>4, PaidByKept
    <3>2. QED
      BY <2>2, <3>1
  <2>6. \A t \in Resolvers : f[t] \in Int /\ g[t] \in Int
    <3>1. \A t \in Resolvers : f[t] \in Int
      BY <1>1, <2>2, WinnersPlaced
    <3>2. g[s] \in Int
      BY <1>3, <2>4
    <3>3. QED
      BY <2>5, <3>1, <3>2
  <2>7. f[s] = 0
    BY <1>2, <2>2 DEF PaidBy
  <2>8. SumFunction(g) = SumFunction(f) + (g[s] - f[s])
    <3>1. DOMAIN f = Resolvers /\ DOMAIN g = Resolvers
      BY <2>2
    <3>2. QED
      BY <2>5, <2>6, <3>1, VectorChanged
  <2>9. StakedBy(StakedOf(u))' = StakedBy(StakedOf(u))
    <3>1. StakedOf(u)' = StakedOf(u)
      BY <1>2, <1>6 DEF StakedOf, Placed
    <3>2. QED
      BY <1>2, <3>1 DEF StakedBy
  <2>10. balance'[u] = balance[u] + credit[s][u]
    BY <1>2
  <2>11. StakedBy(StakedOf(u)) \in Int
    <3>1. PICK ss \in SUBSET BetIds : ss = StakedOf(u)
      BY DEF StakedOf
    <3>2. QED
      BY <1>1, <3>1, StakesOfBets
  <2>12. PaidTo(u) \in Int /\ credit[s][u] \in Int
    BY <1>1, <1>3, PaidToType
  <2>13. PICK x \in Int, y \in Int, p \in Int, q \in Int :
           x = balance[u] /\ y = StakedBy(StakedOf(u)) /\ p = PaidTo(u) /\ q = credit[s][u]
    BY <1>3, <2>11, <2>12
  <2>14. PaidTo(u)' = p + q
    <3>1. SumFunction(g) = p + (q - 0)
      BY <2>3, <2>4, <2>7, <2>8, <2>13
    <3>2. QED
      BY <2>3, <3>1
  <2>15. x + q = StartingBalance - y + (p + q)
    BY <2>1, <2>13
  <2>16. QED
    BY <2>9, <2>10, <2>13, <2>14, <2>15
<1>8. LedgerBalanced'
  BY <1>7 DEF LedgerBalanced, StakedOf, PaidTo
<1>9. CreditsMatch'
  <2>1. ASSUME NEW t \in Resolvers, rpc'[t] = "settling", NEW u \in Users
        PROVE  credit'[t][u] = PaidFor(Winners(t, u) \ pending[t])'
    BY <1>1, <1>2, <1>4, <1>5, <2>1, CreditKept
  <2>2. QED
    BY <2>1 DEF CreditsMatch
<1>10. QED
  BY <1>8, <1>9 DEF LedgerInv

\* Nothing has been staked or won at the start.
LEMMA InitLedger == Init => LedgerInv
<1> SUFFICES ASSUME Init PROVE LedgerInv
  OBVIOUS
<1>1. SettlementInv
  BY InitSettlement
<1>2. MoneyInv /\ TypeOK
  BY <1>1 DEF SettlementInv, MoneyInv
<1>3. /\ \A b \in BetIds : betStatus[b] = "none"
      /\ \A s \in Resolvers : rpc[s] = "idle"
      /\ \A u \in Users : balance[u] = StartingBalance
  BY DEF Init
<1>4. CreditsMatch
  BY <1>3 DEF CreditsMatch
<1>5. ASSUME NEW u \in Users
      PROVE  balance[u] = StartingBalance - StakedBy(StakedOf(u)) + PaidTo(u)
  <2>1. StakedBy(StakedOf(u)) = 0
    <3>1. StakedOf(u) = {}
      BY <1>3 DEF StakedOf, Placed
    <3>2. QED
      BY <1>2, <3>1, StakesOfBets
  <2>2. PaidTo(u) = 0
    <3>1. PICK f : f = [s \in Resolvers |-> PaidBy(s, u)]
      OBVIOUS
    <3>2. \A s \in Resolvers : f[s] = 0
      BY <1>3, <3>1 DEF PaidBy
    <3>3. SumFunctionOnSet(f, Resolvers) = 0 * Cardinality(Resolvers)
      BY <3>2, SumEqual
    <3>4. Cardinality(Resolvers) \in Nat
      BY FS_CardinalityType
    <3>5. DOMAIN f = Resolvers
      BY <3>1
    <3>6. QED
      BY <3>1, <3>3, <3>4, <3>5 DEF PaidTo, SumFunction
  <2>3. QED
    BY <1>3, <2>1, <2>2
<1>6. LedgerBalanced
  BY <1>5 DEF LedgerBalanced, StakedOf, PaidTo
<1>7. QED
  BY <1>1, <1>4, <1>6 DEF LedgerInv

\* Every step keeps the ledger: a placement and a settlement move money, the
\* others keep the credits in pace with the bets done.
LEMMA NextLedger == LedgerInv /\ [Next]_vars => LedgerInv'
<1> SUFFICES ASSUME LedgerInv, [Next]_vars PROVE LedgerInv'
  OBVIOUS
<1>1. SettlementInv /\ SettlementInv'
  BY NextSettlement DEF LedgerInv
<1>2. CASE \E s \in Resolvers : ResolveCommit(s)
  BY <1>1, <1>2, ResolveCommitLedger
<1>3. CASE ~ \E s \in Resolvers : ResolveCommit(s)
  <2> USE DEF inputs, tables, placeVars, resolveVars
  <2>1. CreditsMatch' /\ QuietStep
    BY <1>1, <1>3, CreditsKept, NextQuiet
  <2>2. CASE \E r \in BetIds : PlaceCommit(r)
    BY <1>1, <2>1, <2>2, PlaceCommitLedger
  <2>3. CASE ~ \E r \in BetIds : PlaceCommit(r)
    <3>1. UNCHANGED <<balance, betStatus>>
      BY <1>3, <2>3 DEF Next, vars, CreateMarket, DeadlinePasses, PlaceStart, PlaceFail, PlaceStep,
        PlaceReadBoard, PlaceCheckBalance, PlaceDebit, PlaceWriteOutcomes, GiveUp, ResolveStart,
        ResolveFail, ResolveStep, ResolveLoadBets, ResolveMarketRow, SettleBet, Abandon
    <3>2. QED
      BY <1>1, <2>1, <3>1, QuietLedger
  <2>4. QED
    BY <2>2, <2>3
<1>4. QED
  BY <1>2, <1>3

\* LedgerInv holds in every reachable state.
THEOREM LedgerSafe == Spec => []LedgerInv
<1>1. Init => LedgerInv
  BY InitLedger
<1>2. LedgerInv /\ [Next]_vars => LedgerInv'
  BY NextLedger
<1>3. QED
  BY <1>1, <1>2, PTL DEF Spec

\* BooksInv holds in every reachable state.
THEOREM BooksSafe == Spec => []BooksInv
<1>1. CountersInv /\ LedgerInv => BooksInv
  BY DEF BooksInv
<1>2. QED
  BY <1>1, CountersSafe, LedgerSafe, PTL

\* The books balance in every reachable state: every stake is taken once, every
\* committed resolution pays each winner it has read once and nothing else moves
\* money, the counters are the bets', and prices sum to 1.0000
\* (bet_repository.rs, place and settle).
THEOREM BooksAlwaysBalance == Spec /\ StakesFit => []BooksBalance
<1>1. CountersInv /\ PricesInv /\ LedgerInv => BooksBalance
  BY DEF CountersInv, PricesInv, LedgerInv, BooksBalance
<1>2. QED
  BY <1>1, CountersSafe, PricesSafe, LedgerSafe, PTL
=============================================================================
