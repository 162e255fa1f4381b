-------------------------------- MODULE Ledger -------------------------------
(***************************************************************************)
(* Markets, bets and price history when requests are served one after the  *)
(* other, on the in-memory repositories that tests and development use     *)
(* (Betting has the interleavings that Postgres allows).  The module is    *)
(* about what is read back: the prices of the boards, the bet and market   *)
(* listings and their pages, profiles' statistics, the average price of    *)
(* positions, and the charts.  It asks that the two back ends answer these *)
(* queries alike, and that a reader who pages through a listing while bets *)
(* are placed and settled misses nothing.                                  *)
(*                                                                         *)
(* Markets and bets are named by their place in the store's vectors, which *)
(* is also their order of creation: every write takes a tick of the clock. *)
(***************************************************************************)
EXTENDS Listings

CONSTANTS Users,
          OutcomeCounts,     \* how many outcomes a market may have
          MaxMarkets,        \* bound: markets created
          StakeSizes,        \* amounts bet
          StartingBalance,   \* balance of a new user
          MaxWrites,         \* bound: requests that write
          BettingTime,       \* ticks a market with a deadline accepts bets for
          Walks              \* what the reader may ask for: filter, sort, limit

ASSUME LedgerAssumption ==
  /\ IsFiniteSet(Users)
  /\ OutcomeCounts \subseteq Nat \ {0, 1} /\ MaxMarkets \in Nat
  /\ StakeSizes \subseteq Nat \ {0}
  /\ StartingBalance \in Nat /\ BettingTime \in Nat \ {0} /\ MaxWrites \in Nat
  /\ Walks \subseteq [filter : BetFilters, sort : BetSorts, limit : Int]

VARIABLES now,      \* the clock
          balance,  \* users' balances
          markets,  \* the markets with their outcomes' volumes and prices
          bets,     \* the bets, oldest first
          points,   \* price_points, as recorded
          walk      \* one reader paging through the global bet feed

vars == <<now, balance, markets, bets, points, walk>>

BetNumbers == DOMAIN bets
Outcomes(m) == DOMAIN markets[m].volumes

\* start and seen hold places of bets; last is the last place there was at the start.
NoWalk == [at |-> "unstarted", filter |-> "any", sort |-> "newest", limit |-> 0,
           page |-> 0, start |-> {}, last |-> 0, seen |-> {}]

Init ==
  /\ now = 1
  /\ balance = [u \in Users |-> StartingBalance]
  /\ markets = << >> /\ bets = << >> /\ points = << >>
  /\ walk = NoWalk

\* The starting point of every outcome, or the points of a placement.
PointsOf(m, prices) ==
  [i \in DOMAIN prices |-> [market |-> m, outcome |-> i, price |-> prices[i], at |-> now]]

\* CreateMarket and the store's create: even prices, a point per outcome.
CreateMarket(n, closes) ==
  LET m == Len(markets) + 1
      zeros == [i \in 1 .. n |-> 0]
      prices == RecalculatePrices(zeros, zeros)
  IN
  /\ m <= MaxMarkets /\ now <= MaxWrites
  /\ markets' = Append(markets,
       [status |-> "open", winner |-> 0, closes |-> closes, created |-> now, total_volume |-> 0,
        participants |-> 0, volumes |-> zeros, prices |-> prices])
  /\ points' = points \o PointsOf(m, prices)
  /\ now' = now + 1
  /\ UNCHANGED <<balance, bets, walk>>

AcceptsBets(m) ==
  /\ markets[m].status = "open"
  /\ markets[m].closes = NoDeadline \/ now < markets[m].closes

\* place takes any earlier bet of the user on the market for a repeat.
NewParticipant(u, m) == ~\E k \in BetNumbers : bets[k].user = u /\ bets[k].market = m

\* Mutant: prices recalculated before the stake is added.
PricesBeforeStake(row, i, amount) == RecalculatePrices(row.volumes, row.prices)

\* The board's prices once the stake is in its outcome's volume.
PricesAfterStake(row, i, amount) ==
  RecalculatePrices(AddVolume(row.volumes, i, amount), row.prices)

\* PlaceBet, place and apply_bet.  A refused bet changes nothing.
Place(u, m, i, amount) ==
  LET row    == markets[m]
      prices == PricesAfterStake(row, i, amount)
  IN
  /\ now <= MaxWrites
  /\ i \in Outcomes(m)
  /\ AcceptsBets(m)
  /\ balance[u] >= amount
  /\ balance' = [balance EXCEPT ![u] = @ - amount]
  /\ bets' = Append(bets, [user |-> u, market |-> m, outcome |-> i, amount |-> amount,
       price |-> BuyPrice(row.prices[i]), status |-> "active", payout |-> 0, created |-> now])
  /\ markets' = [markets EXCEPT ![m].total_volume = SaturateI64(@ + amount),
                                ![m].participants = @ + (IF NewParticipant(u, m) THEN 1 ELSE 0),
                                ![m].volumes = AddVolume(@, i, amount),
                                ![m].prices = prices]
  /\ points' = points \o PointsOf(m, prices)
  /\ now' = now + 1
  /\ UNCHANGED walk

SettledBet(b, winner) ==
  IF b.outcome = winner
  THEN [b EXCEPT !.status = "won", !.payout = Payout(b.amount, b.price)]
  ELSE [b EXCEPT !.status = "lost"]

\* ResolveMarket by an admin and settle: every active bet of the market is
\* settled and the winners are credited.
Settle(m, winner) ==
  LET due == {k \in BetNumbers : bets[k].market = m /\ bets[k].status = "active"} IN
  /\ winner \in Outcomes(m) /\ now <= MaxWrites
  /\ markets[m].status # "resolved"
  /\ markets' = [markets EXCEPT ![m].status = "resolved", ![m].winner = winner]
  /\ bets' = [k \in BetNumbers |-> IF k \in due THEN SettledBet(bets[k], winner) ELSE bets[k]]
  /\ balance' = [u \in Users |-> balance[u] +
       SumFunction([k \in {j \in due : bets[j].user = u} |-> SettledBet(bets[k], winner).payout])]
  /\ now' = now + 1
  /\ UNCHANGED <<points, walk>>

-----------------------------------------------------------------------------
(* Readers *)

\* GET /api/users/{id}: the statistics on a profile.
Profile(u) == MemStats(bets, u)

\* GET /api/markets/{id}/price-history, and the same from the raw points.
Chart(m, from, to) == PgHistory(points, m, from, to)
RawChart(m, from, to) == MemHistory(points, m, from, to)

\* GET /api/bets/feed, before it is cut into pages.
Feed(filter, sort) == MemBets(bets, BetNumbers, filter, sort)

StartWalk(w) ==
  /\ walk.at = "unstarted" /\ bets # << >>
  /\ walk' = [at |-> "reading", filter |-> w.filter, sort |-> w.sort, limit |-> w.limit, page |-> 1,
              start |-> ToSet(Feed(w.filter, w.sort)), last |-> Len(bets), seen |-> {}]
  /\ UNCHANGED <<now, balance, markets, bets, points>>

\* One page; the reader stops at the first empty one.
ReadPage ==
  LET page == PageOf(Feed(walk.filter, walk.sort), walk.page, walk.limit) IN
  /\ walk.at = "reading"
  /\ walk' = IF page = << >> THEN [walk EXCEPT !.at = "finished"]
             ELSE [walk EXCEPT !.page = @ + 1, !.seen = @ \cup ToSet(page)]
  /\ UNCHANGED <<now, balance, markets, bets, points>>

Next ==
  \/ \E n \in OutcomeCounts, closes \in {NoDeadline, now + BettingTime} : CreateMarket(n, closes)
  \/ \E u \in Users, m \in DOMAIN markets, amount \in StakeSizes :
       \E i \in Outcomes(m) : Place(u, m, i, amount)
  \/ \E m \in DOMAIN markets : \E winner \in Outcomes(m) : Settle(m, winner)
  \/ \E w \in Walks : StartWalk(w)
  \/ ReadPage

Spec == Init /\ [][Next]_vars

-----------------------------------------------------------------------------
(* Properties *)

Bet == [user : Users, market : DOMAIN markets, outcome : Nat, amount : StakeSizes,
        price : MinTick .. SCALE, status : {"active", "won", "lost"}, payout : Nat, created : Nat]

TypeOK ==
  /\ now \in Nat /\ balance \in [Users -> Nat]
  /\ \A m \in DOMAIN markets :
       /\ markets[m].status \in {"open", "resolved"} /\ markets[m].winner \in {0} \cup Outcomes(m)
       /\ markets[m].volumes \in [Outcomes(m) -> Nat] /\ markets[m].prices \in [Outcomes(m) -> Price]
  /\ \A k \in BetNumbers : bets[k] \in Bet /\ bets[k].outcome \in Outcomes(bets[k].market)
  /\ walk.start \cup walk.seen \subseteq BetNumbers

\* The prices of a market add up to exactly 1.0000 after every bet
\* (pricing.rs: "the prices always sum to exactly 1.0000").
PricesSumToOne == \A m \in DOMAIN markets : SumFunction(markets[m].prices) = SCALE

\* Rounding costs an outcome less than one tick against its exact share of
\* the volume, and gains it at most one: the remainder handed to the first
\* outcomes never piles up on one of them.
PricesTrackShares ==
  \A m \in DOMAIN markets :
    LET row == markets[m] IN
    row.total_volume > 0 =>
      \A i \in Outcomes(m) :
        /\ row.prices[i] * row.total_volume > row.volumes[i] * SCALE - row.total_volume
        /\ row.prices[i] * row.total_volume <= row.volumes[i] * SCALE + row.total_volume

\* The counters of a market row against the bets, and against the statistics
\* its bettors' profiles show: nothing is staked that no profile counts.
CountersMatchBets ==
  /\ \A m \in DOMAIN markets :
       LET on == {k \in BetNumbers : bets[k].market = m} IN
       /\ markets[m].total_volume = SumFunction(markets[m].volumes)
       /\ \A i \in Outcomes(m) :
            markets[m].volumes[i] =
              SumFunction([k \in {j \in on : bets[j].outcome = i} |-> bets[k].amount])
       /\ markets[m].participants = Cardinality({bets[k].user : k \in on})
  /\ SumFunction([u \in Users |-> Profile(u).total_volume]) =
       SumFunction([m \in DOMAIN markets |-> markets[m].total_volume])

\* Backing an outcome of a market that has volume never makes it cheaper, and
\* no rival dearer, by more than the one tick rounding can move.
BackingRaisesPrice ==
  [][\A m \in DOMAIN markets : markets[m].total_volume > 0 =>
       \A i \in Outcomes(m) :
         IF markets'[m].volumes[i] > markets[m].volumes[i]
         THEN markets'[m].prices[i] >= markets[m].prices[i] - 1
         ELSE markets'[m].prices[i] <= markets[m].prices[i] + 1]_vars

\* The average shown with a bet is a price some bet of its position was bought
\* at, or lies between two of them, so never below the minimum tick
\* (bet_repository.rs: "flooring can never drop below the minimum tick"); once
\* the bet is settled it is the bet's own price, whatever else the bettor did
\* (bet.rs: "Once the bet settles the position is closed, so the bet's own
\* price is reported").
ShownAverageIsAPrice ==
  \A k \in BetNumbers :
    LET b == bets[k]
        position == {j \in BetNumbers : Holds(bets[j], b.user, b.market, b.outcome)}
        shown == ShownAverage(bets, b)
    IN  IF b.status # "active" THEN shown = b.price
        ELSE /\ shown >= MinTick
             /\ \E j \in position : bets[j].price <= shown
             /\ \E j \in position : bets[j].price >= shown

\* The boards as every later computation takes them: an exact partition, each
\* price within a tick of its share, volumes the sums of the stakes, and every
\* average taken of its prices a price.
BoardInv ==
  TypeOK /\ PricesSumToOne /\ PricesTrackShares /\ CountersMatchBets /\ ShownAverageIsAPrice

\* The in-memory repositories answer as the SQL ones may: the same bets in an
\* order ORDER BY allows, for the feed and for every user and market; the same
\* statistics and positions; market lists with the same keys in every place
\* (rows of one key may differ in order, where only the SQL falls back on the
\* newest first); and the same featured market.
RepositoriesAgree ==
  LET BetsAgree(scope) ==
        \A filter \in BetFilters, sort \in BetSorts :
          LET listing == MemBets(bets, scope, filter, sort) IN
          /\ ToSet(listing) = PgBetRows(bets, scope, filter)
          /\ IsInjective(listing)
          /\ Ordered(listing, LAMBDA j, k : BetBefore(sort, bets[j], bets[k]))
      Key(sort, m) == CASE sort = "popular" -> Popularity(m)
                        [] sort = "volume" -> m.total_volume
                        [] sort = "newest" -> m.created
                        [] sort = "closing_soon" -> m.closes
      Keys(sort, listing) == [n \in DOMAIN listing |-> Key(sort, markets[listing[n]])]
  IN
  /\ BetsAgree(BetNumbers)
  /\ \A u \in Users : BetsAgree(OfUser(bets, u)) /\ MemStats(bets, u) = PgStats(bets, u)
  /\ \A m \in DOMAIN markets :
       /\ BetsAgree(OfMarket(bets, m))
       /\ \A u \in Users, i \in Outcomes(m) : MemPosition(bets, u, m, i) = PgPosition(bets, u, m, i)
  /\ \A sort \in MarketSorts, status \in {"open", "resolved"} :
       LET mem == MemMarkets(markets, status, sort)
           pg  == PgMarkets(markets, status, sort)
       IN  ToSet(mem) = ToSet(pg) /\ Keys(sort, mem) = Keys(sort, pg)
  /\ MemFeatured(markets) = PgFeatured(markets)

\* A reader who pages through the feed while others bet and resolve has seen,
\* at the end, every bet that was listed when it started and still is.  Only the
\* filter on active bets can make it lose one, when a bet that came before the
\* reader's place left the listing and moved the rest up: one it had seen, or one
\* placed since.
WalkMissesNothing ==
  LET StillListed(k) == Matches(walk.filter, bets[k].status) IN
  walk.at = "finished" =>
    \/ \A k \in walk.start \ walk.seen : ~StillListed(k)
    \/ /\ walk.filter = "active"
       /\ \E k \in BetNumbers : (k \in walk.seen \/ k > walk.last) /\ ~StillListed(k)

\* The chart of any window has, for every outcome, one point for each interval
\* something was recorded in, and ends with the last price recorded in the
\* window; left open at its end, it ends at the price on the board.
ChartEndsAtPrice ==
  \A m \in DOMAIN markets : \A from \in markets[m].created .. now : \A to \in from .. now :
    LET charts == Chart(m, from, to)
        raws   == RawChart(m, from, to)
    IN  \A i \in Outcomes(m) :
          LET chart == SeriesOf(points, charts, i)
              raw   == SeriesOf(points, raws, i)
          IN  /\ Cardinality(chart) = Cardinality({points[raws[n]].at \div Bucket : n \in raw})
              /\ raw # {} => charts[Max(chart)] = raws[Max(raw)]
              /\ (raw # {} /\ to = now) => points[charts[Max(chart)]].price = markets[m].prices[i]
=============================================================================
