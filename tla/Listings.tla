------------------------------ MODULE Listings -------------------------------
(***************************************************************************)
(* The read side of markets, bets and price history: what the listing,     *)
(* statistics and chart queries return for given tables.                   *)
(*                                                                         *)
(* Both persistence back ends are here.  The in-memory repositories, which *)
(* tests and development run on, compute a listing in Rust over a vector   *)
(* in insertion order (Mem...); the Postgres ones leave it to SQL (Pg...). *)
(* Ledger states that they answer alike.                                   *)
(*                                                                         *)
(* A bet is a record with user, market, outcome, amount, price, status and *)
(* created; a market one with status, closes, created, total_volume and    *)
(* participants; a price point one with market, outcome, price and at.     *)
(* Rows are named by their places in the table, oldest first, and a        *)
(* listing is a sequence of places.                                        *)
(***************************************************************************)
EXTENDS Pricing, SequencesExt

CONSTANTS MaxLimit,   \* hard cap on a page (100 in the code)
          Bucket      \* ticks of the clock in one interval of a chart

ASSUME ListingsAssumption == MaxLimit \in Nat \ {0} /\ Bucket \in Nat \ {0}

NoDeadline == 0

\* The members of a finite set in a strict total order, each behind those before it.
InOrder(S, Comes(_, _)) ==
  LET places == {<<Cardinality({j \in S : Comes(j, k)}) + 1, k>> : k \in S}
  IN  [n \in 1 .. Cardinality(S) |-> CHOOSE k \in S : <<n, k>> \in places]

\* Vec::sort_by of the rows at some places: stable, so that rows no comparison
\* separates stay in insertion order.
StableSort(S, Before(_, _)) ==
  InOrder(S, LAMBDA j, k : Before(j, k) \/ (~Before(k, j) /\ j < k))

\* What ORDER BY promises of the rows it was given, ties in any order.
Ordered(listing, Before(_, _)) ==
  \A n \in 1 .. Len(listing) - 1 : ~Before(listing[n + 1], listing[n])

-----------------------------------------------------------------------------
(* Pages *)

ClampLimit(limit) == Min({Max({limit, 1}), MaxLimit})

\* Mutant: pages counted from zero.
OffsetFromZero(page, limit) == page * ClampLimit(limit)

\* (page - 1) * limit in i64, the page being 1-based.
Offset(page, limit) == WrapI64((Max({page, 1}) - 1) * ClampLimit(limit))

\* skip(offset).take(limit); a negative offset counts as zero.
PageOf(listing, page, limit) ==
  LET skip == Max({Offset(page, limit), 0}) IN
  SubSeq(listing, skip + 1, Min({skip + ClampLimit(limit), Len(listing)}))

-----------------------------------------------------------------------------
(* Bets *)

BetSorts == {"newest", "popular"}

\* BetStatusFilter: every bet, those of one status, or all that are settled.  Bets
\* of a cancelled market would be refunded; no use case cancels one.
BetStatuses == {"active", "won", "lost", "refunded"}
BetFilters == {"any", "settled"} \cup BetStatuses

BetBefore(sort, a, b) ==
  \/ sort = "popular" /\ a.amount > b.amount
  \/ (sort = "newest" \/ a.amount = b.amount) /\ a.created > b.created

\* Mutant: the history view forgets the bets that lost.
MatchesWinsOnly(filter, status) ==
  filter = "any" \/ filter = status \/ (filter = "settled" /\ status = "won")

\* BetStatusFilter::matches.
Matches(filter, status) ==
  filter = "any" \/ filter = status \/ (filter = "settled" /\ status # "active")

\* The bets behind the history of a user and the page of a market; the feed is
\* over all of them.
OfUser(bets, u) == {k \in DOMAIN bets : bets[k].user = u}
OfMarket(bets, m) == {k \in DOMAIN bets : bets[k].market = m}

\* filtered: what the status filter keeps of them, sorted, before paging.
MemBets(bets, scope, filter, sort) ==
  StableSort({k \in scope : Matches(filter, bets[k].status)},
             LAMBDA j, k : BetBefore(sort, bets[j], bets[k]))

\* The rows the WHERE clause of `list' keeps.
PgBetRows(bets, scope, filter) ==
  {k \in scope : /\ filter \in BetStatuses => bets[k].status = filter
                 /\ filter = "settled" => bets[k].status # "active"}

MemStats(bets, u) ==
  FoldLeft(LAMBDA s, b :
             IF b.user # u THEN s
             ELSE [total_bets |-> s.total_bets + 1,
                   wins |-> s.wins + (IF b.status = "won" THEN 1 ELSE 0),
                   losses |-> s.losses + (IF b.status = "lost" THEN 1 ELSE 0),
                   total_volume |-> s.total_volume + b.amount],
           [total_bets |-> 0, wins |-> 0, losses |-> 0, total_volume |-> 0], bets)

PgStats(bets, u) ==
  LET own == OfUser(bets, u) IN
  [total_bets |-> Cardinality(own),
   wins |-> Cardinality({k \in own : bets[k].status = "won"}),
   losses |-> Cardinality({k \in own : bets[k].status = "lost"}),
   total_volume |-> SumFunction([k \in own |-> bets[k].amount])]

Holds(b, u, m, i) == b.user = u /\ b.market = m /\ b.outcome = i /\ b.status = "active"

NoPosition == -1

\* active_positions: the stake-weighted mean of the active bets of one bettor
\* on one outcome.
MemPosition(bets, u, m, i) ==
  LET acc == FoldLeft(LAMBDA s, b : IF Holds(b, u, m, i)
                                    THEN <<s[1] + b.amount * b.price, s[2] + b.amount>> ELSE s,
                      <<0, 0>>, bets)
  IN  IF acc[2] = 0 THEN NoPosition ELSE TruncDiv(acc[1], acc[2])

PgPosition(bets, u, m, i) ==
  LET ks == {k \in DOMAIN bets : Holds(bets[k], u, m, i)} IN
  IF ks = {} THEN NoPosition
  ELSE AveragePrice([k \in ks |-> bets[k].amount], [k \in ks |-> bets[k].price])

\* enrich: the avg_price shown with a bet, its own price when the bettor holds
\* no open position on the outcome.
ShownAverage(bets, b) ==
  LET position == MemPosition(bets, b.user, b.market, b.outcome) IN
  IF position = NoPosition THEN b.price ELSE position

-----------------------------------------------------------------------------
(* Markets *)

MarketSorts == {"popular", "newest", "volume", "closing_soon"}

Popularity(m) == m.total_volume + m.participants

\* closes_at ascending, none last.
ClosesBefore(a, b) ==
  a.closes # NoDeadline /\ (b.closes = NoDeadline \/ a.closes < b.closes)

\* The comparison of the in-memory list; what it leaves equal stays in
\* insertion order.
MemMarketBefore(sort, a, b) ==
  \/ sort = "popular" /\ Popularity(a) > Popularity(b)
  \/ sort = "newest" /\ a.created > b.created
  \/ sort = "volume" /\ a.total_volume > b.total_volume
  \/ sort = "closing_soon" /\ ClosesBefore(a, b)

\* ORDER BY of the SQL list: the same key and then the newest.
PgMarketBefore(sort, a, b) ==
  \/ sort = "popular" /\ Popularity(a) > Popularity(b)
  \/ sort = "volume" /\ a.total_volume > b.total_volume
  \/ sort = "closing_soon" /\ a.closes # NoDeadline /\ (a.closes < b.closes \/ b.closes = NoDeadline)
  \/ /\ a.created > b.created
     /\ sort = "popular" => Popularity(a) = Popularity(b)
     /\ sort = "volume" => a.total_volume = b.total_volume
     /\ sort = "closing_soon" => a.closes = b.closes

OfStatus(markets, status) == {k \in DOMAIN markets : markets[k].status = status}

MemMarkets(markets, status, sort) ==
  StableSort(OfStatus(markets, status), LAMBDA j, k : MemMarketBefore(sort, markets[j], markets[k]))

PgMarkets(markets, status, sort) ==
  StableSort(OfStatus(markets, status), LAMBDA j, k : PgMarketBefore(sort, markets[j], markets[k]))

\* max_by_key over the open markets: the last of the most popular ones.
MemFeatured(markets) ==
  {k \in DOMAIN markets :
     /\ markets[k].status = "open"
     /\ \A j \in DOMAIN markets : markets[j].status = "open" =>
          \/ Popularity(markets[j]) < Popularity(markets[k])
          \/ Popularity(markets[j]) = Popularity(markets[k]) /\ j <= k}

\* The first row of the popular order among the open markets.
PgFeatured(markets) ==
  {k \in DOMAIN markets :
     /\ markets[k].status = "open"
     /\ \A j \in DOMAIN markets : markets[j].status = "open" =>
          ~PgMarketBefore("popular", markets[j], markets[k])}

-----------------------------------------------------------------------------
(* Price history *)

\* The window asked for, both ends included.
InWindow(p, m, from, to) == p.market = m /\ p.at \in from .. to
Window(points, m, from, to) == {k \in DOMAIN points : InWindow(points[k], m, from, to)}

InTime(points, ks) == StableSort(ks, LAMBDA j, k : points[j].at < points[k].at)

\* Every raw point of the window, oldest first; the interval is ignored.
MemHistory(points, m, from, to) == InTime(points, Window(points, m, from, to))

\* Mutant: DISTINCT ON keeps the first point of a bucket.
LastOfBucketFirst(p, rows) ==
  \A q \in rows : q.outcome = p.outcome /\ q.at \div Bucket = p.at \div Bucket => q.at >= p.at

\* DISTINCT ON (outcome_id, bucket) ... ORDER BY recorded_at DESC.
LastOfBucket(p, rows) ==
  \A q \in rows : q.outcome = p.outcome /\ q.at \div Bucket = p.at \div Bucket => q.at <= p.at

\* The last point of every bucket of the window.
PgHistory(points, m, from, to) ==
  LET window == Window(points, m, from, to)
      rows == {points[k] : k \in window}
  IN  InTime(points, {k \in window : LastOfBucket(points[k], rows)})

\* group_price_history: one series per outcome, the places in the history of
\* the outcome's rows; they keep the order of the history.
SeriesOf(points, history, i) == {n \in DOMAIN history : points[history[n]].outcome = i}
=============================================================================
