------------------------------ MODULE LiveFeeds ------------------------------
(***************************************************************************)
(* The live feeds of bets and prices: committed placements, the outbox     *)
(* that carries their events (Outbox), and the two broadcasters behind it  *)
(* (application/src/broadcasters/bet.rs and market.rs).  A broadcaster     *)
(* reads the database and then sends to the message broker: two steps that *)
(* other processes' steps fall between.                                    *)
(*                                                                         *)
(* A market's prices are the number of the placement that wrote them; a    *)
(* feed is what has been sent on it so far.                                *)
(***************************************************************************)
EXTENDS Integers, FiniteSets

CONSTANTS Bets, Markets, Processors, Batch

ASSUME LiveFeedsAssumption == IsFiniteSet(Bets) /\ Batch \in Nat \ {0}

VARIABLES
  row, id, lastId, handled, pc, batch, todo, delivered, listener, notified, calm,  \* Outbox
  marketOf,    \* the market of each bet
  version,     \* the committed prices of each market
  stage,       \* how far each processor's current handler is
  seen,        \* the prices it has read
  betFeed,     \* bets sent on their market's feed
  globalFeed,  \* bets sent on the global feed
  priceFeed    \* the prices last sent on each market's feed

outboxVars == <<row, id, lastId, handled, pc, batch, todo, delivered, listener, notified, calm>>
feeds      == <<betFeed, globalFeed, priceFeed>>
vars       == <<outboxVars, marketOf, version, stage, seen, feeds>>

\* In the order place publishes them; the balance event is the cache's.
Topics == {"BetPlaced", "MarketPricesUpdated"}
Placement(b) == {b} \X Topics

O == INSTANCE Outbox WITH
  Events <- Bets \X Topics, Txs <- {Placement(b) : b \in Bets},
  Poison <- {}, Undecodable <- {}

Committed(b) == row[<<b, "BetPlaced">>] \in {"pending", "processed", "pruned"}

TypeOK ==
  /\ O!TypeOK
  /\ marketOf \in [Bets -> Markets]
  /\ version \in [Markets -> Nat]
  /\ stage \in [Processors -> {"idle", "marketSent", "read"}]
  /\ seen \in [Processors -> Nat]
  /\ betFeed \subseteq Bets /\ globalFeed \subseteq Bets
  /\ priceFeed \in [Markets -> Nat]

Init ==
  /\ O!Init
  /\ marketOf \in [Bets -> Markets]
  /\ version = [m \in Markets |-> 0]
  /\ stage = [p \in Processors |-> "idle"]
  /\ seen = [p \in Processors |-> 0]
  /\ betFeed = {} /\ globalFeed = {}
  /\ priceFeed = [m \in Markets |-> 0]

-----------------------------------------------------------------------------
(* Placements: publish runs last in place, under the locks on the market's  *)
(* rows.                                                                    *)

Insert(b, topic) ==
  /\ topic = "MarketPricesUpdated" => row[<<b, "BetPlaced">>] = "inserted"
  /\ \A c \in Bets \ {b} : marketOf[c] = marketOf[b] => row[<<c, "BetPlaced">>] # "inserted"
  /\ O!Insert(<<b, topic>>)
  /\ UNCHANGED <<marketOf, version, stage, seen, feeds>>

Commit(b) ==
  /\ O!Commit(Placement(b))
  /\ version' = [version EXCEPT ![marketOf[b]] = @ + 1]
  /\ UNCHANGED <<marketOf, stage, seen, feeds>>

Abort(b) ==
  /\ O!Abort(Placement(b))
  /\ UNCHANGED <<marketOf, version, stage, seen, feeds>>

-----------------------------------------------------------------------------
(* Broadcasters *)

\* The handler returns: Ok, or a failure that may come after the broker has
\* taken the message.
Return(p, e) ==
  /\ O!HandleOk(p, e) \/ O!HandleFail(p, e)
  /\ stage' = [stage EXCEPT ![p] = "idle"]
  /\ seen' = [seen EXCEPT ![p] = 0]
  /\ UNCHANGED <<marketOf, version>>

\* Mutant: the global ticker is sent before the market's feed.
SendGlobalFirst(p, b) ==
  /\ O!Current(p, <<b, "BetPlaced">>)
  /\ stage[p] = "idle"
  /\ stage' = [stage EXCEPT ![p] = "marketSent"]
  /\ globalFeed' = globalFeed \cup {b}
  /\ UNCHANGED <<outboxVars, marketOf, version, seen, betFeed, priceFeed>>

\* BetPlacedBroadcaster: the market's feed first,
SendToMarket(p, b) ==
  /\ O!Current(p, <<b, "BetPlaced">>)
  /\ stage[p] = "idle"
  /\ stage' = [stage EXCEPT ![p] = "marketSent"]
  /\ betFeed' = betFeed \cup {b}
  /\ UNCHANGED <<outboxVars, marketOf, version, seen, globalFeed, priceFeed>>

\* then the global one.
SendToGlobal(p, b) ==
  /\ stage[p] = "marketSent"
  /\ globalFeed' = globalFeed \cup {b}
  /\ Return(p, <<b, "BetPlaced">>)
  /\ UNCHANGED <<betFeed, priceFeed>>

\* Mutant: the event carries the prices of its own placement.
PricesOfEvent(b) ==
  Cardinality({c \in Bets : /\ marketOf[c] = marketOf[b] /\ Committed(c)
                            /\ id[<<c, "BetPlaced">>] <= id[<<b, "BetPlaced">>]})

\* The event carries the market's id; the prices are the ones in the database.
PricesToSend(b) == version[marketOf[b]]

\* MarketPriceUpdateBroadcaster: outcomes_for,
ReadPrices(p, b) ==
  /\ O!Current(p, <<b, "MarketPricesUpdated">>)
  /\ stage[p] = "idle"
  /\ stage' = [stage EXCEPT ![p] = "read"]
  /\ seen' = [seen EXCEPT ![p] = PricesToSend(b)]
  /\ UNCHANGED <<outboxVars, marketOf, version, feeds>>

\* then the broadcast of what it read.
SendPrices(p, b) ==
  /\ stage[p] = "read"
  /\ priceFeed' = [priceFeed EXCEPT ![marketOf[b]] = seen[p]]
  /\ Return(p, <<b, "MarketPricesUpdated">>)
  /\ UNCHANGED <<betFeed, globalFeed>>

\* Mutant: the error of a failed read or send is dropped and Ok returned.
HandlerSwallowsError(p, b, topic) ==
  /\ O!HandleOk(p, <<b, topic>>)
  /\ stage' = [stage EXCEPT ![p] = "idle"]
  /\ seen' = [seen EXCEPT ![p] = 0]
  /\ UNCHANGED <<marketOf, version, feeds>>

\* A read or a send fails without effect: the event stays pending.
HandlerFails(p, b, topic) ==
  /\ O!HandleFail(p, <<b, topic>>)
  /\ stage' = [stage EXCEPT ![p] = "idle"]
  /\ seen' = [seen EXCEPT ![p] = 0]
  /\ UNCHANGED <<marketOf, version, feeds>>

HandlerStep(p) ==
  \E b \in Bets : SendToMarket(p, b) \/ SendToGlobal(p, b) \/ ReadPrices(p, b) \/ SendPrices(p, b)

-----------------------------------------------------------------------------

\* The processor's own steps.
ProcessorStep(p) ==
  /\ O!Claim(p) \/ O!FinishBatch(p) \/ O!Wake(p) \/ O!Start(p)
  /\ UNCHANGED <<marketOf, version, stage, seen, feeds>>

FaultsEnd == O!FaultsEnd /\ UNCHANGED <<marketOf, version, stage, seen, feeds>>

\* A fault takes the running handler with it.
Fault(p) ==
  /\ O!Fault(p)
  /\ stage' = [stage EXCEPT ![p] = "idle"]
  /\ seen' = [seen EXCEPT ![p] = 0]
  /\ UNCHANGED <<marketOf, version, feeds>>

Next ==
  \/ \E b \in Bets : (\E topic \in Topics : Insert(b, topic)) \/ Commit(b) \/ Abort(b)
  \/ \E p \in Processors : HandlerStep(p) \/ ProcessorStep(p) \/ Fault(p)
  \/ \E p \in Processors, b \in Bets, topic \in Topics : HandlerFails(p, b, topic)
  \/ FaultsEnd

Spec == Init /\ [][Next]_vars

\* As in Outbox: processors run and are restarted, and a step of a handler that
\* is tried for ever succeeds.
Fairness ==
  /\ \A p \in Processors : WF_vars(ProcessorStep(p)) /\ WF_vars(HandlerStep(p))
  /\ \A b \in Bets :
       /\ SF_vars(\E p \in Processors : SendToMarket(p, b))
       /\ SF_vars(\E p \in Processors : SendToGlobal(p, b) /\ <<b, "BetPlaced">> \in delivered'[p])
       /\ SF_vars(\E p \in Processors : ReadPrices(p, b))
       /\ SF_vars(\E p \in Processors : SendPrices(p, b) /\ <<b, "MarketPricesUpdated">> \in delivered'[p])

FairSpec == Spec /\ Fairness

-----------------------------------------------------------------------------
(* Properties *)

\* A feed never shows prices older than it has shown: redelivered, retried or
\* reordered events do not bring an old price back (broadcasters/market.rs: an
\* event "broadcasts the current truth rather than resurrecting a stale
\* snapshot").
PriceFeedNeverGoesBack ==
  [][\A m \in Markets : priceFeed'[m] >= priceFeed[m]]_vars

\* Whoever watches one market does not learn of its bets later than the global
\* ticker does (broadcasters/bet.rs), also when a send fails between the two.
MarketFeedFirst == globalFeed \subseteq betFeed

\* Every committed bet reaches both feeds once the faults are over, whatever
\* failed before.
EveryBetBroadcast ==
  \A b \in Bets : (calm /\ Committed(b)) ~> (b \in betFeed /\ b \in globalFeed)

\* When every price event of a market has been delivered, its feed shows the
\* market's prices: no watcher is left with a stale price until the next bet
\* (broadcasters/market.rs: "a redelivered or reordered event broadcasts the
\* current truth rather than resurrecting a stale snapshot").
DrainedFeedIsCurrent ==
  \A m \in Markets :
    (\A b \in Bets : marketOf[b] = m => row[<<b, "MarketPricesUpdated">>] # "pending")
      => priceFeed[m] = version[m]

\* With the types: what watchers have seen at any time, and at rest.
FeedsInv == TypeOK /\ MarketFeedFirst /\ DrainedFeedIsCurrent
=============================================================================
