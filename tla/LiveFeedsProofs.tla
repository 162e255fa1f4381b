--------------------------- MODULE LiveFeedsProofs ---------------------------
(***************************************************************************)
(* Proofs about LiveFeeds, for any number of bets, markets and processors  *)
(* and any batch size; what needs the processors to be one says so.        *)
(***************************************************************************)
EXTENDS LiveFeeds, FiniteSetTheorems, TLAPS

USE LiveFeedsAssumption

\* The theorems about the outbox, for this instance of it.
P == INSTANCE OutboxProofs WITH
  Events <- Bets \X Topics, Txs <- {Placement(b) : b \in Bets},
  Poison <- {}, Undecodable <- {}

-----------------------------------------------------------------------------
(* The outbox underneath *)

\* The instance satisfies what Outbox assumes of its constants.
LEMMA TxsGroupEvents == P!OutboxAssumption
BY DEF Placement, P!OutboxAssumption

\* Counting means the same everywhere.
LEMMA SameCardinality == \A S : O!Cardinality(S) = Cardinality(S) /\ P!Cardinality(S) = Cardinality(S)
BY DEF O!Cardinality, P!Cardinality, Cardinality

\* Each of the outbox's own steps, in the module and in its proofs.
LEMMA SameSteps ==
  /\ \A e : O!Insert(e) => P!Insert(e)
  /\ \A T : (O!Commit(T) => P!Commit(T)) /\ (O!Abort(T) => P!Abort(T))
  /\ \A p : /\ O!Claim(p) => P!Claim(p)
            /\ O!FinishBatch(p) => P!FinishBatch(p)
            /\ O!Wake(p) => P!Wake(p)
            /\ O!Start(p) => P!Start(p)
            /\ O!Fault(p) => P!Fault(p)
            /\ \A e : O!HandleOk(p, e) => P!HandleOk(p, e)
            /\ \A e : O!HandleFail(p, e) => P!HandleFail(p, e)
  /\ O!FaultsEnd => P!FaultsEnd
<1>1. /\ \A e : O!Insert(e) => P!Insert(e)
      /\ \A T : (O!Commit(T) => P!Commit(T)) /\ (O!Abort(T) => P!Abort(T))
      /\ O!FaultsEnd => P!FaultsEnd
  BY DEF O!Insert, P!Insert, O!Commit, P!Commit, O!Abort, P!Abort, O!FaultsEnd, P!FaultsEnd,
         O!procVars, P!procVars, O!rowVars, P!rowVars
<1>0. /\ \A S, n : O!FirstOf(S, n) = P!FirstOf(S, n)
      /\ O!Claimable = P!Claimable
  BY SameCardinality DEF O!FirstOf, P!FirstOf, O!Claimable, P!Claimable, O!Pending, P!Pending, O!Locked, P!Locked
<1>2. ASSUME NEW p
      PROVE  /\ O!Claim(p) => P!Claim(p)
             /\ O!FinishBatch(p) => P!FinishBatch(p)
             /\ O!Start(p) => P!Start(p)
  <2>1. O!Claim(p) => P!Claim(p)
    BY <1>0, Zenon DEF O!Claim, P!Claim, O!rowVars, P!rowVars
  <2>2. O!FinishBatch(p) => P!FinishBatch(p)
    BY SameCardinality DEF O!FinishBatch, P!FinishBatch, O!Marked, P!Marked, O!LeaveBatch, P!LeaveBatch
  <2>3. O!Start(p) => P!Start(p)
    BY DEF O!Start, P!Start, O!rowVars, P!rowVars
  <2>4. QED
    BY <2>1, <2>2, <2>3
<1>3. ASSUME NEW p
      PROVE  /\ O!Wake(p) => P!Wake(p)
             /\ O!Fault(p) => P!Fault(p)
  BY DEF O!Wake, P!Wake, O!WakeOnNotify, P!WakeOnNotify, O!Sweep, P!Sweep,
         O!ListenerDrops, P!ListenerDrops, O!Fault, P!Fault, O!BatchFails, P!BatchFails,
         O!Crash, P!Crash, O!LeaveBatch, P!LeaveBatch, O!rowVars, P!rowVars
<1>4. ASSUME NEW p, NEW e
      PROVE  /\ O!HandleOk(p, e) => P!HandleOk(p, e)
             /\ O!HandleFail(p, e) => P!HandleFail(p, e)
  BY <1>0 DEF O!HandleOk, P!HandleOk, O!HandleFail, P!HandleFail, O!Current, P!Current,
              O!rowVars, P!rowVars
<1>5. QED
  BY <1>1, <1>2, <1>3, <1>4

\* A broadcaster's handler returns to the outbox or leaves it alone.
LEMMA HandlersOnOutbox ==
  ASSUME NEW p \in Processors, NEW e \in Bets \X Topics, O!HandleOk(p, e) \/ O!HandleFail(p, e)
  PROVE  P!Next
<1>1. P!Handle(p)
  BY SameSteps DEF P!Handle
<1>2. QED
  BY <1>1 DEF P!Next

\* Every step of the composition is a step of the outbox or none.
LEMMA StepsOnOutbox == [Next]_vars => [P!Next]_(P!vars)
<1> SUFFICES ASSUME [Next]_vars PROVE P!Next \/ UNCHANGED outboxVars
  BY DEF outboxVars, P!vars, P!rowVars, P!procVars
<1>1. ASSUME NEW b \in Bets, NEW topic \in Topics, Insert(b, topic)
      PROVE  P!Next
  <2>1. P!Insert(<<b, topic>>) /\ <<b, topic>> \in Placement(b)
    BY <1>1, SameSteps DEF Insert, Placement
  <2>2. QED
    BY <2>1 DEF P!Next, P!Publish
<1>2. ASSUME NEW b \in Bets, Commit(b) \/ Abort(b)
      PROVE  P!Next
  BY <1>2, SameSteps DEF Commit, Abort, P!Next, P!Publish
<1>3. ASSUME NEW p \in Processors, HandlerStep(p)
      PROVE  P!Next \/ UNCHANGED outboxVars
  <2>1. PICK b \in Bets : SendToMarket(p, b) \/ SendToGlobal(p, b) \/ ReadPrices(p, b) \/ SendPrices(p, b)
    BY <1>3 DEF HandlerStep
  <2>2. CASE SendToMarket(p, b) \/ ReadPrices(p, b)
    BY <2>2 DEF SendToMarket, ReadPrices
  <2>3. CASE SendToGlobal(p, b) \/ SendPrices(p, b)
    <3>1. \A topic \in Topics : <<b, topic>> \in Bets \X Topics
      OBVIOUS
    <3>2. QED
      BY <2>3, <3>1, HandlersOnOutbox DEF SendToGlobal, SendPrices, Return, Topics
  <2>4. QED
    BY <2>1, <2>2, <2>3
<1>4. ASSUME NEW p \in Processors, ProcessorStep(p) \/ Fault(p)
      PROVE  P!Next
  BY <1>4, SameSteps DEF ProcessorStep, Fault, P!Next
<1>5. ASSUME NEW p \in Processors, NEW b \in Bets, NEW topic \in Topics, HandlerFails(p, b, topic)
      PROVE  P!Next
  BY <1>5, HandlersOnOutbox DEF HandlerFails
<1>6. CASE FaultsEnd
  BY <1>6, SameSteps DEF FaultsEnd, P!Next
<1>7. CASE UNCHANGED vars
  BY <1>7 DEF vars
<1>8. QED
  BY <1>1, <1>2, <1>3, <1>4, <1>5, <1>6, <1>7 DEF Next

\* The composition runs on the outbox as it is: whatever the placements and the
\* broadcasters do, the outbox keeps its specification, and with it what
\* OutboxProofs shows (main.rs registers the broadcasters with the processor).
THEOREM RunsOnOutbox == Spec => P!Spec
<1>1. Init => P!Init
  BY DEF Init, O!Init, P!Init
<1>2. QED
  BY <1>1, StepsOnOutbox, PTL DEF Spec, P!Spec

\* Hence the claims are sound here.
LEMMA ClaimsHold == Spec => []P!DeliveryInv
BY RunsOnOutbox, TxsGroupEvents, P!ClaimsSafe, PTL

-----------------------------------------------------------------------------
(* The inductive invariant *)

Rows == Bets \X Topics

\* The outbox's invariant, in the words of this module.
OutboxSound ==
  /\ row \in [Rows -> P!RowStates] /\ id \in [Rows -> Nat] /\ lastId \in Nat
  /\ pc \in [Processors -> P!ProcStates]
  /\ \A p \in Processors : /\ todo[p] \subseteq batch[p] /\ delivered[p] \subseteq batch[p] \ todo[p]
                           /\ batch[p] \subseteq {e \in Rows : row[e] = "pending"}
                           /\ pc[p] # "handling" => batch[p] = {}
  /\ todo \in [Processors -> SUBSET Rows] /\ delivered \in [Processors -> SUBSET Rows]
  /\ \A b \in Bets : \A d, e \in Placement(b) :
       row[d] \in {"none", "inserted"} => row[e] \in {"none", "inserted"}

FeedTypes ==
  /\ marketOf \in [Bets -> Markets]
  /\ version \in [Markets -> Nat]
  /\ stage \in [Processors -> {"idle", "marketSent", "read"}]
  /\ seen \in [Processors -> Nat]
  /\ betFeed \subseteq Bets /\ globalFeed \subseteq Bets
  /\ priceFeed \in [Markets -> Nat]

\* The row has been inserted and not rolled back.
Written(e) == row[e] \notin {"none", "aborted"}

\* No two rows have one id, so a batch has one row at a time in hand.
IdsDistinct ==
  /\ \A e \in Rows : Written(e) => id[e] <= lastId
  /\ \A d, e \in Rows : (Written(d) /\ Written(e) /\ id[d] = id[e]) => d = e

\* It is e's turn in p's batch: Outbox's Current without the counting.
Turn(p, e) == pc[p] = "handling" /\ e \in todo[p] /\ \A d \in todo[p] : id[e] <= id[d]

\* A handler that is half-way works on an event of its kind, and has done the
\* first half for that event.
StageSound ==
  \A p \in Processors :
    /\ stage[p] = "marketSent" => \E b \in betFeed : Turn(p, <<b, "BetPlaced">>)
    /\ stage[p] = "read" => \E b \in Bets : Turn(p, <<b, "MarketPricesUpdated">>)

FeedsIInv == FeedTypes /\ IdsDistinct /\ StageSound /\ MarketFeedFirst

-----------------------------------------------------------------------------

\* What OutboxProofs shows of every state.
LEMMA DeliverySound == P!DeliveryInv => OutboxSound
BY DEF P!DeliveryInv, P!TypeOK, P!TxsAtomic, P!ClaimsSound, P!Pending, OutboxSound, Rows

\* The rows and the topics of a bet.
LEMMA RowsOf ==
  /\ \A b \in Bets : <<b, "BetPlaced">> \in Rows /\ <<b, "MarketPricesUpdated">> \in Rows
  /\ \A b \in Bets, topic \in Topics : <<b, topic>> \in Rows /\ <<b, topic>> \in Placement(b)
  /\ \A b, c \in Bets, t, u \in Topics : <<b, t>> = <<c, u>> => b = c /\ t = u
  /\ \A e \in Rows : \E b \in Bets, t \in Topics : e = <<b, t>>
  /\ \A b \in Bets : \A e \in Placement(b) : e = <<b, "BetPlaced">> \/ e = <<b, "MarketPricesUpdated">>
  /\ Topics = {"BetPlaced", "MarketPricesUpdated"}
BY DEF Rows, Topics, Placement

\* The rows of finitely many bets are finitely many.
LEMMA RowsFinite == IsFiniteSet(Rows)
<1>1. IsFiniteSet(Topics)
  <2>1. IsFiniteSet({"BetPlaced"})
    BY FS_Singleton
  <2>2. IsFiniteSet({"BetPlaced"} \cup {"MarketPricesUpdated"})
    BY <2>1, FS_AddElement
  <2>3. Topics = {"BetPlaced"} \cup {"MarketPricesUpdated"}
    BY DEF Topics
  <2>4. QED
    BY <2>2, <2>3
<1>2. QED
  BY <1>1, FS_Product DEF Rows

\* The first of a batch's rows by id is the one whose turn it is.
LEMMA CurrentTurn ==
  ASSUME OutboxSound, NEW p \in Processors, NEW e, O!Current(p, e)
  PROVE  Turn(p, e) /\ e \in Rows /\ row[e] = "pending" /\ e \notin delivered[p]
<1>1. /\ pc[p] = "handling" /\ e \in todo[p] /\ todo[p] \subseteq Rows
      /\ Cardinality({d \in todo[p] : id[d] < id[e]}) < 1
  BY SameCardinality DEF O!Current, O!FirstOf, OutboxSound
<1>2. IsFiniteSet({d \in todo[p] : id[d] < id[e]})
  BY <1>1, RowsFinite, FS_Subset
<1>3. {d \in todo[p] : id[d] < id[e]} = {}
  <2>1. Cardinality({d \in todo[p] : id[d] < id[e]}) = 0
    BY <1>1, <1>2, FS_CardinalityType
  <2>2. QED
    BY <1>2, <2>1, FS_EmptySet
<1>4. \A d \in todo[p] : id[e] <= id[d]
  BY <1>1, <1>3 DEF OutboxSound
<1>5. QED
  BY <1>1, <1>4 DEF Turn, OutboxSound

\* There is one at a time.
LEMMA TurnUnique ==
  ASSUME OutboxSound, IdsDistinct, NEW p \in Processors, NEW d, NEW e, Turn(p, d), Turn(p, e)
  PROVE  d = e
<1>1. d \in Rows /\ e \in Rows /\ row[d] = "pending" /\ row[e] = "pending"
  BY DEF Turn, OutboxSound
<1>2. id[d] <= id[e] /\ id[e] <= id[d] /\ id[d] \in Nat /\ id[e] \in Nat
  BY <1>1 DEF Turn, OutboxSound
<1>3. QED
  BY <1>1, <1>2 DEF IdsDistinct, Written

-----------------------------------------------------------------------------
(* What each step changes *)

\* The outbox side of the processor's own steps: it is between two handlers.
LEMMA ProcessorEffect ==
  ASSUME OutboxSound, NEW p \in Processors, ProcessorStep(p)
  PROVE  /\ UNCHANGED <<id, lastId, marketOf, version, stage, seen, betFeed, globalFeed, priceFeed>>
         /\ \A e : ~Turn(p, e)
         /\ \A q \in Processors \ {p} : pc'[q] = pc[q] /\ todo'[q] = todo[q] /\ delivered'[q] = delivered[q]
         /\ delivered'[p] \subseteq delivered[p]
         /\ \A e \in Rows : row'[e] = row[e]
              \/ (row[e] = "pending" /\ e \in delivered[p] /\ row'[e] = "processed")
              \/ (row[e] = "processed" /\ row'[e] = "pruned")
<1>1. UNCHANGED <<marketOf, version, stage, seen, betFeed, globalFeed, priceFeed>>
  BY DEF ProcessorStep, feeds
<1>2. CASE O!Claim(p)
  BY <1>1, <1>2 DEF O!Claim, O!rowVars, OutboxSound, Turn
<1>3. CASE O!FinishBatch(p)
  BY <1>1, <1>3 DEF O!FinishBatch, O!LeaveBatch, O!Marked, OutboxSound, Turn, Rows
<1>4. CASE O!Start(p)
  BY <1>1, <1>4 DEF O!Start, O!rowVars, OutboxSound, Turn
<1>5. CASE O!Wake(p)
  <2>1. CASE O!WakeOnNotify(p) \/ O!ListenerDrops(p)
    BY <1>1, <2>1 DEF O!WakeOnNotify, O!ListenerDrops, O!rowVars, OutboxSound, Turn
  <2>2. CASE O!Sweep(p)
    BY <1>1, <2>2 DEF O!Sweep, OutboxSound, Turn, Rows
  <2>3. QED
    BY <1>5, <2>1, <2>2 DEF O!Wake
<1>6. QED
  BY <1>2, <1>3, <1>4, <1>5 DEF ProcessorStep

\* A fault gives up the batch.
LEMMA FaultEffect ==
  ASSUME OutboxSound, NEW p \in Processors, Fault(p)
  PROVE  /\ UNCHANGED <<row, id, lastId, marketOf, version, betFeed, globalFeed, priceFeed>>
         /\ stage' = [stage EXCEPT ![p] = "idle"] /\ seen' = [seen EXCEPT ![p] = 0]
         /\ \A q \in Processors \ {p} : pc'[q] = pc[q] /\ todo'[q] = todo[q] /\ delivered'[q] = delivered[q]
         /\ delivered'[p] \subseteq delivered[p]
BY DEF Fault, O!Fault, O!BatchFails, O!Crash, O!LeaveBatch, O!rowVars, OutboxSound, feeds

\* A handler's return ends its turn; an event that failed is not delivered.
LEMMA ReturnEffect ==
  ASSUME OutboxSound, NEW p \in Processors, NEW e, O!HandleOk(p, e) \/ O!HandleFail(p, e)
  PROVE  /\ UNCHANGED <<row, id, lastId, pc>>
         /\ O!Current(p, e)
         /\ \A q \in Processors \ {p} : pc'[q] = pc[q] /\ todo'[q] = todo[q] /\ delivered'[q] = delivered[q]
         /\ delivered'[p] \subseteq delivered[p] \cup {e}
         /\ O!HandleFail(p, e) => delivered' = delivered
BY DEF O!HandleOk, O!HandleFail, O!rowVars, OutboxSound

-----------------------------------------------------------------------------
(* Preservation *)

\* The invariant holds before anything is placed.
LEMMA InitFeeds == Init => FeedsIInv
BY DEF Init, O!Init, FeedsIInv, FeedTypes, IdsDistinct, Written, StageSound, MarketFeedFirst, Rows

\* Ids stay distinct when no row gets one.
LEMMA IdsStay ==
  ASSUME IdsDistinct, UNCHANGED <<id, lastId>>, \A e \in Rows : Written(e)' => Written(e)
  PROVE  IdsDistinct'
BY DEF IdsDistinct

\* What a half-way handler relies on stays true while its batch, its ids and the
\* feeds do.
LEMMA StagesStay ==
  ASSUME OutboxSound, StageSound, UNCHANGED <<stage, betFeed>>,
         \A p \in Processors : stage[p] # "idle" =>
           pc'[p] = pc[p] /\ todo'[p] = todo[p] /\ \A e \in todo[p] : id'[e] = id[e]
  PROVE  StageSound'
<1> SUFFICES ASSUME NEW p \in Processors, stage[p] # "idle"
             PROVE  \A e : Turn(p, e) => Turn(p, e)'
  BY DEF StageSound
<1>1. QED
  BY DEF Turn

\* publish inserts a row with a new id; no batch has it.
LEMMA InsertFeeds ==
  ASSUME OutboxSound, FeedsIInv, NEW b \in Bets, NEW topic \in Topics, Insert(b, topic)
  PROVE  FeedsIInv'
<1> DEFINE e == <<b, topic>>
<1>1. /\ e \in Rows /\ row[e] = "none"
      /\ row' = [row EXCEPT ![e] = "inserted"] /\ id' = [id EXCEPT ![e] = lastId + 1]
      /\ lastId' = lastId + 1
      /\ UNCHANGED <<pc, todo, marketOf, version, stage, seen, betFeed, globalFeed, priceFeed>>
  BY RowsOf DEF Insert, O!Insert, O!procVars, feeds
<1> HIDE DEF e
<1>2. FeedTypes' /\ MarketFeedFirst'
  BY <1>1 DEF FeedsIInv, FeedTypes, MarketFeedFirst
<1>3. IdsDistinct'
  BY <1>1 DEF FeedsIInv, IdsDistinct, Written, OutboxSound
<1>4. \A p \in Processors : \A d \in todo[p] : id'[d] = id[d]
  BY <1>1 DEF OutboxSound
<1>5. StageSound'
  BY <1>1, <1>4, StagesStay DEF FeedsIInv
<1>6. QED
  BY <1>2, <1>3, <1>5 DEF FeedsIInv

\* The end of a placement touches no batch.
LEMMA EndPlacementEffect ==
  ASSUME OutboxSound, NEW b \in Bets, Commit(b) \/ Abort(b)
  PROVE  /\ UNCHANGED <<id, lastId, pc, todo, delivered, marketOf, stage, seen, betFeed, globalFeed, priceFeed>>
         /\ \A e \in Placement(b) : row[e] \in {"none", "inserted"}
         /\ \A e \in Rows : row'[e] = IF e \notin Placement(b) THEN row[e]
                                      ELSE IF Commit(b) THEN "pending" ELSE "aborted"
         /\ Commit(b) => /\ \A e \in Placement(b) : row[e] = "inserted"
                         /\ version' = [version EXCEPT ![marketOf[b]] = @ + 1]
         /\ ~Commit(b) => version' = version
<1>1. CASE Commit(b)
  BY <1>1 DEF Commit, O!Commit, feeds, Rows
<1>2. CASE ~Commit(b)
  <2>1. Abort(b)
    BY <1>2
  <2>2. \A e \in Placement(b) : row[e] \in {"none", "inserted"}
    BY <2>1 DEF Abort, O!Abort, OutboxSound
  <2>3. QED
    BY <1>2, <2>1, <2>2 DEF Abort, O!Abort, O!procVars, feeds, Rows
<1>3. QED
  BY <1>1, <1>2

\* A placement that ends touches neither feeds nor handlers.
LEMMA EndPlacementFeeds ==
  ASSUME OutboxSound, FeedsIInv, NEW b \in Bets, Commit(b) \/ Abort(b)
  PROVE  FeedsIInv'
<1>1. version' \in [Markets -> Nat]
  <2>1. version \in [Markets -> Nat] /\ marketOf[b] \in Markets
    BY DEF FeedsIInv, FeedTypes
  <2>2. QED
    BY <2>1, EndPlacementEffect
<1>2. FeedTypes' /\ MarketFeedFirst'
  BY <1>1, EndPlacementEffect DEF FeedsIInv, FeedTypes, MarketFeedFirst
<1>3. \A e \in Rows : Written(e)' => Written(e)
  BY EndPlacementEffect DEF Written
<1>4. QED
  BY <1>2, <1>3, IdsStay, StagesStay, EndPlacementEffect DEF FeedsIInv

\* A handler that is over relies on nothing; the others go on.
LEMMA StageOver ==
  ASSUME StageSound, FeedTypes, NEW p \in Processors,
         stage' = [stage EXCEPT ![p] = "idle"], UNCHANGED <<id, betFeed>>,
         \A q \in Processors \ {p} : pc'[q] = pc[q] /\ todo'[q] = todo[q]
  PROVE  StageSound'
<1> SUFFICES ASSUME NEW q \in Processors, stage'[q] # "idle"
             PROVE  /\ stage'[q] = "marketSent" => \E b \in betFeed : Turn(q, <<b, "BetPlaced">>)'
                    /\ stage'[q] = "read" => \E b \in Bets : Turn(q, <<b, "MarketPricesUpdated">>)'
  BY DEF StageSound
<1>1. q # p /\ stage'[q] = stage[q]
  BY DEF FeedTypes
<1>2. \A e : Turn(q, e) => Turn(q, e)'
  BY <1>1 DEF Turn
<1>3. QED
  BY <1>1, <1>2 DEF StageSound

\* The first half of a handler's work: its event keeps its turn.
LEMMA HalfwayFeeds ==
  ASSUME OutboxSound, FeedsIInv, NEW p \in Processors, NEW b \in Bets,
         SendToMarket(p, b) \/ ReadPrices(p, b)
  PROVE  FeedsIInv'
<1>1. /\ UNCHANGED <<row, id, lastId, pc, todo, marketOf, version, globalFeed, priceFeed>>
      /\ betFeed \subseteq betFeed' /\ betFeed' \subseteq Bets
      /\ seen' \in [Processors -> Nat]
  <2>1. version[marketOf[b]] \in Nat
    BY DEF FeedsIInv, FeedTypes
  <2>2. CASE SendToMarket(p, b)
    BY <2>2 DEF SendToMarket, outboxVars, FeedsIInv, FeedTypes
  <2>3. CASE ReadPrices(p, b)
    BY <2>1, <2>3 DEF ReadPrices, PricesToSend, outboxVars, feeds, FeedsIInv, FeedTypes
  <2>4. QED
    BY <2>2, <2>3
<1>2. \A q \in Processors : \A e : Turn(q, e) => Turn(q, e)'
  BY <1>1 DEF Turn
<1>3. \/ stage' = [stage EXCEPT ![p] = "marketSent"] /\ b \in betFeed' /\ Turn(p, <<b, "BetPlaced">>)
      \/ stage' = [stage EXCEPT ![p] = "read"] /\ Turn(p, <<b, "MarketPricesUpdated">>)
  BY CurrentTurn DEF SendToMarket, ReadPrices
<1>4. FeedTypes' /\ MarketFeedFirst'
  BY <1>1, <1>3 DEF FeedsIInv, FeedTypes, MarketFeedFirst
<1>5. IdsDistinct'
  BY <1>1, IdsStay DEF FeedsIInv, Written
<1>6. StageSound'
  <2> SUFFICES ASSUME NEW q \in Processors
               PROVE  /\ stage'[q] = "marketSent" => \E c \in betFeed' : Turn(q, <<c, "BetPlaced">>)'
                      /\ stage'[q] = "read" => \E c \in Bets : Turn(q, <<c, "MarketPricesUpdated">>)'
    BY DEF StageSound
  <2>1. CASE q = p
    BY <1>2, <1>3, <2>1 DEF FeedsIInv, FeedTypes
  <2>2. CASE q # p
    <3>1. stage'[q] = stage[q]
      BY <1>3, <2>2 DEF FeedsIInv, FeedTypes
    <3>2. QED
      BY <1>1, <1>2, <3>1 DEF FeedsIInv, StageSound
  <2>3. QED
    BY <2>1, <2>2
<1>7. QED
  BY <1>4, <1>5, <1>6 DEF FeedsIInv

\* A handler returns: what it has sent to the global feed was sent to its
\* market's before, because its event is the one whose turn it was.
LEMMA ReturnFeeds ==
  ASSUME OutboxSound, FeedsIInv, NEW p \in Processors, NEW b \in Bets, NEW topic \in Topics,
         SendToGlobal(p, b) \/ SendPrices(p, b) \/ HandlerFails(p, b, topic)
  PROVE  FeedsIInv'
<1>1. PICK e \in Rows :
        /\ O!HandleOk(p, e) \/ O!HandleFail(p, e)
        /\ SendToGlobal(p, b) => e = <<b, "BetPlaced">>
  BY RowsOf DEF SendToGlobal, SendPrices, HandlerFails, Return
<1>2. /\ UNCHANGED <<marketOf, version, betFeed>>
      /\ stage' = [stage EXCEPT ![p] = "idle"] /\ seen' = [seen EXCEPT ![p] = 0]
  BY DEF SendToGlobal, SendPrices, HandlerFails, Return, feeds
<1>3. /\ UNCHANGED <<row, id, lastId, pc>> /\ Turn(p, e)
      /\ \A q \in Processors \ {p} : pc'[q] = pc[q] /\ todo'[q] = todo[q]
  BY <1>1, ReturnEffect, CurrentTurn
<1>4. IdsDistinct' /\ StageSound'
  BY <1>2, <1>3, IdsStay, StageOver DEF FeedsIInv, Written
<1>5. priceFeed' \in [Markets -> Nat]
  <2>1. marketOf[b] \in Markets /\ seen[p] \in Nat
    BY DEF FeedsIInv, FeedTypes
  <2>2. CASE SendPrices(p, b)
    BY <2>1, <2>2 DEF SendPrices, FeedsIInv, FeedTypes
  <2>3. CASE ~SendPrices(p, b)
    BY <2>3 DEF SendToGlobal, HandlerFails, feeds, FeedsIInv, FeedTypes
  <2>4. QED
    BY <2>2, <2>3
<1>6. globalFeed' \subseteq betFeed
  <2>1. CASE SendToGlobal(p, b)
    <3>1. PICK c \in betFeed : Turn(p, <<c, "BetPlaced">>)
      BY <2>1 DEF SendToGlobal, FeedsIInv, StageSound
    <3>2. <<c, "BetPlaced">> = <<b, "BetPlaced">>
      BY <1>1, <1>3, <2>1, <3>1, TurnUnique DEF FeedsIInv
    <3>3. b \in betFeed
      BY <3>1, <3>2
    <3>4. QED
      BY <2>1, <3>3 DEF SendToGlobal, FeedsIInv, MarketFeedFirst
  <2>2. CASE ~SendToGlobal(p, b)
    BY <2>2 DEF SendPrices, HandlerFails, feeds, FeedsIInv, MarketFeedFirst
  <2>3. QED
    BY <2>1, <2>2
<1>7. FeedTypes' /\ MarketFeedFirst'
  BY <1>2, <1>5, <1>6 DEF FeedsIInv, FeedTypes, MarketFeedFirst
<1>8. QED
  BY <1>4, <1>7 DEF FeedsIInv

\* A processor's own steps come between two handlers.
LEMMA ProcessorFeeds ==
  ASSUME OutboxSound, FeedsIInv, NEW p \in Processors, ProcessorStep(p)
  PROVE  FeedsIInv'
<1>1. stage[p] = "idle"
  BY ProcessorEffect DEF FeedsIInv, FeedTypes, StageSound
<1>2. FeedTypes' /\ MarketFeedFirst'
  BY ProcessorEffect DEF FeedsIInv, FeedTypes, MarketFeedFirst
<1>3. \A e \in Rows : Written(e)' => Written(e)
  BY ProcessorEffect DEF Written
<1>4. IdsDistinct'
  BY <1>3, ProcessorEffect, IdsStay DEF FeedsIInv
<1>5. \A q \in Processors : stage[q] # "idle" =>
        pc'[q] = pc[q] /\ todo'[q] = todo[q] /\ \A e \in todo[q] : id'[e] = id[e]
  BY <1>1, ProcessorEffect
<1>6. StageSound'
  BY <1>5, ProcessorEffect, StagesStay DEF FeedsIInv
<1>7. QED
  BY <1>2, <1>4, <1>6 DEF FeedsIInv

\* A fault stops a handler half-way; what it has sent stays sent.
LEMMA FaultFeeds ==
  ASSUME OutboxSound, FeedsIInv, NEW p \in Processors, Fault(p)
  PROVE  FeedsIInv'
<1>1. FeedTypes' /\ MarketFeedFirst'
  BY FaultEffect DEF FeedsIInv, FeedTypes, MarketFeedFirst
<1>2. IdsDistinct'
  BY FaultEffect, IdsStay DEF FeedsIInv, Written
<1>3. StageSound'
  BY FaultEffect, StageOver DEF FeedsIInv
<1>4. QED
  BY <1>1, <1>2, <1>3 DEF FeedsIInv

\* Steps that change nothing the invariant speaks of.
LEMMA IdleFeeds ==
  ASSUME FeedsIInv,
         UNCHANGED <<row, id, lastId, pc, todo, marketOf, version, stage, seen, betFeed, globalFeed, priceFeed>>
  PROVE  FeedsIInv'
BY DEF FeedsIInv, FeedTypes, IdsDistinct, Written, StageSound, Turn, MarketFeedFirst

\* Every step of every process preserves the invariant.
LEMMA NextFeeds == OutboxSound /\ FeedsIInv /\ [Next]_vars => FeedsIInv'
<1> SUFFICES ASSUME OutboxSound, FeedsIInv, [Next]_vars PROVE FeedsIInv'
  OBVIOUS
<1>1. ASSUME NEW b \in Bets, (\E topic \in Topics : Insert(b, topic)) \/ Commit(b) \/ Abort(b)
      PROVE  FeedsIInv'
  BY <1>1, InsertFeeds, EndPlacementFeeds
<1>2. ASSUME NEW p \in Processors, HandlerStep(p) \/ ProcessorStep(p) \/ Fault(p)
      PROVE  FeedsIInv'
  <2>1. CASE HandlerStep(p)
    <3>1. PICK b \in Bets : SendToMarket(p, b) \/ SendToGlobal(p, b) \/ ReadPrices(p, b) \/ SendPrices(p, b)
      BY <2>1 DEF HandlerStep
    <3>2. "BetPlaced" \in Topics
      BY DEF Topics
    <3>3. QED
      BY <3>1, <3>2, HalfwayFeeds, ReturnFeeds
  <2>2. QED
    BY <1>2, <2>1, ProcessorFeeds, FaultFeeds
<1>3. ASSUME NEW p \in Processors, NEW b \in Bets, NEW topic \in Topics, HandlerFails(p, b, topic)
      PROVE  FeedsIInv'
  BY <1>3, ReturnFeeds
<1>4. CASE FaultsEnd \/ UNCHANGED vars
  <2>1. UNCHANGED <<row, id, lastId, pc, todo, marketOf, version, stage, seen, betFeed, globalFeed, priceFeed>>
    BY <1>4 DEF FaultsEnd, O!FaultsEnd, O!rowVars, O!procVars, feeds, vars, outboxVars
  <2>2. QED
    BY <2>1, IdleFeeds
<1>5. QED
  BY <1>1, <1>2, <1>3, <1>4 DEF Next

\* Both invariants hold in every reachable state.
LEMMA FeedsSafe == Spec => [](OutboxSound /\ FeedsIInv)
<1>1. Init => FeedsIInv
  BY InitFeeds
<1>2. OutboxSound /\ FeedsIInv /\ [Next]_vars => FeedsIInv'
  BY NextFeeds
<1>3. Spec => []OutboxSound
  BY ClaimsHold, DeliverySound, PTL
<1>4. QED
  BY <1>1, <1>2, <1>3, PTL DEF Spec

\* Whoever watches one market does not learn of its bets later than the global
\* ticker (broadcasters/bet.rs sends to the market's feed first), with any number
\* of processors, failures and restarts.
THEOREM MarketsFirst == Spec => []MarketFeedFirst
BY FeedsSafe, PTL DEF FeedsIInv

-----------------------------------------------------------------------------
(* The price feed, when one processor serves it *)

\* main.rs starts one processor; with more, one may send prices that it read
\* before another sent newer ones.
OneProcessor == \A p, q \in Processors : p = q

PriceEvent(b) == <<b, "MarketPricesUpdated">>

\* The placement's price event is still to be handled.
Undelivered(b) ==
  row[PriceEvent(b)] = "pending" /\ \A p \in Processors : PriceEvent(b) \notin delivered[p]

Awaited(m, bs) == \E b \in bs : marketOf[b] = m /\ Undelivered(b)

\* A feed that is behind its market will be corrected by an event to come, and so
\* will prices that a handler has read and not sent yet, by another event than its
\* own; and they are not behind the feed.
PricesSound ==
  /\ \A m \in Markets : /\ priceFeed[m] <= version[m]
                        /\ priceFeed[m] = version[m] \/ Awaited(m, Bets)
  /\ \A p \in Processors, b \in Bets :
       (stage[p] = "read" /\ Turn(p, PriceEvent(b))) =>
         /\ priceFeed[marketOf[b]] <= seen[p] /\ seen[p] <= version[marketOf[b]]
         /\ seen[p] = version[marketOf[b]] \/ Awaited(marketOf[b], Bets \ {b})

\* Nothing is behind before the first placement.
LEMMA InitPrices == Init => PricesSound
BY DEF Init, PricesSound

\* Steps that send no prices, commit none and deliver no price event.
LEMMA PricesStay ==
  ASSUME PricesSound, UNCHANGED <<marketOf, version, priceFeed>>,
         \A b \in Bets : Undelivered(b) => Undelivered(b)',
         \A p \in Processors : stage'[p] = "read" =>
           stage[p] = "read" /\ seen'[p] = seen[p] /\ \A e : Turn(p, e)' => Turn(p, e)
  PROVE  PricesSound'
<1>1. \A m, bs : bs \subseteq Bets /\ Awaited(m, bs) => Awaited(m, bs)'
  BY DEF Awaited
<1>2. \A b \in Bets : Bets \ {b} \subseteq Bets
  OBVIOUS
<1>3. QED
  BY <1>1, <1>2 DEF PricesSound

\* A row that is not committed yet is awaited by nobody.
LEMMA InsertPrices ==
  ASSUME OutboxSound, PricesSound, NEW b \in Bets, NEW topic \in Topics, Insert(b, topic)
  PROVE  PricesSound'
<1> DEFINE e == <<b, topic>>
<1>1. /\ e \in Rows /\ row[e] = "none"
      /\ row' = [row EXCEPT ![e] = "inserted"] /\ id' = [id EXCEPT ![e] = lastId + 1]
      /\ UNCHANGED <<pc, todo, delivered, marketOf, version, stage, seen, priceFeed>>
  BY RowsOf DEF Insert, O!Insert, O!procVars, feeds
<1> HIDE DEF e
<1>2. \A c \in Bets : Undelivered(c) => Undelivered(c)'
  BY <1>1, RowsOf DEF Undelivered, PriceEvent, OutboxSound
<1>3. \A p \in Processors : \A d \in todo[p] : id'[d] = id[d]
  BY <1>1 DEF OutboxSound
<1>4. \A p \in Processors : \A d : Turn(p, d)' => Turn(p, d)
  BY <1>1, <1>3 DEF Turn
<1>5. QED
  BY <1>1, <1>2, <1>4, PricesStay

\* A placement that commits moves its market's prices on, and its event will tell.
LEMMA CommitPrices ==
  ASSUME OutboxSound, FeedsIInv, PricesSound, NEW b \in Bets, Commit(b)
  PROVE  PricesSound'
<1> DEFINE m == marketOf[b]
<1>1. /\ UNCHANGED <<id, pc, todo, delivered, marketOf, stage, seen, priceFeed>>
      /\ version' = [version EXCEPT ![m] = @ + 1]
      /\ row[PriceEvent(b)] = "inserted" /\ row'[PriceEvent(b)] = "pending"
      /\ \A c \in Bets \ {b} : row'[PriceEvent(c)] = row[PriceEvent(c)]
  <2>1. PriceEvent(b) \in Placement(b) /\ \A c \in Bets : PriceEvent(c) \in Rows
    BY RowsOf DEF PriceEvent
  <2>2. \A c \in Bets \ {b} : PriceEvent(c) \notin Placement(b)
    BY RowsOf DEF PriceEvent
  <2>3. QED
    BY <2>1, <2>2, EndPlacementEffect
<1>2. m \in Markets /\ version \in [Markets -> Nat] /\ priceFeed \in [Markets -> Nat]
        /\ seen \in [Processors -> Nat] /\ marketOf \in [Bets -> Markets]
  BY DEF FeedsIInv, FeedTypes
<1> HIDE DEF m
<1>3. Undelivered(b)' /\ \A c \in Bets : Undelivered(c) => Undelivered(c)'
  <2>1. \A p \in Processors : PriceEvent(b) \notin delivered[p]
    BY <1>1 DEF OutboxSound
  <2>2. QED
    BY <1>1, <2>1 DEF Undelivered
<1>4. \A n, bs : bs \subseteq Bets /\ Awaited(n, bs) => Awaited(n, bs)'
  BY <1>1, <1>3 DEF Awaited
<1>5. \A n \in Markets : /\ priceFeed'[n] <= version'[n]
                         /\ priceFeed'[n] = version'[n] \/ Awaited(n, Bets)'
  <2> SUFFICES ASSUME NEW n \in Markets
               PROVE  priceFeed'[n] <= version'[n] /\ (priceFeed'[n] = version'[n] \/ Awaited(n, Bets)')
    OBVIOUS
  <2>1. CASE n = m
    <3>1. Awaited(n, Bets)'
      BY <1>1, <1>3, <2>1 DEF Awaited, m
    <3>2. QED
      BY <1>1, <1>2, <2>1, <3>1 DEF PricesSound
  <2>2. CASE n # m
    BY <1>1, <1>2, <1>4, <2>2 DEF PricesSound
  <2>3. QED
    BY <2>1, <2>2
<1>6. ASSUME NEW p \in Processors, NEW c \in Bets, stage'[p] = "read", Turn(p, PriceEvent(c))'
      PROVE  /\ priceFeed'[marketOf'[c]] <= seen'[p] /\ seen'[p] <= version'[marketOf'[c]]
             /\ seen'[p] = version'[marketOf'[c]] \/ Awaited(marketOf[c], Bets \ {c})'
  <2>1. Turn(p, PriceEvent(c)) /\ stage[p] = "read"
    BY <1>1, <1>6 DEF Turn
  <2>2. /\ priceFeed[marketOf[c]] <= seen[p] /\ seen[p] <= version[marketOf[c]]
        /\ seen[p] = version[marketOf[c]] \/ Awaited(marketOf[c], Bets \ {c})
    BY <2>1 DEF PricesSound
  <2>3. c # b
    <3>1. row[PriceEvent(c)] = "pending"
      BY <2>1 DEF Turn, OutboxSound
    <3>2. QED
      BY <1>1, <3>1
  <2>4. CASE marketOf[c] = m
    <3>1. b \in Bets \ {c} /\ marketOf'[b] = marketOf[c]
      BY <1>1, <2>3, <2>4 DEF m
    <3>2. Awaited(marketOf[c], Bets \ {c})'
      BY <1>1, <1>3, <3>1 DEF Awaited
    <3>3. QED
      BY <1>1, <1>2, <2>2, <2>4, <3>2
  <2>5. CASE marketOf[c] # m
    <3>1. Bets \ {c} \subseteq Bets
      OBVIOUS
    <3>2. QED
      BY <1>1, <1>2, <1>4, <2>2, <2>5, <3>1
  <2>6. QED
    BY <2>4, <2>5
<1>7. QED
  BY <1>1, <1>5, <1>6 DEF PricesSound

\* What a handler reads is current.
LEMMA ReadPricesSound ==
  ASSUME OutboxSound, FeedsIInv, PricesSound, NEW p \in Processors, NEW b \in Bets, ReadPrices(p, b)
  PROVE  PricesSound'
<1>1. /\ UNCHANGED <<row, id, pc, todo, delivered, marketOf, version, priceFeed>>
      /\ stage' = [stage EXCEPT ![p] = "read"] /\ seen' = [seen EXCEPT ![p] = version[marketOf[b]]]
      /\ Turn(p, PriceEvent(b))
  <2>1. O!Current(p, <<b, "MarketPricesUpdated">>)
    BY DEF ReadPrices
  <2>2. QED
    BY <2>1, CurrentTurn DEF ReadPrices, PricesToSend, outboxVars, feeds, PriceEvent
<1>2. /\ version \in [Markets -> Nat] /\ marketOf \in [Bets -> Markets]
      /\ stage \in [Processors -> {"idle", "marketSent", "read"}] /\ seen \in [Processors -> Nat]
  BY DEF FeedsIInv, FeedTypes
<1>3. \A n, bs : Awaited(n, bs) => Awaited(n, bs)'
  BY <1>1 DEF Awaited, Undelivered
<1>4. ASSUME NEW q \in Processors, NEW c \in Bets, stage'[q] = "read", Turn(q, PriceEvent(c))'
      PROVE  /\ priceFeed[marketOf[c]] <= seen'[q] /\ seen'[q] <= version[marketOf[c]]
             /\ seen'[q] = version[marketOf[c]] \/ Awaited(marketOf[c], Bets \ {c})'
  <2>1. Turn(q, PriceEvent(c))
    BY <1>1, <1>4 DEF Turn
  <2>2. CASE q = p
    <3>1. c = b
      BY <1>1, <2>1, <2>2, TurnUnique, RowsOf DEF FeedsIInv, PriceEvent
    <3>2. seen'[q] = version[marketOf[c]] /\ version[marketOf[c]] \in Nat
      BY <1>1, <1>2, <2>2, <3>1
    <3>3. QED
      BY <1>2, <3>2 DEF PricesSound
  <2>3. CASE q # p
    <3>1. stage[q] = "read" /\ seen'[q] = seen[q]
      BY <1>1, <1>2, <1>4, <2>3
    <3>2. /\ priceFeed[marketOf[c]] <= seen[q] /\ seen[q] <= version[marketOf[c]]
          /\ seen[q] = version[marketOf[c]] \/ Awaited(marketOf[c], Bets \ {c})
      BY <2>1, <3>1 DEF PricesSound
    <3>3. Awaited(marketOf[c], Bets \ {c}) => Awaited(marketOf[c], Bets \ {c})'
      BY <1>1 DEF Awaited, Undelivered
    <3>4. QED
      BY <3>1, <3>2, <3>3
  <2>4. QED
    BY <2>2, <2>3
<1>5. \A m \in Markets : /\ priceFeed'[m] <= version'[m]
                         /\ priceFeed'[m] = version'[m] \/ Awaited(m, Bets)'
  BY <1>1, <1>3 DEF PricesSound
<1>6. QED
  BY <1>1, <1>4, <1>5 DEF PricesSound

\* A placement that rolls back had nothing to tell.
LEMMA AbortPrices ==
  ASSUME OutboxSound, PricesSound, NEW b \in Bets, Abort(b)
  PROVE  PricesSound'
<1>1. /\ UNCHANGED <<id, pc, todo, delivered, marketOf, version, stage, seen, priceFeed>>
      /\ \A e \in Rows : row[e] = "pending" => row'[e] = "pending"
  BY EndPlacementEffect DEF Abort, feeds, O!Abort, OutboxSound, Rows
<1>2. \A c \in Bets : Undelivered(c) => Undelivered(c)'
  BY <1>1, RowsOf DEF Undelivered, PriceEvent
<1>3. \A p \in Processors : \A e : Turn(p, e)' => Turn(p, e)
  BY <1>1 DEF Turn
<1>4. QED
  BY <1>1, <1>2, <1>3, PricesStay

\* The bet's broadcaster leaves the prices alone.
LEMMA SendToMarketPrices ==
  ASSUME FeedsIInv, PricesSound, NEW p \in Processors, NEW b \in Bets, SendToMarket(p, b)
  PROVE  PricesSound'
<1>1. /\ UNCHANGED <<row, id, pc, todo, delivered, marketOf, version, seen, priceFeed>>
      /\ stage' = [stage EXCEPT ![p] = "marketSent"]
  BY DEF SendToMarket, outboxVars
<1>2. \A q \in Processors : stage'[q] = "read" => stage[q] = "read"
  BY <1>1 DEF FeedsIInv, FeedTypes
<1>3. \A c \in Bets : Undelivered(c) => Undelivered(c)'
  BY <1>1 DEF Undelivered
<1>4. \A q \in Processors : \A e : Turn(q, e)' => Turn(q, e)
  BY <1>1 DEF Turn
<1>5. QED
  BY <1>1, <1>2, <1>3, <1>4, PricesStay

\* A handler that is over, or taken by a fault, delivers no price event unless it
\* has sent prices.
LEMMA StopPrices ==
  ASSUME FeedsIInv, PricesSound, NEW p \in Processors,
         UNCHANGED <<row, id, marketOf, version, priceFeed>>,
         stage' = [stage EXCEPT ![p] = "idle"], seen' = [seen EXCEPT ![p] = 0],
         \A q \in Processors \ {p} : pc'[q] = pc[q] /\ todo'[q] = todo[q] /\ delivered'[q] = delivered[q],
         \A b \in Bets : PriceEvent(b) \in delivered'[p] => PriceEvent(b) \in delivered[p]
  PROVE  PricesSound'
<1>1. \A c \in Bets : Undelivered(c) => Undelivered(c)'
  <2> SUFFICES ASSUME NEW c \in Bets, Undelivered(c), NEW q \in Processors
               PROVE  PriceEvent(c) \notin delivered'[q]
    BY DEF Undelivered, PriceEvent
  <2>1. CASE q = p
    BY <2>1 DEF Undelivered
  <2>2. CASE q # p
    BY <2>2 DEF Undelivered
  <2>3. QED
    BY <2>1, <2>2
<1>2. ASSUME NEW q \in Processors, stage'[q] = "read"
      PROVE  stage[q] = "read" /\ seen'[q] = seen[q] /\ \A e : Turn(q, e)' => Turn(q, e)
  <2>1. q # p /\ stage[q] = "read" /\ seen'[q] = seen[q]
    BY <1>2 DEF FeedsIInv, FeedTypes
  <2>2. \A e : Turn(q, e)' => Turn(q, e)
    BY <2>1 DEF Turn
  <2>3. QED
    BY <2>1, <2>2
<1>3. QED
  BY <1>1, <1>2, PricesStay

\* The bet's broadcaster returns, or a handler fails.
LEMMA OtherReturnPrices ==
  ASSUME OutboxSound, FeedsIInv, PricesSound, NEW p \in Processors, NEW b \in Bets, NEW topic \in Topics,
         SendToGlobal(p, b) \/ HandlerFails(p, b, topic)
  PROVE  PricesSound'
<1>1. PICK e \in Rows :
        /\ O!HandleOk(p, e) \/ O!HandleFail(p, e)
        /\ SendToGlobal(p, b) => e = <<b, "BetPlaced">>
        /\ ~SendToGlobal(p, b) => O!HandleFail(p, e)
  BY RowsOf DEF SendToGlobal, HandlerFails, Return
<1>2. /\ UNCHANGED <<marketOf, version, priceFeed>>
      /\ stage' = [stage EXCEPT ![p] = "idle"] /\ seen' = [seen EXCEPT ![p] = 0]
  BY DEF SendToGlobal, HandlerFails, Return, feeds
<1>3. ASSUME NEW c \in Bets, PriceEvent(c) \in delivered'[p]
      PROVE  PriceEvent(c) \in delivered[p]
  <2>1. CASE SendToGlobal(p, b)
    <3>1. PriceEvent(c) # e
      BY <1>1, <2>1 DEF PriceEvent
    <3>2. QED
      BY <1>1, <1>3, <3>1, ReturnEffect
  <2>2. CASE ~SendToGlobal(p, b)
    BY <1>1, <1>3, <2>2, ReturnEffect
  <2>3. QED
    BY <2>1, <2>2
<1>4. /\ UNCHANGED <<row, id>>
      /\ \A q \in Processors \ {p} : pc'[q] = pc[q] /\ todo'[q] = todo[q] /\ delivered'[q] = delivered[q]
  BY <1>1, ReturnEffect
<1>5. QED
  BY <1>2, <1>3, <1>4, StopPrices

\* What a processor marks processed was delivered.
LEMMA ProcessorPrices ==
  ASSUME OutboxSound, FeedsIInv, PricesSound, NEW p \in Processors, ProcessorStep(p)
  PROVE  PricesSound'
<1>1. stage[p] = "idle"
  BY ProcessorEffect DEF FeedsIInv, FeedTypes, StageSound
<1>2. ASSUME NEW c \in Bets, Undelivered(c)
      PROVE  Undelivered(c)'
  <2>1. PriceEvent(c) \in Rows /\ row'[PriceEvent(c)] = "pending"
    BY <1>2, RowsOf, ProcessorEffect DEF Undelivered, PriceEvent
  <2>2. \A q \in Processors : PriceEvent(c) \notin delivered'[q]
    BY <1>2, ProcessorEffect DEF Undelivered
  <2>3. QED
    BY <2>1, <2>2 DEF Undelivered, PriceEvent
<1>3. ASSUME NEW q \in Processors, stage'[q] = "read"
      PROVE  stage[q] = "read" /\ seen'[q] = seen[q] /\ \A e : Turn(q, e)' => Turn(q, e)
  <2>1. stage[q] = "read" /\ seen'[q] = seen[q] /\ q # p
    BY <1>1, <1>3, ProcessorEffect
  <2>2. \A e : Turn(q, e)' => Turn(q, e)
    BY <2>1, ProcessorEffect DEF Turn
  <2>3. QED
    BY <2>1, <2>2
<1>4. QED
  BY <1>2, <1>3, ProcessorEffect, PricesStay

\* The only handler sends what it has read: not behind the feed, and behind the
\* market only if another event will follow.
LEMMA SendPricesSound ==
  ASSUME OneProcessor, OutboxSound, FeedsIInv, PricesSound, NEW p \in Processors, NEW b \in Bets,
         SendPrices(p, b)
  PROVE  PricesSound' /\ \A m \in Markets : priceFeed'[m] >= priceFeed[m]
<1> DEFINE m == marketOf[b]
<1>1. /\ UNCHANGED <<row, id, marketOf, version>> /\ Turn(p, PriceEvent(b)) /\ stage[p] = "read"
      /\ delivered'[p] \subseteq delivered[p] \cup {PriceEvent(b)}
      /\ \A q \in Processors \ {p} : delivered'[q] = delivered[q]
      /\ stage' = [stage EXCEPT ![p] = "idle"]
      /\ priceFeed' = [priceFeed EXCEPT ![m] = seen[p]]
  <2>1. /\ O!HandleOk(p, PriceEvent(b)) \/ O!HandleFail(p, PriceEvent(b))
        /\ UNCHANGED <<marketOf, version>> /\ stage[p] = "read"
        /\ stage' = [stage EXCEPT ![p] = "idle"]
        /\ priceFeed' = [priceFeed EXCEPT ![m] = seen[p]]
    BY DEF SendPrices, Return, PriceEvent
  <2>2. QED
    BY <2>1, ReturnEffect, CurrentTurn
<1>2. /\ priceFeed[m] <= seen[p] /\ seen[p] <= version[m]
      /\ seen[p] = version[m] \/ Awaited(m, Bets \ {b})
  BY <1>1 DEF PricesSound
<1>3. /\ m \in Markets /\ version \in [Markets -> Nat] /\ priceFeed \in [Markets -> Nat]
      /\ seen \in [Processors -> Nat] /\ stage \in [Processors -> {"idle", "marketSent", "read"}]
  BY DEF FeedsIInv, FeedTypes
<1> HIDE DEF m
<1>4. ASSUME NEW c \in Bets \ {b}, Undelivered(c)
      PROVE  Undelivered(c)'
  <2>1. PriceEvent(c) # PriceEvent(b)
    BY DEF PriceEvent
  <2>2. QED
    BY <1>1, <1>4, <2>1 DEF Undelivered, PriceEvent
<1>5. \A q \in Processors : stage'[q] # "read"
  BY <1>1, <1>3 DEF OneProcessor
<1>6. ASSUME NEW n \in Markets
      PROVE  /\ priceFeed'[n] <= version'[n]
             /\ priceFeed'[n] = version'[n] \/ Awaited(n, Bets)'
             /\ priceFeed'[n] >= priceFeed[n]
  <2>1. CASE n = m
    <3>1. Awaited(n, Bets \ {b}) => Awaited(n, Bets)'
      BY <1>1, <1>4 DEF Awaited
    <3>2. priceFeed'[n] = seen[p] /\ seen[p] \in Nat
      BY <1>1, <1>3, <2>1
    <3>3. QED
      BY <1>1, <1>2, <2>1, <3>1, <3>2
  <2>2. CASE n # m
    <3>1. Awaited(n, Bets) => Awaited(n, Bets)'
      BY <1>1, <1>4, <2>2 DEF Awaited, m
    <3>2. priceFeed'[n] = priceFeed[n]
      BY <1>1, <1>3, <2>2
    <3>3. /\ priceFeed[n] <= version[n]
          /\ priceFeed[n] = version[n] \/ Awaited(n, Bets)
      BY DEF PricesSound
    <3>4. QED
      BY <1>1, <1>3, <3>1, <3>2, <3>3
  <2>3. QED
    BY <2>1, <2>2
<1>7. QED
  BY <1>5, <1>6 DEF PricesSound

\* Every step leaves the prices sound, and no feed behind what it has shown.
LEMMA NextPrices ==
  ASSUME OneProcessor, OutboxSound, FeedsIInv, PricesSound, [Next]_vars
  PROVE  PricesSound' /\ \A m \in Markets : priceFeed'[m] >= priceFeed[m]
<1>0. priceFeed \in [Markets -> Nat]
  BY DEF FeedsIInv, FeedTypes
<1>1. ASSUME NEW b \in Bets, (\E topic \in Topics : Insert(b, topic)) \/ Commit(b) \/ Abort(b)
      PROVE  PricesSound' /\ priceFeed' = priceFeed
  <2>1. priceFeed' = priceFeed
    BY <1>1 DEF Insert, Commit, Abort, feeds
  <2>2. QED
    BY <1>1, <2>1, InsertPrices, CommitPrices, AbortPrices
<1>2. ASSUME NEW p \in Processors, NEW b \in Bets,
             SendToMarket(p, b) \/ SendToGlobal(p, b) \/ ReadPrices(p, b)
      PROVE  PricesSound' /\ priceFeed' = priceFeed
  <2>1. priceFeed' = priceFeed
    BY <1>2 DEF SendToMarket, SendToGlobal, ReadPrices, feeds
  <2>2. "BetPlaced" \in Topics
    BY DEF Topics
  <2>3. QED
    BY <1>2, <2>1, <2>2, SendToMarketPrices, OtherReturnPrices, ReadPricesSound
<1>3. ASSUME NEW p \in Processors, ProcessorStep(p) \/ Fault(p)
      PROVE  PricesSound' /\ priceFeed' = priceFeed
  <2>1. CASE ProcessorStep(p)
    BY <2>1, ProcessorPrices, ProcessorEffect
  <2>2. CASE Fault(p)
    <3>1. PricesSound'
      BY <2>2, FaultEffect, StopPrices
    <3>2. QED
      BY <2>2, <3>1, FaultEffect
  <2>3. QED
    BY <1>3, <2>1, <2>2
<1>4. ASSUME NEW p \in Processors, NEW b \in Bets, NEW topic \in Topics, HandlerFails(p, b, topic)
      PROVE  PricesSound' /\ priceFeed' = priceFeed
  BY <1>4, OtherReturnPrices DEF HandlerFails, feeds
<1>5. CASE FaultsEnd \/ UNCHANGED vars
  <2>1. UNCHANGED <<row, id, pc, todo, delivered, marketOf, version, stage, seen, priceFeed>>
    BY <1>5 DEF FaultsEnd, O!FaultsEnd, O!rowVars, O!procVars, feeds, vars, outboxVars
  <2>2. PricesSound'
    BY <2>1 DEF PricesSound, Awaited, Undelivered, Turn
  <2>3. QED
    BY <2>1, <2>2, <1>0
<1>6. (\A m \in Markets : priceFeed'[m] = priceFeed[m]) => \A m \in Markets : priceFeed'[m] >= priceFeed[m]
  BY <1>0
<1>7. ASSUME NEW p \in Processors, HandlerStep(p)
      PROVE  PricesSound' /\ \A m \in Markets : priceFeed'[m] >= priceFeed[m]
  BY <1>2, <1>6, <1>7, SendPricesSound DEF HandlerStep
<1>8. QED
  BY <1>1, <1>3, <1>4, <1>5, <1>6, <1>7 DEF Next

\* The invariant behind both results.
LEMMA PricesSafe ==
  ASSUME OneProcessor
  PROVE  Spec => [](P!DeliveryInv /\ OutboxSound /\ FeedsIInv /\ PricesSound)
<1>1. OutboxSound /\ FeedsIInv /\ PricesSound /\ [Next]_vars => PricesSound'
  BY NextPrices
<1>2. QED
  BY <1>1, InitPrices, ClaimsHold, FeedsSafe, PTL DEF Spec

\* A feed never shows prices older than it has shown, whatever is retried, fails
\* or is restarted (broadcasters/market.rs sends "the current truth rather than
\* resurrecting a stale snapshot"), as long as one process broadcasts.
THEOREM PricesForward == ASSUME OneProcessor PROVE Spec => PriceFeedNeverGoesBack
<1>1. OutboxSound /\ FeedsIInv /\ PricesSound /\ [Next]_vars => [\A m \in Markets : priceFeed'[m] >= priceFeed[m]]_vars
  BY NextPrices
<1>2. QED
  BY <1>1, PricesSafe, PTL DEF Spec, PriceFeedNeverGoesBack

\* And when every price event of a market is delivered, its feed shows the prices
\* in the database: no watcher keeps a stale one until the next bet.
THEOREM FeedsCurrent == ASSUME OneProcessor PROVE Spec => []FeedsInv
<1>1. P!DeliveryInv => O!TypeOK
  BY DEF P!DeliveryInv, P!TypeOK, O!TypeOK, P!RowStates, O!RowStates, P!ProcStates, O!ProcStates
<1>2. PricesSound => DrainedFeedIsCurrent
  BY DEF PricesSound, DrainedFeedIsCurrent, Awaited, Undelivered, PriceEvent
<1>3. P!DeliveryInv /\ FeedsIInv /\ PricesSound => FeedsInv
  BY <1>1, <1>2 DEF FeedsIInv, FeedTypes, FeedsInv, TypeOK
<1>4. QED
  BY <1>3, PricesSafe, PTL
=============================================================================
