------------------------------- MODULE Outbox --------------------------------
(***************************************************************************)
(* The transactional outbox (infrastructure/src/events/outbox.rs):         *)
(* transactions insert event rows and commit; processors, one per API      *)
(* process, claim batches of pending rows with FOR UPDATE SKIP LOCKED,     *)
(* hand each row to its handler and mark the ones that went well, all in   *)
(* one database transaction.                                               *)
(*                                                                         *)
(* A handler here either accepts an event or fails; what the broadcasters  *)
(* do with it is in LiveFeeds.  The attempts column is written by the      *)
(* processor and read by nobody; it is left out.                           *)
(***************************************************************************)
EXTENDS Integers, FiniteSets

CONSTANTS Events,       \* event rows
          Txs,          \* publishing transactions: disjoint sets of events
          Processors,
          Batch,        \* rows claimed per pass (BATCH, 100 in the code)
          Poison,       \* events whose handler fails every time
          Undecodable   \* events whose payload does not decode

ASSUME OutboxAssumption ==
  /\ Batch \in Nat \ {0}
  /\ Txs \subseteq SUBSET Events
  /\ \A T, U \in Txs : T # U => T \cap U = {}
  /\ Poison \cap Undecodable = {}

VARIABLES
  row,       \* state of each row of outbox_events
  id,        \* its BIGSERIAL id, given at the insert; 0 before
  lastId,    \* the sequence behind the ids
  handled,   \* history: events a handler has accepted
  pc,        \* where each processor stands
  batch,     \* the rows its transaction has locked
  todo,      \* those not yet handed to their handler
  delivered, \* those that went well
  listener,  \* whether it has a LISTEN connection
  notified,  \* whether a NOTIFY waits on that connection
  calm       \* no fault happens from now on (set by the environment)

rowVars  == <<row, id, lastId>>
procVars == <<pc, batch, todo, delivered, listener, notified>>
vars     == <<rowVars, handled, procVars, calm>>

RowStates == {"none", "inserted", "pending", "processed", "pruned", "aborted"}
ProcStates == {"down", "draining", "handling", "waiting"}

TypeOK ==
  /\ row \in [Events -> RowStates]
  /\ id \in [Events -> Nat] /\ lastId \in Nat
  /\ handled \subseteq Events
  /\ pc \in [Processors -> ProcStates]
  /\ batch \in [Processors -> SUBSET Events]
  /\ todo \in [Processors -> SUBSET Events]
  /\ delivered \in [Processors -> SUBSET Events]
  /\ listener \in [Processors -> BOOLEAN]
  /\ notified \in [Processors -> BOOLEAN]
  /\ calm \in BOOLEAN

Init ==
  /\ row = [e \in Events |-> "none"]
  /\ id = [e \in Events |-> 0]
  /\ lastId = 0
  /\ handled = {}
  /\ pc = [p \in Processors |-> "down"]
  /\ batch = [p \in Processors |-> {}]
  /\ todo = [p \in Processors |-> {}]
  /\ delivered = [p \in Processors |-> {}]
  /\ listener = [p \in Processors |-> FALSE]
  /\ notified = [p \in Processors |-> FALSE]
  /\ calm = FALSE

-----------------------------------------------------------------------------
(* Publishing *)

\* publish, inside the transaction that makes the change.
Insert(e) ==
  /\ row[e] = "none"
  /\ row' = [row EXCEPT ![e] = "inserted"]
  /\ id' = [id EXCEPT ![e] = lastId + 1]
  /\ lastId' = lastId + 1
  /\ UNCHANGED <<handled, procVars, calm>>

\* The commit makes the rows visible and sends the NOTIFY to who listens now.
Commit(T) ==
  /\ \A e \in T : row[e] = "inserted"
  /\ row' = [e \in Events |-> IF e \in T THEN "pending" ELSE row[e]]
  /\ notified' = [p \in Processors |-> notified[p] \/ listener[p]]
  /\ UNCHANGED <<id, lastId, handled, pc, batch, todo, delivered, listener, calm>>

\* The transaction rolls back: its ids are used up, its rows never existed.
Abort(T) ==
  /\ \E e \in T : row[e] = "inserted"
  /\ row' = [e \in Events |-> IF e \in T THEN "aborted" ELSE row[e]]
  /\ UNCHANGED <<id, lastId, handled, procVars, calm>>

-----------------------------------------------------------------------------
(* Delivery *)

Pending == {e \in Events : row[e] = "pending"}
Locked  == UNION {batch[p] : p \in Processors}

\* Mutant: a plain SELECT, without FOR UPDATE SKIP LOCKED.
ClaimableUnlocked == Pending

Claimable == Pending \ Locked

\* ORDER BY id LIMIT Batch.
FirstOf(S, n) ==
  {e \in S : Cardinality({d \in S : id[d] < id[e]}) < n}

\* The rest of deliver_batch when nothing is left to do in this pass.
LeaveBatch(p, next) ==
  /\ pc' = [pc EXCEPT ![p] = next]
  /\ batch' = [batch EXCEPT ![p] = {}]
  /\ todo' = [todo EXCEPT ![p] = {}]
  /\ delivered' = [delivered EXCEPT ![p] = {}]

\* deliver_batch: the claiming SELECT.  An empty batch ends the drain.
Claim(p) ==
  /\ pc[p] = "draining"
  /\ pc' = [pc EXCEPT ![p] = IF Claimable = {} THEN "waiting" ELSE "handling"]
  /\ batch' = [batch EXCEPT ![p] = FirstOf(Claimable, Batch)]
  /\ todo' = [todo EXCEPT ![p] = FirstOf(Claimable, Batch)]
  /\ UNCHANGED <<rowVars, handled, delivered, listener, notified, calm>>

\* The row whose turn it is.
Current(p, e) == pc[p] = "handling" /\ e \in FirstOf(todo[p], 1)

HandleOk(p, e) ==
  /\ Current(p, e)
  /\ e \notin Poison \cup Undecodable
  /\ handled' = handled \cup {e}
  /\ todo' = [todo EXCEPT ![p] = @ \ {e}]
  /\ delivered' = [delivered EXCEPT ![p] = @ \cup {e}]
  /\ UNCHANGED <<rowVars, pc, batch, listener, notified, calm>>

\* A payload that does not decode counts as delivered.
HandleUndecodable(p, e) ==
  /\ Current(p, e)
  /\ e \in Undecodable
  /\ todo' = [todo EXCEPT ![p] = @ \ {e}]
  /\ delivered' = [delivered EXCEPT ![p] = @ \cup {e}]
  /\ UNCHANGED <<rowVars, handled, pc, batch, listener, notified, calm>>

\* The handler fails: the pass goes on with the next row.
HandleFail(p, e) ==
  /\ Current(p, e)
  /\ e \notin Undecodable
  /\ todo' = [todo EXCEPT ![p] = @ \ {e}]
  /\ UNCHANGED <<rowVars, handled, pc, batch, delivered, listener, notified, calm>>

\* Mutant: the whole batch is marked processed, failed rows included.
MarkedWithFailures(p) == batch[p]

\* The rows processed_at is set on.
Marked(p) == delivered[p]

\* The updates and the commit; drain goes on only after a full batch of
\* successes.
FinishBatch(p) ==
  /\ pc[p] = "handling"
  /\ todo[p] = {}
  /\ row' = [e \in Events |-> IF e \in Marked(p) THEN "processed" ELSE row[e]]
  /\ LeaveBatch(p, IF Cardinality(delivered[p]) = Batch THEN "draining" ELSE "waiting")
  /\ UNCHANGED <<id, lastId, handled, listener, notified, calm>>

\* A database error anywhere in the pass rolls it back and ends the drain.
BatchFails(p) ==
  /\ ~calm
  /\ pc[p] \in {"draining", "handling"}
  /\ LeaveBatch(p, "waiting")
  /\ UNCHANGED <<rowVars, handled, listener, notified, calm>>

-----------------------------------------------------------------------------
(* run: waking up *)

\* recv returned a notification.
WakeOnNotify(p) ==
  /\ pc[p] = "waiting" /\ listener[p] /\ notified[p]
  /\ pc' = [pc EXCEPT ![p] = "draining"]
  /\ notified' = [notified EXCEPT ![p] = FALSE]
  /\ UNCHANGED <<rowVars, handled, batch, todo, delivered, listener, calm>>

\* Mutant: with a listener the processor relies on NOTIFY alone.
SweepWithoutListenerOnly(p) ==
  /\ pc[p] = "waiting" /\ ~listener[p]
  /\ pc' = [pc EXCEPT ![p] = "draining"]
  /\ \E up \in BOOLEAN : listener' = [listener EXCEPT ![p] = up]
  /\ UNCHANGED <<rowVars, handled, batch, todo, delivered, notified, calm>>

\* The sweep interval passed: with a listener, prune old processed rows; without
\* one, try to connect again.  Then drain.
Sweep(p) ==
  /\ pc[p] = "waiting"
  /\ pc' = [pc EXCEPT ![p] = "draining"]
  /\ \/ /\ listener[p]
        /\ \E old \in SUBSET {e \in Events : row[e] = "processed"} :
             row' = [e \in Events |-> IF e \in old THEN "pruned" ELSE row[e]]
        /\ UNCHANGED listener
     \/ /\ ~listener[p]
        /\ \E up \in BOOLEAN : listener' = [listener EXCEPT ![p] = up]
        /\ UNCHANGED row
  /\ UNCHANGED <<id, lastId, handled, batch, todo, delivered, notified, calm>>

\* recv failed: the listener is dropped, with what waited on it, and the loop
\* tries to connect again before it drains.
ListenerDrops(p) ==
  /\ pc[p] = "waiting" /\ listener[p]
  /\ pc' = [pc EXCEPT ![p] = "draining"]
  /\ \E up \in BOOLEAN : listener' = [listener EXCEPT ![p] = up]
  /\ notified' = [notified EXCEPT ![p] = FALSE]
  /\ UNCHANGED <<rowVars, handled, batch, todo, delivered, calm>>

\* The process dies: its transaction rolls back and its locks go.
Crash(p) ==
  /\ ~calm
  /\ pc[p] # "down"
  /\ LeaveBatch(p, "down")
  /\ listener' = [listener EXCEPT ![p] = FALSE]
  /\ notified' = [notified EXCEPT ![p] = FALSE]
  /\ UNCHANGED <<rowVars, handled, calm>>

\* The last fault is over.
FaultsEnd ==
  /\ ~calm
  /\ calm' = TRUE
  /\ UNCHANGED <<rowVars, handled, procVars>>

\* The process starts: connect, then drain the backlog.
Start(p) ==
  /\ pc[p] = "down"
  /\ pc' = [pc EXCEPT ![p] = "draining"]
  /\ \E up \in BOOLEAN : listener' = [listener EXCEPT ![p] = up]
  /\ UNCHANGED <<rowVars, handled, batch, todo, delivered, notified, calm>>

-----------------------------------------------------------------------------

Publish ==
  \/ \E T \in Txs : \E e \in T : Insert(e)
  \/ \E T \in Txs : Commit(T) \/ Abort(T)

\* One step of a handler, whatever its outcome.
Handle(p) ==
  \E e \in Events : HandleOk(p, e) \/ HandleUndecodable(p, e) \/ HandleFail(p, e)

Wake(p) == WakeOnNotify(p) \/ Sweep(p) \/ ListenerDrops(p)

Fault(p) == BatchFails(p) \/ Crash(p)

Next ==
  \/ Publish
  \/ \E p \in Processors :
       Claim(p) \/ Handle(p) \/ FinishBatch(p) \/ Wake(p) \/ Start(p) \/ Fault(p)
  \/ FaultsEnd

Spec == Init /\ [][Next]_vars

\* A running processor keeps running and a dead one is restarted; a handler
\* that can succeed does not fail forever.
Fairness ==
  /\ \A p \in Processors :
       /\ WF_vars(Claim(p)) /\ WF_vars(Handle(p)) /\ WF_vars(FinishBatch(p))
       /\ WF_vars(Sweep(p)) /\ WF_vars(Start(p))
  /\ \A e \in Events : SF_vars(\E p \in Processors : HandleOk(p, e))

FairSpec == Spec /\ Fairness

-----------------------------------------------------------------------------
(* Properties *)

\* A handler only ever works on a row that is committed and not yet processed:
\* no two processors handle one event at a time, and none handles it again
\* once another has finished with it (outbox.rs: "several instances coordinate
\* safely ... each claiming disjoint batches").
HandledOnlyWhilePending ==
  [][\A p \in Processors : \A e \in Events :
       (e \in todo[p] /\ e \notin todo'[p] /\ pc[p] = "handling" /\ pc'[p] = "handling") =>
         /\ row[e] = "pending"
         /\ \A q \in Processors \ {p} : e \notin batch[q]]_vars

\* The outbox keeps the promise of EventDelivery: at least once before an
\* event is finished, whatever crashes between its commit and its delivery.
Promise == INSTANCE EventDelivery WITH
  recorded <- {e \in Events : row[e] \in {"pending", "processed", "pruned"}},
  handled  <- handled,
  finished <- {e \in Events : row[e] \in {"processed", "pruned"}}

DeliversAsPromised == Promise!Spec

\* Every committed event that can be handled is, once the faults stop, even if
\* its NOTIFY was missed or its handler failed before, and even behind events
\* that always fail, as long as those do not fill a batch (outbox.rs: the sweep
\* is the fallback "for events whose NOTIFY was missed ... and for retrying
\* failed deliveries").
EventuallyProcessed ==
  \A e \in Events \ Poison :
    (calm /\ row[e] = "pending") ~> row[e] \in {"processed", "pruned"}

-----------------------------------------------------------------------------
(* The inductive invariant behind the delivery properties *)

\* The events of one transaction are committed or rolled back together.
TxsAtomic ==
  \A T \in Txs : \A d, e \in T :
    row[d] \in {"none", "inserted"} => row[e] \in {"none", "inserted"}

\* Locked rows are pending, locked by one processor, and only a processor
\* inside a pass holds any; what it will mark was accepted or cannot be.
ClaimsSound ==
  /\ \A p \in Processors : batch[p] \subseteq Pending
  /\ \A p, q \in Processors : p # q => batch[p] \cap batch[q] = {}
  /\ \A p \in Processors : todo[p] \subseteq batch[p] /\ delivered[p] \subseteq batch[p] \ todo[p]
  /\ \A p \in Processors : delivered[p] \subseteq handled \cup Undecodable
  /\ \A p \in Processors : pc[p] # "handling" => batch[p] = {}

DeliveryInv == TypeOK /\ TxsAtomic /\ ClaimsSound
=============================================================================
