---------------------------- MODULE OutboxProofs -----------------------------
(***************************************************************************)
(* Proofs about Outbox, for any number of events, transactions and         *)
(* processors and any batch size: the claims are disjoint, and the outbox  *)
(* implements EventDelivery.                                               *)
(***************************************************************************)
EXTENDS Outbox, TLAPS

USE OutboxAssumption

-----------------------------------------------------------------------------
(* The inductive invariant *)

\* The first rows of a set are rows of it (ORDER BY id LIMIT only selects).
LEMMA FirstOfSubset ==
  ASSUME NEW S, NEW n
  PROVE  FirstOf(S, n) \subseteq S
BY DEF FirstOf

\* The empty table and the stopped processors satisfy the invariant.
LEMMA InitDelivery == Init => DeliveryInv
<1> SUFFICES ASSUME Init PROVE DeliveryInv
  OBVIOUS
<1>1. TypeOK
  BY DEF Init, TypeOK, RowStates, ProcStates
<1>2. TxsAtomic
  BY DEF Init, TxsAtomic
<1>3. ClaimsSound
  BY DEF Init, ClaimsSound
<1>4. QED
  BY <1>1, <1>2, <1>3 DEF DeliveryInv

\* A pass that ends without marking a row gives up its claims and nothing else.
LEMMA LeaveBatchClaims ==
  ASSUME DeliveryInv, NEW p \in Processors, NEW next \in ProcStates \ {"handling"},
         LeaveBatch(p, next), UNCHANGED <<row, id, lastId, handled>>
  PROVE  ClaimsSound'
BY DEF DeliveryInv, TypeOK, ClaimsSound, LeaveBatch, Pending

\* publish and the end of its transaction: no claimed row belongs to it.
LEMMA PublishDelivery ==
  ASSUME DeliveryInv, Publish
  PROVE  DeliveryInv'
<1>1. ASSUME NEW T \in Txs, NEW e \in T, Insert(e)
      PROVE  DeliveryInv'
  <2>1. e \in Events
    OBVIOUS
  <2>2. TypeOK'
    BY <1>1, <2>1 DEF DeliveryInv, TypeOK, Insert, procVars, RowStates
  <2>3. TxsAtomic'
    BY <1>1, <2>1 DEF DeliveryInv, TypeOK, TxsAtomic, Insert
  <2>4. ClaimsSound'
    BY <1>1, <2>1 DEF DeliveryInv, TypeOK, ClaimsSound, Pending, Insert, procVars
  <2>5. QED
    BY <2>2, <2>3, <2>4 DEF DeliveryInv
<1>2. ASSUME NEW T \in Txs, Commit(T)
      PROVE  DeliveryInv'
  <2>1. T \subseteq Events
    OBVIOUS
  <2>2. TypeOK'
    BY <1>2, <2>1 DEF DeliveryInv, TypeOK, Commit, RowStates
  <2>3. TxsAtomic'
    BY <1>2, <2>1 DEF DeliveryInv, TypeOK, TxsAtomic, Commit
  <2>4. ClaimsSound'
    BY <1>2, <2>1 DEF DeliveryInv, TypeOK, ClaimsSound, Pending, Commit
  <2>5. QED
    BY <2>2, <2>3, <2>4 DEF DeliveryInv
<1>3. ASSUME NEW T \in Txs, Abort(T)
      PROVE  DeliveryInv'
  <2>1. T \subseteq Events
    OBVIOUS
  <2>2. TypeOK'
    BY <1>3, <2>1 DEF DeliveryInv, TypeOK, Abort, procVars, RowStates
  <2>3. TxsAtomic'
    BY <1>3, <2>1 DEF DeliveryInv, TypeOK, TxsAtomic, Abort
  <2>4. \A e \in T : row[e] # "pending"
    BY <1>3 DEF DeliveryInv, TxsAtomic, Abort
  <2>5. ClaimsSound'
    BY <1>3, <2>1, <2>4 DEF DeliveryInv, TypeOK, ClaimsSound, Pending, Abort, procVars
  <2>6. QED
    BY <2>2, <2>3, <2>5 DEF DeliveryInv
<1>4. QED
  BY <1>1, <1>2, <1>3 DEF Publish

\* The claim takes pending rows that nobody holds.
LEMMA ClaimDelivery ==
  ASSUME DeliveryInv, NEW p \in Processors, Claim(p)
  PROVE  DeliveryInv'
<1> DEFINE rows == FirstOf(Claimable, Batch)
<1>1. rows \subseteq Pending \ Locked
  BY FirstOfSubset DEF Claimable
<1>2. rows \subseteq Events
  BY <1>1 DEF Pending
<1>3. \A q \in Processors : rows \cap batch[q] = {}
  BY <1>1 DEF Locked
<1>4. Claimable = {} => rows = {}
  BY FirstOfSubset
<1>5. /\ batch' = [batch EXCEPT ![p] = rows]
      /\ todo' = [todo EXCEPT ![p] = rows]
      /\ pc' = [pc EXCEPT ![p] = IF Claimable = {} THEN "waiting" ELSE "handling"]
      /\ pc[p] = "draining"
      /\ UNCHANGED <<row, id, lastId, handled, delivered, listener, notified, calm>>
  BY DEF Claim, rowVars
<1> HIDE DEF rows
<1>6. TypeOK'
  BY <1>2, <1>5 DEF DeliveryInv, TypeOK, ProcStates
<1>7. TxsAtomic'
  BY <1>5 DEF DeliveryInv, TxsAtomic
<1>8. delivered[p] = {}
  BY <1>5 DEF DeliveryInv, ClaimsSound
<1>9. Pending' = Pending
  BY <1>5 DEF Pending
<1>10. ClaimsSound'
  <2>1. \A q \in Processors : batch'[q] \subseteq Pending
    BY <1>1, <1>5 DEF DeliveryInv, TypeOK, ClaimsSound
  <2>2. \A q, r \in Processors : q # r => batch'[q] \cap batch'[r] = {}
    BY <1>3, <1>5 DEF DeliveryInv, TypeOK, ClaimsSound
  <2>3. \A q \in Processors : todo'[q] \subseteq batch'[q] /\ delivered'[q] \subseteq batch'[q] \ todo'[q]
    BY <1>5, <1>8 DEF DeliveryInv, TypeOK, ClaimsSound
  <2>4. \A q \in Processors : delivered'[q] \subseteq handled' \cup Undecodable
    BY <1>5 DEF DeliveryInv, ClaimsSound
  <2>5. \A q \in Processors : pc'[q] # "handling" => batch'[q] = {}
    BY <1>4, <1>5 DEF DeliveryInv, TypeOK, ClaimsSound
  <2>6. QED
    BY <1>9, <2>1, <2>2, <2>3, <2>4, <2>5 DEF ClaimsSound
<1>11. QED
  BY <1>6, <1>7, <1>10 DEF DeliveryInv

\* The row whose turn it is, is one of the claimed rows.
LEMMA CurrentClaimed ==
  ASSUME DeliveryInv, NEW p \in Processors, NEW e \in Events, Current(p, e)
  PROVE  e \in todo[p] /\ e \in batch[p] /\ row[e] = "pending"
BY FirstOfSubset DEF DeliveryInv, ClaimsSound, Current, Pending

\* A handler's verdict moves its row out of todo, and only a good one into
\* delivered.
LEMMA HandleDelivery ==
  ASSUME DeliveryInv, NEW p \in Processors, Handle(p)
  PROVE  DeliveryInv'
<1>1. PICK e \in Events : HandleOk(p, e) \/ HandleUndecodable(p, e) \/ HandleFail(p, e)
  BY DEF Handle
<1>2. e \in todo[p] /\ e \in batch[p]
  BY <1>1, CurrentClaimed DEF HandleOk, HandleUndecodable, HandleFail
<1>3. /\ todo' = [todo EXCEPT ![p] = @ \ {e}]
      /\ UNCHANGED <<row, id, lastId, pc, batch, listener, notified, calm>>
  BY <1>1 DEF HandleOk, HandleUndecodable, HandleFail, rowVars
<1>4. \/ /\ delivered' = [delivered EXCEPT ![p] = @ \cup {e}]
         /\ \/ handled' = handled \cup {e}
            \/ e \in Undecodable /\ handled' = handled
      \/ delivered' = delivered /\ handled' = handled
  BY <1>1 DEF HandleOk, HandleUndecodable, HandleFail
<1>5. TypeOK'
  BY <1>3, <1>4 DEF DeliveryInv, TypeOK
<1>6. TxsAtomic'
  BY <1>3 DEF DeliveryInv, TxsAtomic
<1>7. ClaimsSound'
  BY <1>2, <1>3, <1>4 DEF DeliveryInv, TypeOK, ClaimsSound, Pending
<1>8. QED
  BY <1>5, <1>6, <1>7 DEF DeliveryInv

\* The commit of a pass: the rows it marks are its own, so no other claim is
\* on a row that stops being pending.
LEMMA FinishBatchDelivery ==
  ASSUME DeliveryInv, NEW p \in Processors, FinishBatch(p)
  PROVE  DeliveryInv'
<1>1. delivered[p] \subseteq batch[p] /\ batch[p] \subseteq Pending
  BY DEF DeliveryInv, ClaimsSound
<1>2. row' = [e \in Events |-> IF e \in delivered[p] THEN "processed" ELSE row[e]]
  BY DEF FinishBatch, Marked
<1>3. PICK next \in {"draining", "waiting"} : LeaveBatch(p, next)
  BY DEF FinishBatch
<1>4. UNCHANGED <<id, lastId, handled, listener, notified, calm>>
  BY DEF FinishBatch
<1>5. TypeOK'
  BY <1>2, <1>3, <1>4 DEF DeliveryInv, TypeOK, LeaveBatch, RowStates, ProcStates
<1>6. \A T \in Txs : T \subseteq Events
  OBVIOUS
<1>7. TxsAtomic'
  <2>1. \A e \in Events : row'[e] \in {"none", "inserted"} <=> row[e] \in {"none", "inserted"}
    BY <1>1, <1>2 DEF Pending
  <2>2. QED
    BY <1>6, <2>1 DEF DeliveryInv, TxsAtomic
<1>8. \A q \in Processors : q # p => batch[q] \subseteq Pending'
  BY <1>1, <1>2 DEF DeliveryInv, TypeOK, ClaimsSound, Pending
<1>9. /\ batch' = [batch EXCEPT ![p] = {}]
      /\ todo' = [todo EXCEPT ![p] = {}]
      /\ delivered' = [delivered EXCEPT ![p] = {}]
      /\ pc' = [pc EXCEPT ![p] = next]
  BY <1>3 DEF LeaveBatch
<1>10. ClaimsSound'
  BY <1>4, <1>8, <1>9 DEF DeliveryInv, TypeOK, ClaimsSound
<1>11. QED
  BY <1>5, <1>7, <1>10 DEF DeliveryInv

\* Waking up, starting and pruning leave the claims alone.
LEMMA WakeDelivery ==
  ASSUME DeliveryInv, NEW p \in Processors, Wake(p) \/ Start(p)
  PROVE  DeliveryInv'
<1>1. CASE WakeOnNotify(p) \/ ListenerDrops(p) \/ Start(p)
  <2>1. /\ pc' = [pc EXCEPT ![p] = "draining"]
        /\ pc[p] # "handling"
        /\ UNCHANGED <<row, id, lastId, handled, batch, todo, delivered, calm>>
    BY <1>1 DEF WakeOnNotify, ListenerDrops, Start, rowVars
  <2>2. listener' \in [Processors -> BOOLEAN] /\ notified' \in [Processors -> BOOLEAN]
    BY <1>1 DEF DeliveryInv, TypeOK, WakeOnNotify, ListenerDrops, Start
  <2>3. TypeOK'
    BY <2>1, <2>2 DEF DeliveryInv, TypeOK, ProcStates
  <2>4. TxsAtomic' /\ ClaimsSound'
    BY <2>1 DEF DeliveryInv, TypeOK, TxsAtomic, ClaimsSound, Pending
  <2>5. QED
    BY <2>3, <2>4 DEF DeliveryInv
<1>2. CASE Sweep(p)
  <2>1. /\ pc' = [pc EXCEPT ![p] = "draining"]
        /\ pc[p] = "waiting"
        /\ UNCHANGED <<id, lastId, handled, batch, todo, delivered, notified, calm>>
    BY <1>2 DEF Sweep
  <2>2. row' \in [Events -> RowStates] /\ listener' \in [Processors -> BOOLEAN]
    BY <1>2 DEF DeliveryInv, TypeOK, Sweep, RowStates
  <2>3. \A e \in Events :
          /\ row'[e] \in {"none", "inserted"} <=> row[e] \in {"none", "inserted"}
          /\ row'[e] = "pending" <=> row[e] = "pending"
    BY <1>2 DEF DeliveryInv, TypeOK, Sweep
  <2>4. TypeOK'
    BY <2>1, <2>2 DEF DeliveryInv, TypeOK, ProcStates
  <2>5. TxsAtomic'
    <3>1. \A T \in Txs : T \subseteq Events
      OBVIOUS
    <3>2. QED
      BY <2>3, <3>1 DEF DeliveryInv, TxsAtomic
  <2>6. Pending' = Pending
    BY <2>3 DEF Pending
  <2>7. ClaimsSound'
    BY <2>1, <2>6 DEF DeliveryInv, TypeOK, ClaimsSound
  <2>8. QED
    BY <2>4, <2>5, <2>7 DEF DeliveryInv
<1>3. QED
  BY <1>1, <1>2 DEF Wake

\* A rolled-back pass and a crash give up the claims and mark nothing.
LEMMA FaultDelivery ==
  ASSUME DeliveryInv, NEW p \in Processors, Fault(p)
  PROVE  DeliveryInv'
<1>1. PICK next \in {"waiting", "down"} : LeaveBatch(p, next)
  BY DEF Fault, BatchFails, Crash
<1>2. UNCHANGED <<row, id, lastId, handled, calm>>
  BY DEF Fault, BatchFails, Crash, rowVars
<1>3. listener' \in [Processors -> BOOLEAN] /\ notified' \in [Processors -> BOOLEAN]
  BY DEF DeliveryInv, TypeOK, Fault, BatchFails, Crash
<1>4. TypeOK'
  BY <1>1, <1>2, <1>3 DEF DeliveryInv, TypeOK, LeaveBatch, ProcStates
<1>5. TxsAtomic'
  BY <1>2 DEF DeliveryInv, TxsAtomic
<1>6. ClaimsSound'
  BY <1>1, <1>2, LeaveBatchClaims DEF ProcStates
<1>7. QED
  BY <1>4, <1>5, <1>6 DEF DeliveryInv

\* Every step preserves the invariant.
LEMMA NextDelivery == DeliveryInv /\ [Next]_vars => DeliveryInv'
<1> SUFFICES ASSUME DeliveryInv, [Next]_vars PROVE DeliveryInv'
  OBVIOUS
<1>1. CASE Publish
  BY <1>1, PublishDelivery
<1>2. ASSUME NEW p \in Processors,
             Claim(p) \/ Handle(p) \/ FinishBatch(p) \/ Wake(p) \/ Start(p) \/ Fault(p)
      PROVE  DeliveryInv'
  BY <1>2, ClaimDelivery, HandleDelivery, FinishBatchDelivery, WakeDelivery, FaultDelivery
<1>3. CASE FaultsEnd
  BY <1>3 DEF FaultsEnd, DeliveryInv, TypeOK, TxsAtomic, ClaimsSound, Pending, rowVars, procVars
<1>4. CASE UNCHANGED vars
  BY <1>4 DEF vars, DeliveryInv, TypeOK, TxsAtomic, ClaimsSound, Pending, rowVars, procVars
<1>5. QED
  BY <1>1, <1>2, <1>3, <1>4 DEF Next

\* The claims of concurrent processors are always disjoint sets of pending
\* rows, and what a processor is about to mark has been handled (outbox.rs:
\* "several instances coordinate safely").
THEOREM ClaimsSafe == Spec => []DeliveryInv
<1>1. Init => DeliveryInv
  BY InitDelivery
<1>2. DeliveryInv /\ [Next]_vars => DeliveryInv'
  BY NextDelivery
<1>3. QED
  BY <1>1, <1>2, PTL DEF Spec

-----------------------------------------------------------------------------
(* What follows from it *)

\* No event is handed to a handler while another processor holds it or once it
\* is processed.
THEOREM HandledOnce == Spec => HandledOnlyWhilePending
<1>1. DeliveryInv /\ [Next]_vars =>
        [\A p \in Processors : \A e \in Events :
           (e \in todo[p] /\ e \notin todo'[p] /\ pc[p] = "handling" /\ pc'[p] = "handling") =>
             /\ row[e] = "pending"
             /\ \A q \in Processors \ {p} : e \notin batch[q]]_vars
  <2> SUFFICES ASSUME DeliveryInv, NEW p \in Processors, NEW e \in Events, e \in todo[p]
               PROVE  row[e] = "pending" /\ \A q \in Processors \ {p} : e \notin batch[q]
    OBVIOUS
  <2>1. e \in batch[p]
    BY DEF DeliveryInv, ClaimsSound
  <2>2. QED
    BY <2>1 DEF DeliveryInv, ClaimsSound, Pending
<1>2. QED
  BY <1>1, ClaimsSafe, PTL DEF Spec, HandledOnlyWhilePending

\* The rows the abstract pipeline has recorded, and those it is done with.
Recorded == {e \in Events : row[e] \in {"pending", "processed", "pruned"}}
Finished == {e \in Events : row[e] \in {"processed", "pruned"}}

\* A commit records the transaction's events; an insert or a rollback nothing.
LEMMA PublishRefines ==
  ASSUME DeliveryInv, Publish
  PROVE  Promise!Record \/ UNCHANGED Promise!vars
<1> \A T \in Txs : T \subseteq Events
  OBVIOUS
<1>1. ASSUME NEW T \in Txs, NEW e \in T, Insert(e)
      PROVE  Recorded' = Recorded /\ Finished' = Finished /\ handled' = handled
  BY <1>1 DEF DeliveryInv, TypeOK, Insert, Recorded, Finished
<1>2. ASSUME NEW T \in Txs, Commit(T)
      PROVE  /\ T \in SUBSET (Events \ Recorded)
             /\ Recorded' = Recorded \cup T /\ Finished' = Finished /\ handled' = handled
  BY <1>2 DEF DeliveryInv, TypeOK, Commit, Recorded, Finished
<1>3. ASSUME NEW T \in Txs, Abort(T)
      PROVE  Recorded' = Recorded /\ Finished' = Finished /\ handled' = handled
  <2>1. \A e \in T : row[e] \in {"none", "inserted"}
    BY <1>3 DEF DeliveryInv, TxsAtomic, Abort
  <2>2. QED
    BY <1>3, <2>1 DEF DeliveryInv, TypeOK, Abort, Recorded, Finished
<1>4. QED
  BY <1>1, <1>2, <1>3 DEF Publish, Promise!Record, Promise!vars, Recorded, Finished

\* A handler that accepts an event does what the promise calls Handle: the
\* event is still owed.
LEMMA HandleRefines ==
  ASSUME DeliveryInv, NEW p \in Processors, Handle(p)
  PROVE  Promise!Handle \/ UNCHANGED Promise!vars
<1>1. PICK e \in Events : HandleOk(p, e) \/ HandleUndecodable(p, e) \/ HandleFail(p, e)
  BY DEF Handle
<1>2. row[e] = "pending"
  BY <1>1, CurrentClaimed DEF HandleOk, HandleUndecodable, HandleFail
<1>3. row' = row /\ (handled' = handled \cup {e} \/ handled' = handled)
  BY <1>1 DEF HandleOk, HandleUndecodable, HandleFail, rowVars
<1>4. QED
  BY <1>2, <1>3 DEF Promise!Handle, Promise!vars

\* The commit of a pass finishes events that are owed and were accepted.
LEMMA FinishBatchRefines ==
  ASSUME DeliveryInv, NEW p \in Processors, FinishBatch(p)
  PROVE  Promise!Finish
<1>1. /\ delivered[p] \subseteq Pending
      /\ delivered[p] \subseteq handled \cup Undecodable
  BY DEF DeliveryInv, ClaimsSound
<1>2. /\ row' = [e \in Events |-> IF e \in delivered[p] THEN "processed" ELSE row[e]]
      /\ handled' = handled
  BY DEF FinishBatch, Marked
<1>3. delivered[p] \subseteq Events
  BY DEF DeliveryInv, TypeOK
<1>4. delivered[p] \in SUBSET ((Recorded \cap (handled \cup Undecodable)) \ Finished)
  BY <1>1, <1>3 DEF Recorded, Finished, Pending
<1>5. Recorded' = Recorded
  BY <1>1, <1>2, <1>3 DEF Recorded, Pending
<1>6. Finished' = Finished \cup delivered[p]
  BY <1>1, <1>2, <1>3 DEF Finished, Pending
<1>7. QED
  BY <1>2, <1>4, <1>5, <1>6 DEF Promise!Finish, Recorded, Finished

\* Every other step, crashes included, is invisible to the promise.
LEMMA OtherStepsRefine ==
  ASSUME DeliveryInv, NEW p \in Processors, Claim(p) \/ Wake(p) \/ Start(p) \/ Fault(p)
  PROVE  UNCHANGED Promise!vars
<1>1. CASE Claim(p) \/ WakeOnNotify(p) \/ ListenerDrops(p) \/ Start(p) \/ Fault(p)
  <2>1. row' = row /\ handled' = handled
    BY <1>1 DEF Claim, WakeOnNotify, ListenerDrops, Start, Fault, BatchFails, Crash, rowVars
  <2>2. QED
    BY <2>1 DEF Promise!vars
<1>2. CASE Sweep(p)
  <2>1. handled' = handled
    BY <1>2 DEF Sweep
  <2>2. Recorded' = Recorded /\ Finished' = Finished
    BY <1>2 DEF DeliveryInv, TypeOK, Sweep, Recorded, Finished
  <2>3. QED
    BY <2>1, <2>2 DEF Promise!vars, Recorded, Finished
<1>3. QED
  BY <1>1, <1>2 DEF Wake

\* The outbox implements EventDelivery: an event exists once its transaction
\* commits, it is finished only after a handler accepted it (or no handler ever
\* can), and it is never handled after, whichever processors crash and whatever
\* is redelivered.
THEOREM Implements == Spec => DeliversAsPromised
<1>1. Init => Promise!Init
  BY DEF Init, Promise!Init
<1>2. DeliveryInv /\ [Next]_vars => [Promise!Next]_Promise!vars
  <2> SUFFICES ASSUME DeliveryInv, [Next]_vars
               PROVE  Promise!Next \/ UNCHANGED Promise!vars
    OBVIOUS
  <2>1. CASE Publish
    BY <2>1, PublishRefines DEF Promise!Next
  <2>2. ASSUME NEW p \in Processors,
               Claim(p) \/ Handle(p) \/ FinishBatch(p) \/ Wake(p) \/ Start(p) \/ Fault(p)
        PROVE  Promise!Next \/ UNCHANGED Promise!vars
    BY <2>2, HandleRefines, FinishBatchRefines, OtherStepsRefine DEF Promise!Next
  <2>3. CASE FaultsEnd \/ UNCHANGED vars
    <3>1. row' = row /\ handled' = handled
      BY <2>3 DEF FaultsEnd, vars, rowVars
    <3>2. QED
      BY <3>1 DEF Promise!vars
  <2>4. QED
    BY <2>1, <2>2, <2>3 DEF Next
<1>3. QED
  BY <1>1, <1>2, ClaimsSafe, PTL DEF Spec, DeliversAsPromised, Promise!Spec
=============================================================================
