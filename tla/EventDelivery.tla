---------------------------- MODULE EventDelivery ----------------------------
(***************************************************************************)
(* What the event pipeline promises to the code that publishes events      *)
(* (infrastructure/src/events.rs): an event exists once its transaction    *)
(* commits, and it is handled at least once before the pipeline is done    *)
(* with it, which is for good.  Outbox implements this.  An event handled  *)
(* again after that would be a stutter here, where `handled' has it        *)
(* already; that it never happens is Outbox's HandledOnlyWhilePending.     *)
(***************************************************************************)
CONSTANTS Events,
          Undecodable   \* events whose payload no handler can decode

VARIABLES recorded,  \* events of committed transactions
          handled,   \* events some handler has accepted
          finished   \* events the pipeline is done with

vars == <<recorded, handled, finished>>

Init == recorded = {} /\ handled = {} /\ finished = {}

\* A transaction commits with the events it published, all or none.
Record ==
  \E S \in SUBSET (Events \ recorded) :
    recorded' = recorded \cup S /\ UNCHANGED <<handled, finished>>

\* A handler accepts an event the pipeline still owes.
Handle ==
  \E e \in recorded \ finished :
    handled' = handled \cup {e} /\ UNCHANGED <<recorded, finished>>

\* The pipeline is done with events that were handled, or never can be.
Finish ==
  \E S \in SUBSET ((recorded \cap (handled \cup Undecodable)) \ finished) :
    finished' = finished \cup S /\ UNCHANGED <<recorded, handled>>

Next == Record \/ Handle \/ Finish

Spec == Init /\ [][Next]_vars
=============================================================================
