------------------------------ MODULE Reactions ------------------------------
(***************************************************************************)
(* One emoji on one chat message: requests that add or take back a user's  *)
(* reaction (use_cases/chat/react.rs, chat_message_repository.rs), the     *)
(* outbox that carries each change (Outbox), and the broadcaster that      *)
(* tallies and sends it (application/src/broadcasters/chat.rs).            *)
(*                                                                         *)
(* What clients show is the last count sent, and for each user the         *)
(* direction last sent with that user's name: a client keeps its own flag  *)
(* from the frames that carry its id.                                      *)
(***************************************************************************)
EXTENDS Integers, FiniteSets, TLC

CONSTANTS Users, Requests, Processors, Batch

ASSUME ReactionsAssumption ==
  IsFiniteSet(Users) /\ IsFiniteSet(Requests) /\ Batch \in Nat \ {0}

VARIABLES
  row, id, lastId, handled, pc, batch, todo, delivered, listener, notified, calm,  \* Outbox
  wanted,    \* what each request asks for
  rpc,       \* where it stands
  reactors,  \* committed rows of chat_message_reactions: who holds the emoji
  stage,     \* how far each processor's current handler is
  tally,     \* the count it has read
  count,     \* the count clients show
  flag,      \* "I reacted", as the client of each user shows it
  tripped    \* history: users one of whose changes a handler failed to send

outboxVars == <<row, id, lastId, handled, pc, batch, todo, delivered, listener, notified, calm>>
requestVars == <<wanted, rpc, reactors>>
clientVars == <<count, flag>>
reactionVars == <<outboxVars, requestVars, stage, tally, clientVars, tripped>>

\* One event per request that changes something.
O == INSTANCE Outbox WITH
  Events <- Requests, Txs <- {{r} : r \in Requests}, Poison <- {}, Undecodable <- {}

Counts == 0 .. Cardinality(Users)

ReactionsTypeOK ==
  /\ O!TypeOK
  /\ wanted \in [Requests -> [user : Users, added : BOOLEAN]]
  /\ rpc \in [Requests -> {"sent", "open", "done", "failed"}]
  /\ reactors \subseteq Users
  /\ stage \in [Processors -> {"idle", "read"}]
  /\ tally \in [Processors -> Counts]
  /\ count \in Counts
  /\ flag \in [Users -> BOOLEAN]
  /\ tripped \subseteq Users

ReactionsInit ==
  /\ O!Init
  /\ wanted \in [Requests -> [user : Users, added : BOOLEAN]]
  /\ rpc = [r \in Requests |-> "sent"]
  /\ reactors = {}
  /\ stage = [p \in Processors |-> "idle"]
  /\ tally = [p \in Processors |-> 0]
  /\ count = 0
  /\ flag = [u \in Users |-> FALSE]
  /\ tripped = {}

-----------------------------------------------------------------------------
(* Requests *)

\* The transactions that have written the row of user u.
RowWriters(u) == {r \in Requests : rpc[r] = "open" /\ wanted[r].user = u}

\* The INSERT meets the primary key also in uncommitted rows and waits for their
\* transactions; the DELETE sees committed rows only and waits for another
\* DELETE of one.
Waits(r) == \E q \in RowWriters(wanted[r].user) : wanted[r].added \/ ~wanted[q].added

\* rows_affected > 0
Changes(r) == wanted[r].added <=> wanted[r].user \notin reactors

\* add_reaction, remove_reaction: the statement and, if it changed something,
\* publish_reaction_change.  Otherwise the commit has nothing to make visible.
Write(r) ==
  /\ rpc[r] = "sent" /\ ~Waits(r)
  /\ \/ /\ Changes(r)
        /\ O!Insert(r)
        /\ rpc' = [rpc EXCEPT ![r] = "open"]
     \/ /\ ~Changes(r)
        /\ rpc' = [rpc EXCEPT ![r] = "done"]
        /\ UNCHANGED outboxVars
  /\ UNCHANGED <<wanted, reactors, stage, tally, clientVars, tripped>>

CommitChange(r) ==
  /\ rpc[r] = "open"
  /\ O!Commit({r})
  /\ rpc' = [rpc EXCEPT ![r] = "done"]
  /\ reactors' = IF wanted[r].added THEN reactors \cup {wanted[r].user}
                                    ELSE reactors \ {wanted[r].user}
  /\ UNCHANGED <<wanted, stage, tally, clientVars, tripped>>

\* A bad emoji, an unknown message or a storage error before the transaction.
Refuse(r) ==
  /\ rpc[r] = "sent"
  /\ rpc' = [rpc EXCEPT ![r] = "failed"]
  /\ UNCHANGED <<outboxVars, wanted, reactors, stage, tally, clientVars, tripped>>

\* A storage error, or the connection closes, inside it: rolled back.
FailChange(r) ==
  /\ rpc[r] = "open"
  /\ O!Abort({r})
  /\ rpc' = [rpc EXCEPT ![r] = "failed"]
  /\ UNCHANGED <<wanted, reactors, stage, tally, clientVars, tripped>>

-----------------------------------------------------------------------------
(* ChatReactionBroadcaster *)

\* Mutant: the count of the event's own moment, its delta applied to what was
\* last sent.
TallyByDelta(r) == IF wanted[r].added THEN count + 1 ELSE count - 1

\* reactions_for: the tally as it stands.
Tally(r) == Cardinality(reactors)

\* The reads of the message and the tally,
ReadTally(p, r) ==
  /\ O!Current(p, r)
  /\ stage[p] = "idle"
  /\ stage' = [stage EXCEPT ![p] = "read"]
  /\ tally' = [tally EXCEPT ![p] = Tally(r)]
  /\ UNCHANGED <<outboxVars, requestVars, clientVars, tripped>>

Rest(p) ==
  /\ stage' = [stage EXCEPT ![p] = "idle"]
  /\ tally' = [tally EXCEPT ![p] = 0]

\* then the broadcast, which may report a failure although the broker took it.
SendTally(p, r) ==
  /\ O!Current(p, r)
  /\ stage[p] = "read"
  /\ count' = tally[p]
  /\ flag' = [flag EXCEPT ![wanted[r].user] = wanted[r].added]
  /\ \/ O!HandleOk(p, r) /\ UNCHANGED tripped
     \/ O!HandleFail(p, r) /\ tripped' = tripped \cup {wanted[r].user}
  /\ Rest(p)
  /\ UNCHANGED requestVars

\* A read or the broadcast fails without effect: the event stays pending, and
\* the batch goes on with the next one.
HandlerFails(p, r) ==
  /\ O!HandleFail(p, r)
  /\ tripped' = tripped \cup {wanted[r].user}
  /\ Rest(p)
  /\ UNCHANGED <<requestVars, clientVars>>

\* The processor's own steps.
ProcessorStep(p) ==
  /\ O!Claim(p) \/ O!FinishBatch(p) \/ O!Wake(p) \/ O!Start(p)
  /\ UNCHANGED <<requestVars, stage, tally, clientVars, tripped>>

\* Mutant: the batch is marked as processed, and committed, before it is handled.
FaultAfterMarking(p) ==
  /\ pc[p] = "handling"
  /\ row' = [r \in Requests |-> IF r \in batch[p] THEN "processed" ELSE row[r]]
  /\ O!LeaveBatch(p, "waiting")
  /\ Rest(p)
  /\ UNCHANGED <<id, lastId, handled, listener, notified, calm, requestVars, clientVars, tripped>>

\* A storage error or the end of the process takes the batch, and the running
\* handler, with it.
Fault(p) ==
  /\ O!Fault(p)
  /\ Rest(p)
  /\ UNCHANGED <<requestVars, clientVars, tripped>>

ReactionsNext ==
  \/ \E r \in Requests : Write(r) \/ CommitChange(r) \/ Refuse(r) \/ FailChange(r)
  \/ \E p \in Processors, r \in Requests : ReadTally(p, r) \/ SendTally(p, r) \/ HandlerFails(p, r)
  \/ \E p \in Processors : ProcessorStep(p) \/ Fault(p)

ReactionsSpec == ReactionsInit /\ [][ReactionsNext]_reactionVars

ReactionsSymmetry == Permutations(Users) \cup Permutations(Requests)

-----------------------------------------------------------------------------
(* Properties *)

ChangesOf(u) ==
  {r \in Requests : wanted[r].user = u /\ row[r] \in {"pending", "processed", "pruned"}}

Drained == \A r \in Requests : row[r] # "pending"

\* However a user's frames race and are retried, the events recorded for the
\* user are exactly the changes made, in the order of their ids: first an
\* addition, then in turns, the last one saying whether the reaction is there
\* (chat_message_repository.rs: "Only a real change is worth an event").
EventsMatchChanges ==
  \A u \in Users :
    /\ \A r \in ChangesOf(u) :
         LET before == {q \in ChangesOf(u) : id[q] < id[r]} IN
         wanted[r].added <=> Cardinality(before) % 2 = 0
    /\ u \in reactors <=> Cardinality(ChangesOf(u)) % 2 = 1

\* When every change has been delivered, clients show the committed count: counts
\* sent late or twice by a retried handler do not stay (realtime/chat.rs: "a
\* count it can assign is idempotent where +1 would not be").
DrainedCountIsCurrent == Drained => count = Cardinality(reactors)

\* With the types: the table, its events and what clients count agree.
ReactionsInv == ReactionsTypeOK /\ EventsMatchChanges /\ DrainedCountIsCurrent

\* And the flag a client keeps from the frames with its own id is the user's
\* reaction, unless a handler failed on a change of that user: it is tried again
\* after the changes that follow it, and the older direction is sent last.
FlagWrongOnlyAfterFailure ==
  Drained => \A u \in Users \ tripped : flag[u] <=> u \in reactors
=============================================================================
