------------------------------- MODULE Sockets -------------------------------
(***************************************************************************)
(* One WebSocket connection (api/src/routes/ws), the message broker        *)
(* (infrastructure/src/messaging) and the broadcasters that feed it.       *)
(*                                                                         *)
(* A channel carries topics.  The changes of an item topic (bets, chat     *)
(* messages) are shown each; of a state topic (a market's prices, a        *)
(* message's reaction count) only the latest counts.  Changes are numbered *)
(* per topic; a state is the number of the change that made it.  What a    *)
(* broadcaster sends for a change is one message and one frame here.       *)
(***************************************************************************)
EXTENDS Integers, Sequences, FiniteSets

CONSTANTS Channels,    \* a subset of {"market", "bets", "chat"}
          QueueCap,    \* frames in the connection's queue (64 in the code)
          StreamCap,   \* messages a slow subscriber may fall behind (CAPACITY)
          Page,        \* items of a history (HISTORY_LIMIT)
          MaxChanges,  \* bound: changes in all
          MaxFrames    \* bound: frames from the client

ASSUME SocketsAssumption ==
  /\ Channels \subseteq {"market", "bets", "chat"}
  /\ QueueCap \in Nat \ {0} /\ StreamCap \in Nat \ {0} /\ Page \in Nat \ {0}
  /\ MaxChanges \in Nat /\ MaxFrames \in Nat

TopicsOf(c) == CASE c = "market" -> <<"price">>
                 [] c = "bets"   -> <<"bet">>
                 [] c = "chat"   -> <<"message", "reaction">>
TopicSet(c) == {TopicsOf(c)[i] : i \in 1 .. Len(TopicsOf(c))}
Topics      == UNION {TopicSet(c) : c \in Channels}
StateTopics == Topics \cap {"price", "reaction"}
ItemTopics  == Topics \ StateTopics
ChannelOf(t) == CHOOSE c \in Channels : t \in TopicSet(c)

VARIABLES
  last,      \* changes committed, per topic
  unsent,    \* those whose event the outbox still has to deliver
  reading,   \* what the broadcaster has read and not sent
  opened,    \* topics this connection has a broker stream for
  stream,    \* what waits in each of these streams
  subs,      \* channels in the connection's map: their forwarding tasks run
  joining,   \* the join in progress: channel, steps left, what has been read
  queue,     \* frames on their way from the forwarding tasks to the socket
  alive,     \* the connection is open
  frames,    \* frames received from the client
  got,       \* items the client has, since it last subscribed
  shows,     \* the state it shows
  before,    \* history: items older than the history page it was given
  missed,    \* history: topics that lost a message to lag, or whose stream ended
  leftover   \* history: channels joined while frames of theirs were queued

worldVars  == <<last, unsent>>
socketVars == <<opened, stream, subs, joining, queue, alive, frames>>
clientVars == <<got, shows, before, leftover>>
vars       == <<worldVars, reading, socketVars, clientVars, missed>>

Nothing == [topic |-> "none"]
NoJoin  == [channel |-> "none", steps |-> <<>>]
Numbers == 0 .. MaxChanges

TypeOK ==
  /\ last \in [Topics -> Numbers]
  /\ \A t \in Topics : unsent[t] \subseteq 1 .. last[t]
  /\ reading = Nothing \/ reading \in [topic : Topics, change : 1 .. MaxChanges, value : 1 .. MaxChanges]
  /\ opened \subseteq Topics
  /\ \A t \in Topics : /\ stream[t] \in Seq(1 .. last[t])
                       /\ Len(stream[t]) <= StreamCap
                       /\ t \in opened => ChannelOf(t) \in subs \cup {joining.channel}
  /\ subs \subseteq Channels /\ joining.channel \notin subs
  /\ queue \in Seq([topic : Topics, value : 1 .. MaxChanges]) /\ Len(queue) <= QueueCap
  /\ alive \in BOOLEAN /\ frames \in 0 .. MaxFrames
  /\ \A t \in Topics : got[t] \cup before[t] \subseteq 1 .. last[t] /\ shows[t] \in Numbers
  /\ missed \subseteq Topics /\ leftover \subseteq Channels

Init ==
  /\ last = [t \in Topics |-> 0]
  /\ unsent = [t \in Topics |-> {}]
  /\ reading = Nothing
  /\ opened = {} /\ stream = [t \in Topics |-> <<>>]
  /\ subs = {} /\ joining = NoJoin /\ queue = <<>>
  /\ alive = TRUE /\ frames = 0
  /\ got = [t \in Topics |-> {}] /\ shows = [t \in Topics |-> 0]
  /\ before = [t \in Topics |-> {}]
  /\ missed = {} /\ leftover = {}

-----------------------------------------------------------------------------
(* The world: changes, and the broadcaster of the one outbox processor      *)

Changes == Cardinality({x \in Topics \X (1 .. MaxChanges) : x[2] <= last[x[1]]})

\* The model follows the world as long as the connection is there.
Change(t) ==
  /\ alive /\ Changes < MaxChanges
  /\ last' = [last EXCEPT ![t] = @ + 1]
  /\ unsent' = [unsent EXCEPT ![t] = @ \cup {last[t] + 1}]
  /\ UNCHANGED <<reading, socketVars, clientVars, missed>>

\* A handler reads its item, or the state as it is now.
Read(t, n) ==
  /\ alive /\ reading = Nothing /\ n \in unsent[t]
  /\ reading' = [topic |-> t, change |-> n, value |-> IF t \in StateTopics THEN last[t] ELSE n]
  /\ UNCHANGED <<worldVars, socketVars, clientVars, missed>>

\* Mutant: a full buffer refuses the new message.
PushUnlessFull(s, v) == IF Len(s) < StreamCap THEN Append(s, v) ELSE s

\* A subscriber that is too far behind loses the oldest message.
Push(s, v) == IF Len(s) < StreamCap THEN Append(s, v) ELSE Append(Tail(s), v)

\* publish reaches who is subscribed now.  The handler may be told that it
\* failed all the same: then the event stays.
Send ==
  /\ alive /\ reading # Nothing
  /\ LET t == reading.topic IN
       /\ stream' = [stream EXCEPT ![t] = IF t \in opened THEN Push(@, reading.value) ELSE @]
       /\ missed' = IF t \in opened /\ Len(stream[t]) = StreamCap THEN missed \cup {t} ELSE missed
       /\ \E ok \in BOOLEAN :
            unsent' = [unsent EXCEPT ![t] = IF ok THEN @ \ {reading.change} ELSE @]
  /\ reading' = Nothing
  /\ UNCHANGED <<last, opened, subs, joining, queue, alive, frames, clientVars>>

\* The read or the send fails without effect.
SendFails ==
  /\ alive /\ reading # Nothing
  /\ reading' = Nothing
  /\ UNCHANGED <<worldVars, socketVars, clientVars, missed>>

-----------------------------------------------------------------------------
(* Joining a channel, inside the connection's loop *)

Idle == alive /\ joining = NoJoin

Steps(kind, c) == [i \in 1 .. Len(TopicsOf(c)) |-> [do |-> kind, topic |-> TopicsOf(c)[i]]]

\* Mutant: the history is read before the broker is subscribed to.
JoinStepsLoadFirst(c) == Steps("load", c) \o Steps("open", c)

\* subscribe::chat, bets, market_feed: "subscribe first, replay second".
JoinSteps(c) == Steps("open", c) \o Steps("load", c)

\* handle_frame: Subscribe.  A channel already in the map is refused.
Subscribe(c) ==
  /\ Idle /\ frames < MaxFrames
  /\ frames' = frames + 1
  /\ joining' = IF c \in subs THEN NoJoin ELSE [channel |-> c, steps |-> JoinSteps(c)]
  /\ UNCHANGED <<worldVars, reading, opened, stream, subs, queue, alive, clientVars, missed>>

JoinStep == Head(joining.steps)

\* broker_stream
OpenStream ==
  /\ alive /\ joining.steps # <<>> /\ JoinStep.do = "open"
  /\ opened' = opened \cup {JoinStep.topic}
  /\ stream' = [stream EXCEPT ![JoinStep.topic] = <<>>]
  /\ missed' = missed \ {JoinStep.topic}
  /\ joining' = [joining EXCEPT !.steps = Tail(@)]
  /\ UNCHANGED <<worldVars, reading, subs, queue, alive, frames, clientVars>>

\* The newest page of the items, or the state, as committed now.
Load ==
  /\ alive /\ joining.steps # <<>> /\ JoinStep.do = "load"
  /\ LET t == JoinStep.topic
         page == {n \in 1 .. last[t] : n > last[t] - Page} IN
       /\ got' = [got EXCEPT ![t] = IF t \in ItemTopics THEN page ELSE {}]
       /\ before' = [before EXCEPT ![t] = (1 .. last[t]) \ page]
       /\ shows' = [shows EXCEPT ![t] = IF t \in StateTopics THEN last[t] ELSE 0]
  /\ joining' = [joining EXCEPT !.steps = Tail(@)]
  /\ UNCHANGED <<worldVars, reading, opened, stream, subs, queue, alive, frames, leftover, missed>>

QueuedOf(c) == {i \in 1 .. Len(queue) : queue[i].topic \in TopicSet(c)}

\* Mutant: the history goes through the queue like every other frame, and waits
\* for a place in it.
JoinedThroughQueue ==
  /\ alive /\ joining # NoJoin /\ joining.steps = <<>>
  /\ Len(queue) < QueueCap
  /\ subs' = subs \cup {joining.channel}
  /\ joining' = NoJoin
  /\ UNCHANGED <<worldVars, reading, opened, stream, queue, alive, frames, clientVars, missed>>

\* The history is sent straight to the socket, past the queue, and the
\* forwarding task starts.
Joined ==
  /\ alive /\ joining # NoJoin /\ joining.steps = <<>>
  /\ subs' = subs \cup {joining.channel}
  /\ leftover' = IF QueuedOf(joining.channel) = {} THEN leftover \ {joining.channel}
                                                   ELSE leftover \cup {joining.channel}
  /\ joining' = NoJoin
  /\ UNCHANGED <<worldVars, reading, opened, stream, queue, alive, frames, got, shows, before, missed>>

\* The streams of a set of channels are dropped.
Drop(cs) ==
  /\ opened' = {t \in opened : ChannelOf(t) \notin cs}
  /\ stream' = [t \in Topics |-> IF ChannelOf(t) \in cs THEN <<>> ELSE stream[t]]

\* An unknown market, or the broker or the database fails: the client is told
\* and the connection goes on.
JoinFails ==
  /\ alive /\ joining # NoJoin /\ joining.steps # <<>>
  /\ Drop({joining.channel})
  /\ joining' = NoJoin
  /\ UNCHANGED <<worldVars, reading, subs, queue, alive, frames, clientVars, missed>>

-----------------------------------------------------------------------------
(* The rest of the connection *)

\* Unsubscribe aborts the forwarding task.  What it has queued stays queued.  The
\* abort takes effect when the task next yields, so a frame it is just handing
\* over may still go through: the same as one queued just before, as long as that
\* happens before the client's next frame is read.
Unsubscribe(c) ==
  /\ Idle /\ frames < MaxFrames
  /\ frames' = frames + 1
  /\ subs' = subs \ {c}
  /\ IF c \in subs THEN Drop({c}) ELSE UNCHANGED <<opened, stream>>
  /\ UNCHANGED <<worldVars, reading, joining, queue, alive, clientVars, missed>>

\* Mutant: a frame that finds the queue full is dropped (try_send).
ForwardOrDrop(t) ==
  /\ alive /\ ChannelOf(t) \in subs /\ stream[t] # <<>>
  /\ queue' = IF Len(queue) < QueueCap
              THEN Append(queue, [topic |-> t, value |-> Head(stream[t])]) ELSE queue
  /\ stream' = [stream EXCEPT ![t] = Tail(@)]
  /\ UNCHANGED <<worldVars, reading, opened, subs, joining, alive, frames, clientVars, missed>>

\* A forwarding task moves one message to the queue, when there is room.
Forward(t) ==
  /\ alive /\ ChannelOf(t) \in subs /\ stream[t] # <<>>
  /\ Len(queue) < QueueCap
  /\ queue' = Append(queue, [topic |-> t, value |-> Head(stream[t])])
  /\ stream' = [stream EXCEPT ![t] = Tail(@)]
  /\ UNCHANGED <<worldVars, reading, opened, subs, joining, alive, frames, clientVars, missed>>

\* The loop writes a frame; the client takes it.
Deliver ==
  /\ Idle /\ queue # <<>>
  /\ LET f == Head(queue) IN
       IF f.topic \in ItemTopics
       THEN got' = [got EXCEPT ![f.topic] = @ \cup {f.value}] /\ UNCHANGED shows
       ELSE shows' = [shows EXCEPT ![f.topic] = f.value] /\ UNCHANGED got
  /\ queue' = Tail(queue)
  /\ UNCHANGED <<worldVars, reading, opened, stream, subs, joining, alive, frames, before, leftover, missed>>

\* The broker's connection is lost: the stream ends after what it has received.
\* The forwarding task ends with it; its entry stays in the map.
StreamEnds(t) ==
  /\ t \in opened
  /\ opened' = opened \ {t}
  /\ missed' = missed \cup {t}
  /\ UNCHANGED <<worldVars, reading, stream, subs, joining, queue, alive, frames, clientVars>>

\* The socket closes or fails, at any await: every task is aborted.
Close ==
  /\ alive
  /\ alive' = FALSE
  /\ subs' = {} /\ joining' = NoJoin /\ queue' = <<>>
  /\ Drop(Channels)
  /\ UNCHANGED <<worldVars, reading, frames, clientVars, missed>>

LoopStep == OpenStream \/ Load \/ Joined \/ Deliver

Next ==
  \/ \E t \in Topics : Change(t) \/ Forward(t) \/ StreamEnds(t)
  \/ \E t \in Topics, n \in 1 .. MaxChanges : Read(t, n)
  \/ \E c \in Channels : Subscribe(c) \/ Unsubscribe(c)
  \/ LoopStep \/ Send \/ SendFails \/ JoinFails \/ Close

Spec == Init /\ [][Next]_vars

\* The runtime polls the connection's task, which picks a ready branch of select!
\* at random, and the forwarding tasks, which are served in turn when they wait
\* for room in the queue and take from their streams in turn.  The properties
\* need it of items only.
Fairness ==
  /\ WF_vars(LoopStep)
  /\ \A t \in ItemTopics : SF_vars(Forward(t))

FairSpec == Spec /\ Fairness

-----------------------------------------------------------------------------
(* Properties *)

Waiting(t) == {stream[t][i] : i \in 1 .. Len(stream[t])}
Queued(t)  == {queue[i].value : i \in {j \in 1 .. Len(queue) : queue[j].topic = t}}

\* Whatever is committed while a client joins is in its history or on its way:
\* an item is only missing if it is older than the page, or the broker lost it
\* (subscribe.rs: "subscribe first, replay second - so nothing published in
\* between is lost").
NothingLost ==
  \A t \in ItemTopics \ missed : ChannelOf(t) \in subs =>
    1 .. last[t] \subseteq
      got[t] \cup before[t] \cup Waiting(t) \cup Queued(t) \cup unsent[t]

\* With the types: no stream is open without its channel, no queue over its bound.
ConnectionInv == TypeOK /\ NothingLost

\* When all changes of a state have been sent and nothing is under way, the
\* client shows the committed state: a snapshot newer than the messages that
\* follow it does no harm (subscribe.rs: "price frames by being idempotent"), nor
\* does a lag, which keeps the newest message.  Two things can spoil it: a stream
\* that has ended, and frames of an earlier subscription to the channel that were
\* still queued when the new history was sent past them.
QuietStateIsCurrent ==
  \A t \in opened \cap StateTopics :
    /\ ChannelOf(t) \in subs \ leftover
    /\ unsent[t] = {} /\ reading = Nothing
    /\ Waiting(t) = {} /\ Queued(t) = {}
    => shows[t] = last[t]

\* A join ends, however full the queue is and whatever the other channels send:
\* the loop that joins is also the one that empties the queue.
JoinsEnd == joining # NoJoin ~> joining = NoJoin

\* An item that has reached the connection reaches the client, unless the client
\* leaves the channel or falls too far behind.
EveryItemForwarded ==
  \A t \in ItemTopics : \A n \in 1 .. MaxChanges :
    (ChannelOf(t) \in subs /\ n \in Waiting(t)) ~>
      (n \in got[t] \/ ChannelOf(t) \notin subs \/ t \in missed)
=============================================================================
