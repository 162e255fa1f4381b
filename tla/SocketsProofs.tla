---------------------------- MODULE SocketsProofs ----------------------------
(***************************************************************************)
(* Proofs about Sockets, for every set of channels and every capacity of   *)
(* the queue, of the streams and of a history page.                        *)
(***************************************************************************)
EXTENDS Sockets, FiniteSetTheorems, TLAPS

USE SocketsAssumption

-----------------------------------------------------------------------------
(* Channels and topics *)

JoinTask == [do : {"open", "load"}, topic : Topics]

\* The topics of a channel, named.
LEMMA TopicsByName ==
  /\ TopicsOf("market") = <<"price">> /\ TopicSet("market") = {"price"}
  /\ TopicsOf("bets") = <<"bet">> /\ TopicSet("bets") = {"bet"}
  /\ TopicsOf("chat") = <<"message", "reaction">> /\ TopicSet("chat") = {"message", "reaction"}
<1>1. /\ TopicsOf("market") = <<"price">> /\ TopicsOf("bets") = <<"bet">>
      /\ TopicsOf("chat") = <<"message", "reaction">>
  BY DEF TopicsOf
<1>2. TopicSet("market") = {"price"}
  BY <1>1 DEF TopicSet
<1>3. TopicSet("bets") = {"bet"}
  BY <1>1 DEF TopicSet
<1>4. TopicSet("chat") = {"message", "reaction"}
  BY <1>1 DEF TopicSet
<1>5. QED
  BY <1>1, <1>2, <1>3, <1>4

\* A topic belongs to one channel.
LEMMA TopicChannel ==
  /\ \A t \in Topics : ChannelOf(t) \in Channels /\ t \in TopicSet(ChannelOf(t))
  /\ \A c \in Channels : \A t \in TopicSet(c) : t \in Topics /\ ChannelOf(t) = c
<1>1. \A c, d \in Channels : \A t : t \in TopicSet(c) /\ t \in TopicSet(d) => c = d
  BY TopicsByName
<1>2. \A t \in Topics : \E c \in Channels : t \in TopicSet(c)
  BY DEF Topics
<1>3. \A t \in Topics : ChannelOf(t) \in Channels /\ t \in TopicSet(ChannelOf(t))
  BY <1>2 DEF ChannelOf
<1>4. \A c \in Channels : \A t \in TopicSet(c) : t \in Topics
  BY DEF Topics
<1>5. QED
  BY <1>1, <1>3, <1>4

\* There are finitely many topics.
LEMMA TopicsFinite == IsFiniteSet(Topics)
<1>1. Topics \subseteq {"price", "bet", "message", "reaction"}
  BY TopicsByName DEF Topics
<1>2. IsFiniteSet({"price", "bet", "message", "reaction"})
  <2>1. IsFiniteSet({"price"})
    BY FS_Singleton
  <2>2. IsFiniteSet({"price"} \cup {"bet"})
    BY <2>1, FS_AddElement
  <2>3. IsFiniteSet(({"price"} \cup {"bet"}) \cup {"message"})
    BY <2>2, FS_AddElement
  <2>4. IsFiniteSet((({"price"} \cup {"bet"}) \cup {"message"}) \cup {"reaction"})
    BY <2>3, FS_AddElement
  <2>5. (({"price"} \cup {"bet"}) \cup {"message"}) \cup {"reaction"} = {"price", "bet", "message", "reaction"}
    OBVIOUS
  <2>6. QED
    BY <2>4, <2>5
<1>3. QED
  BY <1>1, <1>2, FS_Subset

\* Every topic is opened, and every open is followed by a load.
LEMMA JoinOrder ==
  ASSUME NEW c \in Channels
  PROVE  /\ JoinSteps(c) \in Seq(JoinTask)
         /\ \A i \in 1 .. Len(JoinSteps(c)) :
              /\ JoinSteps(c)[i].topic \in TopicSet(c)
              /\ JoinSteps(c)[i].do = "open" =>
                   \E j \in 1 .. Len(JoinSteps(c)) :
                     j > i /\ JoinSteps(c)[j] = [do |-> "load", topic |-> JoinSteps(c)[i].topic]
         /\ \A t \in TopicSet(c) : \E i \in 1 .. Len(JoinSteps(c)) :
              JoinSteps(c)[i] = [do |-> "open", topic |-> t]
<1> DEFINE T == TopicsOf(c)
           n == Len(T)
           J == JoinSteps(c)
<1>1. T \in Seq(Topics) /\ n \in Nat /\ TopicSet(c) = {T[i] : i \in 1 .. n}
  <2>1. T \in Seq({"price", "bet", "message", "reaction"})
    <3>1. CASE c = "market"
      BY <3>1, TopicsByName
    <3>2. CASE c = "bets"
      BY <3>2, TopicsByName
    <3>3. CASE c = "chat"
      <4>1. <<"message", "reaction">> \in Seq({"price", "bet", "message", "reaction"})
        OBVIOUS
      <4>2. QED
        BY <3>3, <4>1, TopicsByName
    <3>4. QED
      BY <3>1, <3>2, <3>3
  <2>2. TopicSet(c) = {T[i] : i \in 1 .. n}
    BY DEF TopicSet
  <2>3. TopicSet(c) \subseteq Topics
    BY DEF Topics
  <2>4. QED
    BY <2>1, <2>2, <2>3
<1>2. ASSUME NEW kind \in {"open", "load"}
      PROVE  /\ Steps(kind, c) \in Seq(JoinTask) /\ Len(Steps(kind, c)) = n
             /\ \A i \in 1 .. n : Steps(kind, c)[i] = [do |-> kind, topic |-> T[i]]
  BY <1>1 DEF Steps, JoinTask
<1>3. /\ J \in Seq(JoinTask) /\ Len(J) = n + n
      /\ \A i \in 1 .. n : J[i] = [do |-> "open", topic |-> T[i]]
      /\ \A i \in 1 .. n : J[i + n] = [do |-> "load", topic |-> T[i]]
  BY <1>1, <1>2 DEF JoinSteps
<1> HIDE DEF T, n, J
<1>4. ASSUME NEW i \in 1 .. n
      PROVE  /\ J[i].topic \in TopicSet(c) /\ J[i + n].topic \in TopicSet(c)
             /\ i \in 1 .. Len(J) /\ i + n \in 1 .. Len(J) /\ i + n > i
             /\ J[i + n].do = "load" /\ J[i + n] = [do |-> "load", topic |-> J[i].topic]
  <2>1. T[i] \in TopicSet(c)
    BY <1>1
  <2>2. J[i] = [do |-> "open", topic |-> T[i]]
    BY <1>3
  <2>3. J[i + n] = [do |-> "load", topic |-> T[i]]
    BY <1>3
  <2>4. J[i].topic = T[i] /\ J[i + n].topic = T[i] /\ J[i + n].do = "load"
    BY <2>2, <2>3
  <2>5. QED
    BY <1>1, <1>3, <2>1, <2>2, <2>3, <2>4
<1>5. ASSUME NEW i \in 1 .. Len(J)
      PROVE  /\ J[i].topic \in TopicSet(c)
             /\ J[i].do = "open" =>
                  \E j \in 1 .. Len(J) : j > i /\ J[j] = [do |-> "load", topic |-> J[i].topic]
  <2>1. CASE i \in 1 .. n
    BY <1>4, <2>1
  <2>2. CASE i \notin 1 .. n
    <3>1. i - n \in 1 .. n /\ i = (i - n) + n
      BY <1>1, <1>3, <2>2
    <3>2. J[i].topic \in TopicSet(c) /\ J[i].do = "load"
      BY <1>4, <3>1
    <3>3. QED
      BY <3>2
  <2>3. QED
    BY <2>1, <2>2
<1>6. \A t \in TopicSet(c) : \E i \in 1 .. Len(J) : J[i] = [do |-> "open", topic |-> t]
  BY <1>1, <1>3, <1>4
<1>7. QED
  BY <1>3, <1>5, <1>6 DEF J

-----------------------------------------------------------------------------
(* The inductive invariant *)

\* What TypeOK leaves open: the domains, and what the messages and frames under
\* way stand for.
ShapeInv ==
  /\ unsent \in [Topics -> SUBSET Nat] /\ got \in [Topics -> SUBSET Nat]
  /\ before \in [Topics -> SUBSET Nat] /\ shows \in [Topics -> Nat]
  /\ stream \in [Topics -> Seq(Nat)]
  /\ joining \in [channel : Channels \cup {"none"}, steps : Seq(JoinTask)]
  /\ joining.channel = "none" => joining = NoJoin

\* The frames under way were made by changes.
FramesInv == \A i \in 1 .. Len(queue) : queue[i].value <= last[queue[i].topic]

\* The broadcaster works on an unsent change: an item is read as it is, and a
\* state that has changed since it was read has a later change to be sent.
ReadingInv ==
  reading # Nothing =>
    /\ reading.change \in unsent[reading.topic] /\ reading.value <= last[reading.topic]
    /\ reading.topic \in ItemTopics => reading.value = reading.change
    /\ reading.topic \in StateTopics =>
         /\ reading.change <= reading.value
         /\ \A n \in 1 .. last[reading.topic] : n > reading.value => n \in unsent[reading.topic]

Pending(kind, t) ==
  \E i \in 1 .. Len(joining.steps) : joining.steps[i] = [do |-> kind, topic |-> t]

\* A join opens each of its topics, and loads it afterwards.
JoiningInv ==
  joining # NoJoin =>
    /\ \A i \in 1 .. Len(joining.steps) :
         /\ joining.steps[i].topic \in TopicSet(joining.channel)
         /\ joining.steps[i].do = "open" =>
              \E j \in 1 .. Len(joining.steps) :
                j > i /\ joining.steps[j] = [do |-> "load", topic |-> joining.steps[i].topic]
    /\ \A t \in TopicSet(joining.channel) : Pending("open", t) \/ t \in opened \cup missed

\* The history of the topic has been loaded by a join that goes on.
Loaded(t) == joining # NoJoin /\ ChannelOf(t) = joining.channel /\ ~Pending("load", t)

\* The client follows the topic.
Follows(t) == ChannelOf(t) \in subs \/ Loaded(t)

\* What is followed has a stream.
FollowedInv == \A t \in Topics : ChannelOf(t) \in subs => t \in opened \cup missed

\* NothingLost, from the moment the history is loaded.
ItemsInv ==
  \A t \in ItemTopics \ missed : Follows(t) =>
    \A n \in 1 .. last[t] :
      n \in got[t] \/ n \in before[t] \/ n \in Waiting(t) \/ n \in Queued(t) \/ n \in unsent[t]

\* The frame at i is the last one of its topic.
LastFrame(i, t) ==
  queue[i].topic = t /\ \A j \in 1 .. Len(queue) : j > i => queue[j].topic # t

\* When every change has been sent, the newest of what waits in the stream, of
\* what is queued and of what is shown is the state.
StatesInv ==
  \A t \in opened \cap StateTopics : unsent[t] = {} =>
    /\ stream[t] # <<>> => stream[t][Len(stream[t])] = last[t]
    /\ (stream[t] = <<>> /\ Loaded(t)) => shows[t] = last[t]
    /\ (stream[t] = <<>> /\ ChannelOf(t) \in subs \ leftover) =>
         /\ \A i \in 1 .. Len(queue) : LastFrame(i, t) => queue[i].value = last[t]
         /\ (\A i \in 1 .. Len(queue) : queue[i].topic # t) => shows[t] = last[t]

SocketsIInv ==
  /\ TypeOK /\ ShapeInv /\ FramesInv /\ ReadingInv /\ JoiningInv /\ FollowedInv
  /\ ItemsInv /\ StatesInv

-----------------------------------------------------------------------------
(* Sequences and counting *)

\* A longer range of numbers does not hurt a sequence.
LEMMA SeqGrows ==
  ASSUME NEW a \in Nat, NEW b \in Nat, a <= b, NEW s \in Seq(1 .. a)
  PROVE  s \in Seq(1 .. b)
OBVIOUS

\* A message appended is the last one, and the others are still there.
LEMMA Appended ==
  ASSUME NEW S, NEW s \in Seq(S), NEW v \in S
  PROVE  /\ Append(s, v) \in Seq(S) /\ Len(Append(s, v)) = Len(s) + 1 /\ Append(s, v) # <<>>
         /\ Append(s, v)[Len(s) + 1] = v
         /\ \A i \in 1 .. Len(s) : Append(s, v)[i] = s[i]
OBVIOUS

\* Without its head, a sequence keeps the rest, one place further on.
LEMMA Tailed ==
  ASSUME NEW S, NEW s \in Seq(S), s # <<>>
  PROVE  /\ Len(s) \in Nat \ {0} /\ Head(s) = s[1] /\ Head(s) \in S
         /\ Tail(s) \in Seq(S) /\ Len(Tail(s)) = Len(s) - 1
         /\ \A i \in 1 .. Len(Tail(s)) : Tail(s)[i] = s[i + 1]
         /\ \A i \in 2 .. Len(s) : i - 1 \in 1 .. Len(Tail(s)) /\ Tail(s)[i - 1] = s[i]
OBVIOUS

\* A topic has changed no more often than all topics together.
LEMMA ChangesBoundTopic ==
  ASSUME NEW t \in Topics, last \in [Topics -> Numbers], Changes < MaxChanges
  PROVE  last[t] < MaxChanges
<1> DEFINE All == {x \in Topics \X (1 .. MaxChanges) : x[2] <= last[x[1]]}
           Own == {t} \X (1 .. last[t])
<1>1. last[t] \in Nat /\ last[t] <= MaxChanges
  BY DEF Numbers
<1>2. IsFiniteSet(Topics \X (1 .. MaxChanges))
  <2>1. IsFiniteSet(1 .. MaxChanges)
    BY FS_Interval
  <2>2. QED
    BY <2>1, TopicsFinite, FS_Product
<1>3. IsFiniteSet(All) /\ Cardinality(All) \in Nat
  BY <1>2, FS_Subset, FS_CardinalityType
<1>4. Own \subseteq All
  BY <1>1
<1>5. Cardinality(Own) = last[t]
  <2>1. IsFiniteSet({t}) /\ Cardinality({t}) = 1
    BY FS_Singleton
  <2>2. IsFiniteSet(1 .. last[t]) /\ Cardinality(1 .. last[t]) = last[t]
    BY <1>1, FS_Interval
  <2>3. Cardinality(Own) = Cardinality({t}) * Cardinality(1 .. last[t])
    BY <2>1, <2>2, FS_Product
  <2>4. QED
    BY <1>1, <2>1, <2>2, <2>3
<1>6. Cardinality(Own) <= Cardinality(All)
  BY <1>3, <1>4, FS_Subset
<1> HIDE DEF All, Own
<1>7. Cardinality(All) < MaxChanges
  BY DEF Changes, All
<1>8. QED
  BY <1>1, <1>3, <1>5, <1>6, <1>7

\* A queued frame has a topic and a value.
LEMMA FrameType ==
  ASSUME TypeOK, NEW i \in 1 .. Len(queue)
  PROVE  queue[i] \in [topic : Topics, value : Nat] /\ queue[i].topic \in Topics /\ queue[i].value \in Nat
<1> DEFINE Frames == [topic : Topics, value : 1 .. MaxChanges]
<1>1. queue \in Seq(Frames)
  BY DEF TypeOK
<1> HIDE DEF Frames
<1>2. queue[i] \in Frames
  BY <1>1
<1>3. QED
  BY <1>2 DEF Frames

-----------------------------------------------------------------------------
(* The world *)

\* A change is a new one to be sent.
LEMMA ChangeSockets ==
  ASSUME SocketsIInv, NEW t \in Topics, Change(t)
  PROVE  SocketsIInv'
<1> USE DEF SocketsIInv
<1>1. /\ last' = [last EXCEPT ![t] = @ + 1]
      /\ unsent' = [unsent EXCEPT ![t] = @ \cup {last[t] + 1}]
      /\ UNCHANGED <<reading, opened, stream, subs, joining, queue, alive, frames, got, shows,
                     before, leftover, missed>>
  BY DEF Change, socketVars, clientVars
<1>2. last \in [Topics -> Nat] /\ last[t] + 1 <= MaxChanges
  <2>1. last \in [Topics -> Numbers] /\ Changes < MaxChanges
    BY DEF TypeOK, Change
  <2>2. last[t] < MaxChanges
    BY <2>1, ChangesBoundTopic
  <2>3. QED
    BY <2>1, <2>2 DEF Numbers
<1>3. /\ last' \in [Topics -> Numbers] /\ \A u \in Topics : last'[u] \in Nat /\ last[u] <= last'[u]
      /\ \A u \in Topics \ {t} : last'[u] = last[u] /\ unsent'[u] = unsent[u]
      /\ last'[t] = last[t] + 1 /\ unsent'[t] = unsent[t] \cup {last[t] + 1}
  BY <1>1, <1>2 DEF TypeOK, ShapeInv, Numbers
<1>4. TypeOK'
  <2>1. \A u \in Topics : unsent'[u] \subseteq 1 .. last'[u]
    <3>1. \A u \in Topics : unsent[u] \subseteq 1 .. last[u]
      BY DEF TypeOK
    <3>2. QED
      BY <1>2, <1>3, <3>1
  <2>2. \A u \in Topics : stream[u] \in Seq(1 .. last'[u])
    BY <1>2, <1>3, SeqGrows DEF TypeOK
  <2>3. \A u \in Topics : got[u] \cup before[u] \subseteq 1 .. last'[u]
    BY <1>2, <1>3 DEF TypeOK
  <2>4. QED
    BY <1>1, <1>3, <2>1, <2>2, <2>3 DEF TypeOK
<1>5. ShapeInv'
  BY <1>1, <1>2 DEF ShapeInv
<1>6. FramesInv'
  <2>1. ASSUME NEW i \in 1 .. Len(queue) PROVE queue[i].value <= last'[queue[i].topic]
    <3>1. queue[i].topic \in Topics /\ queue[i].value \in Nat
      BY FrameType
    <3>2. QED
      BY <1>2, <1>3, <3>1 DEF FramesInv
  <2>2. QED
    BY <1>1, <2>1 DEF FramesInv
<1>7. ReadingInv'
  <2>1. CASE reading = Nothing
    BY <1>1, <2>1 DEF ReadingInv
  <2>2. CASE reading # Nothing
    <3>1. reading.topic \in Topics /\ reading.value \in Nat /\ reading.change \in Nat
      BY <2>2 DEF TypeOK
    <3>2. QED
      BY <1>1, <1>2, <1>3, <2>2, <3>1 DEF ReadingInv
  <2>3. QED
    BY <2>1, <2>2
<1>8. JoiningInv' /\ FollowedInv'
  BY <1>1 DEF JoiningInv, FollowedInv, Pending
<1>9. ItemsInv'
  BY <1>1, <1>2, <1>3 DEF ItemsInv, Follows, Loaded, Pending, Waiting, Queued, ItemTopics
<1>10. StatesInv'
  <2>1. unsent'[t] # {}
    BY <1>3
  <2>2. opened \subseteq Topics
    BY DEF TypeOK
  <2>3. ASSUME NEW u \in opened \cap StateTopics, unsent'[u] = {}
        PROVE  u \in Topics \ {t} /\ unsent[u] = {} /\ last'[u] = last[u]
    BY <1>3, <2>1, <2>2, <2>3
  <2>4. /\ opened' = opened /\ stream' = stream /\ subs' = subs /\ leftover' = leftover
        /\ queue' = queue /\ shows' = shows /\ \A u : Loaded(u)' = Loaded(u)
        /\ \A i, u : LastFrame(i, u)' = LastFrame(i, u)
    BY <1>1 DEF Loaded, Pending, LastFrame
  <2>5. QED
    BY <2>3, <2>4 DEF StatesInv
<1>11. QED
  BY <1>4, <1>5, <1>6, <1>7, <1>8, <1>9, <1>10

\* Nothing but what the broadcaster has read changes.
LEMMA StillSockets ==
  ASSUME SocketsIInv, UNCHANGED <<worldVars, socketVars, clientVars, missed>>
  PROVE  ShapeInv' /\ FramesInv' /\ JoiningInv' /\ FollowedInv' /\ ItemsInv' /\ StatesInv'
<1> USE DEF SocketsIInv, worldVars, socketVars, clientVars
<1>1. ShapeInv' /\ FramesInv'
  BY DEF ShapeInv, FramesInv
<1>2. JoiningInv' /\ FollowedInv'
  BY DEF JoiningInv, FollowedInv, Pending
<1>3. ItemsInv'
  BY DEF ItemsInv, Follows, Loaded, Pending, Waiting, Queued
<1>4. StatesInv'
  <2>1. \A u : Loaded(u)' = Loaded(u)
    BY DEF Loaded, Pending
  <2>2. \A i, u : LastFrame(i, u)' = LastFrame(i, u)
    BY DEF LastFrame
  <2>3. QED
    BY <2>1, <2>2 DEF StatesInv
<1>5. QED
  BY <1>1, <1>2, <1>3, <1>4

\* The broadcaster reads an item, or the state as it is now.
LEMMA ReadSockets ==
  ASSUME SocketsIInv, NEW t \in Topics, NEW n \in 1 .. MaxChanges, Read(t, n) \/ SendFails
  PROVE  SocketsIInv'
<1> USE DEF SocketsIInv
<1>1. UNCHANGED <<worldVars, socketVars, clientVars, missed>>
  BY DEF Read, SendFails
<1>2. CASE Read(t, n)
  <2>1. /\ reading' = [topic |-> t, change |-> n, value |-> IF t \in StateTopics THEN last[t] ELSE n]
        /\ n \in unsent[t]
    BY <1>2 DEF Read
  <2>2. unsent[t] \subseteq 1 .. last[t] /\ last[t] \in 0 .. MaxChanges
    BY DEF TypeOK, Numbers
  <2>3. n <= last[t] /\ last[t] \in 1 .. MaxChanges
    BY <2>1, <2>2
  <2>4. reading' \in [topic : Topics, change : 1 .. MaxChanges, value : 1 .. MaxChanges]
    BY <2>1, <2>3
  <2>5. reading'.topic = t /\ reading'.change = n /\ reading'.value = IF t \in StateTopics THEN last[t] ELSE n
    BY <2>1
  <2>6. ReadingInv'
    BY <1>1, <2>1, <2>2, <2>3, <2>5 DEF ReadingInv, worldVars, ItemTopics
  <2>7. TypeOK'
    BY <1>1, <2>4 DEF TypeOK, worldVars, socketVars, clientVars
  <2>8. QED
    BY <1>1, <2>6, <2>7, StillSockets
<1>3. CASE SendFails
  <2>1. reading' = Nothing
    BY <1>3 DEF SendFails
  <2>2. ReadingInv'
    BY <2>1 DEF ReadingInv
  <2>3. TypeOK'
    BY <1>1, <2>1 DEF TypeOK, worldVars, socketVars, clientVars
  <2>4. QED
    BY <1>1, <2>2, <2>3, StillSockets
<1>4. QED
  BY <1>2, <1>3

\* What is followed has a stream, or has lost something.
LEMMA FollowedIsOpen ==
  ASSUME SocketsIInv, NEW t \in Topics, Follows(t)
  PROVE  t \in opened \cup missed
<1> USE DEF SocketsIInv
<1>1. CASE ChannelOf(t) \in subs
  BY <1>1 DEF FollowedInv
<1>2. CASE Loaded(t)
  <2>1. joining # NoJoin /\ t \in TopicSet(joining.channel) /\ ~Pending("load", t)
    BY <1>2, TopicChannel DEF Loaded
  <2>2. ~Pending("open", t)
    <3> SUFFICES ASSUME NEW i \in 1 .. Len(joining.steps),
                        joining.steps[i] = [do |-> "open", topic |-> t]
                 PROVE  FALSE
      BY DEF Pending
    <3>1. joining.steps[i].do = "open" /\ joining.steps[i].topic = t
      OBVIOUS
    <3>2. \E j \in 1 .. Len(joining.steps) : joining.steps[j] = [do |-> "load", topic |-> t]
      BY <2>1, <3>1 DEF JoiningInv
    <3>3. QED
      BY <2>1, <3>2 DEF Pending
  <2>3. QED
    BY <2>1, <2>2 DEF JoiningInv
<1>3. QED
  BY <1>1, <1>2 DEF Follows

\* A message sent is the last one in the stream; a full stream loses its oldest.
LEMMA Pushed ==
  ASSUME NEW S, NEW s \in Seq(S), NEW v \in S, Len(s) <= StreamCap
  PROVE  /\ Push(s, v) \in Seq(S) /\ Len(Push(s, v)) <= StreamCap /\ Push(s, v) # <<>>
         /\ Push(s, v)[Len(Push(s, v))] = v
         /\ Len(s) # StreamCap =>
              \A i \in 1 .. Len(s) : i \in 1 .. Len(Push(s, v)) /\ Push(s, v)[i] = s[i]
<1>1. CASE Len(s) < StreamCap
  <2>1. Push(s, v) = Append(s, v)
    BY <1>1 DEF Push
  <2>2. QED
    BY <1>1, <2>1, Appended
<1>2. CASE Len(s) = StreamCap
  <2>1. Push(s, v) = Append(Tail(s), v) /\ s # <<>>
    BY <1>2 DEF Push
  <2>2. Tail(s) \in Seq(S) /\ Len(Tail(s)) = StreamCap - 1
    BY <1>2, <2>1, Tailed
  <2>3. QED
    BY <1>2, <2>1, <2>2, Appended
<1>3. QED
  BY <1>1, <1>2

\* A message is sent to whoever listens, and its change is taken from the unsent
\* ones, unless the broadcaster is told that it failed.
LEMMA SendSockets ==
  ASSUME SocketsIInv, Send
  PROVE  SocketsIInv'
<1> USE DEF SocketsIInv
<1> DEFINE t == reading.topic
           v == reading.value
           ch == reading.change
<1>1. /\ reading # Nothing /\ reading' = Nothing
      /\ stream' = [stream EXCEPT ![t] = IF t \in opened THEN Push(@, v) ELSE @]
      /\ missed' = IF t \in opened /\ Len(stream[t]) = StreamCap THEN missed \cup {t} ELSE missed
      /\ \E ok \in BOOLEAN : unsent' = [unsent EXCEPT ![t] = IF ok THEN @ \ {ch} ELSE @]
      /\ UNCHANGED <<last, opened, subs, joining, queue, alive, frames, got, shows, before, leftover>>
  BY DEF Send, clientVars
<1>2. t \in Topics /\ v \in 1 .. last[t] /\ ch \in unsent[t] /\ last[t] \in Nat /\ v \in Nat
  <2>1. reading \in [topic : Topics, change : 1 .. MaxChanges, value : 1 .. MaxChanges]
    BY <1>1 DEF TypeOK
  <2>2. t \in Topics /\ v \in 1 .. MaxChanges
    BY <2>1
  <2>3. last[t] \in Nat
    BY <2>2 DEF TypeOK, Numbers
  <2>4. QED
    BY <1>1, <2>2, <2>3 DEF ReadingInv
<1> HIDE DEF t, v, ch
<1>3. /\ \A u \in Topics \ {t} : stream'[u] = stream[u] /\ unsent'[u] = unsent[u]
      /\ stream'[t] = IF t \in opened THEN Push(stream[t], v) ELSE stream[t]
      /\ unsent'[t] = unsent[t] \/ unsent'[t] = unsent[t] \ {ch}
      /\ missed \subseteq missed' /\ missed' \subseteq missed \cup {t}
  BY <1>1, <1>2 DEF ShapeInv
<1>4. stream[t] \in Seq(1 .. last[t]) /\ Len(stream[t]) <= StreamCap
  BY <1>2 DEF TypeOK
<1>5. t \in opened =>
        /\ stream'[t] \in Seq(1 .. last[t]) /\ Len(stream'[t]) <= StreamCap /\ stream'[t] # <<>>
        /\ stream'[t][Len(stream'[t])] = v
        /\ Len(stream[t]) # StreamCap =>
             \A i \in 1 .. Len(stream[t]) : i \in 1 .. Len(stream'[t]) /\ stream'[t][i] = stream[t][i]
  <2>1. t \in opened => stream'[t] = Push(stream[t], v)
    BY <1>3
  <2>2. /\ Push(stream[t], v) \in Seq(1 .. last[t]) /\ Len(Push(stream[t], v)) <= StreamCap
        /\ Push(stream[t], v) # <<>> /\ Push(stream[t], v)[Len(Push(stream[t], v))] = v
        /\ Len(stream[t]) # StreamCap =>
             \A i \in 1 .. Len(stream[t]) :
               i \in 1 .. Len(Push(stream[t], v)) /\ Push(stream[t], v)[i] = stream[t][i]
    <3> DEFINE S == 1 .. last[t]
               s == stream[t]
    <3>1. s \in Seq(S) /\ v \in S /\ Len(s) <= StreamCap
      BY <1>2, <1>4
    <3> HIDE DEF S, s
    <3>2. /\ Push(s, v) \in Seq(S) /\ Len(Push(s, v)) <= StreamCap /\ Push(s, v) # <<>>
          /\ Push(s, v)[Len(Push(s, v))] = v
          /\ Len(s) # StreamCap =>
               \A i \in 1 .. Len(s) : i \in 1 .. Len(Push(s, v)) /\ Push(s, v)[i] = s[i]
      BY <3>1, Pushed
    <3>3. QED
      BY <3>2 DEF S, s
  <2>3. QED
    BY <2>1, <2>2
<1>6. TypeOK'
  <2>1. \A u \in Topics : stream'[u] \in Seq(1 .. last[u]) /\ Len(stream'[u]) <= StreamCap
    BY <1>3, <1>4, <1>5 DEF TypeOK
  <2>2. \A u \in Topics : unsent'[u] \subseteq 1 .. last[u]
    BY <1>3 DEF TypeOK
  <2>3. missed' \subseteq Topics
    BY <1>2, <1>3 DEF TypeOK
  <2>4. QED
    BY <1>1, <2>1, <2>2, <2>3 DEF TypeOK
<1>7. ShapeInv'
  <2>1. \A u \in Topics : stream'[u] \in Seq(Nat)
    <3>1. \A u \in Topics : stream'[u] \in Seq(1 .. last[u]) /\ last[u] \in Nat
      BY <1>1, <1>6 DEF TypeOK, Numbers
    <3>2. QED
      BY <3>1
  <2>2. stream' \in [Topics -> Seq(Nat)]
    BY <1>1, <2>1 DEF ShapeInv
  <2>3. unsent' \in [Topics -> SUBSET Nat]
    <3>1. PICK ok \in BOOLEAN : unsent' = [unsent EXCEPT ![t] = IF ok THEN @ \ {ch} ELSE @]
      BY <1>1
    <3>2. unsent \in [Topics -> SUBSET Nat]
      BY DEF ShapeInv
    <3>3. (IF ok THEN unsent[t] \ {ch} ELSE unsent[t]) \in SUBSET Nat
      BY <1>2, <3>2
    <3>4. QED
      BY <3>1, <3>2, <3>3
  <2>4. QED
    BY <1>1, <2>2, <2>3 DEF ShapeInv
<1>8. FramesInv' /\ ReadingInv' /\ FollowedInv'
  BY <1>1, <1>3 DEF FramesInv, ReadingInv, FollowedInv
<1>9. JoiningInv'
  BY <1>1, <1>3 DEF JoiningInv, Pending
<1>10. ItemsInv'
  <2> SUFFICES ASSUME NEW u \in ItemTopics, u \notin missed', Follows(u), NEW n \in 1 .. last[u]
               PROVE  \/ n \in got[u] \/ n \in before[u] \/ n \in Waiting(u)'
                      \/ n \in Queued(u) \/ n \in unsent'[u]
    BY <1>1 DEF ItemsInv, Follows, Loaded, Pending, Queued
  <2>1. u \in Topics /\ u \notin missed
    BY <1>3 DEF ItemTopics
  <2>2. n \in got[u] \/ n \in before[u] \/ n \in Waiting(u) \/ n \in Queued(u) \/ n \in unsent[u]
    BY <2>1 DEF ItemsInv
  <2>3. CASE u # t
    BY <1>3, <2>1, <2>2, <2>3 DEF Waiting
  <2>4. CASE u = t
    <3>1. t \in opened /\ Len(stream[t]) # StreamCap
      BY <1>1, <2>1, <2>4, FollowedIsOpen
    <3>2. n \in Waiting(u) => n \in Waiting(u)'
      BY <1>5, <2>4, <3>1 DEF Waiting
    <3>3. v \in Waiting(u)'
      <4>1. Len(stream'[t]) \in 1 .. Len(stream'[t])
        BY <1>5, <3>1
      <4>2. QED
        BY <1>5, <2>4, <3>1, <4>1 DEF Waiting
    <3>4. v = ch
      BY <1>1, <2>4 DEF ReadingInv, t, v, ch
    <3>5. QED
      BY <1>3, <2>2, <2>4, <3>2, <3>3, <3>4
  <2>5. QED
    BY <2>3, <2>4
<1>11. StatesInv'
  <2> SUFFICES ASSUME NEW u \in opened \cap StateTopics, unsent'[u] = {}
               PROVE  /\ stream'[u] # <<>> => stream'[u][Len(stream'[u])] = last[u]
                      /\ (stream'[u] = <<>> /\ Loaded(u)) => shows[u] = last[u]
                      /\ (stream'[u] = <<>> /\ ChannelOf(u) \in subs \ leftover) =>
                           /\ \A i \in 1 .. Len(queue) : LastFrame(i, u) => queue[i].value = last[u]
                           /\ (\A i \in 1 .. Len(queue) : queue[i].topic # u) => shows[u] = last[u]
    <3>1. (\A u : Loaded(u)' = Loaded(u)) /\ (\A i, u : LastFrame(i, u)' = LastFrame(i, u))
      BY <1>1 DEF Loaded, Pending, LastFrame
    <3>2. QED
      BY <1>1, <3>1 DEF StatesInv
  <2>1. u \in Topics
    BY DEF StateTopics
  <2>2. CASE u # t
    BY <1>3, <2>1, <2>2 DEF StatesInv
  <2>3. CASE u = t
    <3>1. ch <= v /\ \A n \in 1 .. last[t] : n > v => n \in unsent[t]
      BY <1>1, <2>3 DEF ReadingInv, t, v, ch
    <3>2. \A n \in unsent[t] : n = ch
      BY <1>3, <2>3
    <3>3. ch \in Nat
      <4>1. unsent[t] \in SUBSET Nat
        BY <1>2 DEF ShapeInv
      <4>2. QED
        BY <1>2, <4>1
    <3>4. v = last[t]
      BY <1>2, <3>1, <3>2, <3>3
    <3>5. QED
      BY <1>5, <2>3, <3>4
  <2>4. QED
    BY <2>2, <2>3
<1>12. QED
  BY <1>6, <1>7, <1>8, <1>9, <1>10, <1>11

-----------------------------------------------------------------------------
(* Joining *)

\* The invariants that do not speak of what a join does.
LEMMA WorldStays ==
  ASSUME SocketsIInv, UNCHANGED <<last, unsent, reading, queue>>
  PROVE  FramesInv' /\ ReadingInv'
BY DEF SocketsIInv, FramesInv, ReadingInv

\* No channel is called none.
LEMMA NoneIsNoChannel == "none" \notin Channels
OBVIOUS

\* A join that begins has loaded nothing.
LEMMA SubscribeSockets ==
  ASSUME SocketsIInv, NEW c \in Channels, Subscribe(c)
  PROVE  SocketsIInv'
<1> USE DEF SocketsIInv
<1>1. /\ joining = NoJoin /\ frames < MaxFrames /\ frames' = frames + 1
      /\ joining' = IF c \in subs THEN NoJoin ELSE [channel |-> c, steps |-> JoinSteps(c)]
      /\ UNCHANGED <<last, unsent, reading, opened, stream, subs, queue, alive, got, shows, before,
                     leftover, missed>>
  BY DEF Subscribe, Idle, worldVars, clientVars
<1>2. joining' = NoJoin \/ (c \notin subs /\ joining'.channel = c /\ joining'.steps = JoinSteps(c))
  BY <1>1
<1>3. \A u \in Topics : ChannelOf(u) # "none"
  BY TopicChannel, NoneIsNoChannel
<1>4. TypeOK'
  <2>1. \A u \in Topics : u \in opened => ChannelOf(u) \in subs
    BY <1>1, <1>3 DEF TypeOK, NoJoin
  <2>2. joining'.channel \notin subs
    BY <1>2, NoneIsNoChannel DEF TypeOK, NoJoin
  <2>3. frames' \in 0 .. MaxFrames
    BY <1>1 DEF TypeOK
  <2>4. QED
    BY <1>1, <2>1, <2>2, <2>3 DEF TypeOK
<1>5. ShapeInv'
  <2>1. joining' \in [channel : Channels \cup {"none"}, steps : Seq(JoinTask)]
    BY <1>1, JoinOrder DEF NoJoin
  <2>2. joining'.channel = "none" => joining' = NoJoin
    BY <1>2, NoneIsNoChannel
  <2>3. QED
    BY <1>1, <2>1, <2>2 DEF ShapeInv
<1>6. JoiningInv'
  <2> SUFFICES ASSUME joining' # NoJoin
               PROVE  /\ \A i \in 1 .. Len(joining'.steps) :
                           /\ joining'.steps[i].topic \in TopicSet(joining'.channel)
                           /\ joining'.steps[i].do = "open" =>
                                \E j \in 1 .. Len(joining'.steps) :
                                  /\ j > i
                                  /\ joining'.steps[j] = [do |-> "load", topic |-> joining'.steps[i].topic]
                      /\ \A u \in TopicSet(joining'.channel) : Pending("open", u)'
    BY DEF JoiningInv
  <2>1. joining'.channel = c /\ joining'.steps = JoinSteps(c)
    BY <1>2
  <2>2. QED
    BY <2>1, JoinOrder DEF Pending
<1>7. ASSUME NEW u \in Topics PROVE ~Loaded(u) /\ ~Loaded(u)'
  <2>1. ~Loaded(u)
    BY <1>1 DEF Loaded
  <2>2. CASE joining' = NoJoin
    BY <2>1, <2>2 DEF Loaded
  <2>3. CASE joining'.channel = c /\ joining'.steps = JoinSteps(c)
    <3> SUFFICES ASSUME ChannelOf(u) = c PROVE Pending("load", u)'
      BY <2>1, <2>3 DEF Loaded
    <3>1. u \in TopicSet(c)
      BY TopicChannel
    <3>2. PICK i \in 1 .. Len(JoinSteps(c)) : JoinSteps(c)[i] = [do |-> "open", topic |-> u]
      BY <3>1, JoinOrder
    <3>3. JoinSteps(c)[i].do = "open" /\ JoinSteps(c)[i].topic = u
      BY <3>2
    <3>4. \E j \in 1 .. Len(JoinSteps(c)) : JoinSteps(c)[j] = [do |-> "load", topic |-> u]
      BY <3>3, JoinOrder
    <3>5. QED
      BY <2>3, <3>4 DEF Pending
  <2>4. QED
    BY <1>2, <2>1, <2>2, <2>3
<1>8. FollowedInv'
  BY <1>1 DEF FollowedInv
<1>9. ItemsInv'
  BY <1>1, <1>7 DEF ItemsInv, Follows, Waiting, Queued, ItemTopics
<1>10. StatesInv'
  <2>1. \A i, u : LastFrame(i, u)' = LastFrame(i, u)
    BY <1>1 DEF LastFrame
  <2>2. QED
    BY <1>1, <1>7, <2>1 DEF StatesInv, StateTopics
<1>11. QED
  BY <1>1, <1>4, <1>5, <1>6, <1>8, <1>9, <1>10, WorldStays

\* A join that goes on has one step less to do, and the rest in order.
LEMMA JoinAdvances ==
  ASSUME SocketsIInv, joining.steps # <<>>, joining' = [joining EXCEPT !.steps = Tail(@)]
  PROVE  /\ joining # NoJoin /\ joining' # NoJoin /\ joining.channel \in Channels
         /\ joining'.channel = joining.channel
         /\ joining' \in [channel : Channels \cup {"none"}, steps : Seq(JoinTask)]
         /\ JoinStep \in JoinTask /\ JoinStep = [do |-> JoinStep.do, topic |-> JoinStep.topic]
         /\ JoinStep.topic \in TopicSet(joining.channel) /\ JoinStep.topic \in Topics
         /\ ChannelOf(JoinStep.topic) = joining.channel
         /\ JoinStep.do = "open" => Pending("load", JoinStep.topic)
         /\ \A kind, u : Pending(kind, u) =>
              Pending(kind, u)' \/ (JoinStep.do = kind /\ JoinStep.topic = u)
         /\ \A i \in 1 .. Len(joining'.steps) :
              /\ joining'.steps[i].topic \in TopicSet(joining'.channel)
              /\ joining'.steps[i].do = "open" =>
                   \E j \in 1 .. Len(joining'.steps) :
                     j > i /\ joining'.steps[j] = [do |-> "load", topic |-> joining'.steps[i].topic]
<1> USE DEF SocketsIInv
<1> DEFINE s == joining.steps
<1>1. joining \in [channel : Channels \cup {"none"}, steps : Seq(JoinTask)]
  BY DEF ShapeInv
<1>2. joining # NoJoin /\ joining.channel \in Channels /\ s \in Seq(JoinTask)
  BY <1>1 DEF ShapeInv, NoJoin
<1>3. joining' = [channel |-> joining.channel, steps |-> Tail(s)]
  BY <1>1
<1>4. joining'.channel = joining.channel /\ joining'.steps = Tail(s) /\ joining' # NoJoin
  BY <1>2, <1>3, NoneIsNoChannel DEF NoJoin
<1>5. /\ \A i \in 1 .. Len(s) : s[i].topic \in TopicSet(joining.channel)
      /\ \A i \in 1 .. Len(s) : s[i].do = "open" =>
           \E j \in 1 .. Len(s) : j > i /\ s[j] = [do |-> "load", topic |-> s[i].topic]
  BY <1>2 DEF JoiningInv
<1> HIDE DEF s
<1>6. s # <<>> /\ JoinStep = Head(s)
  BY DEF s, JoinStep
<1>7. /\ Len(s) \in Nat \ {0} /\ Head(s) = s[1] /\ Head(s) \in JoinTask
      /\ Tail(s) \in Seq(JoinTask) /\ Len(Tail(s)) = Len(s) - 1
      /\ \A i \in 1 .. Len(Tail(s)) : Tail(s)[i] = s[i + 1]
      /\ \A i \in 2 .. Len(s) : i - 1 \in 1 .. Len(Tail(s)) /\ Tail(s)[i - 1] = s[i]
  BY <1>2, <1>6, Tailed
<1>8. JoinStep \in JoinTask /\ JoinStep = [do |-> JoinStep.do, topic |-> JoinStep.topic]
  BY <1>6, <1>7 DEF JoinTask
<1>9. /\ JoinStep.topic \in TopicSet(joining.channel) /\ JoinStep.topic \in Topics
      /\ ChannelOf(JoinStep.topic) = joining.channel
  BY <1>2, <1>5, <1>6, <1>7, TopicChannel
<1>10. JoinStep.do = "open" => Pending("load", JoinStep.topic)
  <2>1. 1 \in 1 .. Len(s) /\ s[1] = JoinStep
    BY <1>6, <1>7
  <2>2. JoinStep.do = "open" => \E j \in 1 .. Len(s) : s[j] = [do |-> "load", topic |-> JoinStep.topic]
    BY <1>5, <2>1
  <2>3. QED
    BY <2>2 DEF Pending, s
<1>11. ASSUME NEW kind, NEW u, Pending(kind, u)
       PROVE  Pending(kind, u)' \/ (JoinStep.do = kind /\ JoinStep.topic = u)
  <2>1. PICK i \in 1 .. Len(s) : s[i] = [do |-> kind, topic |-> u]
    BY <1>11 DEF Pending, s
  <2>2. CASE i = 1
    BY <1>6, <1>7, <2>1, <2>2
  <2>3. CASE i # 1
    <3>1. i - 1 \in 1 .. Len(Tail(s)) /\ Tail(s)[i - 1] = [do |-> kind, topic |-> u]
      BY <1>7, <2>1, <2>3
    <3>2. QED
      BY <1>4, <3>1 DEF Pending
  <2>4. QED
    BY <2>2, <2>3
<1>12. ASSUME NEW i \in 1 .. Len(Tail(s))
       PROVE  /\ Tail(s)[i].topic \in TopicSet(joining.channel)
              /\ Tail(s)[i].do = "open" =>
                   \E j \in 1 .. Len(Tail(s)) :
                     j > i /\ Tail(s)[j] = [do |-> "load", topic |-> Tail(s)[i].topic]
  <2>1. i + 1 \in 1 .. Len(s) /\ Tail(s)[i] = s[i + 1]
    BY <1>7
  <2>2. SUFFICES ASSUME s[i + 1].do = "open"
                 PROVE  \E j \in 1 .. Len(Tail(s)) :
                          j > i /\ Tail(s)[j] = [do |-> "load", topic |-> s[i + 1].topic]
    BY <1>5, <2>1
  <2>3. PICK j \in 1 .. Len(s) : j > i + 1 /\ s[j] = [do |-> "load", topic |-> s[i + 1].topic]
    BY <1>5, <2>1, <2>2
  <2>4. j - 1 \in 1 .. Len(Tail(s)) /\ j - 1 > i /\ Tail(s)[j - 1] = s[j]
    BY <1>7, <2>3
  <2>5. QED
    BY <2>3, <2>4
<1>13. joining' \in [channel : Channels \cup {"none"}, steps : Seq(JoinTask)]
  <2>1. joining.channel \in Channels \cup {"none"} /\ Tail(s) \in Seq(JoinTask)
    BY <1>2, <1>7
  <2>2. \A c \in Channels \cup {"none"} : \A q \in Seq(JoinTask) :
          [channel |-> c, steps |-> q] \in [channel : Channels \cup {"none"}, steps : Seq(JoinTask)]
    OBVIOUS
  <2>3. QED
    BY <1>3, <2>1, <2>2
<1>14. \A i \in 1 .. Len(joining'.steps) :
         /\ joining'.steps[i].topic \in TopicSet(joining'.channel)
         /\ joining'.steps[i].do = "open" =>
              \E j \in 1 .. Len(joining'.steps) :
                j > i /\ joining'.steps[j] = [do |-> "load", topic |-> joining'.steps[i].topic]
  <2> DEFINE r == Tail(s)
  <2>1. \A i \in 1 .. Len(r) :
          /\ r[i].topic \in TopicSet(joining.channel)
          /\ r[i].do = "open" =>
               \E j \in 1 .. Len(r) : j > i /\ r[j] = [do |-> "load", topic |-> r[i].topic]
    BY <1>12
  <2> DEFINE c == joining.channel
             r1 == joining'.steps
             c1 == joining'.channel
  <2>2. r1 = r /\ c1 = c
    BY <1>4
  <2> HIDE DEF r, r1, c, c1
  <2>3. \A i \in 1 .. Len(r1) :
          /\ r1[i].topic \in TopicSet(c1)
          /\ r1[i].do = "open" =>
               \E j \in 1 .. Len(r1) : j > i /\ r1[j] = [do |-> "load", topic |-> r1[i].topic]
    BY <2>1, <2>2 DEF c
  <2>4. QED
    BY <2>3 DEF r1, c1
<1>15. \A kind, u : Pending(kind, u) =>
         Pending(kind, u)' \/ (JoinStep.do = kind /\ JoinStep.topic = u)
  BY <1>11
<1>16. QED
  BY <1>2, <1>4, <1>8, <1>9, <1>10, <1>13, <1>14, <1>15

\* Opening a stream loses nothing: the history of its topic is still to be loaded.
LEMMA OpenSockets ==
  ASSUME SocketsIInv, OpenStream
  PROVE  SocketsIInv'
<1> USE DEF SocketsIInv
<1>0. PICK t : t = JoinStep.topic
  OBVIOUS
<1>1. /\ joining.steps # <<>> /\ JoinStep.do = "open" /\ opened' = opened \cup {t}
      /\ stream' = [stream EXCEPT ![t] = <<>>] /\ missed' = missed \ {t}
      /\ joining' = [joining EXCEPT !.steps = Tail(@)]
      /\ UNCHANGED <<last, unsent, reading, subs, queue, alive, frames, got, shows, before, leftover>>
  BY <1>0 DEF OpenStream, worldVars, clientVars
<1>2. /\ joining # NoJoin /\ joining' # NoJoin /\ joining'.channel = joining.channel
      /\ joining' \in [channel : Channels \cup {"none"}, steps : Seq(JoinTask)]
      /\ joining.channel \in Channels /\ t \in Topics /\ ChannelOf(t) = joining.channel
      /\ Pending("load", t)
      /\ \A u : Pending("load", u) => Pending("load", u)'
      /\ \A u : Pending("open", u) => Pending("open", u)' \/ u = t
  BY <1>0, <1>1, JoinAdvances
<1>3. \A i \in 1 .. Len(joining'.steps) :
        /\ joining'.steps[i].topic \in TopicSet(joining'.channel)
        /\ joining'.steps[i].do = "open" =>
             \E j \in 1 .. Len(joining'.steps) :
               j > i /\ joining'.steps[j] = [do |-> "load", topic |-> joining'.steps[i].topic]
  BY <1>1, JoinAdvances
<1>4. /\ \A u \in Topics \ {t} : stream'[u] = stream[u] /\ (u \in opened' <=> u \in opened)
      /\ stream'[t] = <<>>
  BY <1>1, <1>2 DEF ShapeInv
<1>5. joining.channel \notin subs /\ ~Loaded(t) /\ ~Loaded(t)' /\ ~Follows(t)
  <2>1. joining.channel \notin subs
    BY DEF TypeOK
  <2>2. Pending("load", t)'
    BY <1>2
  <2>3. QED
    BY <1>2, <2>1, <2>2 DEF Loaded, Follows
<1>6. \A u : Loaded(u)' => Loaded(u)
  BY <1>2 DEF Loaded
<1>7. TypeOK'
  <2>1. ASSUME NEW u \in Topics
        PROVE  stream'[u] \in Seq(1 .. last[u]) /\ Len(stream'[u]) <= StreamCap
    <3>1. CASE u = t
      <4>1. <<>> \in Seq(1 .. last[u]) /\ Len(<<>>) <= StreamCap
        OBVIOUS
      <4>2. stream'[u] = <<>>
        BY <1>4, <3>1
      <4>3. QED
        BY <4>1, <4>2
    <3>2. CASE u # t
      BY <1>4, <3>2 DEF TypeOK
    <3>3. QED
      BY <3>1, <3>2
  <2>2. \A u \in Topics : u \in opened' => ChannelOf(u) \in subs \cup {joining'.channel}
    BY <1>1, <1>2 DEF TypeOK
  <2>3. opened' \subseteq Topics /\ missed' \subseteq Topics
    BY <1>1, <1>2 DEF TypeOK
  <2>4. joining'.channel \notin subs
    BY <1>2, <1>5
  <2>5. QED
    BY <1>1, <2>1, <2>2, <2>3, <2>4 DEF TypeOK
<1>8. ShapeInv'
  <2>1. stream' \in [Topics -> Seq(Nat)]
    <3>1. <<>> \in Seq(Nat)
      OBVIOUS
    <3>2. QED
      BY <1>1, <3>1 DEF ShapeInv
  <2>2. joining'.channel # "none"
    BY <1>2, NoneIsNoChannel
  <2>3. QED
    BY <1>1, <1>2, <2>1, <2>2 DEF ShapeInv
<1>9. JoiningInv'
  <2>1. \A u \in TopicSet(joining'.channel) : Pending("open", u)' \/ u \in opened' \cup missed'
    BY <1>1, <1>2 DEF JoiningInv
  <2>2. QED
    BY <1>3, <2>1 DEF JoiningInv
<1>10. FollowedInv'
  BY <1>1 DEF FollowedInv
<1>11. ItemsInv'
  <2> SUFFICES ASSUME NEW u \in ItemTopics, u \notin missed', Follows(u)', NEW n \in 1 .. last[u]
               PROVE  \/ n \in got[u] \/ n \in before[u] \/ n \in Waiting(u)'
                      \/ n \in Queued(u) \/ n \in unsent[u]
    BY <1>1 DEF ItemsInv, Queued
  <2>1. Follows(u) /\ u \in Topics
    BY <1>1, <1>6 DEF Follows, ItemTopics
  <2>2. u # t /\ u \notin missed
    BY <1>1, <1>5, <2>1
  <2>3. QED
    BY <1>4, <2>1, <2>2 DEF ItemsInv, Waiting
<1>12. StatesInv'
  <2>1. \A i, u : LastFrame(i, u)' = LastFrame(i, u)
    BY <1>1 DEF LastFrame
  <2>2. ASSUME NEW u \in opened' \cap StateTopics, unsent'[u] = {}
        PROVE  /\ stream'[u] # <<>> => stream'[u][Len(stream'[u])] = last'[u]
               /\ (stream'[u] = <<>> /\ Loaded(u)') => shows'[u] = last'[u]
               /\ (stream'[u] = <<>> /\ ChannelOf(u) \in subs' \ leftover') =>
                    /\ \A i \in 1 .. Len(queue') : LastFrame(i, u)' => queue'[i].value = last'[u]
                    /\ (\A i \in 1 .. Len(queue') : queue'[i].topic # u) => shows'[u] = last'[u]
    <3>1. CASE u = t
      BY <1>1, <1>2, <1>4, <1>5, <3>1
    <3>2. CASE u # t
      <4>1. u \in opened /\ stream'[u] = stream[u] /\ unsent[u] = {}
        BY <1>1, <1>4, <2>2, <3>2 DEF StateTopics
      <4>2. /\ stream[u] # <<>> => stream[u][Len(stream[u])] = last[u]
            /\ (stream[u] = <<>> /\ Loaded(u)) => shows[u] = last[u]
            /\ (stream[u] = <<>> /\ ChannelOf(u) \in subs \ leftover) =>
                 /\ \A i \in 1 .. Len(queue) : LastFrame(i, u) => queue[i].value = last[u]
                 /\ (\A i \in 1 .. Len(queue) : queue[i].topic # u) => shows[u] = last[u]
        BY <2>2, <4>1 DEF StatesInv
      <4>3. Loaded(u)' => Loaded(u)
        BY <1>6
      <4>4. QED
        BY <1>1, <2>1, <4>1, <4>2, <4>3
    <3>3. QED
      BY <3>1, <3>2
  <2>3. QED
    BY <2>2 DEF StatesInv
<1>13. QED
  BY <1>1, <1>7, <1>8, <1>9, <1>10, <1>11, <1>12, WorldStays

\* A history is the newest page, or the state, as it is committed.
LEMMA LoadSockets ==
  ASSUME SocketsIInv, Load
  PROVE  SocketsIInv'
<1> USE DEF SocketsIInv
<1> DEFINE t == JoinStep.topic
           page == {n \in 1 .. last[t] : n > last[t] - Page}
<1>1. /\ joining.steps # <<>> /\ JoinStep.do = "load"
      /\ got' = [got EXCEPT ![t] = IF t \in ItemTopics THEN page ELSE {}]
      /\ before' = [before EXCEPT ![t] = (1 .. last[t]) \ page]
      /\ shows' = [shows EXCEPT ![t] = IF t \in StateTopics THEN last[t] ELSE 0]
      /\ joining' = [joining EXCEPT !.steps = Tail(@)]
      /\ UNCHANGED <<last, unsent, reading, opened, stream, subs, queue, alive, frames, leftover, missed>>
  BY DEF Load, worldVars
<1>2. /\ joining # NoJoin /\ joining' # NoJoin /\ joining'.channel = joining.channel
      /\ joining' \in [channel : Channels \cup {"none"}, steps : Seq(JoinTask)]
      /\ joining.channel \in Channels /\ t \in Topics /\ ChannelOf(t) = joining.channel
      /\ \A u : Pending("load", u) => Pending("load", u)' \/ u = t
      /\ \A u : Pending("open", u) => Pending("open", u)'
  BY <1>1, JoinAdvances
<1>3. \A i \in 1 .. Len(joining'.steps) :
        /\ joining'.steps[i].topic \in TopicSet(joining'.channel)
        /\ joining'.steps[i].do = "open" =>
             \E j \in 1 .. Len(joining'.steps) :
               j > i /\ joining'.steps[j] = [do |-> "load", topic |-> joining'.steps[i].topic]
  BY <1>1, JoinAdvances
<1> HIDE DEF t
<1>4. last[t] \in Nat /\ last[t] \in Numbers /\ page \subseteq 1 .. last[t]
  BY <1>2 DEF TypeOK, Numbers
<1> HIDE DEF page
<1>5. /\ \A u \in Topics \ {t} : got'[u] = got[u] /\ before'[u] = before[u] /\ shows'[u] = shows[u]
      /\ t \in ItemTopics => got'[t] = page
      /\ got'[t] \subseteq 1 .. last[t] /\ before'[t] = (1 .. last[t]) \ page
      /\ shows'[t] \in Numbers /\ (t \in StateTopics => shows'[t] = last[t])
  BY <1>1, <1>2, <1>4 DEF ShapeInv, Numbers
<1>6. joining.channel \notin subs /\ \A u : (Loaded(u)' /\ u # t) => Loaded(u)
  BY <1>2 DEF TypeOK, Loaded
<1>7. TypeOK'
  <2>1. \A u \in Topics : got'[u] \cup before'[u] \subseteq 1 .. last[u] /\ shows'[u] \in Numbers
    BY <1>5 DEF TypeOK
  <2>2. QED
    BY <1>1, <1>2, <2>1 DEF TypeOK
<1>8. ShapeInv'
  <2>1. page \in SUBSET Nat /\ (1 .. last[t]) \ page \in SUBSET Nat
    BY <1>4
  <2>2. got' \in [Topics -> SUBSET Nat] /\ before' \in [Topics -> SUBSET Nat]
    BY <1>1, <2>1 DEF ShapeInv
  <2>3. shows' \in [Topics -> Nat]
    BY <1>1, <1>4 DEF ShapeInv
  <2>4. joining'.channel # "none"
    BY <1>2, NoneIsNoChannel
  <2>5. QED
    BY <1>1, <1>2, <2>2, <2>3, <2>4 DEF ShapeInv
<1>9. JoiningInv'
  <2>1. \A u \in TopicSet(joining'.channel) : Pending("open", u)' \/ u \in opened' \cup missed'
    BY <1>1, <1>2 DEF JoiningInv
  <2>2. QED
    BY <1>3, <2>1 DEF JoiningInv
<1>10. FollowedInv'
  BY <1>1 DEF FollowedInv
<1>11. ItemsInv'
  <2> SUFFICES ASSUME NEW u \in ItemTopics, u \notin missed, Follows(u)', NEW n \in 1 .. last[u]
               PROVE  \/ n \in got'[u] \/ n \in before'[u] \/ n \in Waiting(u)
                      \/ n \in Queued(u) \/ n \in unsent[u]
    BY <1>1 DEF ItemsInv, Queued, Waiting
  <2>1. CASE u = t
    BY <1>5, <2>1
  <2>2. CASE u # t
    <3>1. u \in Topics /\ Follows(u)
      BY <1>1, <1>6, <2>2 DEF Follows, ItemTopics
    <3>2. QED
      BY <1>5, <2>2, <3>1 DEF ItemsInv
  <2>3. QED
    BY <2>1, <2>2
<1>12. StatesInv'
  <2>1. \A i, u : LastFrame(i, u)' = LastFrame(i, u)
    BY <1>1 DEF LastFrame
  <2>2. ASSUME NEW u \in opened \cap StateTopics, unsent[u] = {}
        PROVE  /\ stream[u] # <<>> => stream[u][Len(stream[u])] = last[u]
               /\ (stream[u] = <<>> /\ Loaded(u)') => shows'[u] = last[u]
               /\ (stream[u] = <<>> /\ ChannelOf(u) \in subs \ leftover) =>
                    /\ \A i \in 1 .. Len(queue) : LastFrame(i, u) => queue[i].value = last[u]
                    /\ (\A i \in 1 .. Len(queue) : queue[i].topic # u) => shows'[u] = last[u]
    <3>1. CASE u = t
      BY <1>2, <1>5, <1>6, <2>2, <3>1 DEF StatesInv
    <3>2. CASE u # t
      BY <1>5, <1>6, <2>2, <3>2 DEF StatesInv, StateTopics
    <3>3. QED
      BY <3>1, <3>2
  <2>3. QED
    BY <1>1, <2>1, <2>2 DEF StatesInv
<1>13. QED
  BY <1>1, <1>7, <1>8, <1>9, <1>10, <1>11, <1>12, WorldStays

\* The channel is joined; if frames of it are still queued, that is noted.
LEMMA JoinedSockets ==
  ASSUME SocketsIInv, Joined
  PROVE  SocketsIInv'
<1> USE DEF SocketsIInv
<1> DEFINE c == joining.channel
<1>1. /\ joining # NoJoin /\ joining.steps = <<>> /\ subs' = subs \cup {c} /\ joining' = NoJoin
      /\ leftover' = IF QueuedOf(c) = {} THEN leftover \ {c} ELSE leftover \cup {c}
      /\ UNCHANGED <<last, unsent, reading, opened, stream, queue, alive, frames, got, shows,
                     before, missed>>
  BY DEF Joined, worldVars
<1>2. c \in Channels /\ c \notin subs
  BY <1>1 DEF ShapeInv, TypeOK
<1>3. \A u : ~Loaded(u)'
  BY <1>1 DEF Loaded
<1>4. \A u : ChannelOf(u) = c => Loaded(u)
  BY <1>1 DEF Loaded, Pending
<1> HIDE DEF c
<1>5. \A u : Follows(u)' => Follows(u)
  BY <1>1, <1>3, <1>4 DEF Follows
<1>6. TypeOK'
  <2>1. joining'.channel \notin subs'
    BY <1>1, <1>2, NoneIsNoChannel DEF NoJoin, TypeOK
  <2>2. \A u \in Topics : u \in opened' => ChannelOf(u) \in subs'
    BY <1>1 DEF TypeOK, c
  <2>3. QED
    BY <1>1, <1>2, <2>1, <2>2 DEF TypeOK
<1>7. ShapeInv'
  BY <1>1 DEF ShapeInv, NoJoin
<1>8. JoiningInv'
  BY <1>1 DEF JoiningInv
<1>9. FollowedInv'
  BY <1>1, <1>5, FollowedIsOpen DEF FollowedInv, Follows
<1>10. ItemsInv'
  BY <1>1, <1>5 DEF ItemsInv, Waiting, Queued
<1>11. StatesInv'
  <2>1. \A i, u : LastFrame(i, u)' = LastFrame(i, u)
    BY <1>1 DEF LastFrame
  <2>2. ASSUME NEW u \in opened \cap StateTopics, unsent[u] = {}, stream[u] = <<>>,
               ChannelOf(u) \in subs' \ leftover'
        PROVE  /\ \A i \in 1 .. Len(queue) : LastFrame(i, u) => queue[i].value = last[u]
               /\ (\A i \in 1 .. Len(queue) : queue[i].topic # u) => shows[u] = last[u]
    <3>1. CASE ChannelOf(u) = c
      <4>1. u \in TopicSet(c) /\ Loaded(u)
        BY <1>4, <3>1, TopicChannel DEF StateTopics
      <4>2. QueuedOf(c) = {}
        BY <1>1, <2>2, <3>1
      <4>3. \A i \in 1 .. Len(queue) : queue[i].topic # u
        BY <4>1, <4>2 DEF QueuedOf
      <4>4. shows[u] = last[u]
        BY <2>2, <4>1 DEF StatesInv
      <4>5. QED
        BY <4>3, <4>4 DEF LastFrame
    <3>2. CASE ChannelOf(u) # c
      BY <1>1, <2>2, <3>2 DEF StatesInv
    <3>3. QED
      BY <3>1, <3>2
  <2>3. QED
    BY <1>1, <1>3, <2>1, <2>2 DEF StatesInv
<1>12. QED
  BY <1>1, <1>6, <1>7, <1>8, <1>9, <1>10, <1>11, WorldStays

-----------------------------------------------------------------------------
(* The rest of the connection *)

\* Channels are left, together with their streams.
LEMMA Dropped ==
  ASSUME SocketsIInv, NEW cs \in SUBSET Channels, Drop(cs), subs' = subs \ cs, joining' = NoJoin,
         joining.channel \in cs \cup {"none"}, queue' = queue \/ (queue' = <<>> /\ subs' = {}),
         alive' \in BOOLEAN, frames' \in 0 .. MaxFrames,
         UNCHANGED <<last, unsent, reading, got, shows, before, leftover, missed>>
  PROVE  SocketsIInv'
<1> USE DEF SocketsIInv
<1>1. /\ opened' = {t \in opened : ChannelOf(t) \notin cs}
      /\ stream' = [t \in Topics |-> IF ChannelOf(t) \in cs THEN <<>> ELSE stream[t]]
  BY DEF Drop
<1>2. \A u : ~Loaded(u)'
  BY DEF Loaded
<1>3. \A u \in Topics : ChannelOf(u) \in subs' => stream'[u] = stream[u] /\ Follows(u)
  BY <1>1 DEF Follows
<1>4. \A u \in Topics : u \in opened' =>
        u \in opened /\ ChannelOf(u) \in subs' /\ stream'[u] = stream[u]
  <2> SUFFICES ASSUME NEW u \in Topics, u \in opened'
               PROVE  u \in opened /\ ChannelOf(u) \in subs' /\ stream'[u] = stream[u]
    OBVIOUS
  <2>1. u \in opened /\ ChannelOf(u) \notin cs
    BY <1>1
  <2>2. ChannelOf(u) \in subs \cup {joining.channel} /\ ChannelOf(u) # "none"
    BY <2>1, TopicChannel, NoneIsNoChannel DEF TypeOK
  <2>3. QED
    BY <1>1, <2>1, <2>2
<1>5. TypeOK'
  <2>1. ASSUME NEW u \in Topics
        PROVE  stream'[u] \in Seq(1 .. last[u]) /\ Len(stream'[u]) <= StreamCap
    <3>1. <<>> \in Seq(1 .. last[u]) /\ Len(<<>>) <= StreamCap
      OBVIOUS
    <3>2. stream[u] \in Seq(1 .. last[u]) /\ Len(stream[u]) <= StreamCap
      BY DEF TypeOK
    <3>3. stream'[u] = <<>> \/ stream'[u] = stream[u]
      BY <1>1
    <3>4. QED
      BY <3>1, <3>2, <3>3
  <2>2. /\ queue' \in Seq([topic : Topics, value : 1 .. MaxChanges]) /\ Len(queue') <= QueueCap
    <3>1. /\ queue \in Seq([topic : Topics, value : 1 .. MaxChanges]) /\ Len(queue) <= QueueCap
      BY DEF TypeOK
    <3>2. /\ <<>> \in Seq([topic : Topics, value : 1 .. MaxChanges]) /\ Len(<<>>) <= QueueCap
      OBVIOUS
    <3>3. QED
      BY <3>1, <3>2
  <2>3. joining'.channel \notin subs' /\ subs' \subseteq Channels /\ opened' \subseteq Topics
    BY <1>1, NoneIsNoChannel DEF TypeOK, NoJoin
  <2>4. QED
    BY <1>4, <2>1, <2>2, <2>3 DEF TypeOK
<1>6. ShapeInv'
  <2>1. ASSUME NEW u \in Topics
        PROVE  (IF ChannelOf(u) \in cs THEN <<>> ELSE stream[u]) \in Seq(Nat)
    <3>1. <<>> \in Seq(Nat) /\ stream[u] \in Seq(Nat)
      BY DEF ShapeInv
    <3>2. QED
      BY <3>1
  <2>2. stream' \in [Topics -> Seq(Nat)]
    BY <1>1, <2>1
  <2>3. NoJoin \in [channel : Channels \cup {"none"}, steps : Seq(JoinTask)]
    BY DEF NoJoin
  <2>4. QED
    BY <2>2, <2>3 DEF ShapeInv
<1>7. FramesInv' /\ ReadingInv' /\ JoiningInv'
  BY DEF FramesInv, ReadingInv, JoiningInv
<1>8. FollowedInv'
  <2> SUFFICES ASSUME NEW u \in Topics, ChannelOf(u) \in subs' PROVE u \in opened' \cup missed'
    BY DEF FollowedInv
  <2>1. u \in opened \cup missed
    BY DEF FollowedInv
  <2>2. QED
    BY <1>1, <2>1
<1>9. ItemsInv'
  <2> SUFFICES ASSUME NEW u \in ItemTopics, u \notin missed, Follows(u)', NEW n \in 1 .. last[u]
               PROVE  \/ n \in got[u] \/ n \in before[u] \/ n \in Waiting(u)'
                      \/ n \in Queued(u)' \/ n \in unsent[u]
    BY DEF ItemsInv
  <2>1. u \in Topics /\ ChannelOf(u) \in subs'
    BY <1>2 DEF Follows, ItemTopics
  <2>2. Follows(u) /\ stream'[u] = stream[u] /\ queue' = queue
    BY <1>3, <2>1
  <2>3. QED
    BY <2>2 DEF ItemsInv, Waiting, Queued
<1>10. StatesInv'
  <2> SUFFICES ASSUME NEW u \in opened' \cap StateTopics, unsent[u] = {}
               PROVE  /\ stream'[u] # <<>> => stream'[u][Len(stream'[u])] = last[u]
                      /\ (stream'[u] = <<>> /\ ChannelOf(u) \in subs' \ leftover) =>
                           /\ \A i \in 1 .. Len(queue') : LastFrame(i, u)' => queue'[i].value = last[u]
                           /\ (\A i \in 1 .. Len(queue') : queue'[i].topic # u) => shows[u] = last[u]
    BY <1>2 DEF StatesInv
  <2>1. u \in opened /\ ChannelOf(u) \in subs' /\ stream'[u] = stream[u] /\ queue' = queue
    BY <1>4 DEF StateTopics
  <2>2. \A i : LastFrame(i, u)' = LastFrame(i, u)
    BY <2>1 DEF LastFrame
  <2>3. QED
    BY <2>1, <2>2 DEF StatesInv
<1>11. QED
  BY <1>5, <1>6, <1>7, <1>8, <1>9, <1>10

\* A failed join, leaving a channel, and the end of the connection.
LEMMA LeaveSockets ==
  ASSUME SocketsIInv, JoinFails \/ Close \/ \E c \in Channels : Unsubscribe(c)
  PROVE  SocketsIInv'
<1> USE DEF SocketsIInv
<1>1. CASE JoinFails
  <2>1. joining.channel \in Channels /\ joining.channel \notin subs
    BY <1>1 DEF JoinFails, ShapeInv, TypeOK
  <2>2. subs' = subs \ {joining.channel}
    BY <1>1, <2>1 DEF JoinFails
  <2>3. /\ Drop({joining.channel}) /\ joining' = NoJoin /\ queue' = queue
        /\ UNCHANGED <<last, unsent, reading, got, shows, before, leftover, missed, alive, frames>>
    BY <1>1 DEF JoinFails, worldVars, clientVars
  <2>4. alive' \in BOOLEAN /\ frames' \in 0 .. MaxFrames
    BY <2>3 DEF TypeOK
  <2>5. QED
    BY <2>1, <2>2, <2>3, <2>4, Dropped
<1>2. CASE Close
  <2>1. subs' = subs \ Channels /\ subs' = {}
    BY <1>2 DEF Close, TypeOK
  <2>2. /\ Drop(Channels) /\ joining' = NoJoin /\ queue' = <<>> /\ alive' = FALSE
        /\ UNCHANGED <<last, unsent, reading, got, shows, before, leftover, missed, frames>>
    BY <1>2 DEF Close, worldVars, clientVars
  <2>3. alive' \in BOOLEAN /\ frames' \in 0 .. MaxFrames
    BY <2>2 DEF TypeOK
  <2>4. joining.channel \in Channels \cup {"none"}
    BY DEF ShapeInv
  <2>5. QED
    BY <2>1, <2>2, <2>3, <2>4, Dropped
<1>3. ASSUME NEW c \in Channels, Unsubscribe(c) PROVE SocketsIInv'
  <2>1. /\ joining = NoJoin /\ joining' = NoJoin /\ joining.channel = "none"
        /\ frames < MaxFrames /\ frames' = frames + 1 /\ subs' = subs \ {c} /\ queue' = queue
        /\ IF c \in subs THEN Drop({c}) ELSE UNCHANGED <<opened, stream>>
        /\ UNCHANGED <<last, unsent, reading, got, shows, before, leftover, missed, alive>>
    BY <1>3 DEF Unsubscribe, Idle, NoJoin, worldVars, clientVars
  <2>2. alive' \in BOOLEAN /\ frames' \in 0 .. MaxFrames
    BY <2>1 DEF TypeOK
  <2>3. CASE c \in subs
    BY <2>1, <2>2, <2>3, Dropped
  <2>4. CASE c \notin subs
    <3>1. subs' = subs \ {}
      BY <2>1, <2>4
    <3>2. stream = [t \in Topics |-> stream[t]]
      BY DEF ShapeInv
    <3>3. Drop({})
      BY <2>1, <2>4, <3>2 DEF Drop
    <3>4. QED
      BY <2>1, <2>2, <3>1, <3>3, Dropped
  <2>5. QED
    BY <2>3, <2>4
<1>4. QED
  BY <1>1, <1>2, <1>3

\* A message moves from its stream to the end of the queue.
LEMMA ForwardSockets ==
  ASSUME SocketsIInv, NEW t \in Topics, Forward(t)
  PROVE  SocketsIInv'
<1> USE DEF SocketsIInv
<1> DEFINE s == stream[t]
           v == Head(stream[t])
           f == [topic |-> t, value |-> v]
           n == Len(queue)
           Frames == [topic : Topics, value : 1 .. MaxChanges]
<1>1. /\ ChannelOf(t) \in subs /\ s # <<>> /\ n < QueueCap
      /\ queue' = Append(queue, f) /\ stream' = [stream EXCEPT ![t] = Tail(s)]
      /\ UNCHANGED <<last, unsent, reading, opened, subs, joining, alive, frames, got, shows,
                     before, leftover, missed>>
  BY DEF Forward, worldVars, clientVars
<1>2. s \in Seq(1 .. last[t]) /\ Len(s) <= StreamCap /\ last[t] \in 0 .. MaxChanges
  BY DEF TypeOK, Numbers
<1> HIDE DEF s
<1>3. /\ Len(s) \in Nat \ {0} /\ v = s[1] /\ v \in 1 .. last[t]
      /\ Tail(s) \in Seq(1 .. last[t]) /\ Len(Tail(s)) = Len(s) - 1
      /\ \A i \in 1 .. Len(Tail(s)) : Tail(s)[i] = s[i + 1]
      /\ \A i \in 2 .. Len(s) : i - 1 \in 1 .. Len(Tail(s)) /\ Tail(s)[i - 1] = s[i]
  <2>1. v = Head(s)
    BY DEF s
  <2>2. QED
    BY <1>1, <1>2, <2>1, Tailed
<1> HIDE DEF v
<1>4. f \in Frames /\ f.topic = t /\ f.value = v
  BY <1>2, <1>3
<1>5. queue \in Seq(Frames) /\ n \in Nat
  BY DEF TypeOK
<1> HIDE DEF f, Frames
<1>6. /\ queue' \in Seq(Frames) /\ Len(queue') = n + 1 /\ queue'[n + 1] = f
      /\ \A i \in 1 .. n : queue'[i] = queue[i]
  BY <1>1, <1>4, <1>5, Appended
<1> HIDE DEF n
<1>7. \A u \in Topics : stream'[u] = IF u = t THEN Tail(s) ELSE stream[u]
  BY <1>1 DEF ShapeInv
<1>8. TypeOK'
  <2>1. ASSUME NEW u \in Topics
        PROVE  stream'[u] \in Seq(1 .. last[u]) /\ Len(stream'[u]) <= StreamCap
    <3>1. CASE u = t
      <4>1. stream'[u] = Tail(s) /\ Tail(s) \in Seq(1 .. last[u])
        BY <1>3, <1>7, <3>1
      <4>2. Len(Tail(s)) <= StreamCap
        BY <1>2, <1>3
      <4>3. QED
        BY <4>1, <4>2
    <3>2. CASE u # t
      BY <1>7, <3>2 DEF TypeOK
    <3>3. QED
      BY <3>1, <3>2
  <2>2. Len(queue') <= QueueCap
    BY <1>1, <1>5, <1>6
  <2>3. QED
    BY <1>1, <1>6, <2>1, <2>2 DEF TypeOK, Frames
<1>9. ShapeInv'
  <2>1. Tail(s) \in Seq(Nat)
    BY <1>2, <1>3
  <2>2. stream' \in [Topics -> Seq(Nat)]
    BY <1>1, <2>1 DEF ShapeInv
  <2>3. QED
    BY <1>1, <2>2 DEF ShapeInv
<1>10. FramesInv'
  <2> SUFFICES ASSUME NEW i \in 1 .. Len(queue') PROVE queue'[i].value <= last[queue'[i].topic]
    BY <1>1 DEF FramesInv
  <2>1. CASE i = n + 1
    BY <1>2, <1>3, <1>4, <1>6, <2>1
  <2>2. CASE i # n + 1
    <3>1. i \in 1 .. n
      BY <1>5, <1>6, <2>2
    <3>2. QED
      BY <1>6, <3>1 DEF FramesInv, n
  <2>3. QED
    BY <2>1, <2>2
<1>11. ReadingInv' /\ JoiningInv' /\ FollowedInv'
  BY <1>1 DEF ReadingInv, JoiningInv, FollowedInv, Pending
<1>12. \A u : Loaded(u)' = Loaded(u) /\ Follows(u)' = Follows(u)
  BY <1>1 DEF Loaded, Follows, Pending
<1>13. \A u : \A x \in Queued(u) : x \in Queued(u)'
  <2> SUFFICES ASSUME NEW u, NEW i \in 1 .. Len(queue), queue[i].topic = u
               PROVE  \E j \in 1 .. Len(queue') : queue'[j].topic = u /\ queue'[j].value = queue[i].value
    BY DEF Queued
  <2>1. i \in 1 .. n /\ i \in 1 .. Len(queue')
    BY <1>5, <1>6 DEF n
  <2>2. QED
    BY <1>6, <2>1
<1>14. ItemsInv'
  <2> SUFFICES ASSUME NEW u \in ItemTopics, u \notin missed, Follows(u), NEW x \in 1 .. last[u]
               PROVE  \/ x \in got[u] \/ x \in before[u] \/ x \in Waiting(u)'
                      \/ x \in Queued(u)' \/ x \in unsent[u]
    BY <1>1, <1>12 DEF ItemsInv
  <2>1. u \in Topics
    BY DEF ItemTopics
  <2>2. x \in Waiting(u) => x \in Waiting(u)' \/ x \in Queued(u)'
    <3>1. CASE u # t
      BY <1>7, <2>1, <3>1 DEF Waiting
    <3>2. CASE u = t
      <4> SUFFICES ASSUME NEW i \in 1 .. Len(s), s[i] = x
                   PROVE  x \in Waiting(u)' \/ x \in Queued(u)'
        BY <3>2 DEF Waiting, s
      <4>1. CASE i = 1
        <5>1. n + 1 \in 1 .. Len(queue') /\ queue'[n + 1].topic = u /\ queue'[n + 1].value = x
          BY <1>3, <1>4, <1>5, <1>6, <3>2, <4>1
        <5>2. QED
          BY <5>1 DEF Queued
      <4>2. CASE i # 1
        <5>1. i \in 2 .. Len(s)
          BY <4>2
        <5>2. i - 1 \in 1 .. Len(Tail(s)) /\ Tail(s)[i - 1] = x
          BY <1>3, <5>1
        <5>3. stream'[u] = Tail(s)
          BY <1>7, <2>1, <3>2
        <5>4. QED
          BY <5>2, <5>3 DEF Waiting
      <4>3. QED
        BY <4>1, <4>2
    <3>3. QED
      BY <3>1, <3>2
  <2>3. QED
    BY <1>13, <2>2 DEF ItemsInv
<1>15. StatesInv'
  <2> SUFFICES ASSUME NEW u \in opened \cap StateTopics, unsent[u] = {}
               PROVE  /\ stream'[u] # <<>> => stream'[u][Len(stream'[u])] = last[u]
                      /\ (stream'[u] = <<>> /\ Loaded(u)) => shows[u] = last[u]
                      /\ (stream'[u] = <<>> /\ ChannelOf(u) \in subs \ leftover) =>
                           /\ \A i \in 1 .. Len(queue') : LastFrame(i, u)' => queue'[i].value = last[u]
                           /\ (\A i \in 1 .. Len(queue') : queue'[i].topic # u) => shows[u] = last[u]
    BY <1>1, <1>12 DEF StatesInv
  <2>1. u \in Topics
    BY DEF StateTopics
  <2>2. CASE u # t
    <3>1. stream'[u] = stream[u]
      BY <1>7, <2>1, <2>2
    <3>2. ASSUME NEW i \in 1 .. Len(queue'), LastFrame(i, u)'
          PROVE  i \in 1 .. Len(queue) /\ LastFrame(i, u) /\ queue'[i] = queue[i]
      <4>1. i # n + 1
        BY <1>4, <1>6, <2>2, <3>2 DEF LastFrame
      <4>2. i \in 1 .. n
        BY <1>5, <1>6, <4>1
      <4>3. \A j \in 1 .. n : j \in 1 .. Len(queue') /\ queue'[j] = queue[j]
        BY <1>5, <1>6
      <4>4. LastFrame(i, u)
        BY <3>2, <4>2, <4>3 DEF LastFrame, n
      <4>5. QED
        BY <4>2, <4>3, <4>4 DEF n
    <3>3. (\A i \in 1 .. Len(queue') : queue'[i].topic # u) => \A i \in 1 .. Len(queue) : queue[i].topic # u
      <4>1. \A j \in 1 .. n : j \in 1 .. Len(queue') /\ queue'[j] = queue[j]
        BY <1>5, <1>6
      <4>2. QED
        BY <4>1 DEF n
    <3>4. QED
      BY <3>1, <3>2, <3>3 DEF StatesInv
  <2>3. CASE u = t
    <3>1. stream'[u] = Tail(s) /\ ~Loaded(u)
      BY <1>1, <1>7, <2>1, <2>3 DEF Loaded, TypeOK
    <3>2. s[Len(s)] = last[u]
      BY <1>1, <2>3 DEF StatesInv, s
    <3>3. Tail(s) # <<>> => Tail(s)[Len(Tail(s))] = last[u]
      <4>1. Tail(s) # <<>> => Len(Tail(s)) \in 1 .. Len(Tail(s)) /\ Len(Tail(s)) + 1 = Len(s)
        BY <1>3
      <4>2. QED
        BY <1>3, <3>2, <4>1
    <3>4. Tail(s) = <<>> => v = last[u]
      <4>1. Tail(s) = <<>> => Len(s) = 1
        <5>1. \A r \in Seq(1 .. last[t]) : r = <<>> => Len(r) = 0
          OBVIOUS
        <5>2. SUFFICES ASSUME Tail(s) = <<>> PROVE Len(s) = 1
          OBVIOUS
        <5>3. Len(Tail(s)) = 0
          BY <1>3, <5>1, <5>2
        <5>4. Len(Tail(s)) = Len(s) - 1 /\ Len(s) \in Nat
          BY <1>3
        <5>5. QED
          BY <5>3, <5>4
      <4>2. QED
        BY <1>3, <3>2, <4>1
    <3>5. n + 1 \in 1 .. Len(queue') /\ queue'[n + 1].topic = u /\ queue'[n + 1].value = v
      BY <1>4, <1>5, <1>6, <2>3
    <3>6. \A i \in 1 .. Len(queue') : LastFrame(i, u)' => i = n + 1
      <4> SUFFICES ASSUME NEW i \in 1 .. Len(queue'), LastFrame(i, u)', i # n + 1 PROVE FALSE
        OBVIOUS
      <4>1. n + 1 > i
        BY <1>5, <1>6
      <4>2. QED
        BY <3>5, <4>1 DEF LastFrame
    <3>7. QED
      BY <3>1, <3>3, <3>4, <3>5, <3>6
  <2>4. QED
    BY <2>2, <2>3
<1>16. QED
  BY <1>8, <1>9, <1>10, <1>11, <1>14, <1>15

\* The client takes the oldest frame.
LEMMA DeliverSockets ==
  ASSUME SocketsIInv, Deliver
  PROVE  SocketsIInv'
<1> USE DEF SocketsIInv
<1> DEFINE Frames == [topic : Topics, value : 1 .. MaxChanges]
<1>0. PICK f : f = Head(queue)
  OBVIOUS
<1>1. /\ joining = NoJoin /\ queue # <<>> /\ queue' = Tail(queue)
      /\ f.topic \in ItemTopics =>
           got' = [got EXCEPT ![f.topic] = @ \cup {f.value}] /\ shows' = shows
      /\ f.topic \notin ItemTopics => shows' = [shows EXCEPT ![f.topic] = f.value] /\ got' = got
      /\ UNCHANGED <<last, unsent, reading, opened, stream, subs, joining, alive, frames, before,
                     leftover, missed>>
  BY <1>0 DEF Deliver, Idle, worldVars
<1>2. queue \in Seq(Frames)
  BY DEF TypeOK
<1> HIDE DEF Frames
<1>3. /\ Len(queue) \in Nat \ {0} /\ f = queue[1] /\ f \in Frames
      /\ queue' \in Seq(Frames) /\ Len(queue') = Len(queue) - 1
      /\ \A i \in 1 .. Len(queue') : queue'[i] = queue[i + 1]
      /\ \A i \in 2 .. Len(queue) : i - 1 \in 1 .. Len(queue') /\ queue'[i - 1] = queue[i]
  BY <1>0, <1>1, <1>2, Tailed
<1>4. f.topic \in Topics /\ f.value \in 1 .. MaxChanges /\ f.value <= last[f.topic] /\ last[f.topic] \in Nat
  <2>1. f.topic \in Topics /\ f.value \in 1 .. MaxChanges
    BY <1>3 DEF Frames
  <2>2. 1 \in 1 .. Len(queue)
    BY <1>3
  <2>3. f.value <= last[f.topic]
    BY <1>3, <2>2 DEF FramesInv
  <2>4. QED
    BY <2>1, <2>3 DEF TypeOK, Numbers
<1>5. /\ \A u \in Topics : u # f.topic => got'[u] = got[u] /\ shows'[u] = shows[u]
      /\ f.topic \in ItemTopics => got'[f.topic] = got[f.topic] \cup {f.value} /\ shows' = shows
      /\ f.topic \notin ItemTopics => shows'[f.topic] = f.value /\ got' = got
  BY <1>1, <1>4 DEF ShapeInv
<1>6. TypeOK'
  <2>1. ASSUME NEW u \in Topics
        PROVE  got'[u] \cup before[u] \subseteq 1 .. last[u] /\ shows'[u] \in Numbers
    <3>1. got[u] \cup before[u] \subseteq 1 .. last[u] /\ shows[u] \in Numbers
      BY DEF TypeOK
    <3>2. f.value \in 1 .. last[f.topic] /\ f.value \in Numbers
      BY <1>4 DEF Numbers
    <3>3. QED
      BY <1>5, <3>1, <3>2
  <2>2. queue' \in Seq([topic : Topics, value : 1 .. MaxChanges])
    BY <1>3 DEF Frames
  <2>3. Len(queue') <= QueueCap
    BY <1>3 DEF TypeOK
  <2>4. QED
    BY <1>1, <2>1, <2>2, <2>3 DEF TypeOK
<1>7. ShapeInv'
  <2>1. got[f.topic] \cup {f.value} \in SUBSET Nat /\ f.value \in Nat
    BY <1>4 DEF ShapeInv
  <2>2. got' \in [Topics -> SUBSET Nat] /\ shows' \in [Topics -> Nat]
    <3>1. got \in [Topics -> SUBSET Nat] /\ shows \in [Topics -> Nat]
      BY DEF ShapeInv
    <3> HIDE DEF SocketsIInv
    <3>2. CASE f.topic \in ItemTopics
      <4>1. [got EXCEPT ![f.topic] = @ \cup {f.value}] \in [Topics -> SUBSET Nat]
        BY <2>1, <3>1
      <4>2. QED
        BY <1>1, <3>1, <3>2, <4>1
    <3>3. CASE f.topic \notin ItemTopics
      <4>1. [shows EXCEPT ![f.topic] = f.value] \in [Topics -> Nat]
        BY <2>1, <3>1
      <4>2. QED
        BY <1>1, <3>1, <3>3, <4>1
    <3>4. QED
      BY <3>2, <3>3
  <2>3. QED
    BY <1>1, <2>2 DEF ShapeInv
<1>8. FramesInv'
  <2> SUFFICES ASSUME NEW i \in 1 .. Len(queue') PROVE queue'[i].value <= last[queue'[i].topic]
    BY <1>1 DEF FramesInv
  <2>1. i + 1 \in 1 .. Len(queue) /\ queue'[i] = queue[i + 1]
    BY <1>3
  <2>2. QED
    BY <2>1 DEF FramesInv
<1>9. ReadingInv' /\ JoiningInv' /\ FollowedInv'
  BY <1>1 DEF ReadingInv, JoiningInv, FollowedInv
<1>10. \A u : ~Loaded(u)' /\ Follows(u)' = Follows(u)
  BY <1>1 DEF Loaded, Follows
<1>11. ItemsInv'
  <2> SUFFICES ASSUME NEW u \in ItemTopics, u \notin missed, Follows(u), NEW x \in 1 .. last[u]
               PROVE  \/ x \in got'[u] \/ x \in before[u] \/ x \in Waiting(u)
                      \/ x \in Queued(u)' \/ x \in unsent[u]
    BY <1>1, <1>10 DEF ItemsInv, Waiting
  <2>1. u \in Topics /\ \A y \in got[u] : y \in got'[u]
    BY <1>5 DEF ItemTopics
  <2>2. x \in Queued(u) => x \in got'[u] \/ x \in Queued(u)'
    <3> SUFFICES ASSUME NEW i \in 1 .. Len(queue), queue[i].topic = u, queue[i].value = x
                 PROVE  x \in got'[u] \/ x \in Queued(u)'
      BY DEF Queued
    <3>1. CASE i = 1
      BY <1>3, <1>5, <3>1
    <3>2. CASE i # 1
      <4>1. i - 1 \in 1 .. Len(queue') /\ queue'[i - 1] = queue[i]
        BY <1>3, <3>2
      <4>2. QED
        BY <4>1 DEF Queued
    <3>3. QED
      BY <3>1, <3>2
  <2>3. QED
    BY <2>1, <2>2 DEF ItemsInv
<1>12. StatesInv'
  <2> SUFFICES ASSUME NEW u \in opened \cap StateTopics, unsent[u] = {}, stream[u] = <<>>,
                      ChannelOf(u) \in subs \ leftover
               PROVE  /\ \A i \in 1 .. Len(queue') : LastFrame(i, u)' => queue'[i].value = last[u]
                      /\ (\A i \in 1 .. Len(queue') : queue'[i].topic # u) => shows'[u] = last[u]
    BY <1>1, <1>10 DEF StatesInv
  <2>1. /\ \A i \in 1 .. Len(queue) : LastFrame(i, u) => queue[i].value = last[u]
        /\ (\A i \in 1 .. Len(queue) : queue[i].topic # u) => shows[u] = last[u]
    BY DEF StatesInv
  <2>2. ASSUME NEW i \in 1 .. Len(queue'), LastFrame(i, u)' PROVE queue'[i].value = last[u]
    <3>1. i + 1 \in 1 .. Len(queue) /\ queue'[i] = queue[i + 1]
      BY <1>3
    <3>2. \A j \in 1 .. Len(queue) : j > i + 1 => queue[j].topic # u
      <4> SUFFICES ASSUME NEW j \in 1 .. Len(queue), j > i + 1 PROVE queue[j].topic # u
        OBVIOUS
      <4>1. j - 1 \in 1 .. Len(queue') /\ queue'[j - 1] = queue[j] /\ j - 1 > i
        BY <1>3
      <4>2. QED
        BY <2>2, <4>1 DEF LastFrame
    <3>3. LastFrame(i + 1, u)
      BY <2>2, <3>1, <3>2 DEF LastFrame
    <3>4. QED
      BY <2>1, <3>1, <3>3
  <2>3. ASSUME \A i \in 1 .. Len(queue') : queue'[i].topic # u PROVE shows'[u] = last[u]
    <3>1. \A j \in 2 .. Len(queue) : queue[j].topic # u
      BY <1>3, <2>3
    <3>2. \A j \in 1 .. Len(queue) : j = 1 \/ j \in 2 .. Len(queue)
      BY <1>3
    <3>3. CASE f.topic = u
      <4>1. 1 \in 1 .. Len(queue) /\ LastFrame(1, u)
        BY <1>3, <3>1, <3>2, <3>3 DEF LastFrame
      <4>2. f.value = last[u] /\ f.topic \notin ItemTopics
        BY <1>3, <2>1, <3>3, <4>1 DEF ItemTopics
      <4>3. QED
        BY <1>5, <3>3, <4>2
    <3>4. CASE f.topic # u
      <4>1. \A j \in 1 .. Len(queue) : queue[j].topic # u
        BY <1>3, <3>1, <3>2, <3>4
      <4>2. QED
        BY <1>5, <2>1, <3>4, <4>1 DEF StateTopics
    <3>5. QED
      BY <3>3, <3>4
  <2>4. QED
    BY <2>2, <2>3
<1>13. QED
  BY <1>6, <1>7, <1>8, <1>9, <1>11, <1>12

\* A stream that ends has lost what comes after.
LEMMA StreamEndsSockets ==
  ASSUME SocketsIInv, NEW t \in Topics, StreamEnds(t)
  PROVE  SocketsIInv'
<1> USE DEF SocketsIInv
<1>1. /\ opened' = opened \ {t} /\ missed' = missed \cup {t}
      /\ UNCHANGED <<last, unsent, reading, stream, subs, joining, queue, alive, frames, got, shows,
                     before, leftover>>
  BY DEF StreamEnds, worldVars, clientVars
<1>2. \A u : /\ Loaded(u)' = Loaded(u) /\ Follows(u)' = Follows(u)
             /\ \A i : LastFrame(i, u)' = LastFrame(i, u)
  BY <1>1 DEF Loaded, Follows, Pending, LastFrame
<1>3. TypeOK' /\ ShapeInv'
  BY <1>1 DEF TypeOK, ShapeInv
<1>4. JoiningInv' /\ FollowedInv'
  BY <1>1 DEF JoiningInv, FollowedInv, Pending
<1>5. ItemsInv'
  BY <1>1, <1>2 DEF ItemsInv, Waiting, Queued
<1>6. StatesInv'
  BY <1>1, <1>2 DEF StatesInv
<1>7. QED
  BY <1>1, <1>3, <1>4, <1>5, <1>6, WorldStays

-----------------------------------------------------------------------------
(* The theorems *)

\* A connection starts with nothing to lose.
LEMMA InitSockets == Init => SocketsIInv
<1> SUFFICES ASSUME Init PROVE SocketsIInv
  OBVIOUS
<1> USE DEF Init
<1>1. TypeOK
  <2>1. <<>> \in Seq([topic : Topics, value : 1 .. MaxChanges]) /\ Len(<<>>) = 0
    OBVIOUS
  <2>2. ASSUME NEW t \in Topics PROVE stream[t] \in Seq(1 .. last[t]) /\ Len(stream[t]) <= StreamCap
    OBVIOUS
  <2>3. QED
    BY <2>1, <2>2 DEF TypeOK, NoJoin, Numbers
<1>2. ShapeInv
  <2>1. <<>> \in Seq(Nat) /\ <<>> \in Seq(JoinTask)
    OBVIOUS
  <2>2. QED
    BY <2>1 DEF ShapeInv, NoJoin
<1>3. FramesInv /\ ReadingInv /\ JoiningInv /\ FollowedInv
  BY DEF FramesInv, ReadingInv, JoiningInv, FollowedInv
<1>4. ItemsInv /\ StatesInv
  BY DEF ItemsInv, StatesInv, Follows, Loaded, ItemTopics
<1>5. QED
  BY <1>1, <1>2, <1>3, <1>4 DEF SocketsIInv

\* Every step keeps the invariant.
LEMMA NextSockets == SocketsIInv /\ [Next]_vars => SocketsIInv'
<1> SUFFICES ASSUME SocketsIInv, [Next]_vars PROVE SocketsIInv'
  OBVIOUS
<1>1. CASE UNCHANGED vars
  <2>1. UNCHANGED <<worldVars, socketVars, clientVars, missed>> /\ reading' = reading
    BY <1>1 DEF vars
  <2>2. TypeOK' /\ ReadingInv'
    BY <2>1 DEF SocketsIInv, TypeOK, ReadingInv, worldVars, socketVars, clientVars
  <2>3. QED
    BY <2>1, <2>2, StillSockets DEF SocketsIInv
<1>2. ASSUME NEW t \in Topics, Change(t) \/ Forward(t) \/ StreamEnds(t) PROVE SocketsIInv'
  BY <1>2, ChangeSockets, ForwardSockets, StreamEndsSockets
<1>3. ASSUME NEW t \in Topics, NEW n \in 1 .. MaxChanges, Read(t, n) PROVE SocketsIInv'
  BY <1>3, ReadSockets
<1>4. ASSUME NEW c \in Channels, Subscribe(c) \/ Unsubscribe(c) PROVE SocketsIInv'
  BY <1>4, SubscribeSockets, LeaveSockets
<1>5. CASE LoopStep
  BY <1>5, OpenSockets, LoadSockets, JoinedSockets, DeliverSockets DEF LoopStep
<1>6. CASE SendFails
  <2>1. UNCHANGED <<worldVars, socketVars, clientVars, missed>> /\ reading' = Nothing
    BY <1>6 DEF SendFails
  <2>2. TypeOK' /\ ReadingInv'
    BY <2>1 DEF SocketsIInv, TypeOK, ReadingInv, worldVars, socketVars, clientVars
  <2>3. QED
    BY <2>1, <2>2, StillSockets DEF SocketsIInv
<1>7. CASE Send \/ JoinFails \/ Close
  BY <1>7, SendSockets, LeaveSockets
<1>8. QED
  BY <1>1, <1>2, <1>3, <1>4, <1>5, <1>6, <1>7 DEF Next

\* The invariant holds in every reachable state.
THEOREM ConnectionsSound == Spec => []SocketsIInv
<1>1. QED
  BY InitSockets, NextSockets, PTL DEF Spec

\* Whatever is committed while a client joins is in its history or on its way, for
\* every size of the queue, of the broker's buffers and of a history page
\* (subscribe.rs: "subscribe first, replay second").
THEOREM NoItemLost == Spec => []ConnectionInv
<1>1. SocketsIInv => ConnectionInv
  <2> SUFFICES ASSUME SocketsIInv, NEW t \in ItemTopics \ missed, ChannelOf(t) \in subs,
                      NEW n \in 1 .. last[t]
               PROVE  \/ n \in got[t] \/ n \in before[t] \/ n \in Waiting(t)
                      \/ n \in Queued(t) \/ n \in unsent[t]
    BY DEF ConnectionInv, NothingLost, SocketsIInv
  <2>1. QED
    BY DEF SocketsIInv, ItemsInv, Follows
<1>2. QED
  BY <1>1, ConnectionsSound, PTL

\* A client at rest shows the committed prices and reaction counts, whatever
\* order histories and messages came in (subscribe.rs: "price frames by being
\* idempotent").
THEOREM QuietIsCurrent == Spec => []QuietStateIsCurrent
<1>1. SocketsIInv => QuietStateIsCurrent
  <2> SUFFICES ASSUME SocketsIInv, NEW t \in opened \cap StateTopics,
                      ChannelOf(t) \in subs \ leftover, unsent[t] = {},
                      Waiting(t) = {}, Queued(t) = {}
               PROVE  shows[t] = last[t]
    BY DEF QuietStateIsCurrent
  <2>1. stream[t] = <<>>
    <3>1. stream[t] \in Seq(Nat)
      BY DEF SocketsIInv, ShapeInv, StateTopics
    <3>2. Len(stream[t]) = 0
      <4> SUFFICES ASSUME Len(stream[t]) # 0 PROVE FALSE
        OBVIOUS
      <4>1. 1 \in 1 .. Len(stream[t])
        BY <3>1
      <4>2. stream[t][1] \in Waiting(t)
        BY <4>1 DEF Waiting
      <4>3. QED
        BY <4>2
    <3>3. QED
      BY <3>1, <3>2
  <2>2. \A i \in 1 .. Len(queue) : queue[i].topic # t
    <3> SUFFICES ASSUME NEW i \in 1 .. Len(queue), queue[i].topic = t PROVE FALSE
      OBVIOUS
    <3>1. queue[i].value \in Queued(t)
      BY DEF Queued
    <3>2. QED
      BY <3>1
  <2>3. QED
    BY <2>1, <2>2 DEF SocketsIInv, StatesInv
<1>2. QED
  BY <1>1, ConnectionsSound, PTL
=============================================================================
