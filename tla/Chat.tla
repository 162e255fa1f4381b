-------------------------------- MODULE Chat ---------------------------------
(***************************************************************************)
(* Chat rooms: posting messages and replies (use_cases/chat/post_message.rs*)
(* and PgChatMessageRepository::save) and reading the history page by page *)
(* (use_cases/chat/list_recent.rs), while others post.                     *)
(*                                                                         *)
(* Message ids are numbers only because they are compared; a message does  *)
(* not get them in the order of posting.  There is no operation that       *)
(* deletes messages, authors or markets.  Reactions are in Reactions, the  *)
(* live stream of messages is in Sockets.                                  *)
(***************************************************************************)
EXTENDS Integers, FiniteSets, Sequences, Functions, TLC

CONSTANTS Messages,   \* ids of messages to be posted, positive numbers
          Rooms, Readers,
          Limit,      \* messages per page (HISTORY_LIMIT, 50 in the code)
          MaxTime     \* bound: ticks of the clock

None == 0

ASSUME ChatAssumption ==
  /\ Messages \subseteq Nat \ {None} /\ None \notin Rooms
  /\ Limit \in Nat \ {0} /\ MaxTime \in Nat \ {0}

VARIABLES
  now,       \* the servers' clock
  state,     \* of each message: not begun, in an open transaction, posted
  room, replyTo, createdAt,  \* its columns; replyTo 0 is NULL
  looksAt,   \* the room each reader reads, and whether backwards
  seen,      \* the messages it has been shown, oldest first
  atEnd,     \* it was given an empty page
  atStart,   \* history: what was in the room when it began
  overtaken  \* history: messages still open when the reader read past their place

messageVars == <<now, state, room, replyTo, createdAt>>
readerVars  == <<looksAt, seen, atEnd, atStart, overtaken>>
vars        == <<messageVars, readerVars>>

TypeOK ==
  /\ now \in 1 .. MaxTime
  /\ state \in [Messages -> {"none", "open", "posted"}]
  /\ room \in [Messages -> Rooms \cup {None}]
  /\ replyTo \in [Messages -> Messages \cup {None}]
  /\ createdAt \in [Messages -> 0 .. MaxTime]
  /\ \A m \in Messages : /\ state[m] = "none" <=> room[m] = None
                         /\ state[m] = "none" <=> createdAt[m] = 0
  /\ looksAt \in [Readers -> [room : Rooms, back : BOOLEAN]]
  /\ seen \in [Readers -> Seq(Messages)]
  /\ atEnd \in [Readers -> BOOLEAN]
  /\ atStart \in [Readers -> SUBSET Messages]
  /\ overtaken \in [Readers -> SUBSET Messages]

Init ==
  /\ now = 1
  /\ state = [m \in Messages |-> "none"]
  /\ room = [m \in Messages |-> None]
  /\ replyTo = [m \in Messages |-> None]
  /\ createdAt = [m \in Messages |-> 0]
  /\ looksAt \in [Readers -> [room : Rooms, back : BOOLEAN]]
  /\ seen = [r \in Readers |-> <<>>]
  /\ atEnd = [r \in Readers |-> FALSE]
  /\ atStart = [r \in Readers |-> {}]
  /\ overtaken = [r \in Readers |-> {}]

Posted(m) == state[m] = "posted"
In(k) == {m \in Messages : Posted(m) /\ room[m] = k}

-----------------------------------------------------------------------------
(* Posting *)

Tick ==
  /\ now < MaxTime
  /\ now' = now + 1
  /\ UNCHANGED <<state, room, replyTo, createdAt, readerVars>>

\* Mutant: any message may be quoted from any room.
QuotableAnywhere(q, k) == Posted(q)

\* PostMessage::quoted: a committed message of the same room.
Quotable(q, k) == q \in In(k)

\* PostMessage up to save's transaction: the time is taken here, and becomes
\* visible to others at the commit.
Post(m, k, q) ==
  /\ state[m] = "none"
  /\ q # None => Quotable(q, k)
  /\ state' = [state EXCEPT ![m] = "open"]
  /\ room' = [room EXCEPT ![m] = k]
  /\ replyTo' = [replyTo EXCEPT ![m] = q]
  /\ createdAt' = [createdAt EXCEPT ![m] = now]
  /\ UNCHANGED <<now, readerVars>>

Commit(m) ==
  /\ state[m] = "open"
  /\ state' = [state EXCEPT ![m] = "posted"]
  /\ UNCHANGED <<now, room, replyTo, createdAt, readerVars>>

\* A storage error rolls back: nobody has seen the message or its id.  What
\* fails before the transaction (an unknown user, room or quote, a bad body)
\* leaves no trace either.
Fail(m) ==
  /\ state[m] = "open"
  /\ state' = [state EXCEPT ![m] = "none"]
  /\ room' = [room EXCEPT ![m] = None]
  /\ replyTo' = [replyTo EXCEPT ![m] = None]
  /\ createdAt' = [createdAt EXCEPT ![m] = 0]
  /\ UNCHANGED <<now, readerVars>>

-----------------------------------------------------------------------------
(* Reading *)

\* Mutant: the timestamp alone is the ordering key.
OlderByTime(a, b) == createdAt[a] < createdAt[b]

\* (created_at, id), compared as a row value.
Older(a, b) ==
  createdAt[a] < createdAt[b] \/ (createdAt[a] = createdAt[b] /\ a < b)

\* The Limit messages of S nearest to its newest or its oldest end.
Newest(S) == {m \in S : Cardinality({n \in S : Older(m, n)}) < Limit}
Oldest(S) == {m \in S : Cardinality({n \in S : Older(n, m)}) < Limit}

\* Mutant: the page before is cut by the timestamp alone.
BeforeByTime(k, c) == Newest({m \in In(k) : createdAt[m] < createdAt[c]})

\* MessageCursor::Before and After, both without the anchor.
Before(k, c) == Newest({m \in In(k) : Older(m, c)})
After(k, c) == Oldest({m \in In(k) : Older(c, m)})

\* list_recent_messages: oldest first, whichever end the page was cut from.
Sorted(S) ==
  CHOOSE s \in [1 .. Cardinality(S) -> S] :
    IsInjective(s) /\ \A i, j \in DOMAIN s : i < j => ~Older(s[j], s[i])

\* The in-memory list_recent: the room sorted by the same key, split where the
\* anchor is or would be, and cut from the end the page lies next to.
SplitAt(all, c) == Cardinality({i \in DOMAIN all : Older(all[i], c)})
FirstOf(s) == SubSeq(s, 1, IF Len(s) < Limit THEN Len(s) ELSE Limit)
LastOf(s) == SubSeq(s, IF Len(s) < Limit THEN 1 ELSE Len(s) - Limit + 1, Len(s))
MemNewest(k) == LastOf(Sorted(In(k)))
MemBefore(k, c) == LET all == Sorted(In(k)) IN LastOf(SubSeq(all, 1, SplitAt(all, c)))
MemAfter(k, c) ==
  LET all   == Sorted(In(k))
      split == SplitAt(all, c)
      after == IF split < Len(all) /\ all[split + 1] = c THEN split + 1 ELSE split
  IN  FirstOf(SubSeq(all, after + 1, Len(all)))

Spans(shown, m) ==
  shown # <<>> /\ ~Older(m, shown[1]) /\ ~Older(shown[Len(shown)], m)

\* What the reader shows now, and what was on its way into the part just read.
Show(r, shown) ==
  /\ seen' = [seen EXCEPT ![r] = shown]
  /\ overtaken' = [overtaken EXCEPT ![r] =
       @ \cup {m \in Messages : state[m] = "open" /\ room[m] = looksAt[r].room /\ Spans(shown, m)}]
  /\ UNCHANGED <<messageVars, looksAt>>

\* The first page: the newest messages of the room.
Open(r) ==
  LET k == looksAt[r].room IN
  /\ seen[r] = <<>> /\ In(k) # {}
  /\ atStart' = [atStart EXCEPT ![r] = In(k)]
  /\ Show(r, Sorted(Newest(In(k))))
  /\ UNCHANGED atEnd

\* Then the page before the oldest message it holds,
PageBack(r) ==
  LET page == Sorted(Before(looksAt[r].room, seen[r][1])) IN
  /\ looksAt[r].back /\ seen[r] # <<>> /\ ~atEnd[r]
  /\ atEnd' = [atEnd EXCEPT ![r] = page = <<>>]
  /\ Show(r, page \o seen[r])
  /\ UNCHANGED atStart

\* or the page after the newest one, as often as it likes.
PageForward(r) ==
  LET page == Sorted(After(looksAt[r].room, seen[r][Len(seen[r])])) IN
  /\ ~looksAt[r].back /\ seen[r] # <<>>
  /\ atEnd' = [atEnd EXCEPT ![r] = page = <<>>]
  /\ Show(r, seen[r] \o page)
  /\ UNCHANGED atStart

Next ==
  \/ Tick
  \/ \E m \in Messages : Commit(m) \/ Fail(m)
  \/ \E m \in Messages, k \in Rooms, q \in Messages \cup {None} : Post(m, k, q)
  \/ \E r \in Readers : Open(r) \/ PageBack(r) \/ PageForward(r)

Spec == Init /\ [][Next]_vars

\* Rooms are alike; messages are not, their ids are compared.
Symmetry == Permutations(Rooms)

-----------------------------------------------------------------------------
(* Properties *)

\* A reply and its quote are in one room, the quote is there to be read and is
\* not newer, whatever was posted in between (post_message.rs: "a cross-room
\* quote would leak a market discussion into the global feed").
RepliesStayInRoom ==
  \A m \in Messages : (Posted(m) /\ replyTo[m] # None) =>
    /\ replyTo[m] \in In(room[m])
    /\ createdAt[replyTo[m]] <= createdAt[m]

\* Whatever the room holds, the in-memory repository answers as the SQL one, for
\* an anchor in the room and for one in another (chat_message_repository.rs:
\* "Same ordering key as Postgres").  Readers change no room: it is enough to
\* look before they begin.
RepositoriesAgree ==
  (\A r \in Readers : seen[r] = <<>>) => \A k \in Rooms :
    /\ MemNewest(k) = Sorted(Newest(In(k)))
    /\ \A c \in {m \in Messages : Posted(m)} :
         MemBefore(k, c) = Sorted(Before(k, c)) /\ MemAfter(k, c) = Sorted(After(k, c))

\* With the types: a message has its room and its time from its insert on.
MessagesInv == TypeOK /\ RepliesStayInRoom /\ RepositoriesAgree

\* No message is shown twice or out of order, also when messages with one
\* timestamp fall on two pages (list_recent, MessageAnchor).
PagesNeverRepeat ==
  \A r \in Readers : \A i, j \in 1 .. Len(seen[r]) :
    i < j => Older(seen[r][i], seen[r][j])

\* Walking back to the beginning shows all that was there when the walk began.
BackwardWalkSeesAll ==
  \A r \in Readers : (looksAt[r].back /\ atEnd[r]) => atStart[r] \subseteq Range(seen[r])

\* Between the oldest and the newest message shown nothing is missing but what
\* was not committed yet when its place was read, or has the timestamp of a
\* message that was shown (chat_message_repository.rs: "paging can never skip or
\* repeat one").
SkipsOnlyLatePosts ==
  \A r \in Readers : \A m \in In(looksAt[r].room) :
    Spans(seen[r], m) =>
      \/ m \in Range(seen[r]) \cup overtaken[r]
      \/ \E n \in Range(seen[r]) : createdAt[n] = createdAt[m]

\* Paging in either direction leaves no hole.
PagesLeaveNoHole == BackwardWalkSeesAll /\ SkipsOnlyLatePosts
=============================================================================
