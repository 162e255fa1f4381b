# TLA+ verification of betsphere

betsphere is a prediction-market server: users stake play money on outcomes of
markets, an admin resolves a market, winners are paid, and clients follow bets
and prices live. It is a Rust workspace (`crates/domain`, `application`,
`infrastructure`, `api`, `demo`) over Postgres and Redis. This directory holds
TLA+ models of its core, TLC runs that check them on small instances, and TLAPS
proofs of the safety properties for every instance. `PROJECT.json` is the
machine-readable index: components, runs, mutants, source map, findings,
hazards and theorems.

Run a check with `tlc -config <cfg> <module>` and a proof with
`tlapm <module>Proofs.tla` (section 2 says which module proves what).

## 1. The system

| Component | State it keeps | Operations | What is hard about it |
|---|---|---|---|
| Pricing (`domain/services/pricing.rs`, `Price`) | none | `recalculate_prices`, buy price, payout, average price | rounding, i64 width, prices of zero |
| Markets, bets (`place_bet.rs`, `resolve_market.rs`, `bet_repository.rs`) | rows `users.balance`, `markets`, `outcomes`, `bets` | create, place, resolve | reads outside the transaction, row locks, rollbacks, two admins at once |
| Listings (`routes/markets.rs`, `bets.rs`, `list_markets.rs`, `get_price_history.rs`, the repositories' queries) | none; `price_points` | feed, history, market lists, statistics, positions, charts | offsets while rows move, two back ends that must answer alike |
| Outbox (`events/outbox.rs`) | `outbox_events`; each processor's batch and listener | publish, claim, handle, mark, sweep, prune | several processors, crashes, missed NOTIFY, retries, order |
| Broadcasters (`broadcasters/bet.rs`, `market.rs`) | none of their own; they feed the broker | handle an event | read-then-send, partial sends, redelivery |
| User cache (`redis/cache.rs`, `redis/user_repository.rs`, `events/user_cache.rs`) | one Redis entry per key of a user, with a TTL | lookup, save, evict | fills racing evictions, Redis failures |
| Profile edits (`update_user.rs`, `upload_avatar.rs`, demo `top_up`, `account`) | `users` rows | load, edit, save the whole row | lost updates |
| Accounts, sessions (`use_cases/auth`) | `users`, `refresh_tokens` | register, login, refresh, logout | single use under races, failures half-way |
| Access tokens (`jwt_access_tokens.rs`, `extract.rs`) | held by clients, until they expire | issue, authorise | a role that has changed since |
| Chat (`use_cases/chat`, `chat_message_repository.rs`, `broadcasters/chat.rs`) | `chat_messages`, `chat_message_reactions` | post, reply, react, page through a room | concurrent reactions, retried broadcasts, pages while others post |
| WebSocket (`api/routes/ws`), broker (`messaging`) | a connection's map of forwarding tasks, its queue of 64 frames; the broker's streams | subscribe, unsubscribe, forward, deliver, close | history against stream, a full queue, lag, lost streams |
| Images (`use_cases/image.rs`, `storage/local.rs`, `routes/files.rs`) | files, URLs in rows, clients' caches | store, serve | several file operations and a row update, uploads racing each other |
| Demo (`crates/demo`) | the round of each loop | provision accounts, settle and open markets, bet, chat, top up | acts on lists read earlier, beside admins, restarts and other servers |
| In-memory repositories and event bus | vectors behind a mutex | those of the Postgres repositories | must answer as Postgres does: tests run on them |
| HTTP API, config, hashing, JWT signatures | none | | |

How they interact. A request runs a use case; `place`, `settle` and the chat
writes insert their events into the outbox in the transaction that changes the
rows. An `OutboxProcessor` task claims committed events and calls the handlers
`main.rs` registers: the cache invalidator, the bet and price broadcasters and
the chat broadcasters. Broadcasters read the database again and send to the
message broker, which the WebSocket tasks subscribe to. `UserRepository` is
behind the Redis cache, except inside a unit of work. The demo's loops call the
same use cases as requests do.

What makes each part correct: prices partition one and follow the volumes; the
money in balances, open stakes and payouts adds up; a settled bet agrees with
its market and stays settled; a reader who pages sees everything, and both back
ends give the same answer; every committed event is handled, none that was
rolled back is; feeds end up showing what is committed; the cache holds only
committed users and stops being stale; nobody acts for ever with a role that was
taken away; a refresh token is worth one session; pages of a room neither repeat
nor skip what is there; a client that joins a channel misses nothing between
history and stream; a row's image URL names its own image; the demo's board
turns over.

## 2. Modules

| Module | Models | Extends / uses |
|---|---|---|
| `Pricing` | the pure integer functions | |
| `Listings` | the queries: bet lists and pages, statistics, positions, market lists, charts, for both back ends | `Pricing` |
| `Ledger` | markets opened, bet on, resolved and read back, one request after the other | `Listings` |
| `MCLedger` | symmetry and the reader's walks for TLC | `Ledger` |
| `Betting` | placement and settlement, statement by statement | `Pricing` |
| `MCBetting` | the initial states of two kinds of race, and symmetry, for TLC | `Betting` |
| `PricingProofs` | lemmas on sums, theorems of the pricing functions | `Pricing` |
| `LedgerProofs` | theorems | `Ledger`, `PricingProofs` |
| `BettingProofs` | theorems | `Betting`, `PricingProofs` |
| `EventDelivery` | abstract promise: at-least-once delivery of committed events | |
| `Outbox` | the transactional outbox; refines `EventDelivery` | `EventDelivery` |
| `OutboxProofs` | theorems, the refinement among them | `Outbox` |
| `LiveFeeds` | placements, outbox and the two broadcasters composed | `Outbox` by INSTANCE |
| `LiveFeedsProofs` | its theorems, on those of `OutboxProofs` | `LiveFeeds`, `OutboxProofs` by INSTANCE |
| `UserCache` | one user in Postgres and Redis, and the role its access tokens carry | |
| `Session` | accounts and refresh tokens | |
| `Chat` | posting, replies, paging through the history, on both back ends | |
| `Reactions` | one emoji on one message: requests, outbox, broadcaster, clients | `Outbox` by INSTANCE |
| `MCChat` | the two of them in one run, one at a time, for TLC | `Chat`, `Reactions` |
| `ChatProofs` | theorems of both | `Chat`, `Reactions`; `OutboxProofs` by INSTANCE |
| `Sockets` | one WebSocket connection, the broker's streams, the broadcasters that feed them | |
| `SocketsProofs` | theorems | `Sockets` |
| `Images` | uploads of one owner, its row, downloads | |
| `Demo` | provisioning and the market maker of the demo | |
| `UsersProofs` | theorems of the four about users | `UserCache`, `Session`, `Images`, `Demo` |

Operators whose comment starts with "Mutant:" are deliberately wrong variants
of the definition next to them. The specifications do not use them; substituting
one must break the property `PROJECT.json` names, which shows that the property
sees the bug.

### Pricing, Listings, Ledger

`RecalculatePrices` is the code's truncated division with the remainder handed
to the first outcomes; the integers have the width that the
configuration chooses (`I64MAX`), with wrapping products (release build) and
saturating volumes. `BuyPrice` is the
clamp to one tick, `Payout` is `settle_as_winner`, `AveragePrice` the SQL of
`active_positions`.

`Listings` gives each query twice. `Mem...` is the in-memory repository: a filter
and a stable sort over a vector in insertion order. `Pg...` is the SQL: where
ORDER BY leaves rows open the definition is a set of rows and a condition on
their order (`Ordered`). A listing is a sequence of places in the table, oldest
row first, so a stable sort is the enumeration of a strict total order: the
comparison, and between rows it does not separate the place (`StableSort`,
`InOrder`). A page is cut by offset (`PageOf`). Bets are filtered as the
route allows: not at all, the settled ones, or those of one status. `Ledger` puts the queries on a
store that requests change one at a time, with the clock as the order of
creation, and adds one reader who walks through the bet feed page by page while
others write: `start` are the bets listed when the walk began, `seen` those it was
shown, `last` the newest bet there was. Bet prices, volumes, counters and price
points are the code's, so the same run checks the arithmetic of boards (`BoardInv`).

### Betting

`order` and `verdict` are the requests' inputs. `balance`, `market`, `volume`,
`price`, `betStatus`, `outbox` are committed tables. A placement moves through
`pc`: accepted (market and status read), priced (outcomes read into `board`),
checked (balance read), debited (conditional UPDATE, repeat-bettor query,
insert), written (outcome rows updated), done. Only the commit changes the
tables; what an open transaction has written, and the rows it has locked, follow
from `pc` and `rpc` (`UserRowHolders`, `OutcomeRowHolders`, `MarketRowHolders`).
Postgres runs at READ COMMITTED, so each statement reads the latest committed
rows. A resolution reads the market, loads the active bets outside the
transaction (`snapshot`), updates the market row, settles the bets one by one
and commits. Every request may fail at every point (`PlaceFail`, `ResolveFail`).
Postgres's deadlock detector is external (`BreakDeadlock`).

`FairSpec` adds fairness to `Spec`; `ScenarioSpec` of `MCBetting` is `FairSpec`
with the initial states of the run `betting`. Nothing assumes that one request
resolves a market: two may both read it open, and then both settle and pay. So the
properties say what holds although they do: a resolution pays each winner it has
read once (`LedgerBalanced`), a settled bet carries the verdict of a resolution
that committed (`SettledByVerdict`, `SettlementAgrees`), and nothing is settled
again except by such a race (`SettledAgainOnlyByRace`). `SettlementFinal` is what
the repository says of it, and does not hold (section 3).

### EventDelivery, Outbox

`row` is an event's life: none, inserted (in an open transaction), pending,
processed, pruned, or aborted. Ids are drawn at insert. A processor claims the
first `Batch` pending rows by id that nobody holds, handles each, marks the
delivered ones, and drains again, waits for a NOTIFY, or sweeps. `Poison` events
always fail, `Undecodable` ones are dropped as processed. `BatchFails` is a
storage error, `Crash` the end of the process; both roll the batch back.
`FaultsEnd` lets a behaviour leave its faults behind at any time, which the
liveness properties build on. The refinement maps committed events, handled
ones and processed or pruned ones to `recorded`, `handled`, `finished`. Handling a
finished event again would be a stutter there; `HandledOnlyWhilePending` of `Outbox`
rules it out.

### LiveFeeds

Each placement publishes its two events under the market's row lock; its commit
gives the market the next price version. A broadcaster's read and its sends are
separate steps. Sends may fail before or after the broker took the message.

### UserCache

Every Redis and database round trip is a step. A failing pipeline may have
written any subset of the keys. `owed` counts `UserBalanceChanged` events not
delivered; an eviction that is not confirmed is retried. `committed`, `overtaken`
and `lapse` are history variables. A commit overtakes every copy that a request has
on its way into the cache. `lapse` is set when such a copy is cached (`race`) and when
a save that nothing overtook does not reach the id's entry (`failure`); the next copy
that is current, an eviction or the TTL ends it. `StaleIsExplained` says that
nothing else makes the id's entry stale. Requests: plain lookups by any key, role and
avatar patches and the demo's top-up by id, the demo's correction of a role, either
way, by email; a patch may set the role the user has already;
and the two requests that issue access tokens: `login` reads the user through the
cache, `refresh` in its transaction past it. `adminToken` says that a token with
the admin role has not expired; `can_manage_markets` looks at nothing else.

### Session

A request that issues a token gives it its name. Uncommitted deletions and
inserts, and the waits they cause, follow from `stage`. `FailRequest` covers storage
errors, dropped requests and the lookup of a user that is not there.
`LogoutRevokes` speaks of the presented token: a refresh that won the race has
already turned it into a new session, which stays valid; `Logout` promises
nothing about it.

### Chat

`Post` is `PostMessage` up to the open transaction of `save`: it checks the quote
against the committed messages of the room and takes `created_at`, which others
see at `Commit`. Ids are numbers because they break ties of the timestamp, and
any id may be posted at any time. A reader opens a room and pages back, or
forward; `Before` and `After` are the two row-value comparisons with their
`LIMIT`, `Sorted` the outer `ORDER BY`: the one sequence that lists a set without
putting a newer message first. `MemNewest`, `MemBefore` and `MemAfter` are
the in-memory repository's answers to the same requests, cut from one sorted
vector at the place of the anchor. Nothing deletes messages or authors.

### Reactions

The row of a user holding the emoji is `reactors`. `Write` is the INSERT ... ON
CONFLICT DO NOTHING or the DELETE with the event it publishes if a row was
affected; it waits for uncommitted rows as Postgres does (`Waits`). The outbox is
an instance of `Outbox`, one event to a transaction. The broadcaster reads the
tally and sends it in two steps. `count` and `flag` are what clients show: the
last count, and for each user the last direction sent with that user's id.
`tripped` records whose change a handler failed on.

### Sockets

A channel carries topics: `market` prices, `bets` bets, `chat` messages and
reaction counts. Of an item topic every change is shown; of a state topic only
the latest counts. The steps of a join follow `subscribe.rs`: a broker stream for
each topic, then the history or state; then the history is written to the socket
and the forwarding task starts (`Joined`). `Forward` is one `tx.send` of a
forwarding task, `Deliver` the first branch of the loop's `select!`; during a join
the loop does neither. `Push` is the broker's bounded buffer: a slow subscriber
loses the oldest message. `StreamEnds` is a lost Redis connection. A price
message, several frames in the code, is one here. `Unsubscribe` stops the forwarding at
once; the code's `abort` takes effect when the task next yields, and a frame it still
hands over is as one it queued just before, as long as that is done before the
client's next frame is read.

### Images

One owner, because keys of different owners never meet. An upload removes the
other variants one by one, opens its own file (which cuts it), writes it, makes
the URL and saves the row: each is a step, and `FailUpload` may follow every one. An
upload whose open file another one removes writes to a file without a name
(`detached`). A request that is dropped does not stop the file operation it
has begun: its `FailUpload` comes after the last effect. `files` holds whose image is stored under each extension; `torn`
is a file cut off or mixed from two images. `Download` is a client that keeps
what it gets for as long as `max-age` says. `since` is a history variable: who ran
at some time since an upload started. Checks of type and size refuse a request
before its first step.

### Demo

`Start`, `LookUp` and `Provision` are `cast.rs`, the host first and the others in a
fixed order; a conflict disables the simulation. `maker` is the round of `market_maker.rs`: settle one expired
market, then open one question that is not live, as read from the list of the
newest `Sample` open markets. Other servers and admins create, resolve and take
accounts at any time; `Crash` ends the process and keeps what is committed.
`ResolveMarket` and `CreateMarket` are single steps, which `Betting` takes apart.

## 3. Runs

Passing runs:

| Run | Question | Instance |
|---|---|---|
| `ledger` | do prices partition one, follow shares, rise when backed; do both back ends answer alike; what may a paging reader miss; do charts end at the price? | 2 users, up to 2 markets of 3 outcomes, stakes of 1 and 5 against a balance of 6, 4 writes (`MaxWrites`), pages capped at 1, chart intervals of 2 ticks, walks over settled, over won and over active bets, SCALE as in the code; 77 thousand states |
| `betting` | do books, prices and settlement (and the invariants their proofs rest on) stay right when placements and settlements interleave, and does every request end? | one market, 2 users; either 2 bets and one resolution, the bets affordable together or not, or one bet and 2 resolutions that may disagree; stakes up to 2 against a balance of 2; locks in opposite order; `ScenarioSpec`, 77 thousand states |
| `outbox` | exclusive claims, at-least-once as promised, everything processed once faults end? | 3 events in two transactions, one poison and one undecodable, 2 processors, batch 2; `FairSpec`, 83 thousand states |
| `livefeeds` | is the price feed monotone and current, does every bet reach both feeds? | 2 bets on a market, 1 processor, batch 2; `FairSpec`, 48 thousand states |
| `users` | what may be in the cache and in a token, and does staleness end? | 2 requests of six kinds, 1 balance change; `FairSpec`, 836 thousand states |
| `sessions` | single use, logout, no lost session, distinct accounts? | 2 registrations, 1 login, 2 refreshes, 1 logout, 2 emails, 2 usernames; 2.2 million states |
| `chat` | do replies stay in their room, do pages neither repeat nor skip, do both back ends agree; are reaction events and counts those of the changes, when may a flag be wrong? | 4 messages, 2 rooms, 1 reader, pages of 2, 3 ticks of the clock (`MaxTime`); and apart from them 3 requests of 2 users, 1 processor, batch 2; `ChatSpec`, 2.4 million states |
| `sockets` | is nothing lost in a join, is the state shown current, do joins end, are items forwarded? | a price feed and a chat room, queue and streams of one place, pages of 1, 2 changes (`MaxChanges`), 3 client frames (`MaxFrames`); `FairSpec`, 403 thousand states |
| `images` | does the row name its own stored image, and do clients show it? | 3 uploads, 3 types, 2 seconds (`MaxSeconds`); 3.7 million states |
| `demo` | no question twice, no partial cast, does the board turn over? | 3 accounts, 2 questions, lists of 3 markets, 1 market of others, 1 fault (`MaxFaults`); with fairness, 37 thousand states |

An invariant named `...Inv` joins a module's `TypeOK` with named safety properties
that are stated next to it, and a few other names join properties of one kind:

| Property | Parts |
|---|---|
| `BoardInv` | `PricesSumToOne`, `PricesTrackShares`, `CountersMatchBets`, `ShownAverageIsAPrice` |
| `BooksBalance` | `VolumesMatchBets`, `ParticipantsAreDistinct`, `PricesSumToOne`, `LedgerBalanced` |
| `FeedsInv` | `MarketFeedFirst`, `DrainedFeedIsCurrent` |
| `CacheInv` | `CacheHoldsCommittedRows`, `TokensWereGranted` |
| `SettlesDown` | `CacheSettles`, `AccessFollowsRole` |
| `MessagesInv` | `RepliesStayInRoom`, `RepositoriesAgree` |
| `PagesLeaveNoHole` | `BackwardWalkSeesAll`, `SkipsOnlyLatePosts` |
| `ReactionsInv` | `EventsMatchChanges`, `DrainedCountIsCurrent` |
| `ConnectionInv` | `NothingLost` |
| `DemoInv` | `NeverTwiceAtOnce`, `CastComplete` |
| `BoardTurnsOver` | `ExpiredIsSettled`, `StaysStocked` |

`BooksInv` and `DeliveryInv` are the inductive invariants of section 4. The chat and
the reactions share no variable, so `ChatSpec` runs one of them in each behaviour.

Why the bounds suffice: every race named in the hazards needs two or three
actors on one row, and each instance has that many. In `betting` a user who stands
in a settlement's snapshot can still afford a bet, so a placement that holds the
user's row can wait for the market's while the settlement holds that one and waits for the
user's: without fairness of `BreakDeadlock`, `RequestsEnd` fails exactly there. Two bets
and two resolutions all at work are left to the safety properties (`Betting.cfg` with
`Spec`, `Symmetry`, stakes of 1 only and without `RequestsEnd`: 138 thousand states).
The two processors' batches hold part of the
backlog, so that a drain takes several and they overlap. Counters are capped by
constants named in the configurations (`MaxMarkets`, `MaxWrites`, `MaxChanges`,
`MaxTime`, `MaxFrames`, `MaxSeconds`, `MaxOthers`, `MaxFaults`, `Batch`). In `ledger`
two users can back different outcomes and one user the same outcome twice at
different prices, resolve, and open another market; a page of one bet makes every
move of the listing visible to the reader. A bet placed in front of the reader and
settled before the next page takes six writes on two markets, beyond the four of the
run; `WalkComplete` covers it, and TLC does when `Ledger.cfg` has one user,
markets of two outcomes, `BettingTime` and `MaxWrites` of 6, and no other property. In `chat` two
messages share a timestamp and fall on two pages; in `sockets` one waiting frame
fills the queue and one message a stream,
and three frames are a subscribe, an unsubscribe and a second subscribe. In
`images` the third upload can remove, cut or overwrite what two others of equal or
different types are doing, and two uploads fall into one second or into two. In
`demo` the list holds the maker's markets and the other one at the same time, and two
bots beside the host are provisioned one after the other.
What the small instances leave open, more markets, bets, processors and requests, is what the proofs of section 4 are for. Deadlock checking is off where
the systems end when their requests do; the demo never ends and has it on.

Two runs show a disagreement between the code and what the repository says of it:

- `betting_stranded` - a bet placed between the settlement's read and commit is
  never settled (`resolve_market.rs:10-12`).
- `betting_twice` - two admins who resolve a market at the same time both settle it:
  the second changes the winner and the settled bets, and pays again. "Domain guards
  against resolving twice" (`resolve_market.rs:50`) holds of the copy each has read;
  the update goes by id alone (`bet_repository.rs:238-247`).

More follows from the models without a run of its own:

- A patch rewrites a balance that changed meanwhile, against `update_user.rs:9-10`
  ("a `None` leaves that field untouched"). Add `PatchTouchesOnlyItsField` to
  `UserCache.cfg`; the upsert of `save_user` writes every column.
- With two processors in `LiveFeeds` one reads prices, the other sends newer
  ones, and the older prices are sent last, against `broadcasters/market.rs:14-16`
  ("a redelivered or reordered event broadcasts the current truth"). `outbox.rs:50`
  allows several instances; `main.rs` starts one processor per server process, and
  `livefeeds` shows one is fine.
- A lookup that loaded before a bet commits can fill the cache after the eviction,
  and the old balance stays until the TTL (`user_cache.rs:9-11` says the next
  lookup reloads); so it does when a save commits and its write-through fails.
  `StaleIsExplained` says that nothing else makes the id's entry stale, `CacheSettles` that
  it ends.
- `chat_message_repository.rs:10-12` (domain) says paging "can never skip" a
  message. A message whose timestamp was taken before a page was read, and which
  commits after, is skipped by a reader that pages forward; so is one that shares
  a shown message's timestamp and has a smaller id. `SkipsOnlyLatePosts` says that
  nothing else is.
- `realtime/chat.rs:62-64` says that a client keeps its own flag in step from the
  direction in the frames. A failed handler is retried after later changes of the
  same user, and the older direction is sent last. `FlagWrongOnlyAfterFailure`
  says that this is the only way.
- An unsubscribe aborts the forwarding task and leaves its frames queued. When the
  client subscribes again at once, the new snapshot is sent past the queue and an
  older price frame follows it; `subscribe.rs:4-6` takes price frames to be
  idempotent. `QuietStateIsCurrent` holds without that (`leftover`).
- When a broker stream ends, its channel stays in the connection's map: nothing is
  forwarded any more and a subscribe is refused as a repetition (`StreamEnds`).
- `events.rs:7-8` says delivery is "in insertion order", and `realtime/bet.rs:11`
  that the global feed is "in commit order". Ids are drawn at the insert, rows
  become visible at the commit, and failed events are retried later, so `Outbox`
  delivers a later id first whenever a lower one commits late.
- Processed outbox rows are deleted only by the sweep, and only while a listener
  is connected (`Sweep`).
- For volumes above `i64::MAX / SCALE`, `SCALE * volume` wraps in a release build,
  so the shares and the remainder leave the range that `pricing.rs:40` states;
  `Pricing` has the wrapping product, and no bet a balance can pay comes near it.
  A huge page number makes `(page - 1) * limit` wrap in the same way (`Offset`).
- The market list orders by popularity or volume, which every bet changes, and
  pages by offset: a market can move past a reader between two pages. The bet feed
  is ordered by keys that never change, and `WalkMissesNothing` says what that is
  worth there: a walk over all bets, over settled ones or over those of one verdict
  misses nothing, and one over active bets may miss an active bet only if a bet it has seen, or one placed since it
  began, was settled meanwhile. Bets placed in front of the reader cost nothing by
  themselves, but each one that is settled again moves the reader on by one.
- The SQL search takes `%` and `_` in the text as wildcards (ILIKE), the in-memory
  one compares substrings; text filters are not in `Listings`.
- Two uploads of one type in one second have one URL, and a client may keep the
  first image; two overlapping uploads of different types can remove each other's
  file and leave the row without one. `CachedImageIsCurrent` and
  `StorageMatchesRow` say that nothing else goes wrong.
- A market maker's question can be open twice when more markets are open than a
  bot lists (50), because the older ones count as not live, or when two servers
  run the demo; and expired markets behind the newest 50 are not settled until
  newer ones are gone. `demo` checks one server and a list that holds them all, and
  the theorem `NeverTwice` has that as its hypothesis.
- A refresh whose statistics read fails after the exchange has committed answers
  with an error, and the client keeps a token that is gone (`routes/auth.rs:170`).

### Fairness

- `Betting!FairSpec`, `ScenarioSpec`: weak fairness of each request's steps (the async runtime
  polls every task) and of `BreakDeadlock` (Postgres's detector runs after
  `deadlock_timeout`).
- `Outbox!FairSpec`, `LiveFeeds!FairSpec`: processors take their steps and are
  restarted; the handling of an event that can succeed is strongly fair, because
  a failure is a transient error of Redis or Postgres and the sweep retries for
  ever. Nothing is assumed of faults but what `FaultsEnd` says.
- `Sockets!FairSpec`: the loop of a connection takes its steps, because the
  runtime polls its task and `select!` picks a ready branch at random. A forwarding
  task of items is strongly fair: senders that wait for room in a tokio channel
  are served in turn.
- `UserCache!FairSpec`: requests run on; every TTL runs out, as every entry is
  written with SETEX; every access token expires.
- `DemoSpec`: provisioning and the maker's loop take their steps (weakly fair: a
  server that went down is started again and its timers fire). The maker chooses
  its market and its question with a random number generator, so no choice is
  left out for ever (`PickExpired`, `PickTitle`, strongly fair); and admins do not
  resolve each market between the maker's choice and its resolution for ever
  (`ResolvePicked`, strongly fair). Nobody else is assumed to do anything.

`EventuallyProcessed` is checked with fewer poison events than a batch. With as
many as the batch holds (100 in the code), `ORDER BY id LIMIT` picks the same
failing events each time and nothing behind them is delivered. The code states
no promise about that, so it is a listed hazard and not a finding.

## 4. Proofs

Every invariant and every action property that a passing run checks is a theorem
here, for every value of the constants under the hypotheses named. Seven properties stay
with TLC, because they are liveness under fairness, which the provers do not reason
about: `RequestsEnd`, `EventuallyProcessed`, `EveryBetBroadcast`, `SettlesDown`,
`JoinsEnd`, `EveryItemForwarded` and `BoardTurnsOver`.

**Sums.** The sums of the models are folds over sets. An induction that holds for
every predicate cannot be cited, but one over sets can: a non-empty set of natural
numbers has a least element (`Least`), so if some finite set had a wrong sum,
there would be a smallest one (`Smallest`), and it is not the empty set and not one
element more than a right one (`SetInduction`). `PricingProofs` begins with what
follows from that for any finite set: sums are integers, may be split at an element
or into disjoint parts, are monotone, scale, and change by what one summand
changes by.

**PricingProofs.** `RecalculatedPrices`: for volumes whose total times `SCALE` fits an
i64, the new prices do not depend on the old ones, lie in 0..`SCALE` and sum to
`SCALE`. Each share is rounded down (`FlooredShares`), so the remainder is less
than the number of outcomes (`RoundedShares`), and as many outcomes as it counts get
one tick each; with no volume the shares are even (`EvenShares`). A price is the
share rounded down and at most that one tick (`NearShare`), so it is within a tick of
the exact share (`PricesTrackVolumes`). A stake a on an outcome turns its share x/T
into (x+a)/(T+a), which is no less as x <= T, and a rival's into x/(T+a), which is no
more; rounding down keeps both orders (`BackedShare`, `RivalShare`), and the ticks
change a price by one at most: `BackingMovesPrices`.

**LedgerProofs.** The invariants are built one on the other.

`BoardsInv`: every board is priced by its own volumes, its total is their sum, and n
writes have staked at most n times the largest stake. The last part is what makes the
rest inductive: without it a product could wrap. The hypothesis is `LedgerFits`: the
largest stake times `MaxWrites` times `SCALE` fits an i64 (with the code's scale of
10,000, a volume of 9 * 10^14).
`BoardsExact` follows (the prices of every market sum to 1.0000, each within a tick of
its share), and as a step stakes on one board at most, `BackingRaises`.

`InOrderInv` adds that bets, markets and points are well-formed and stand in the tables
in order of creation, that a bet names a market and an outcome that exist, and that an
open market has active bets only and a settled one none. `BackEndsAgree` (the
invariant `RepositoriesAgree`) rests on it. A strict weak order made total by the place
is a strict total order (`StableOrder`), a set has one enumeration in such an order
(`Enumerated`), so a stable sort lists what ORDER BY asks for (`StableListing`); and
two listings of the same rows by the same keys have rows with equal keys in each place
(`SharedPlaces`), because otherwise one of the two rows would have more rows ahead of
it. Bets differ in their keys, so their listings are equal; markets may
tie, so theirs agree in the keys. The folds of the in-memory statistics and positions
are unfolded bet by bet, with `SetInduction`, into the sums and counts that SQL takes
(`StatsFolded`, `PositionFolded`).

`CountersInv`: an outcome's volume is the sum of the bets that back it, participants are
the users who bet, and what users have staked in all is what the markets took. With
`WeightedMean` (a weighted mean, rounded down, lies between two of the prices it is
taken of) it gives `BoardsCorrect`, the whole of `BoardInv`.

`WalkInv`: of each bet of the start that the reader has still to see and that is still
listed, at least as many bets it is done with stand ahead as it has read places. A page
of the enumeration moves both on by the page's size (`PageRead`), a new bet adds to the
first only, and a settlement keeps the first as long as no bet the reader has seen, or
one placed since, leaves an active list. So when a page is empty nothing is left. The
hypothesis `WalkFits` is that `MaxWrites + MaxLimit` fits an i64, so that no page the
reader asks for wraps the offset. `WalkComplete` (`WalkMissesNothing`) was first stated
with bets the reader has seen as the only ones that may leave; TLC agreed on its bounds,
the induction did not go through, and the step where it stopped is a run of six writes
in which that statement is false.

`PointsInv`: an outcome has one price point per tick, and its last is at the board's
price. The points of a chart are in bijection with the intervals that hold a point
(`ChartOfWindow`), each the last of its interval, and the last interval's is the last of
all: `ChartsEndAtPrices`, about the thinned series of Postgres and the raw one of the
in-memory repository.

**BettingProofs.** `MoneySafe` proves `MoneyInv`, the inductive invariant:
types; `RowsExclusive` (two transactions never hold a row together);
`DebitsCovered` (an open debit is covered by the committed balance, which nobody
else can change while the row is locked - this is why a stale pre-check does no
harm); `OrdersSound`, `BoardsFit` (what a request read still fits its market,
since outcomes never change after creation); `SettlementsSound` (credits of an
open settlement are not negative and concern bets of its snapshot).
`BalanceNeverNegative` alone is not inductive: the commit of a debit needs
`DebitsCovered`, which needs `RowsExclusive`. `NeverNegative` and `TypeCorrect`
follow, and `ChangesAnnounced`: a step that changes a balance is a commit, and
the events it appends name every user whose balance it changes, so the cache of
`UserCache` is owed an eviction. `SettlementInv` adds `SettledByVerdict`, for any
number of resolutions of a market: it is resolved when one has committed, with the
verdict of one that has, and a settled bet was in the snapshot of one whose verdict it
carries. `SettledCorrectly` follows (a bet agrees with its market unless the
resolutions disagree), and `SettledTwiceOnlyByRace`: a resolution that starts after
another has committed finds the market resolved and is refused, so only one that had
read it before can settle anything again. `NeverNegative` is about placements and settlements; a
whole-row save (`UserCache`) writes a balance it did not compute, but never a
negative one, which is part of `CacheSafe`.

`BooksBalance` has three arguments. `CountersInv` (`CountersMatchBets`) says of
requests in flight that their copies of a board lag behind the rows and never
lead them (`BoardsLag`), and that the answer to the repeat-bettor query is still
true when the commit counts by it (`RepeatsKnown`), because any placement of the
same user would need the row this one has locked. `PricesInv` (`PricesExact`): prices
are computed on a copy, but a copy that lags fits an i64 where the rows do, so
`RecalculatedPrices` applies, whichever placement writes last; when the copy is
current it is the board itself (`FreshBoardCorrects`). `LedgerInv` adds to
`SettlementInv` that what an open settlement has credited is what the winners it is
done with are worth (`CreditsMatch`). Its commit then moves the sum over the
resolutions on by its own part (`PaidBy`) and leaves the others': what a resolution pays
depends on its own snapshot and on prices fixed when the bets were placed, not on the
status another one has given them. So the ledger balances with racing resolutions too,
and shows what each of them paid.
The hypothesis `StakesFit` is that all stakes asked for, times `SCALE`, fit an i64. It
is about the requests alone, and the configuration meets it; section 3 says what the
code does beyond. `BooksInv` joins
`CountersInv` and `LedgerInv` for the run `betting`; `PricesInv` adds only what the run
checks anyway.

**OutboxProofs.** `ClaimsSafe` proves `DeliveryInv`: a transaction's events
change state together, and batches are disjoint sets of pending rows. From it
`HandledOnce`, and `Implements`: each step of the outbox is a step of
`EventDelivery` or leaves its state alone.

**LiveFeedsProofs.** `RunsOnOutbox` shows that each step of the composition is a
step of `Outbox` or leaves it alone, so `DeliveryInv` holds there without being
proved again. `MarketsFirst` is then inductive with `IdsDistinct` and `StageSound`:
a handler that is half-way works on the event whose turn it is in its processor's
batch, and that event is unique because ids are. `PricesForward` and
`FeedsCurrent` assume `OneProcessor`, what `main.rs` starts; section 3 says what
two may do. Behind them is `PricesSound`: a feed that is behind its market is
followed by a price event nobody has delivered yet, and prices that a handler
has read are not behind the feed, nor behind the market unless an event other than
the handler's own will follow.

**UsersProofs.** It holds the proofs of four components, one section each.

Sessions: `SessionSafe` proves `SessionInv`. Single use is not
inductive: two refreshes may both have found the token. `ExchangesSound` says
that one that has deleted the row is the only one, that the row is still in the
committed table until it commits, and that once one is done the token is gone;
`RegistrationsSound` says the same of open registrations and the unique index.
The properties follow one by one.

The user cache: `CacheIInv` joins `CacheInv` and `StaleIsExplained` with two facts about
requests. `CopiesCommitted`: what a request loaded or is about to write back was
committed, which `CacheInv` needs when a request fills the cache or issues a token.
`CopiesCurrent`: a copy on its way into the cache that no commit has overtaken is the
row, so caching it corrects the entry (`PutCache`). `CacheSafe` and `InvalidationExact` follow for any number of requests and changes.

The demo: `CastIsWhole` and `NeverTwice`. `CastInv` says that the accounts
the server is done with are there, and the one it has just found: accounts change
their role but never go away, and there is one next account (`OneNext`). `BoardInv`
says that the question the maker has picked is still free when it creates the market,
because others only close markets or open their own (`EmbeddedBoard`), and that a
failed round forgets its pick. Whether it was free when it was picked is a count: the
maker's markets map injectively into the questions (`BoardSize`), so with `ListsFit`
(`Sample` is not smaller than the number of questions and of others' markets) the list
shows them all.

Images: `UploadsSafe` proves `ImagesInv`. `SinceSound` says that whoever
runs now has run since every upload that started; so an upload with no disturbers
was alone, and `UndisturbedSound` describes the files it has made step by step,
`SameTypeSound` those of uploads that never remove each other's file; `RowSound`
and `CachedSound` tie the row and the downloads to saved uploads. `StorageSound`
and `CachingSound` follow.

**SocketsProofs.** `ConnectionsSound` proves `SocketsIInv`, for every set of
channels and every capacity. `NothingLost` is stated for followed channels; the
invariant `ItemsInv` states it from the moment a join has loaded a topic's
history, when its stream is already open (`JoiningInv`). `StatesInv` says where the
newest state is when every change has been sent: last in the stream, else last of
its topic in the queue, else shown; `ReadingInv` says that what a broadcaster holds is
either current or followed by an unsent change. `NoItemLost` and `QuietIsCurrent`
follow.

**ChatProofs.** A page is a set of messages and the one sequence that enumerates
it (`SortedEnumerates`, `EnumerationUnique`): a message's place is the number of
messages that are not newer. So a cut of the sorted vector and the set the SQL
selects give one page (`CutsAgree`, `PagesAgree`), which is the last part of
`MessagesInv`; the rest needs `ThreadsSound`, which says of open messages too that
their quote is posted and not newer. `ChatSound` proves `ChatIInv`. Its `NoHole` is
`SkipsOnlyLatePosts` for open messages as well: a commit can then put nothing
between the ends of a walk that is not yet accounted for, and a message begun
later has a time no shown one has passed. `NothingLost` says where what a backward
reader has still to see is: before the oldest message it was shown, which is what the
next page is cut from (`PagesCutOff`). `RepliesAndRepositories`, `PagesInOrder` and
`PagesComplete` follow, for any page size and any number of equal timestamps.

Reactions run on the outbox (`ReactionsRunOnOutbox`), so `DeliveryInv` holds there.
`ReactionEventsMatch`, for any number of processors, rests on `RequestsSound`: an
open transaction is the only one of its user, would still change something and has
the highest id, so its commit appends the change that turns the parity
(`CommitChanges`). With one process (`OneProcessor`, what `main.rs` starts; with two
an older count can be sent last) `CountSound` is the counterpart of `PricesSound`, and
`OrderSound` says that of a user nobody has tripped the changes are handled and
finished in order, because a batch holds with a change all pending ones before it;
`ReactionsCounted` and `FlagsFollow` follow.

The proofs use the named ASSUMEs of `Pricing`, `Listings`, `Ledger`, `Betting`, `Outbox`, `LiveFeeds`,
`Session`, `UserCache`, `Images`, `Sockets`, `Chat`, `Reactions` and `Demo`: positive
scale, stakes, batches and capacities, finitely many bets, users, requests and
questions, message ids that are numbers, a starting balance that is a natural number,
disjoint kinds of requests, events grouped into transactions, more market ids than
markets that can be open. TLC evaluates them in every run.

## 5. Not modelled

- Text generation for the bots (`demo/llm.rs`, `content.rs`) is a client of an
  external service with a fallback text; its timers only space out calls. The
  betting and chatting loops (`bettor.rs`, `chatter.rs`) call use cases that
  `Betting`, `UserCache` and `Chat` model as anybody's requests.
- Password hashing and JWT signatures are primitives of libraries. HTTP routing,
  extraction, error mapping, configuration and JSON hold no state that these
  properties concern.
- The category and text filters of the market list, and the texts themselves.
- The in-memory event bus, and the in-memory repositories of users and reactions,
  which tests and development use: their events are not transactional.
- `delete_all_for_user` of the refresh tokens is called by no use case. Pool
  exhaustion (ten connections) is not modelled. Markets are never deleted, so the
  existence checks of chat rooms and feeds refuse at most at the start.

## 6. Plan

1. Market creation and thumbnails in `Betting`; two processors in `Reactions`; the
   market list's pages under a reader, as the bet feed's in `Ledger`.
2. The in-memory event bus against `EventDelivery`, and the refinement proved as that
   of `Outbox` is.
