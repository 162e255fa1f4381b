---------------------------- MODULE LedgerProofs -----------------------------
(***************************************************************************)
(* Proofs about Ledger, for any numbers of users, markets, outcomes and    *)
(* requests and any stakes, and about the listings it reads.               *)
(***************************************************************************)
EXTENDS Ledger, PricingProofs, SequenceTheorems

USE PricingAssumption

\* All that can be staked, times the price scale, stays within an i64.
LedgerFits ==
  \E most \in Nat : /\ \A a \in StakeSizes : a <= most
                    /\ (MaxWrites * most) * SCALE <= I64MAX

\* A market's row: its prices are those of its volumes, its total their sum, and
\* none of so many writes has added more than the largest stake.
BoardExact(row, writes, most) ==
  \E n \in Nat :
    /\ n >= 1
    /\ row.volumes \in [1 .. n -> Nat]
    /\ row.prices = SharesWithRemainder(row.volumes)
    /\ row.total_volume = SumFunction(row.volumes)
    /\ SumFunction(row.volumes) <= writes * most

Rows == [status : {"open", "resolved"}, winner : Nat, closes : Nat, created : Nat,
         total_volume : Int, participants : Int,
         volumes : UNION {[1 .. n -> Nat] : n \in Nat}, prices : UNION {[1 .. n -> Price] : n \in Nat}]

\* The inductive invariant behind the prices of Ledger.
BoardsInv(most) ==
  /\ now \in 1 .. MaxWrites + 1
  /\ markets \in Seq(Rows)
  /\ \A m \in DOMAIN markets : BoardExact(markets[m], now - 1, most)

\* The volumes of an exact board fit an i64 when scaled.
LEMMA BoardsFitI64 ==
  ASSUME NEW most \in Nat, (MaxWrites * most) * SCALE <= I64MAX, MaxWrites \in Nat,
         NEW t \in Nat, NEW k \in Nat, k <= MaxWrites, t <= k * most
  PROVE  t * SCALE <= I64MAX /\ t <= I64MAX
<1>1. PICK d \in Nat : MaxWrites = k + d
  <2>1. MaxWrites - k \in Nat /\ MaxWrites = k + (MaxWrites - k)
    OBVIOUS
  <2>2. QED
    BY <2>1
<1>2. PICK x \in Nat, y \in Nat, z \in Nat : x = k * most /\ y = d * most /\ z = MaxWrites * most /\ z = x + y
  <2>1. k * most \in Nat /\ d * most \in Nat /\ MaxWrites * most \in Nat
    OBVIOUS
  <2>2. MaxWrites * most = k * most + d * most
    BY <1>1
  <2>3. QED
    BY <2>1, <2>2
<1>3. PICK e \in Nat : z = t + e
  <2>1. z - t \in Nat /\ z = t + (z - t)
    BY <1>2
  <2>2. QED
    BY <2>1
<1>4. PICK c \in Nat : SCALE = c + 1
  <2>1. SCALE - 1 \in Nat /\ SCALE = (SCALE - 1) + 1
    OBVIOUS
  <2>2. QED
    BY <2>1
<1>5. PICK f \in Nat, g \in Nat, h \in Nat :
        f = t * SCALE /\ g = e * SCALE /\ z * SCALE = f + g /\ h = t * c /\ f = h + t
  <2>1. t * SCALE \in Nat /\ e * SCALE \in Nat /\ t * c \in Nat
    OBVIOUS
  <2>2. z * SCALE = t * SCALE + e * SCALE
    BY <1>3
  <2>3. t * SCALE = t * c + t
    BY <1>4
  <2>4. QED
    BY <2>1, <2>2, <2>3
<1>6. z * SCALE <= I64MAX
  BY <1>2
<1>7. f + g <= I64MAX
  BY <1>5, <1>6
<1>8. f <= I64MAX /\ t <= I64MAX
  BY <1>5, <1>7
<1>9. QED
  BY <1>5, <1>8

\* The volumes w of a board of n outcomes once a is staked on outcome i.
StakeAdded(row, i, a, ceiling, n, w) ==
  /\ n >= 1 /\ row.volumes \in [1 .. n -> Nat] /\ w \in [1 .. n -> Nat] /\ i \in 1 .. n
  /\ w = AddVolume(row.volumes, i, a)
  /\ \A j \in 1 .. n : w[j] = row.volumes[j] + (IF j = i THEN a ELSE 0)
  /\ SumFunction(row.volumes) * SCALE <= I64MAX
  /\ SumFunction(w) * SCALE <= I64MAX
  /\ SumFunction(w) <= ceiling
  /\ SaturateI64(row.total_volume + a) = SumFunction(w)

\* The board after a stake: nothing saturates or wraps.
LEMMA BoardAfterStake ==
  ASSUME NEW most \in Nat, (MaxWrites * most) * SCALE <= I64MAX, MaxWrites \in Nat,
         NEW k \in Nat, k + 1 <= MaxWrites, NEW row, BoardExact(row, k, most),
         NEW i \in DOMAIN row.volumes, NEW a \in Nat, a <= most
  PROVE  \E n \in Nat : \E w : StakeAdded(row, i, a, (k + 1) * most, n, w)
<1>0. PICK n \in Nat :
        /\ n >= 1 /\ row.volumes \in [1 .. n -> Nat]
        /\ row.total_volume = SumFunction(row.volumes) /\ SumFunction(row.volumes) <= k * most
  BY DEF BoardExact
<1>1. PICK v, T :
        /\ n >= 1 /\ v = row.volumes /\ v \in [1 .. n -> Nat]
        /\ T = SumFunction(v) /\ row.total_volume = T /\ T <= k * most
  BY <1>0
<1>2. PICK S : S = 1 .. n /\ IsFiniteSet(S) /\ i \in S
  <2>1. IsFiniteSet(1 .. n)
    BY FS_Interval
  <2>2. QED
    BY <1>1, <2>1
<1>3. PICK s \in Nat : s = T
  <2>1. \A x \in S : v[x] \in Nat
    BY <1>1, <1>2
  <2>2. SumFunctionOnSet(v, S) \in Nat
    BY <1>2, <2>1, SumAbove
  <2>3. DOMAIN v = S
    BY <1>1, <1>2
  <2>4. QED
    BY <1>1, <2>2, <2>3 DEF SumFunction
<1>4. \A x \in S : v[x] <= s
  <2>1. \A x \in S : v[x] \in Nat
    BY <1>1, <1>2
  <2>2. \A x \in S : v[x] <= SumFunctionOnSet(v, S)
    BY <1>2, <2>1, SumAbove
  <2>3. DOMAIN v = S
    BY <1>1, <1>2
  <2>4. QED
    BY <1>1, <1>3, <2>2, <2>3 DEF SumFunction
<1>5. PICK u \in Nat, t \in Nat : u = k * most /\ t = s + a /\ s <= u /\ (k + 1) * most = u + most
  <2>1. k * most \in Nat /\ (k + 1) * most = k * most + most
    OBVIOUS
  <2>2. QED
    BY <1>1, <1>3, <2>1
<1>6. t <= (k + 1) * most
  BY <1>5
<1>7. t * SCALE <= I64MAX /\ t <= I64MAX
  <2>1. k + 1 \in Nat
    OBVIOUS
  <2>2. QED
    BY <1>1, <1>6, <2>1, BoardsFitI64
<1>8. s * SCALE <= I64MAX
  <2>1. s <= k * most /\ k <= MaxWrites
    BY <1>1, <1>3
  <2>2. QED
    BY <2>1, BoardsFitI64
<1>9. PICK w : w = AddVolume(v, i, a)
  OBVIOUS
<1>10. w = [v EXCEPT ![i] = v[i] + a]
  <2>1. v[i] \in Nat /\ v[i] + a <= t
    BY <1>1, <1>2, <1>4, <1>5
  <2>2. SaturateI64(v[i] + a) = v[i] + a
    BY <1>7, <2>1 DEF SaturateI64
  <2>3. QED
    BY <1>9, <2>2 DEF AddVolume
<1>11. w \in [1 .. n -> Nat] /\ \A j \in 1 .. n : w[j] = v[j] + (IF j = i THEN a ELSE 0)
  <2>1. \A j \in 1 .. n : w[j] = v[j] + (IF j = i THEN a ELSE 0)
    BY <1>1, <1>10
  <2>2. \A j \in 1 .. n : w[j] \in Nat
    <3>1. SUFFICES ASSUME NEW j \in 1 .. n PROVE w[j] \in Nat
      OBVIOUS
    <3>2. v[j] \in Nat /\ v[j] + a \in Nat
      BY ONLY <1>1, a \in Nat, j \in 1 .. n
    <3>3. w[j] = v[j] + a \/ w[j] = v[j]
      BY <2>1, <3>2
    <3>4. QED
      BY <3>2, <3>3
  <2>3. QED
    BY <1>1, <1>10, <2>1, <2>2
<1>12. SumFunction(w) = t
  <2>0. v \in [S -> Nat] /\ w \in [S -> Nat] /\ w = [v EXCEPT ![i] = v[i] + a]
    BY <1>1, <1>2, <1>10, <1>11
  <2>1. DOMAIN v = S /\ DOMAIN w = S /\ (\A x \in S : v[x] \in Int /\ w[x] \in Int)
        /\ \A x \in S \ {i} : w[x] = v[x]
    BY <2>0
  <2>2. SumFunction(w) = SumFunction(v) + (w[i] - v[i])
    BY <1>2, <2>1, VectorChanged
  <2>3. w[i] - v[i] = a
    BY <1>1, <1>2, <1>11
  <2>4. QED
    BY <1>1, <1>3, <1>5, <2>2, <2>3
<1>13. SaturateI64(s + a) = t
  BY <1>5, <1>7 DEF SaturateI64
<1>14. QED
  BY <1>1, <1>2, <1>3, <1>5, <1>6, <1>7, <1>8, <1>9, <1>11, <1>12, <1>13 DEF StakeAdded

\* An exact board stays exact when nothing but its status and winner change and
\* more writes are allowed for.
LEMMA BoardStays ==
  ASSUME NEW most \in Nat, NEW k \in Nat, NEW l \in {k, k + 1}, NEW row, BoardExact(row, k, most),
         NEW new, new.volumes = row.volumes, new.prices = row.prices,
         new.total_volume = row.total_volume
  PROVE  BoardExact(new, l, most)
<1>1. PICK n \in Nat :
        /\ n >= 1 /\ row.volumes \in [1 .. n -> Nat]
        /\ row.prices = SharesWithRemainder(row.volumes)
        /\ row.total_volume = SumFunction(row.volumes)
        /\ SumFunction(row.volumes) <= k * most
  BY DEF BoardExact
<1>2. SumFunction(row.volumes) \in Nat
  <2>1. IsFiniteSet(1 .. n) /\ 1 \in 1 .. n /\ DOMAIN row.volumes = 1 .. n
    BY <1>1, FS_Interval
  <2>2. SumFunctionOnSet(row.volumes, 1 .. n) \in Nat
    BY <1>1, <2>1, SumAbove
  <2>3. QED
    BY <1>1, <2>1, <2>2 DEF SumFunction
<1>3. PICK x \in Nat : x = k * most /\ (k + 1) * most = x + most
  <2>1. k * most \in Nat /\ (k + 1) * most = k * most + most
    OBVIOUS
  <2>2. QED
    BY <2>1
<1>4. SumFunction(row.volumes) <= l * most
  <2>1. SumFunction(row.volumes) <= x /\ SumFunction(row.volumes) <= x + most
    BY <1>1, <1>2, <1>3
  <2>2. l * most = x \/ l * most = x + most
    BY <1>3
  <2>3. QED
    BY <2>1, <2>2
<1>5. QED
  BY <1>1, <1>4 DEF BoardExact

\* What an exact board says of its prices, whatever they are recalculated from.
LEMMA ExactBoard ==
  ASSUME NEW most \in Nat, (MaxWrites * most) * SCALE <= I64MAX, MaxWrites \in Nat,
         NEW k \in Nat, k <= MaxWrites, NEW row, BoardExact(row, k, most)
  PROVE  \E n \in Nat :
           /\ n >= 1 /\ row.volumes \in [1 .. n -> Nat]
           /\ row.prices \in [1 .. n -> Price]
           /\ row.total_volume = SumFunction(row.volumes)
           /\ SumFunction(row.volumes) * SCALE <= I64MAX
           /\ SumFunction(row.prices) = SCALE
           /\ \A old : RecalculatePrices(row.volumes, old) = row.prices
<1>1. PICK n \in Nat :
        /\ n >= 1 /\ row.volumes \in [1 .. n -> Nat]
        /\ row.prices = SharesWithRemainder(row.volumes)
        /\ row.total_volume = SumFunction(row.volumes)
        /\ SumFunction(row.volumes) <= k * most
  BY DEF BoardExact
<1>2. PICK v : v = row.volumes /\ v \in [1 .. n -> Nat]
  BY <1>1
<1>3. SumFunction(v) \in Nat
  <2>1. IsFiniteSet(1 .. n) /\ 1 \in 1 .. n /\ DOMAIN v = 1 .. n
    <3>1. IsFiniteSet(1 .. n)
      BY FS_Interval
    <3>2. 1 \in 1 .. n /\ DOMAIN v = 1 .. n
      BY <1>1, <1>2
    <3>3. QED
      BY <3>1, <3>2
  <2>2. SumFunctionOnSet(v, 1 .. n) \in Nat
    BY <1>2, <2>1, SumAbove
  <2>3. QED
    BY <2>1, <2>2 DEF SumFunction
<1>4. SumFunction(v) * SCALE <= I64MAX
  <2>1. SumFunction(v) <= k * most
    BY <1>1, <1>2
  <2>2. QED
    BY <1>3, <2>1, BoardsFitI64
<1>5. /\ \A old : RecalculatePrices(v, old) = SharesWithRemainder(v)
      /\ SharesWithRemainder(v) \in [1 .. n -> Price]
      /\ SumFunction(SharesWithRemainder(v)) = SCALE
  BY <1>1, <1>2, <1>4, RecalculatedPrices
<1>6. QED
  BY <1>1, <1>2, <1>4, <1>5

\* A step's change of one board, as the listing of the markets shows it.
BoardMoves(row, new) ==
  row.total_volume > 0 =>
    \A i \in DOMAIN row.volumes :
      IF new.volumes[i] > row.volumes[i]
      THEN new.prices[i] >= row.prices[i] - 1
      ELSE new.prices[i] <= row.prices[i] + 1

\* A board nothing is staked on does not move.
LEMMA BoardKept ==
  ASSUME NEW most \in Nat, (MaxWrites * most) * SCALE <= I64MAX, MaxWrites \in Nat,
         NEW k \in Nat, k <= MaxWrites, NEW row, BoardExact(row, k, most), NEW new,
         new.volumes = row.volumes, new.prices = row.prices
  PROVE  BoardMoves(row, new)
<1>1. PICK n \in Nat :
        /\ n >= 1 /\ row.volumes \in [1 .. n -> Nat] /\ row.prices \in [1 .. n -> Price]
  BY ExactBoard
<1>2. SUFFICES ASSUME NEW i \in 1 .. n
               PROVE  IF new.volumes[i] > row.volumes[i]
                      THEN new.prices[i] >= row.prices[i] - 1
                      ELSE new.prices[i] <= row.prices[i] + 1
  BY <1>1 DEF BoardMoves
<1>3. row.volumes[i] \in Nat /\ row.prices[i] \in Int
  BY <1>1 DEF Price
<1>4. QED
  BY <1>3

\* A stake keeps the board exact, and moves its prices as it should.
LEMMA BoardStaked ==
  ASSUME NEW most \in Nat, (MaxWrites * most) * SCALE <= I64MAX, MaxWrites \in Nat,
         NEW k \in Nat, k + 1 <= MaxWrites, NEW row, BoardExact(row, k, most),
         NEW i \in DOMAIN row.volumes, NEW a \in Nat, a >= 1, a <= most, NEW new,
         new.volumes = AddVolume(row.volumes, i, a),
         new.prices = RecalculatePrices(AddVolume(row.volumes, i, a), row.prices),
         new.total_volume = SaturateI64(row.total_volume + a)
  PROVE  BoardExact(new, k + 1, most) /\ BoardMoves(row, new)
<1>1. PICK n \in Nat : \E w : StakeAdded(row, i, a, (k + 1) * most, n, w)
  BY Zenon, BoardAfterStake
<1>2. PICK w :
        /\ n >= 1 /\ row.volumes \in [1 .. n -> Nat] /\ w \in [1 .. n -> Nat] /\ i \in 1 .. n
        /\ w = AddVolume(row.volumes, i, a)
        /\ \A j \in 1 .. n : w[j] = row.volumes[j] + (IF j = i THEN a ELSE 0)
        /\ SumFunction(row.volumes) * SCALE <= I64MAX
        /\ SumFunction(w) * SCALE <= I64MAX
        /\ SumFunction(w) <= (k + 1) * most
        /\ SaturateI64(row.total_volume + a) = SumFunction(w)
  BY <1>1 DEF StakeAdded
<1>3. PICK v : v = row.volumes
  OBVIOUS
<1>4. /\ v \in [1 .. n -> Nat] /\ SumFunction(v) * SCALE <= I64MAX
      /\ \A j \in 1 .. n : w[j] = v[j] + (IF j = i THEN a ELSE 0)
  BY <1>2, <1>3
<1>5. new.volumes = w /\ new.total_volume = SumFunction(w) /\ new.prices = RecalculatePrices(w, row.prices)
  BY <1>2
<1>6. new.prices = SharesWithRemainder(w)
  BY <1>2, <1>5, RecalculatedPrices
<1>7. BoardExact(new, k + 1, most)
  BY <1>2, <1>5, <1>6 DEF BoardExact
<1>8. row.total_volume = SumFunction(v) /\ \A old : RecalculatePrices(v, old) = row.prices
  <2>1. k <= MaxWrites
    OBVIOUS
  <2>2. PICK c \in Nat :
          /\ row.total_volume = SumFunction(row.volumes)
          /\ \A old : RecalculatePrices(row.volumes, old) = row.prices
    BY <2>1, ExactBoard
  <2>3. QED
    BY <1>3, <2>2
<1>9. BoardMoves(row, new)
  <2>1. SUFFICES ASSUME SumFunction(v) > 0, NEW j \in 1 .. n
                 PROVE  IF w[j] > v[j]
                        THEN RecalculatePrices(w, row.prices)[j] >= RecalculatePrices(v, row.prices)[j] - 1
                        ELSE RecalculatePrices(w, row.prices)[j] <= RecalculatePrices(v, row.prices)[j] + 1
    BY <1>3, <1>4, <1>5, <1>8 DEF BoardMoves
  <2>2. v[j] \in Nat /\ w[j] = v[j] + (IF j = i THEN a ELSE 0)
    BY <1>4
  <2>3. IF j = i THEN RecalculatePrices(w, row.prices)[j] >= RecalculatePrices(v, row.prices)[j] - 1
                 ELSE RecalculatePrices(w, row.prices)[j] <= RecalculatePrices(v, row.prices)[j] + 1
    <3>1. /\ n >= 1 /\ i \in 1 .. n /\ w \in [1 .. n -> Nat]
          /\ SumFunction(w) * SCALE <= I64MAX /\ SumFunction(v) > 0
      BY <1>2, <2>1
    <3>2. PICK older : older = row.prices
      OBVIOUS
    <3>3. IF j = i THEN RecalculatePrices(w, older)[j] >= RecalculatePrices(v, older)[j] - 1
                   ELSE RecalculatePrices(w, older)[j] <= RecalculatePrices(v, older)[j] + 1
      BY ONLY <1>4, <3>1, n \in Nat, j \in 1 .. n, a \in Nat, BackingMovesPrices
    <3>4. QED
      BY <3>2, <3>3
  <2>4. w[j] > v[j] <=> j = i
    BY <2>2
  <2>5. QED
    BY <2>3, <2>4
<1>10. QED
  BY <1>7, <1>9

\* The boards after a step: still exact, and none has moved as it should not.
BoardsStep(most) ==
  /\ BoardsInv(most)'
  /\ \A m \in DOMAIN markets : m \in DOMAIN markets' /\ BoardMoves(markets[m], markets'[m])

\* What the largest stake must allow.
Fits(most) ==
  /\ most \in Nat /\ MaxWrites \in Nat /\ (MaxWrites * most) * SCALE <= I64MAX
  /\ StakeSizes \subseteq 1 .. most

\* A step that leaves the volumes and prices of every board alone.
LEMMA QuietBoards ==
  ASSUME NEW most, Fits(most), BoardsInv(most),
         now' \in {now, now + 1}, now' <= MaxWrites + 1, markets' \in Seq(Rows),
         DOMAIN markets' = DOMAIN markets,
         \A m \in DOMAIN markets : /\ markets'[m].volumes = markets[m].volumes
                                   /\ markets'[m].prices = markets[m].prices
                                   /\ markets'[m].total_volume = markets[m].total_volume
  PROVE  BoardsStep(most)
<1>0. most \in Nat /\ MaxWrites \in Nat /\ (MaxWrites * most) * SCALE <= I64MAX
      /\ now \in 1 .. MaxWrites + 1
  BY DEF Fits, BoardsInv
<1>a. PICK k \in Nat : k = now - 1 /\ k <= MaxWrites /\ now' - 1 \in {k, k + 1}
  <2>1. now - 1 \in Nat /\ now - 1 <= MaxWrites
    BY <1>0
  <2>2. now' - 1 \in {now - 1, (now - 1) + 1}
    <3>1. CASE now' = now
      BY <3>1
    <3>2. CASE now' = now + 1
      BY <1>0, <3>2
    <3>3. QED
      BY <3>1, <3>2
  <2>3. QED
    BY <2>1, <2>2
<1>1. SUFFICES ASSUME NEW m \in DOMAIN markets
               PROVE  BoardExact(markets'[m], now' - 1, most) /\ BoardMoves(markets[m], markets'[m])
  BY <1>0 DEF BoardsStep, BoardsInv
<1>2. PICK row, new : row = markets[m] /\ new = markets'[m]
  OBVIOUS
<1>3. BoardExact(row, now - 1, most) /\ new.volumes = row.volumes /\ new.prices = row.prices
      /\ new.total_volume = row.total_volume
  BY <1>2 DEF BoardsInv
<1>4. BoardExact(new, now' - 1, most)
  BY <1>0, <1>a, <1>3, BoardStays
<1>5. BoardMoves(row, new)
  BY <1>0, <1>a, <1>3, BoardKept
<1>6. QED
  BY <1>2, <1>4, <1>5

\* A new market opens at even prices, which are those of its empty volumes.
LEMMA CreateMarketBoards ==
  ASSUME NEW most, Fits(most), BoardsInv(most), NEW n \in OutcomeCounts, NEW closes \in {NoDeadline, now + BettingTime},
         CreateMarket(n, closes)
  PROVE  BoardsStep(most)
<1>0. /\ most \in Nat /\ MaxWrites \in Nat /\ (MaxWrites * most) * SCALE <= I64MAX
      /\ now \in 1 .. MaxWrites + 1 /\ now \in Nat /\ now >= 1 /\ markets \in Seq(Rows)
      /\ n \in Nat /\ n >= 1 /\ now <= MaxWrites /\ now' = now + 1 /\ now' \in 1 .. MaxWrites + 1
  BY LedgerAssumption DEF Fits, BoardsInv, CreateMarket
<1>a. PICK k \in Nat : k = now - 1 /\ k <= MaxWrites /\ now' - 1 = k + 1
  BY <1>0
<1>1. PICK zeros : zeros = [i \in 1 .. n |-> 0]
  OBVIOUS
<1>b. /\ zeros \in [1 .. n -> Nat] /\ zeros \in [1 .. n -> Int]
      /\ \A i \in 1 .. n : zeros[i] = 0
  BY <1>1
<1>2. SumFunction(zeros) = 0
  BY <1>0, <1>b, ZeroVector
<1>3. PICK prices : prices = RecalculatePrices(zeros, zeros)
  OBVIOUS
<1>4. prices = SharesWithRemainder(zeros) /\ prices \in [1 .. n -> Price]
  <2>1. SumFunction(zeros) * SCALE <= I64MAX
    BY <1>2
  <2>2. QED
    BY <1>0, <1>b, <1>3, <2>1, RecalculatedPrices
<1>5. PICK row :
        /\ row = [status |-> "open", winner |-> 0, closes |-> closes, created |-> now, total_volume |-> 0,
                  participants |-> 0, volumes |-> zeros, prices |-> prices]
        /\ markets' = Append(markets, row)
  BY <1>1, <1>3 DEF CreateMarket
<1>6. row \in Rows
  <2>1. closes \in Nat /\ now \in Nat
    BY <1>0, LedgerAssumption DEF NoDeadline
  <2>2. zeros \in UNION {[1 .. j -> Nat] : j \in Nat} /\ prices \in UNION {[1 .. j -> Price] : j \in Nat}
    BY <1>0, <1>b, <1>4
  <2>3. 0 \in Nat /\ 0 \in Int /\ "open" \in {"open", "resolved"}
    OBVIOUS
  <2>4. QED
    BY <1>5, <2>1, <2>2, <2>3 DEF Rows
<1>7. BoardExact(row, now' - 1, most)
  <2>1. row.volumes = zeros /\ row.prices = prices /\ row.total_volume = 0
    BY <1>5
  <2>2. 0 <= (k + 1) * most
    BY <1>0
  <2>3. QED
    BY <1>0, <1>a, <1>b, <1>2, <1>4, <2>1, <2>2 DEF BoardExact
<1>8. /\ markets' \in Seq(Rows) /\ DOMAIN markets' = DOMAIN markets \cup {Len(markets) + 1}
      /\ markets'[Len(markets) + 1] = row /\ \A m \in DOMAIN markets : markets'[m] = markets[m]
  BY <1>0, <1>5, <1>6
<1>9. ASSUME NEW m \in DOMAIN markets
      PROVE  BoardExact(markets'[m], now' - 1, most) /\ BoardMoves(markets[m], markets'[m])
  <2>1. PICK old : old = markets[m] /\ old = markets'[m] /\ BoardExact(old, now - 1, most)
    BY <1>8 DEF BoardsInv
  <2>2. BoardExact(old, now' - 1, most)
    BY <1>0, <1>a, <2>1, BoardStays
  <2>3. BoardMoves(old, old)
    BY <1>0, <1>a, <2>1, BoardKept
  <2>4. QED
    BY <2>1, <2>2, <2>3
<1>10. QED
  BY <1>0, <1>7, <1>8, <1>9 DEF BoardsStep, BoardsInv

\* A bet adds its stake and recalculates the prices of its market only.
LEMMA PlaceBoards ==
  ASSUME NEW most, Fits(most), BoardsInv(most),
         NEW u, NEW m \in DOMAIN markets, NEW i, NEW amount \in StakeSizes,
         Place(u, m, i, amount)
  PROVE  BoardsStep(most)
<1>0. /\ most \in Nat /\ MaxWrites \in Nat /\ (MaxWrites * most) * SCALE <= I64MAX
      /\ now \in 1 .. MaxWrites + 1 /\ markets \in Seq(Rows)
      /\ now <= MaxWrites /\ now' = now + 1 /\ now' \in 1 .. MaxWrites + 1
      /\ amount \in Nat /\ amount >= 1 /\ amount <= most
  <2>1. now <= MaxWrites /\ now' = now + 1
    BY DEF Place
  <2>2. /\ most \in Nat /\ MaxWrites \in Nat /\ (MaxWrites * most) * SCALE <= I64MAX
        /\ amount \in 1 .. most /\ now \in 1 .. MaxWrites + 1 /\ markets \in Seq(Rows)
    BY DEF Fits, BoardsInv
  <2>3. QED
    BY <2>1, <2>2
<1>a. PICK k \in Nat : k = now - 1 /\ k + 1 <= MaxWrites /\ k <= MaxWrites /\ now' - 1 = k + 1
  BY <1>0
<1>1. PICK row : row = markets[m] /\ row \in Rows /\ BoardExact(row, now - 1, most)
                 /\ i \in DOMAIN row.volumes
  <2>1. i \in DOMAIN markets[m].volumes
    BY DEF Place, Outcomes
  <2>2. BoardExact(markets[m], now - 1, most)
    BY DEF BoardsInv
  <2>3. markets[m] \in Rows
    BY <1>0
  <2>4. QED
    BY <2>1, <2>2, <2>3
<1>2. PICK w, prices : w = AddVolume(row.volumes, i, amount)
                       /\ prices = RecalculatePrices(w, row.prices)
  OBVIOUS
<1>3. PICK t : t = SaturateI64(row.total_volume + amount)
  OBVIOUS
<1>4. PICK d \in {0, 1} :
        markets' = [markets EXCEPT ![m].total_volume = t, ![m].participants = @ + d,
                                   ![m].volumes = w, ![m].prices = prices]
  <2>1. PICK d \in {0, 1} : d = IF NewParticipant(u, m) THEN 1 ELSE 0
    OBVIOUS
  <2>2. QED
    BY <1>1, <1>2, <1>3, <2>1 DEF Place, PricesAfterStake
<1>5. PICK new : /\ new = [row EXCEPT !.total_volume = t, !.participants = @ + d,
                                      !.volumes = w, !.prices = prices]
                 /\ markets' = [markets EXCEPT ![m] = new]
  <2>1. [markets EXCEPT ![m].total_volume = t, ![m].participants = @ + d,
                        ![m].volumes = w, ![m].prices = prices]
        = [markets EXCEPT ![m] = [markets[m] EXCEPT !.total_volume = t, !.participants = @ + d,
                                                    !.volumes = w, !.prices = prices]]
    BY <1>0
  <2>2. QED
    BY <1>1, <1>4, <2>1
<1>6. new.volumes = w /\ new.prices = prices /\ new.total_volume = t
  BY <1>1, <1>5 DEF Rows
<1>7. BoardExact(new, now' - 1, most) /\ BoardMoves(row, new)
  BY <1>0, <1>a, <1>1, <1>2, <1>3, <1>6, BoardStaked
<1>8. new \in Rows
  <2>1. PICK n \in Nat :
          n >= 1 /\ new.volumes \in [1 .. n -> Nat] /\ SumFunction(w) * SCALE <= I64MAX
          /\ new.prices \in [1 .. n -> Price] /\ new.total_volume = SumFunction(w)
    <3>1. k + 1 \in Nat
      OBVIOUS
    <3>2. QED
      BY <1>0, <1>a, <1>6, <1>7, <3>1, ExactBoard
  <2>2. t \in Int
    <3>1. IsFiniteSet(1 .. n) /\ 1 \in 1 .. n /\ DOMAIN w = 1 .. n
      BY <1>6, <2>1, FS_Interval
    <3>2. SumFunctionOnSet(w, 1 .. n) \in Nat
      BY <1>6, <2>1, <3>1, SumAbove
    <3>3. QED
      BY <1>6, <2>1, <3>1, <3>2 DEF SumFunction
  <2>3. w \in UNION {[1 .. j -> Nat] : j \in Nat} /\ prices \in UNION {[1 .. j -> Price] : j \in Nat}
    BY <1>6, <2>1
  <2>4. row.participants + d \in Int
    BY <1>1 DEF Rows
  <2>5. new = [row EXCEPT !.total_volume = t, !.participants = row.participants + d,
                          !.volumes = w, !.prices = prices]
    BY <1>5
  <2>6. QED
    BY <1>1, <2>2, <2>3, <2>4, <2>5 DEF Rows
<1>9. /\ markets' \in Seq(Rows) /\ DOMAIN markets' = DOMAIN markets
      /\ markets'[m] = new /\ \A j \in DOMAIN markets \ {m} : markets'[j] = markets[j]
  BY <1>0, <1>5, <1>8
<1>10. ASSUME NEW j \in DOMAIN markets
       PROVE  BoardExact(markets'[j], now' - 1, most) /\ BoardMoves(markets[j], markets'[j])
  <2>1. CASE j = m
    BY <1>1, <1>7, <1>9, <2>1
  <2>2. CASE j # m
    <3>1. PICK old : old = markets[j] /\ old = markets'[j] /\ BoardExact(old, now - 1, most)
      BY <1>9, <2>2 DEF BoardsInv
    <3>2. BoardExact(old, now' - 1, most)
      BY <1>0, <1>a, <3>1, BoardStays
    <3>3. BoardMoves(old, old)
      BY <1>0, <1>a, <3>1, BoardKept
    <3>4. QED
      BY <3>1, <3>2, <3>3
  <2>3. QED
    BY <2>1, <2>2
<1>11. QED
  BY <1>0, <1>9, <1>10 DEF BoardsStep, BoardsInv

\* Settling a market writes its status and winner.
LEMMA SettleBoards ==
  ASSUME NEW most, Fits(most), BoardsInv(most),
         NEW m \in DOMAIN markets, NEW winner \in Outcomes(m), Settle(m, winner)
  PROVE  BoardsStep(most)
<1>0. /\ now \in 1 .. MaxWrites + 1 /\ markets \in Seq(Rows) /\ MaxWrites \in Nat
      /\ now <= MaxWrites /\ now' = now + 1 /\ now' <= MaxWrites + 1
      /\ markets' = [markets EXCEPT ![m].status = "resolved", ![m].winner = winner]
  BY DEF Fits, BoardsInv, Settle
<1>1. PICK row : row = markets[m] /\ row \in Rows /\ winner \in Nat
  <2>1. markets[m] \in Rows
    BY <1>0
  <2>2. PICK n \in Nat : markets[m].volumes \in [1 .. n -> Nat]
    BY <2>1 DEF Rows
  <2>3. winner \in 1 .. n
    BY <2>2 DEF Outcomes
  <2>4. QED
    BY <2>1, <2>3
<1>2. PICK new : new = [row EXCEPT !.status = "resolved", !.winner = winner]
                 /\ markets' = [markets EXCEPT ![m] = new]
  <2>1. [markets EXCEPT ![m].status = "resolved", ![m].winner = winner]
        = [markets EXCEPT ![m] = [markets[m] EXCEPT !.status = "resolved", !.winner = winner]]
    BY <1>0
  <2>2. QED
    BY <1>0, <1>1, <2>1
<1>3. new \in Rows /\ new.volumes = row.volumes /\ new.prices = row.prices
      /\ new.total_volume = row.total_volume
  BY <1>1, <1>2 DEF Rows
<1>4. /\ markets' \in Seq(Rows) /\ DOMAIN markets' = DOMAIN markets
      /\ markets'[m] = new /\ \A j \in DOMAIN markets \ {m} : markets'[j] = markets[j]
  <2>1. markets \in Seq(Rows) /\ new \in Rows /\ markets' = [markets EXCEPT ![m] = new]
    BY <1>0, <1>2, <1>3
  <2>2. QED
    BY <2>1
<1>5. QED
  BY <1>0, <1>1, <1>3, <1>4, QuietBoards

\* Every step keeps the boards exact.
LEMMA NextBoards ==
  ASSUME NEW most, Fits(most), BoardsInv(most), [Next]_(vars)
  PROVE  BoardsStep(most)
<1>1. ASSUME NEW n \in OutcomeCounts, NEW closes \in {NoDeadline, now + BettingTime},
             CreateMarket(n, closes)
      PROVE  BoardsStep(most)
  BY <1>1, CreateMarketBoards
<1>2. ASSUME NEW u \in Users, NEW m \in DOMAIN markets, NEW amount \in StakeSizes,
             NEW i \in Outcomes(m), Place(u, m, i, amount)
      PROVE  BoardsStep(most)
  BY <1>2, PlaceBoards
<1>3. ASSUME NEW m \in DOMAIN markets, NEW winner \in Outcomes(m), Settle(m, winner)
      PROVE  BoardsStep(most)
  BY <1>3, SettleBoards
<1>4. CASE UNCHANGED <<now, markets>>
  <2>1. /\ now' \in {now, now + 1} /\ now' <= MaxWrites + 1 /\ markets' \in Seq(Rows)
        /\ DOMAIN markets' = DOMAIN markets
    BY <1>4 DEF BoardsInv, Fits
  <2>2. \A m \in DOMAIN markets : /\ markets'[m].volumes = markets[m].volumes
                                  /\ markets'[m].prices = markets[m].prices
                                  /\ markets'[m].total_volume = markets[m].total_volume
    BY <1>4
  <2>3. QED
    BY <2>1, <2>2, QuietBoards
<1>5. ASSUME NEW w \in Walks, StartWalk(w) PROVE BoardsStep(most)
  BY <1>4, <1>5 DEF StartWalk
<1>6. CASE ReadPage
  BY <1>4, <1>6 DEF ReadPage
<1>7. CASE UNCHANGED vars
  BY <1>4, <1>7 DEF vars
<1>8. QED
  BY <1>1, <1>2, <1>3, <1>5, <1>6, <1>7 DEF Next

\* The boards of Ledger are exact in every state, for the largest stake.
LEMMA BoardsAlways ==
  ASSUME NEW CONSTANT most, LedgerFits, Fits(most)
  PROVE  Spec => []BoardsInv(most)
<1>1. Init => BoardsInv(most)
  BY DEF Init, BoardsInv, Fits
<1>2. BoardsInv(most) /\ [Next]_(vars) => BoardsInv(most)'
  BY NextBoards DEF BoardsStep
<1>3. QED
  BY <1>1, <1>2, PTL DEF Spec

\* The largest stake that LedgerFits speaks of.
LEMMA MostOfLedger == LedgerFits => \E most : Fits(most)
<1>1. SUFFICES ASSUME LedgerFits PROVE \E most : Fits(most)
  OBVIOUS
<1>2. PICK most \in Nat : /\ \A a \in StakeSizes : a <= most
                          /\ (MaxWrites * most) * SCALE <= I64MAX
  BY <1>1 DEF LedgerFits
<1>3. StakeSizes \subseteq 1 .. most
  BY <1>1, <1>2, LedgerAssumption
<1>4. Fits(most)
  BY <1>1, <1>2, <1>3, LedgerAssumption DEF Fits
<1>5. QED
  BY <1>4

\* The prices of exact boards.
LEMMA PricesOfBoards ==
  ASSUME NEW most, Fits(most), BoardsInv(most)
  PROVE  PricesSumToOne /\ PricesTrackShares
<1>0. /\ most \in Nat /\ MaxWrites \in Nat /\ (MaxWrites * most) * SCALE <= I64MAX
      /\ now \in 1 .. MaxWrites + 1
  BY DEF Fits, BoardsInv
<1>1. PICK k \in Nat : k = now - 1 /\ k <= MaxWrites
  BY <1>0
<1>2. ASSUME NEW m \in DOMAIN markets
      PROVE  /\ SumFunction(markets[m].prices) = SCALE
             /\ markets[m].total_volume > 0 =>
                  \A i \in Outcomes(m) :
                    /\ markets[m].prices[i] * markets[m].total_volume
                         > markets[m].volumes[i] * SCALE - markets[m].total_volume
                    /\ markets[m].prices[i] * markets[m].total_volume
                         <= markets[m].volumes[i] * SCALE + markets[m].total_volume
  <2>1. PICK row : row = markets[m] /\ BoardExact(row, k, most)
    BY <1>1 DEF BoardsInv
  <2>2. PICK n \in Nat :
          /\ n >= 1 /\ row.volumes \in [1 .. n -> Nat]
          /\ row.prices \in [1 .. n -> Price]
          /\ row.total_volume = SumFunction(row.volumes)
          /\ SumFunction(row.volumes) * SCALE <= I64MAX
          /\ SumFunction(row.prices) = SCALE
          /\ \A old : RecalculatePrices(row.volumes, old) = row.prices
    BY <1>0, <1>1, <2>1, ExactBoard
  <2>3. PICK v, ps, T : v = row.volumes /\ ps = row.prices /\ T = row.total_volume
    OBVIOUS
  <2>4. ASSUME T > 0, NEW i \in 1 .. n
        PROVE  ps[i] * T > v[i] * SCALE - T /\ ps[i] * T <= v[i] * SCALE + T
    <3>1. v \in [1 .. n -> Nat] /\ SumFunction(v) * SCALE <= I64MAX /\ SumFunction(v) > 0
          /\ T = SumFunction(v) /\ RecalculatePrices(v, ps) = ps
      BY <2>2, <2>3, <2>4
    <3>2. /\ RecalculatePrices(v, ps)[i] * SumFunction(v) > v[i] * SCALE - SumFunction(v)
          /\ RecalculatePrices(v, ps)[i] * SumFunction(v) <= v[i] * SCALE + SumFunction(v)
      BY <2>2, <2>4, <3>1, PricesTrackVolumes
    <3>3. QED
      BY <3>1, <3>2
  <2>5. Outcomes(m) = 1 .. n
    BY <2>1, <2>2 DEF Outcomes
  <2>6. SumFunction(row.prices) = SCALE
    BY <2>2
  <2>7. QED
    BY <2>1, <2>3, <2>4, <2>5, <2>6
<1>3. PricesSumToOne
  BY <1>2 DEF PricesSumToOne
<1>4. PricesTrackShares
  BY <1>2 DEF PricesTrackShares
<1>5. QED
  BY <1>3, <1>4

\* The prices of every market always add up to exactly 1.0000, each within a tick
\* of its outcome's share of the volume (recalculate_prices).
THEOREM BoardsExact ==
  ASSUME LedgerFits
  PROVE  Spec => [](PricesSumToOne /\ PricesTrackShares)
<1>1. PICK most : Fits(most)
  BY MostOfLedger
<1>2. Spec => []BoardsInv(most)
  BY <1>1, BoardsAlways
<1>3. BoardsInv(most) => PricesSumToOne /\ PricesTrackShares
  BY <1>1, PricesOfBoards
<1>4. QED
  BY <1>2, <1>3, PTL

\* Backing an outcome never makes it cheaper, nor a rival dearer, by more than a
\* tick, whatever else the step does to whichever board (apply_bet).
THEOREM BackingRaises ==
  ASSUME LedgerFits
  PROVE  Spec => BackingRaisesPrice
<1>1. PICK most : Fits(most)
  BY MostOfLedger
<1>2. Spec => []BoardsInv(most)
  BY <1>1, BoardsAlways
<1>3. BoardsInv(most) /\ [Next]_(vars) =>
        [\A m \in DOMAIN markets : markets[m].total_volume > 0 =>
           \A i \in Outcomes(m) :
             IF (markets'[m]).volumes[i] > markets[m].volumes[i]
             THEN (markets'[m]).prices[i] >= markets[m].prices[i] - 1
             ELSE (markets'[m]).prices[i] <= markets[m].prices[i] + 1]_(vars)
  BY <1>1, NextBoards DEF BoardsStep, BoardMoves, Outcomes
<1>4. QED
  BY <1>2, <1>3, PTL DEF Spec, BackingRaisesPrice

-----------------------------------------------------------------------------
(* Listings.  A listing enumerates a finite set in a strict total order: the   *)
(* place of a member is the number of those before it.                         *)

\* A strict total order, given as the set of its pairs.
StrictOrder(S, R) ==
  /\ \A j \in S : <<j, j>> \notin R
  /\ \A j, k \in S : j = k \/ <<j, k>> \in R \/ <<k, j>> \in R
  /\ \A i, j, k \in S : <<i, j>> \in R /\ <<j, k>> \in R => <<i, k>> \in R

\* Those before a member.
Ahead(S, R, k) == {j \in S : <<j, k>> \in R}

\* InOrder, over a set of pairs.
Enumeration(S, R) ==
  LET places == {<<Cardinality(Ahead(S, R, k)) + 1, k>> : k \in S}
  IN  [n \in 1 .. Cardinality(S) |-> CHOOSE k \in S : <<n, k>> \in places]

\* A listing that holds every member once, each behind those before it.
Enumerates(e, S, R) ==
  /\ DOMAIN e = 1 .. Cardinality(S) /\ e = [n \in DOMAIN e |-> e[n]]
  /\ \A n \in DOMAIN e : e[n] \in S
  /\ \A k \in S : \E n \in DOMAIN e : e[n] = k
  /\ \A n1, n2 \in DOMAIN e : n1 < n2 => <<e[n1], e[n2]>> \in R

\* More come before a member than before those before it.
LEMMA AheadGrows ==
  ASSUME NEW S, IsFiniteSet(S), NEW R, StrictOrder(S, R)
  PROVE  /\ \A k \in S : /\ Cardinality(Ahead(S, R, k)) \in Nat
                         /\ Cardinality(Ahead(S, R, k)) < Cardinality(S)
         /\ \A j, k \in S : <<j, k>> \in R =>
              Cardinality(Ahead(S, R, j)) < Cardinality(Ahead(S, R, k))
<1>1. ASSUME NEW A, NEW B, IsFiniteSet(B), A \subseteq B, NEW x, x \in B, x \notin A
      PROVE  Cardinality(A) \in Nat /\ Cardinality(B) \in Nat /\ Cardinality(A) < Cardinality(B)
  <2>1. IsFiniteSet(A) /\ Cardinality(A) <= Cardinality(B) /\ (Cardinality(B) = Cardinality(A) => B = A)
    BY <1>1, FS_Subset
  <2>2. Cardinality(A) \in Nat /\ Cardinality(B) \in Nat
    BY <1>1, <2>1, FS_CardinalityType
  <2>3. Cardinality(A) # Cardinality(B)
    BY <1>1, <2>1
  <2>4. QED
    BY <2>1, <2>2, <2>3
<1>2. ASSUME NEW k \in S
      PROVE  Cardinality(Ahead(S, R, k)) \in Nat /\ Cardinality(Ahead(S, R, k)) < Cardinality(S)
  <2>1. Ahead(S, R, k) \subseteq S /\ k \notin Ahead(S, R, k)
    BY DEF Ahead, StrictOrder
  <2>2. QED
    BY <1>1, <2>1
<1>3. ASSUME NEW j \in S, NEW k \in S, <<j, k>> \in R
      PROVE  Cardinality(Ahead(S, R, j)) < Cardinality(Ahead(S, R, k))
  <2>1. Ahead(S, R, j) \subseteq Ahead(S, R, k)
    BY <1>3 DEF Ahead, StrictOrder
  <2>2. j \in Ahead(S, R, k) /\ j \notin Ahead(S, R, j)
    BY <1>3 DEF Ahead, StrictOrder
  <2>3. IsFiniteSet(Ahead(S, R, k))
    <3>1. Ahead(S, R, k) \in SUBSET S
      BY DEF Ahead
    <3>2. QED
      BY <3>1, FS_Subset
  <2>4. QED
    BY <1>1, <2>1, <2>2, <2>3
<1>4. QED
  BY <1>2, <1>3

\* Every place from the first to the last has a member of its own.
LEMMA PlacesTaken ==
  ASSUME NEW S, IsFiniteSet(S), NEW R, StrictOrder(S, R)
  PROVE  \A n \in 1 .. Cardinality(S) : \E k \in S : n = Cardinality(Ahead(S, R, k)) + 1
<1>1. PICK c \in Nat : c = Cardinality(S)
  BY FS_CardinalityType
<1>2. PICK f : f = [k \in S |-> Cardinality(Ahead(S, R, k)) + 1]
  OBVIOUS
<1>3. f \in [S -> 1 .. c]
  <2>1. \A k \in S : f[k] \in 1 .. c
    BY <1>1, <1>2, AheadGrows
  <2>2. QED
    BY <1>2, <2>1
<1>4. \A j, k \in S : f[j] = f[k] => j = k
  <2>1. SUFFICES ASSUME NEW j \in S, NEW k \in S, j # k PROVE f[j] # f[k]
    OBVIOUS
  <2>2. <<j, k>> \in R \/ <<k, j>> \in R
    BY <2>1 DEF StrictOrder
  <2>3. Cardinality(Ahead(S, R, j)) \in Nat /\ Cardinality(Ahead(S, R, k)) \in Nat
        /\ Cardinality(Ahead(S, R, j)) # Cardinality(Ahead(S, R, k))
    <3>1. Cardinality(Ahead(S, R, j)) \in Nat /\ Cardinality(Ahead(S, R, k)) \in Nat
      BY AheadGrows
    <3>2. \/ Cardinality(Ahead(S, R, j)) < Cardinality(Ahead(S, R, k))
          \/ Cardinality(Ahead(S, R, k)) < Cardinality(Ahead(S, R, j))
      BY <2>2, AheadGrows
    <3>3. QED
      BY <3>1, <3>2
  <2>4. QED
    BY <1>2, <2>3
<1>5. f \in Injection(S, 1 .. c)
  BY <1>3, <1>4 DEF Injection, IsInjective
<1>6. IsFiniteSet(1 .. c) /\ Cardinality(1 .. c) = c
  BY FS_Interval
<1>7. f \in Surjection(S, 1 .. c)
  BY <1>1, <1>5, <1>6, FS_Injection
<1>8. QED
  BY <1>1, <1>2, <1>7 DEF Surjection

\* A listing in a strict total order enumerates it.
LEMMA Enumerated ==
  ASSUME NEW S, IsFiniteSet(S), NEW R, StrictOrder(S, R), NEW e, e = Enumeration(S, R)
  PROVE  Enumerates(e, S, R)
<1>1. DOMAIN e = 1 .. Cardinality(S) /\ e = [n \in DOMAIN e |-> e[n]]
  BY DEF Enumeration
<1>2. ASSUME NEW n \in 1 .. Cardinality(S)
      PROVE  e[n] \in S /\ n = Cardinality(Ahead(S, R, e[n])) + 1
  <2>1. PICK k \in S : n = Cardinality(Ahead(S, R, k)) + 1
    BY PlacesTaken
  <2>2. PICK P : P = {<<Cardinality(Ahead(S, R, j)) + 1, j>> : j \in S}
    OBVIOUS
  <2>3. e[n] = CHOOSE j \in S : <<n, j>> \in P
    BY <2>2 DEF Enumeration
  <2>4. e[n] \in S /\ <<n, e[n]>> \in P
    <3>1. <<n, k>> \in P
      BY <2>1, <2>2
    <3>2. QED
      BY <2>3, <3>1
  <2>5. PICK j \in S : <<n, e[n]>> = <<Cardinality(Ahead(S, R, j)) + 1, j>>
    BY <2>2, <2>4
  <2>6. QED
    BY <2>4, <2>5
<1>3. ASSUME NEW k \in S PROVE \E n \in DOMAIN e : e[n] = k
  <2>1. PICK n : n = Cardinality(Ahead(S, R, k)) + 1
    OBVIOUS
  <2>2. n \in 1 .. Cardinality(S)
    <3>1. Cardinality(Ahead(S, R, k)) \in Nat /\ Cardinality(Ahead(S, R, k)) < Cardinality(S)
          /\ Cardinality(S) \in Nat
      BY AheadGrows, FS_CardinalityType
    <3>2. QED
      BY <2>1, <3>1
  <2>3. PICK j \in S : j = e[n] /\ n = Cardinality(Ahead(S, R, j)) + 1
    BY <1>2, <2>2
  <2>4. ~(<<j, k>> \in R) /\ ~(<<k, j>> \in R)
    <3>1. Cardinality(Ahead(S, R, j)) \in Nat /\ Cardinality(Ahead(S, R, k)) \in Nat
      BY AheadGrows
    <3>2. Cardinality(Ahead(S, R, j)) = Cardinality(Ahead(S, R, k))
      BY <2>1, <2>3, <3>1
    <3>3. QED
      BY <3>1, <3>2, AheadGrows
  <2>5. j = k
    BY <2>4 DEF StrictOrder
  <2>6. QED
    BY <1>1, <2>2, <2>3, <2>5
<1>4. ASSUME NEW n1 \in DOMAIN e, NEW n2 \in DOMAIN e, n1 < n2
      PROVE  <<e[n1], e[n2]>> \in R
  <2>1. PICK j \in S, k \in S : j = e[n1] /\ k = e[n2] /\ n1 = Cardinality(Ahead(S, R, j)) + 1
                                /\ n2 = Cardinality(Ahead(S, R, k)) + 1
    BY <1>1, <1>2
  <2>2. Cardinality(Ahead(S, R, j)) \in Nat /\ Cardinality(Ahead(S, R, k)) \in Nat
        /\ Cardinality(Ahead(S, R, j)) < Cardinality(Ahead(S, R, k))
    <3>1. Cardinality(Ahead(S, R, j)) \in Nat /\ Cardinality(Ahead(S, R, k)) \in Nat
      BY AheadGrows
    <3>2. QED
      BY <1>4, <2>1, <3>1
  <2>3. j # k
    BY <2>2
  <2>4. ~(<<k, j>> \in R)
    <3>1. SUFFICES ASSUME <<k, j>> \in R PROVE FALSE
      OBVIOUS
    <3>2. Cardinality(Ahead(S, R, k)) < Cardinality(Ahead(S, R, j))
      BY <3>1, AheadGrows
    <3>3. QED
      BY <2>2, <3>2
  <2>5. QED
    BY <2>1, <2>3, <2>4 DEF StrictOrder
<1>5. QED
  BY <1>1, <1>2, <1>3, <1>4 DEF Enumerates

\* A strict weak order: what neither of two rows comes before, they share.
WeakOrder(S, B) ==
  /\ \A j, k \in S : <<j, k>> \in B => <<k, j>> \notin B
  /\ \A i, j, k \in S : <<i, k>> \in B => <<i, j>> \in B \/ <<j, k>> \in B

\* The pairs of a stable sort: rows that share a place keep the order of the table.
Stable(S, B) == {p \in S \X S : p \in B \/ (<<p[2], p[1]>> \notin B /\ p[1] < p[2])}

\* A listing of every row once, none ahead of one that should come before it.
Lists(e, S, B) ==
  /\ DOMAIN e = 1 .. Cardinality(S) /\ e = [n \in DOMAIN e |-> e[n]]
  /\ \A n \in DOMAIN e : e[n] \in S
  /\ \A k \in S : \E n \in DOMAIN e : e[n] = k
  /\ \A n1, n2 \in DOMAIN e : n1 < n2 => e[n1] # e[n2] /\ <<e[n2], e[n1]>> \notin B

\* A stable sort by a strict weak order is a strict total one.
LEMMA StableOrder ==
  ASSUME NEW S \in SUBSET Int, NEW B, WeakOrder(S, B)
  PROVE  StrictOrder(S, Stable(S, B))
<1>1. \A j, k \in S : <<j, k>> \in Stable(S, B) <=> (<<j, k>> \in B \/ (<<k, j>> \notin B /\ j < k))
  BY DEF Stable
<1>2. \A j \in S : <<j, j>> \notin Stable(S, B)
  BY <1>1 DEF WeakOrder
<1>3. ASSUME NEW j \in S, NEW k \in S PROVE j = k \/ <<j, k>> \in Stable(S, B) \/ <<k, j>> \in Stable(S, B)
  <2>1. j \in Int /\ k \in Int
    OBVIOUS
  <2>2. j = k \/ j < k \/ k < j
    BY <2>1
  <2>3. QED
    BY <1>1, <2>2
<1>4. ASSUME NEW i \in S, NEW j \in S, NEW k \in S, <<i, j>> \in Stable(S, B), <<j, k>> \in Stable(S, B)
      PROVE  <<i, k>> \in Stable(S, B)
  <2>1. i \in Int /\ j \in Int /\ k \in Int
    OBVIOUS
  <2>2. /\ <<i, j>> \in B \/ (<<j, i>> \notin B /\ i < j)
        /\ <<j, k>> \in B \/ (<<k, j>> \notin B /\ j < k)
    BY <1>1, <1>4
  <2>3. <<k, i>> \notin B
    <3>1. SUFFICES ASSUME <<k, i>> \in B PROVE FALSE
      OBVIOUS
    <3>2. <<k, j>> \in B \/ <<j, i>> \in B
      BY <3>1 DEF WeakOrder
    <3>3. QED
      BY <2>2, <3>1, <3>2 DEF WeakOrder
  <2>4. CASE i < j /\ j < k
    BY <1>1, <2>1, <2>3, <2>4
  <2>5. CASE <<i, j>> \in B \/ <<j, k>> \in B
    <3>1. <<i, k>> \in B \/ <<j, k>> \in B
      <4>1. <<i, j>> \in B => <<i, k>> \in B \/ <<k, j>> \in B
        BY DEF WeakOrder
      <4>2. <<k, j>> \in B => <<j, k>> \notin B
        BY DEF WeakOrder
      <4>3. QED
        BY <2>2, <2>5, <4>1, <4>2
    <3>2. <<j, k>> \in B => <<j, i>> \in B \/ <<i, k>> \in B
      BY DEF WeakOrder
    <3>3. <<j, i>> \in B => <<i, j>> \notin B
      BY DEF WeakOrder
    <3>4. <<i, k>> \in B
      BY <2>2, <3>1, <3>2, <3>3
    <3>5. QED
      BY <1>1, <3>4
  <2>6. QED
    BY <2>2, <2>4, <2>5
<1>5. QED
  BY <1>2, <1>3, <1>4 DEF StrictOrder

\* The enumeration of a stable sort lists the rows.
LEMMA StableListing ==
  ASSUME NEW S \in SUBSET Int, IsFiniteSet(S), NEW B, WeakOrder(S, B),
         NEW e, e = Enumeration(S, Stable(S, B))
  PROVE  Enumerates(e, S, Stable(S, B)) /\ Lists(e, S, B)
<1>1. StrictOrder(S, Stable(S, B))
  BY StableOrder
<1>2. Enumerates(e, S, Stable(S, B))
  BY <1>1, Enumerated
<1>3. ASSUME NEW n1 \in DOMAIN e, NEW n2 \in DOMAIN e, n1 < n2
      PROVE  e[n1] # e[n2] /\ <<e[n2], e[n1]>> \notin B
  <2>1. PICK j \in S, k \in S : j = e[n1] /\ k = e[n2] /\ <<j, k>> \in Stable(S, B)
    BY <1>2, <1>3 DEF Enumerates
  <2>2. j # k
    BY <1>1, <2>1 DEF StrictOrder
  <2>3. <<j, k>> \in B \/ <<k, j>> \notin B
    BY <2>1 DEF Stable
  <2>4. <<k, j>> \notin B
    BY <2>3 DEF WeakOrder
  <2>5. QED
    BY <2>1, <2>2, <2>4
<1>4. Lists(e, S, B)
  BY <1>2, <1>3 DEF Lists, Enumerates
<1>5. QED
  BY <1>2, <1>4

\* Two listings of the same rows by the same keys have, in each place, rows that
\* share a key: else one had more rows ahead of the other's.
LEMMA SharedPlaces ==
  ASSUME NEW S, IsFiniteSet(S), NEW B, WeakOrder(S, B), NEW d, Lists(d, S, B), NEW e, Lists(e, S, B),
         NEW n \in DOMAIN d
  PROVE  n \in DOMAIN e /\ <<d[n], e[n]>> \notin B
<1>1. PICK c \in Nat : c = Cardinality(S) /\ DOMAIN d = 1 .. c /\ DOMAIN e = 1 .. c
  BY FS_CardinalityType DEF Lists
<1>2. SUFFICES ASSUME <<d[n], e[n]>> \in B PROVE FALSE
  BY <1>1
<1>3. n \in 1 .. c /\ n \in Nat /\ n >= 1 /\ d[n] \in S /\ e[n] \in S
  BY <1>1 DEF Lists
<1>4. ASSUME NEW m \in 1 .. n
      PROVE  \E p \in 1 .. n - 1 : e[p] = d[m]
  <2>0. m \in 1 .. c
    BY <1>3
  <2>1. m \in DOMAIN d /\ d[m] \in S
    BY <1>1, <2>0 DEF Lists
  <2>2. <<d[n], d[m]>> \notin B
    <3>1. CASE m = n
      BY <1>3, <3>1 DEF WeakOrder
    <3>2. CASE m < n
      BY <2>1, <3>2 DEF Lists
    <3>3. QED
      BY <1>3, <3>1, <3>2
  <2>3. <<d[m], e[n]>> \in B
    BY <1>2, <1>3, <2>1, <2>2 DEF WeakOrder
  <2>4. PICK p \in DOMAIN e : e[p] = d[m]
    BY <2>1 DEF Lists
  <2>5. p # n /\ ~(n < p)
    BY <1>1, <1>3, <2>1, <2>3, <2>4 DEF Lists, WeakOrder
  <2>6. QED
    BY <1>1, <1>3, <2>4, <2>5
<1>5. PICK f : f = [m \in 1 .. n |-> CHOOSE p \in 1 .. n - 1 : e[p] = d[m]]
  OBVIOUS
<1>6. \A m \in 1 .. n : f[m] \in 1 .. n - 1 /\ e[f[m]] = d[m]
  BY <1>4, <1>5
<1>7. /\ IsFiniteSet(1 .. n) /\ IsFiniteSet(1 .. n - 1)
      /\ Cardinality(1 .. n - 1) < Cardinality(1 .. n)
  <2>1. n - 1 \in Int /\ 1 \in Int /\ n \in Int
    BY <1>3
  <2>2. IsFiniteSet(1 .. n) /\ Cardinality(1 .. n) = IF 1 > n THEN 0 ELSE n - 1 + 1
    BY <2>1, FS_Interval
  <2>3. IsFiniteSet(1 .. n - 1) /\ Cardinality(1 .. n - 1) = IF 1 > n - 1 THEN 0 ELSE (n - 1) - 1 + 1
    BY <2>1, FS_Interval
  <2>4. QED
    BY <1>3, <2>2, <2>3
<1>8. f \in [1 .. n -> 1 .. n - 1]
  BY <1>5, <1>6
<1>9. PICK x \in 1 .. n, y \in 1 .. n : x # y /\ f[x] = f[y]
  <2>1. PICK A, D : A = 1 .. n /\ D = 1 .. n - 1
    OBVIOUS
  <2>2. IsFiniteSet(A) /\ IsFiniteSet(D) /\ Cardinality(D) < Cardinality(A) /\ f \in [A -> D]
    BY <1>7, <1>8, <2>1
  <2>3. \E x, y \in A : x # y /\ f[x] = f[y]
    BY ONLY <2>2, FS_PigeonHole
  <2>4. QED
    BY <2>1, <2>3
<1>10. d[x] = d[y]
  BY <1>6, <1>9
<1>11. x \in DOMAIN d /\ y \in DOMAIN d /\ (x < y \/ y < x)
  BY <1>1, <1>3, <1>9
<1>12. QED
  BY <1>10, <1>11 DEF Lists

-----------------------------------------------------------------------------
(* The rows, and what each request does to them. *)

BetRow == [user : Users, market : Nat, outcome : Nat, amount : StakeSizes,
           price : MinTick .. SCALE, status : {"active", "won", "lost"}, payout : Nat, created : Nat]

PointRow == [market : Nat, outcome : Nat, price : Price, at : Nat]

Tables ==
  /\ now \in Nat /\ now >= 1
  /\ balance \in [Users -> Nat]
  /\ markets \in Seq(Rows) /\ bets \in Seq(BetRow) /\ points \in Seq(PointRow)

\* A table with a row more.
Grown(old, new, row) ==
  /\ DOMAIN new = DOMAIN old \cup {Len(old) + 1} /\ Len(old) + 1 \notin DOMAIN old
  /\ Len(new) = Len(old) + 1
  /\ new[Len(old) + 1] = row /\ \A k \in DOMAIN old : new[k] = old[k]

\* What create writes.
Created(n, closes) ==
  /\ now' = now + 1 /\ UNCHANGED <<balance, bets, walk>>
  /\ n \in Nat /\ n >= 2
  /\ \E prices \in [1 .. n -> Price] : \E row \in Rows :
       /\ Grown(markets, markets', row)
       /\ row.status = "open" /\ row.winner = 0 /\ row.created = now /\ row.total_volume = 0
       /\ row.participants = 0 /\ row.volumes = [i \in 1 .. n |-> 0] /\ row.prices = prices
       /\ points' = points \o PointsOf(Len(markets) + 1, prices)

\* What place writes.
Placed(u, m, i, amount) ==
  /\ now' = now + 1 /\ balance' \in [Users -> Nat] /\ UNCHANGED walk
  /\ markets[m].status = "open" /\ i \in DOMAIN markets[m].volumes /\ bets' \in Seq(BetRow)
  /\ \E b \in BetRow :
       /\ Grown(bets, bets', b)
       /\ b.user = u /\ b.market = m /\ b.outcome = i /\ b.amount = amount
       /\ b.status = "active" /\ b.created = now
  /\ DOMAIN markets' = DOMAIN markets
  /\ \A j \in DOMAIN markets \ {m} : markets'[j] = markets[j]
  /\ markets'[m].status = markets[m].status /\ markets'[m].winner = markets[m].winner
  /\ markets'[m].created = markets[m].created /\ markets'[m].closes = markets[m].closes
  /\ markets'[m].total_volume = SaturateI64(markets[m].total_volume + amount)
  /\ markets'[m].participants = markets[m].participants + (IF NewParticipant(u, m) THEN 1 ELSE 0)
  /\ markets'[m].volumes = AddVolume(markets[m].volumes, i, amount)
  /\ points' = points \o PointsOf(m, markets'[m].prices)

\* What settle writes.
Resolved(m, winner) ==
  /\ now' = now + 1 /\ balance' \in [Users -> Nat] /\ UNCHANGED <<points, walk>>
  /\ markets[m].status # "resolved" /\ winner \in DOMAIN markets[m].volumes
  /\ DOMAIN markets' = DOMAIN markets
  /\ \A j \in DOMAIN markets \ {m} : markets'[j] = markets[j]
  /\ markets'[m] = [markets[m] EXCEPT !.status = "resolved", !.winner = winner]
  /\ DOMAIN bets' = DOMAIN bets /\ Len(bets') = Len(bets) /\ bets' \in Seq(BetRow)
  /\ \A k \in DOMAIN bets :
       /\ bets'[k].user = bets[k].user /\ bets'[k].market = bets[k].market
       /\ bets'[k].outcome = bets[k].outcome /\ bets'[k].amount = bets[k].amount
       /\ bets'[k].price = bets[k].price /\ bets'[k].created = bets[k].created
       /\ bets[k].market # m => bets'[k] = bets[k]
       /\ bets[k].market = m => bets'[k].status \in {"won", "lost"}
       /\ bets[k].status # "active" => bets'[k].status = bets[k].status
       /\ bets'[k].payout \in Nat

\* A row appended to a table.
LEMMA AppendGrows ==
  ASSUME NEW S, NEW s \in Seq(S), NEW x \in S, NEW t, t = Append(s, x)
  PROVE  t \in Seq(S) /\ Grown(s, t, x)
<1>1. /\ t \in Seq(S) /\ Len(t) = Len(s) + 1 /\ \A k \in 1 .. Len(s) : t[k] = s[k]
      /\ t[Len(s) + 1] = x
  OBVIOUS
<1>2. Len(s) \in Nat /\ DOMAIN s = 1 .. Len(s) /\ DOMAIN t = 1 .. Len(s) + 1
  BY <1>1
<1>3. DOMAIN t = DOMAIN s \cup {Len(s) + 1} /\ Len(s) + 1 \notin DOMAIN s
  BY <1>2
<1>4. QED
  BY <1>1, <1>2, <1>3 DEF Grown

\* A table rewritten in place.
LEMMA RewrittenTable ==
  ASSUME NEW S, NEW s \in Seq(S), NEW t, t = [k \in DOMAIN s |-> t[k]], \A k \in DOMAIN s : t[k] \in S
  PROVE  t \in Seq(S) /\ Len(t) = Len(s) /\ DOMAIN t = DOMAIN s
<1>1. PICK n \in Nat : n = Len(s) /\ DOMAIN s = 1 .. n
  OBVIOUS
<1>2. t \in [1 .. n -> S]
  BY <1>1
<1>3. t \in Seq(S) /\ Len(t) = n
  BY <1>1, <1>2
<1>4. QED
  BY <1>1, <1>2, <1>3

\* CreateMarket and create.
LEMMA CreateEffect ==
  ASSUME Tables, NEW n \in OutcomeCounts, NEW closes \in {NoDeadline, now + BettingTime},
         CreateMarket(n, closes)
  PROVE  Created(n, closes)
<1>1. PICK zeros : zeros = [i \in 1 .. n |-> 0]
  OBVIOUS
<1>2. PICK prices : prices = RecalculatePrices(zeros, zeros)
  OBVIOUS
<1>3. n \in Nat /\ n >= 2 /\ closes \in Nat
  BY LedgerAssumption DEF Tables, NoDeadline
<1>4. zeros \in [1 .. n -> Int] /\ zeros \in [1 .. n -> Nat] /\ zeros \in [1 .. n -> Price]
  BY <1>1 DEF Price
<1>5. prices \in [1 .. n -> Price]
  BY <1>2, <1>3, <1>4, RecalculatePricesType
<1>6. PICK row :
        row = [status |-> "open", winner |-> 0, closes |-> closes, created |-> now, total_volume |-> 0,
               participants |-> 0, volumes |-> zeros, prices |-> prices]
  OBVIOUS
<1>7. row \in Rows
  <2>1. zeros \in UNION {[1 .. j -> Nat] : j \in Nat} /\ prices \in UNION {[1 .. j -> Price] : j \in Nat}
    BY <1>3, <1>4, <1>5
  <2>2. now \in Nat /\ 0 \in Nat /\ 0 \in Int /\ "open" \in {"open", "resolved"}
    BY DEF Tables
  <2>3. QED
    BY <1>3, <1>6, <2>1, <2>2 DEF Rows
<1>8. /\ markets' = Append(markets, row) /\ points' = points \o PointsOf(Len(markets) + 1, prices)
      /\ now' = now + 1 /\ UNCHANGED <<balance, bets, walk>>
  BY <1>1, <1>2, <1>6 DEF CreateMarket
<1>9. Grown(markets, markets', row)
  BY <1>7, <1>8, AppendGrows DEF Tables
<1>10. QED
  BY <1>1, <1>3, <1>5, <1>6, <1>7, <1>8, <1>9 DEF Created

\* PlaceBet, place and apply_bet.
LEMMA PlaceEffect ==
  ASSUME Tables, NEW u \in Users, NEW m \in DOMAIN markets, NEW amount \in StakeSizes,
         NEW i \in Outcomes(m), Place(u, m, i, amount),
         DOMAIN markets[m].prices = DOMAIN markets[m].volumes
  PROVE  Placed(u, m, i, amount)
<1>1. PICK row : row = markets[m] /\ row \in Rows
  BY DEF Tables
<1>2. amount \in Nat /\ amount >= 1
  BY LedgerAssumption
<1>3. PICK b : b = [user |-> u, market |-> m, outcome |-> i, amount |-> amount,
                    price |-> BuyPrice(row.prices[i]), status |-> "active", payout |-> 0, created |-> now]
  OBVIOUS
<1>4. b \in BetRow
  <2>1. row.prices[i] \in Price
    <3>1. PICK k \in Nat : row.prices \in [1 .. k -> Price]
      BY <1>1 DEF Rows
    <3>2. i \in 1 .. k
      BY <1>1, <3>1 DEF Outcomes
    <3>3. QED
      BY <3>1, <3>2
  <2>2. BuyPrice(row.prices[i]) \in MinTick .. SCALE
    BY <2>1, BuyPriceType DEF Price, MinTick
  <2>3. i \in Nat
    <3>1. PICK k \in Nat : row.volumes \in [1 .. k -> Nat]
      BY <1>1 DEF Rows
    <3>2. i \in 1 .. k
      BY <1>1, <3>1 DEF Outcomes
    <3>3. QED
      BY <3>2
  <2>4. m \in Nat /\ now \in Nat
    BY DEF Tables
  <2>5. QED
    BY <1>3, <2>2, <2>3, <2>4 DEF BetRow
<1>5. bets' = Append(bets, b) /\ now' = now + 1 /\ UNCHANGED walk
  BY <1>1, <1>3 DEF Place
<1>6. Grown(bets, bets', b) /\ bets' \in Seq(BetRow)
  BY <1>4, <1>5, AppendGrows DEF Tables
<1>7. balance' \in [Users -> Nat]
  <2>1. balance' = [balance EXCEPT ![u] = @ - amount] /\ balance[u] >= amount
    BY DEF Place
  <2>2. balance[u] - amount \in Nat
    BY <1>2, <2>1 DEF Tables
  <2>3. QED
    BY <2>1, <2>2 DEF Tables
<1>8. PICK w, prices, t, d :
        /\ w = AddVolume(row.volumes, i, amount) /\ prices = PricesAfterStake(row, i, amount)
        /\ t = SaturateI64(row.total_volume + amount)
        /\ d = row.participants + (IF NewParticipant(u, m) THEN 1 ELSE 0)
  OBVIOUS
<1>9. PICK new : /\ new = [row EXCEPT !.total_volume = t, !.participants = d,
                                      !.volumes = w, !.prices = prices]
                 /\ markets' = [markets EXCEPT ![m] = new]
  <2>1. PICK e : e = (IF NewParticipant(u, m) THEN 1 ELSE 0)
    OBVIOUS
  <2>2. markets' = [markets EXCEPT ![m].total_volume = t, ![m].participants = @ + e,
                        ![m].volumes = w, ![m].prices = prices]
    BY <1>1, <1>8, <2>1 DEF Place
  <2>3. [markets EXCEPT ![m].total_volume = t, ![m].participants = @ + e,
                        ![m].volumes = w, ![m].prices = prices]
        = [markets EXCEPT ![m] = [row EXCEPT !.total_volume = t, !.participants = d,
                                             !.volumes = w, !.prices = prices]]
    BY <1>1, <1>8, <2>1 DEF Tables
  <2>4. QED
    BY <2>2, <2>3
<1>10. /\ new.status = row.status /\ new.winner = row.winner /\ new.created = row.created
       /\ new.closes = row.closes /\ new.total_volume = t /\ new.participants = d /\ new.volumes = w
       /\ new.prices = prices
  BY <1>1, <1>9 DEF Rows
<1>11. /\ DOMAIN markets' = DOMAIN markets /\ markets'[m] = new
       /\ \A j \in DOMAIN markets \ {m} : markets'[j] = markets[j]
  BY <1>9 DEF Tables
<1>12. points' = points \o PointsOf(m, prices)
  BY <1>1, <1>8 DEF Place
<1>13. row.status = "open" /\ i \in DOMAIN row.volumes
  BY <1>1 DEF Place, AcceptsBets, Outcomes
<1>14. QED
  BY <1>1, <1>3, <1>4, <1>5, <1>6, <1>7, <1>8, <1>10, <1>11, <1>12, <1>13 DEF Placed

\* A settled bet keeps what was bet and is won or lost.
LEMMA SettledBetRow ==
  ASSUME NEW b \in BetRow, NEW winner, NEW c, c = SettledBet(b, winner)
  PROVE  /\ c \in BetRow /\ c.status \in {"won", "lost"} /\ c.payout \in Nat
         /\ c.user = b.user /\ c.market = b.market /\ c.outcome = b.outcome /\ c.amount = b.amount
         /\ c.price = b.price /\ c.created = b.created
<1>1. Payout(b.amount, b.price) \in Nat
  <2>0. b.amount \in StakeSizes /\ b.price \in 1 .. SCALE
    BY DEF BetRow, MinTick
  <2>1. b.amount \in Int /\ b.amount > 0 /\ b.price \in Price /\ b.price >= MinTick
    <3>1. b.amount \in Int /\ b.amount > 0
      <4>1. StakeSizes \subseteq Nat \ {0}
        BY LedgerAssumption
      <4>2. b.amount \in Nat \ {0}
        BY <2>0, <4>1
      <4>3. QED
        BY <4>2
    <3>2. b.price \in Price /\ b.price >= MinTick
      BY <2>0 DEF Price, MinTick
    <3>3. QED
      BY <3>1, <3>2
  <2>2. QED
    BY <2>1, PayoutNat
<1>2. PICK x \in Nat : x = Payout(b.amount, b.price)
  BY <1>1
<1>3. CASE b.outcome = winner
  <2>1. c = [b EXCEPT !.status = "won", !.payout = x]
    BY <1>2, <1>3 DEF SettledBet
  <2>2. QED
    BY <2>1 DEF BetRow
<1>4. CASE b.outcome # winner
  <2>1. c = [b EXCEPT !.status = "lost"]
    BY <1>4 DEF SettledBet
  <2>2. QED
    BY <2>1 DEF BetRow
<1>5. QED
  BY <1>3, <1>4

\* ResolveMarket and settle.
LEMMA SettleEffect ==
  ASSUME Tables, NEW m \in DOMAIN markets, NEW winner \in Outcomes(m), Settle(m, winner)
  PROVE  Resolved(m, winner)
<1>1. PICK due : due = {k \in DOMAIN bets : bets[k].market = m /\ bets[k].status = "active"}
  OBVIOUS
<1>2. /\ now' = now + 1 /\ UNCHANGED <<points, walk>>
      /\ markets[m].status # "resolved" /\ winner \in DOMAIN markets[m].volumes
      /\ markets' = [markets EXCEPT ![m].status = "resolved", ![m].winner = winner]
      /\ bets' = [k \in DOMAIN bets |-> IF k \in due THEN SettledBet(bets[k], winner) ELSE bets[k]]
      /\ balance' = [u \in Users |-> balance[u] +
           SumFunction([k \in {j \in due : bets[j].user = u} |-> SettledBet(bets[k], winner).payout])]
  BY <1>1 DEF Settle, Outcomes, BetNumbers
<1>3. \A k \in DOMAIN bets : bets[k] \in BetRow
  BY DEF Tables
<1>4. ASSUME NEW k \in DOMAIN bets
      PROVE  /\ bets'[k] \in BetRow
             /\ bets'[k].user = bets[k].user /\ bets'[k].market = bets[k].market
             /\ bets'[k].outcome = bets[k].outcome /\ bets'[k].amount = bets[k].amount
             /\ bets'[k].price = bets[k].price /\ bets'[k].created = bets[k].created
             /\ bets[k].market # m => bets'[k] = bets[k]
             /\ bets[k].market = m => bets'[k].status \in {"won", "lost"}
             /\ bets[k].status # "active" => bets'[k].status = bets[k].status
             /\ bets'[k].payout \in Nat
  <2>1. CASE k \in due
    <3>1. bets'[k] = SettledBet(bets[k], winner)
      BY <1>2, <2>1
    <3>2. bets[k].market = m /\ bets[k].status = "active"
      BY <1>1, <2>1
    <3>3. PICK b, c : b \in BetRow /\ b = bets[k] /\ c = bets'[k] /\ c = SettledBet(b, winner)
      BY <1>3, <3>1
    <3>4. /\ c \in BetRow /\ c.status \in {"won", "lost"} /\ c.payout \in Nat
          /\ c.user = b.user /\ c.market = b.market /\ c.outcome = b.outcome /\ c.amount = b.amount
          /\ c.price = b.price /\ c.created = b.created
      BY <3>3, SettledBetRow
    <3>5. QED
      BY <3>2, <3>3, <3>4
  <2>2. CASE k \notin due
    <3>1. bets'[k] = bets[k] /\ bets[k] \in BetRow
      BY <1>2, <1>3, <2>2
    <3>2. bets[k].market = m => bets[k].status # "active"
      BY <1>1, <2>2
    <3>3. bets[k].status \in {"active", "won", "lost"} /\ bets[k].payout \in Nat
      BY <3>1 DEF BetRow
    <3>4. QED
      BY <3>1, <3>2, <3>3
  <2>3. QED
    BY <2>1, <2>2
<1>5. bets' \in Seq(BetRow) /\ Len(bets') = Len(bets) /\ DOMAIN bets' = DOMAIN bets
  <2>1. PICK s, t : s = bets /\ t = bets' /\ s \in Seq(BetRow)
    BY DEF Tables
  <2>2. t = [k \in DOMAIN s |-> t[k]] /\ \A k \in DOMAIN s : t[k] \in BetRow
    BY <1>2, <1>4, <2>1
  <2>3. t \in Seq(BetRow) /\ Len(t) = Len(s) /\ DOMAIN t = DOMAIN s
    BY <2>1, <2>2, RewrittenTable
  <2>4. QED
    BY <2>1, <2>3
<1>6. balance' \in [Users -> Nat]
  <2>1. SUFFICES ASSUME NEW u \in Users
                 PROVE  balance[u] + SumFunction([k \in {j \in due : bets[j].user = u} |->
                          SettledBet(bets[k], winner).payout]) \in Nat
    BY <1>2
  <2>2. PICK own, f : /\ own = {j \in due : bets[j].user = u}
                      /\ f = [k \in own |-> SettledBet(bets[k], winner).payout]
    OBVIOUS
  <2>3. IsFiniteSet(own)
    <3>1. PICK n \in Nat : DOMAIN bets = 1 .. n
      BY DEF Tables
    <3>2. own \in SUBSET (1 .. n) /\ IsFiniteSet(1 .. n)
      BY <1>1, <2>2, <3>1, FS_Interval
    <3>3. QED
      BY <3>2, FS_Subset
  <2>4. \A k \in own : f[k] \in Nat
    <3>1. SUFFICES ASSUME NEW k \in own PROVE f[k] \in Nat
      OBVIOUS
    <3>2. k \in DOMAIN bets /\ f[k] = SettledBet(bets[k], winner).payout
      BY <1>1, <2>2
    <3>3. QED
      BY <1>3, <3>2, SettledBetRow
  <2>5. SumFunction(f) \in Nat
    <3>1. DOMAIN f = own
      BY <2>2
    <3>2. QED
      BY <2>3, <2>4, <3>1, SumNat DEF SumFunction
  <2>6. balance[u] \in Nat
    BY DEF Tables
  <2>7. QED
    BY <2>2, <2>5, <2>6
<1>7. PICK row, new : /\ row = markets[m] /\ new = [row EXCEPT !.status = "resolved", !.winner = winner]
                      /\ markets' = [markets EXCEPT ![m] = new]
  <2>1. [markets EXCEPT ![m].status = "resolved", ![m].winner = winner]
        = [markets EXCEPT ![m] = [markets[m] EXCEPT !.status = "resolved", !.winner = winner]]
    BY DEF Tables
  <2>2. QED
    BY <1>2, <2>1
<1>8. /\ DOMAIN markets' = DOMAIN markets
      /\ \A j \in DOMAIN markets \ {m} : markets'[j] = markets[j]
      /\ markets'[m] = [markets[m] EXCEPT !.status = "resolved", !.winner = winner]
  BY <1>7 DEF Tables
<1>9. QED
  BY <1>2, <1>4, <1>5, <1>6, <1>8 DEF Resolved

\* The types of the rows, field by field.
LEMMA BetTypes ==
  ASSUME Tables
  PROVE  /\ Len(bets) \in Nat /\ DOMAIN bets = 1 .. Len(bets)
         /\ \A k \in DOMAIN bets :
              /\ bets[k] \in BetRow /\ bets[k].user \in Users /\ bets[k].market \in Nat
              /\ bets[k].outcome \in Nat /\ bets[k].amount \in Nat /\ bets[k].amount >= 1
              /\ bets[k].amount \in StakeSizes
              /\ bets[k].price \in Nat /\ bets[k].price >= MinTick /\ bets[k].price <= SCALE
              /\ bets[k].status \in {"active", "won", "lost"} /\ bets[k].created \in Nat
              /\ bets[k].payout \in Nat
<1>1. Len(bets) \in Nat /\ DOMAIN bets = 1 .. Len(bets) /\ \A k \in DOMAIN bets : bets[k] \in BetRow
  BY DEF Tables
<1>2. ASSUME NEW b \in BetRow
      PROVE  /\ b.user \in Users /\ b.market \in Nat /\ b.outcome \in Nat
             /\ b.amount \in StakeSizes /\ b.price \in 1 .. SCALE
             /\ b.status \in {"active", "won", "lost"} /\ b.created \in Nat /\ b.payout \in Nat
  BY DEF BetRow, MinTick
<1>3. StakeSizes \subseteq Nat \ {0}
  BY LedgerAssumption
<1>4. \A a \in StakeSizes : a \in Nat /\ a >= 1
  <2>1. \A a \in StakeSizes : a \in Nat /\ a # 0
    BY <1>3
  <2>2. QED
    BY <2>1
<1>5. \A p \in 1 .. SCALE : p \in Nat /\ p >= MinTick /\ p <= SCALE
  BY DEF MinTick
<1>6. QED
  BY <1>1, <1>2, <1>4, <1>5

\* The same for the markets.
LEMMA MarketTypes ==
  ASSUME Tables
  PROVE  /\ Len(markets) \in Nat /\ DOMAIN markets = 1 .. Len(markets)
         /\ \A m \in DOMAIN markets :
              /\ markets[m] \in Rows /\ markets[m].status \in {"open", "resolved"}
              /\ markets[m].winner \in Nat /\ markets[m].closes \in Nat /\ markets[m].created \in Nat
              /\ markets[m].total_volume \in Int /\ markets[m].participants \in Int
<1>1. Len(markets) \in Nat /\ DOMAIN markets = 1 .. Len(markets) /\ \A m \in DOMAIN markets : markets[m] \in Rows
  BY DEF Tables
<1>2. ASSUME NEW row \in Rows
      PROVE  /\ row.status \in {"open", "resolved"} /\ row.winner \in Nat /\ row.closes \in Nat
             /\ row.created \in Nat /\ row.total_volume \in Int /\ row.participants \in Int
  BY DEF Rows
<1>3. QED
  BY <1>1, <1>2

\* The same for the price points.
LEMMA PointTypes ==
  ASSUME Tables
  PROVE  /\ Len(points) \in Nat /\ DOMAIN points = 1 .. Len(points)
         /\ \A k \in DOMAIN points :
              /\ points[k].market \in Nat /\ points[k].outcome \in Nat
              /\ points[k].price \in Price /\ points[k].at \in Nat
<1>1. Len(points) \in Nat /\ DOMAIN points = 1 .. Len(points) /\ \A k \in DOMAIN points : points[k] \in PointRow
  BY DEF Tables
<1>2. ASSUME NEW p \in PointRow
      PROVE  p.market \in Nat /\ p.outcome \in Nat /\ p.price \in Price /\ p.at \in Nat
  BY DEF PointRow
<1>3. QED
  BY <1>1, <1>2

\* A bet is on an outcome of a market, made before now, and open while its market is.
BetsInv ==
  /\ Len(bets) < now
  /\ \A k \in DOMAIN bets :
       /\ bets[k].market \in DOMAIN markets
       /\ bets[k].outcome \in DOMAIN markets[bets[k].market].volumes
       /\ bets[k].created < now
       /\ bets[k].status = "active" <=> markets[bets[k].market].status = "open"
  /\ \A j, k \in DOMAIN bets : j < k => bets[j].created < bets[k].created

\* Markets are in the order of their creation.
MarketsInv ==
  /\ \A m \in DOMAIN markets :
       /\ markets[m].created < now /\ markets[m].winner \in {0} \cup DOMAIN markets[m].volumes
       /\ DOMAIN markets[m].prices = DOMAIN markets[m].volumes
  /\ \A l, m \in DOMAIN markets : l < m => markets[l].created < markets[m].created

\* The points of a placement, behind those recorded before.
LEMMA PointsGrow ==
  ASSUME now \in Nat, points \in Seq(PointRow), NEW m \in Nat, NEW n \in Nat,
         NEW prices \in [1 .. n -> Price], NEW q, q = points \o PointsOf(m, prices)
  PROVE  /\ q \in Seq(PointRow) /\ DOMAIN q = 1 .. Len(points) + n
         /\ \A k \in DOMAIN points : q[k] = points[k]
         /\ \A i \in 1 .. n : q[Len(points) + i] =
              [market |-> m, outcome |-> i, price |-> prices[i], at |-> now]
<1>1. PICK s : s = PointsOf(m, prices)
  OBVIOUS
<1>2. /\ s = [i \in 1 .. n |-> s[i]] /\ DOMAIN s = 1 .. n
      /\ \A i \in 1 .. n : s[i] = [market |-> m, outcome |-> i, price |-> prices[i], at |-> now]
  BY <1>1 DEF PointsOf
<1>3. \A i \in 1 .. n : s[i] \in PointRow
  BY <1>2 DEF PointRow
<1>4. s \in [1 .. n -> PointRow]
  BY <1>2, <1>3
<1>5. s \in Seq(PointRow) /\ Len(s) = n
  BY <1>4
<1>6. q = points \o s
  BY <1>1
<1>7. q \in Seq(PointRow) /\ Len(q) = Len(points) + n
  BY ONLY <1>5, <1>6, points \in Seq(PointRow), ConcatProperties
<1>8. DOMAIN q = 1 .. Len(points) + n
  BY <1>7
<1>9. \A k \in DOMAIN points : q[k] = points[k]
  BY ONLY <1>5, <1>6, points \in Seq(PointRow), ConcatProperties
<1>10. \A i \in 1 .. n : q[Len(points) + i] = s[i]
  BY ONLY <1>5, <1>6, points \in Seq(PointRow), ConcatProperties, n \in Nat
<1>11. QED
  BY <1>2, <1>7, <1>8, <1>9, <1>10

\* Every price of an exact board is that of an outcome.
LEMMA BoardDomains ==
  ASSUME NEW most, Fits(most), BoardsInv(most), NEW m \in DOMAIN markets
  PROVE  \E n \in Nat : n >= 1 /\ markets[m].volumes \in [1 .. n -> Nat] /\ markets[m].prices \in [1 .. n -> Price]
<1>1. PICK k \in Nat : k = now - 1 /\ k <= MaxWrites
  BY DEF BoardsInv, Fits
<1>2. BoardExact(markets[m], k, most)
  BY <1>1 DEF BoardsInv
<1>3. QED
  BY <1>1, <1>2, ExactBoard DEF Fits

\* A new market leaves the tables in order.
LEMMA CreatedTables ==
  ASSUME NEW most, Fits(most), BoardsInv(most), BoardsInv(most)', Tables, BetsInv, MarketsInv,
         NEW n, NEW closes, Created(n, closes)
  PROVE  Tables' /\ BetsInv' /\ MarketsInv'
<1>1. PICK prices \in [1 .. n -> Price], row \in Rows :
       /\ Grown(markets, markets', row)
       /\ row.winner = 0 /\ row.created = now
       /\ row.volumes = [i \in 1 .. n |-> 0] /\ row.prices = prices
       /\ points' = points \o PointsOf(Len(markets) + 1, prices)
  BY DEF Created
<1>2. now' = now + 1 /\ balance' = balance /\ bets' = bets /\ n \in Nat /\ now \in Nat /\ now >= 1
  BY DEF Created, Tables
<1>3. PICK new \in Nat : new = Len(markets) + 1 /\ DOMAIN markets = 1 .. new - 1
  BY DEF Tables
<1>4. DOMAIN markets' = DOMAIN markets \cup {new} /\ new \notin DOMAIN markets /\ markets'[new] = row
      /\ \A m \in DOMAIN markets : markets'[m] = markets[m] /\ m < new /\ m \in Nat
  BY <1>1, <1>3 DEF Grown
<1>5. Tables'
  <2>1. points' \in Seq(PointRow)
    BY <1>1, <1>2, <1>3, PointsGrow DEF Tables
  <2>2. QED
    BY <1>2, <2>1 DEF Tables, BoardsInv
<1>6. BetsInv'
  <2>1. Len(bets) \in Nat /\ \A k \in DOMAIN bets : bets[k].created \in Nat
    BY BetTypes
  <2>2. Len(bets') < now'
    BY <1>2, <2>1 DEF BetsInv, Tables
  <2>3. \A k \in DOMAIN bets' :
           /\ bets'[k].market \in DOMAIN markets'
           /\ bets'[k].outcome \in DOMAIN markets'[bets'[k].market].volumes
           /\ bets'[k].created < now'
           /\ bets'[k].status = "active" <=> markets'[bets'[k].market].status = "open"
    BY <1>2, <1>4, <2>1 DEF BetsInv
  <2>4. QED
    BY <1>2, <2>2, <2>3 DEF BetsInv
<1>7. MarketsInv'
  <2>1. \A m \in DOMAIN markets : markets[m].created \in Nat /\ markets[m].created < now
    BY MarketTypes DEF MarketsInv
  <2>2. ASSUME NEW m \in DOMAIN markets'
        PROVE  /\ markets'[m].created < now'
               /\ markets'[m].winner \in {0} \cup DOMAIN markets'[m].volumes
               /\ DOMAIN markets'[m].prices = DOMAIN markets'[m].volumes
    <3>1. CASE m = new
      BY <1>1, <1>2, <1>4, <3>1
    <3>2. CASE m \in DOMAIN markets
      <4>1. markets[m].created < now + 1
        BY <1>2, <2>1, <3>2
      <4>2. QED
        BY <1>2, <1>4, <3>2, <4>1 DEF MarketsInv
    <3>3. QED
      BY <1>4, <3>1, <3>2
  <2>3. ASSUME NEW l \in DOMAIN markets', NEW m \in DOMAIN markets', l < m
        PROVE  markets'[l].created < markets'[m].created
    <3>1. CASE m = new
      <4>1. l \in DOMAIN markets
        BY <1>3, <1>4, <2>3, <3>1
      <4>2. QED
        BY <1>1, <1>4, <2>1, <3>1, <4>1
    <3>2. CASE m \in DOMAIN markets
      <4>1. l \in DOMAIN markets
        BY <1>3, <1>4, <2>3, <3>2
      <4>2. QED
        BY <1>4, <2>3, <3>2, <4>1 DEF MarketsInv
    <3>3. QED
      BY <1>4, <3>1, <3>2
  <2>4. QED
    BY <2>2, <2>3 DEF MarketsInv
<1>8. QED
  BY <1>5, <1>6, <1>7

\* A bet placed leaves the tables in order.
LEMMA PlacedTables ==
  ASSUME NEW most, Fits(most), BoardsInv(most)', Tables, BetsInv, MarketsInv,
         NEW u, NEW m \in DOMAIN markets, NEW i, NEW amount, Placed(u, m, i, amount)
  PROVE  Tables' /\ BetsInv' /\ MarketsInv'
<1>1. PICK b \in BetRow :
       /\ Grown(bets, bets', b)
       /\ b.user = u /\ b.market = m /\ b.outcome = i /\ b.amount = amount
       /\ b.status = "active" /\ b.created = now
  BY DEF Placed
<1>2. /\ now' = now + 1 /\ balance' \in [Users -> Nat] /\ now \in Nat /\ now >= 1
      /\ markets[m].status = "open" /\ i \in DOMAIN markets[m].volumes
      /\ DOMAIN markets' = DOMAIN markets
      /\ \A j \in DOMAIN markets \ {m} : markets'[j] = markets[j]
      /\ markets'[m].status = markets[m].status /\ markets'[m].winner = markets[m].winner
      /\ markets'[m].created = markets[m].created
      /\ points' = points \o PointsOf(m, markets'[m].prices)
  BY DEF Placed, Tables
<1>3. \A j \in DOMAIN markets' :
        \E n \in Nat : n >= 1 /\ markets'[j].volumes \in [1 .. n -> Nat] /\ markets'[j].prices \in [1 .. n -> Price]
  <2>0. now' \in 1 .. MaxWrites + 1 /\ MaxWrites \in Nat
    BY DEF BoardsInv, Fits
  <2>a. now <= MaxWrites /\ now' - 1 = now
    BY <1>2, <2>0
  <2>1. PICK k \in Nat : k = now' - 1 /\ k <= MaxWrites
    BY <1>2, <2>a
  <2>2. \A j \in DOMAIN markets' : BoardExact(markets'[j], k, most)
    BY <2>1 DEF BoardsInv
  <2>3. QED
    BY <2>1, <2>2, ExactBoard DEF Fits
<1>4. DOMAIN markets'[m].volumes = DOMAIN markets[m].volumes
  BY DEF Placed, AddVolume
<1>5. PICK new \in Nat : new = Len(bets) + 1 /\ DOMAIN bets = 1 .. new - 1
  BY BetTypes
<1>6. DOMAIN bets' = DOMAIN bets \cup {new} /\ bets'[new] = b /\ Len(bets') = new
      /\ \A k \in DOMAIN bets : bets'[k] = bets[k] /\ k < new
  BY <1>1, <1>5 DEF Grown
<1>7. Tables'
  <2>1. points' \in Seq(PointRow)
    <3>1. PICK n \in Nat : markets'[m].prices \in [1 .. n -> Price]
      BY <1>2, <1>3
    <3>2. m \in Nat
      BY MarketTypes
    <3>3. QED
      BY <1>2, <3>1, <3>2, PointsGrow DEF Tables
  <2>2. bets' \in Seq(BetRow)
    BY DEF Placed
  <2>3. QED
    BY <1>2, <2>1, <2>2 DEF Tables, BoardsInv
<1>8. BetsInv'
  <2>1. ASSUME NEW k \in DOMAIN bets'
        PROVE  /\ bets'[k].market \in DOMAIN markets'
               /\ bets'[k].outcome \in DOMAIN markets'[bets'[k].market].volumes
               /\ bets'[k].created < now'
               /\ bets'[k].status = "active" <=> markets'[bets'[k].market].status = "open"
    <3>1. CASE k = new
      BY <1>1, <1>2, <1>4, <1>6, <3>1
    <3>2. CASE k \in DOMAIN bets
      <4>1. bets[k].created < now + 1
        BY <1>2, <3>2, BetTypes DEF BetsInv
      <4>2. /\ bets[k].market \in DOMAIN markets
            /\ bets[k].outcome \in DOMAIN markets[bets[k].market].volumes
            /\ bets[k].status = "active" <=> markets[bets[k].market].status = "open"
        BY <3>2 DEF BetsInv
      <4>3. DOMAIN markets'[bets[k].market].volumes = DOMAIN markets[bets[k].market].volumes
            /\ markets'[bets[k].market].status = markets[bets[k].market].status
        BY <1>2, <1>4, <4>2
      <4>4. QED
        BY <1>2, <1>6, <3>2, <4>1, <4>2, <4>3
    <3>3. QED
      BY <1>6, <3>1, <3>2
  <2>2. ASSUME NEW j \in DOMAIN bets', NEW k \in DOMAIN bets', j < k
        PROVE  bets'[j].created < bets'[k].created
    <3>1. j \in DOMAIN bets
      BY <1>5, <1>6, <2>2
    <3>2. CASE k = new
      BY <1>1, <1>6, <3>1, <3>2 DEF BetsInv
    <3>3. CASE k \in DOMAIN bets
      BY <1>6, <2>2, <3>1, <3>3 DEF BetsInv
    <3>4. QED
      BY <1>6, <3>2, <3>3
  <2>3. Len(bets') < now'
    BY <1>2, <1>5, <1>6 DEF BetsInv
  <2>4. QED
    BY <2>1, <2>2, <2>3 DEF BetsInv
<1>9. MarketsInv'
  <2>1. \A j \in DOMAIN markets : /\ markets'[j].created = markets[j].created
                                  /\ markets'[j].winner = markets[j].winner
                                  /\ DOMAIN markets'[j].volumes = DOMAIN markets[j].volumes
                                  /\ markets[j].created \in Nat
    BY <1>2, <1>4, MarketTypes
  <2>2. \A j \in DOMAIN markets' : DOMAIN markets'[j].prices = DOMAIN markets'[j].volumes
    BY <1>3
  <2>3. \A j \in DOMAIN markets : markets[j].created < now + 1 /\ markets[j].winner \in {0} \cup DOMAIN markets[j].volumes
    BY <1>2, <2>1 DEF MarketsInv
  <2>4. \A l, j \in DOMAIN markets' : l < j => markets'[l].created < markets'[j].created
    BY <1>2, <2>1 DEF MarketsInv
  <2>5. QED
    BY <1>2, <2>1, <2>2, <2>3, <2>4 DEF MarketsInv
<1>10. QED
  BY <1>7, <1>8, <1>9

\* A market settled leaves the tables in order.
LEMMA ResolvedTables ==
  ASSUME NEW most, Fits(most), BoardsInv(most)', Tables, BetsInv, MarketsInv,
         NEW m \in DOMAIN markets, NEW winner, Resolved(m, winner)
  PROVE  Tables' /\ BetsInv' /\ MarketsInv'
<1>1. /\ now' = now + 1 /\ balance' \in [Users -> Nat] /\ now \in Nat /\ now >= 1 /\ points' = points
      /\ winner \in DOMAIN markets[m].volumes /\ DOMAIN markets' = DOMAIN markets
      /\ \A j \in DOMAIN markets \ {m} : markets'[j] = markets[j]
      /\ DOMAIN bets' = DOMAIN bets /\ Len(bets') = Len(bets) /\ bets' \in Seq(BetRow)
  BY DEF Resolved, Tables
<1>2. /\ markets'[m].status = "resolved" /\ markets'[m].winner = winner
      /\ markets'[m].created = markets[m].created /\ markets'[m].volumes = markets[m].volumes
      /\ markets'[m].prices = markets[m].prices
  <2>1. markets'[m] = [markets[m] EXCEPT !.status = "resolved", !.winner = winner] /\ markets[m] \in Rows
    BY MarketTypes DEF Resolved
  <2>2. QED
    BY <2>1 DEF Rows
<1>3. Tables'
  BY <1>1 DEF Tables, BoardsInv
<1>4. BetsInv'
  <2>1. \A k \in DOMAIN bets :
          /\ bets'[k].market = bets[k].market /\ bets'[k].outcome = bets[k].outcome
          /\ bets'[k].created = bets[k].created /\ bets[k].created \in Nat
          /\ bets[k].market # m => bets'[k] = bets[k]
          /\ bets[k].market = m => bets'[k].status \in {"won", "lost"}
    BY BetTypes DEF Resolved
  <2>2. ASSUME NEW k \in DOMAIN bets
        PROVE  /\ bets'[k].market \in DOMAIN markets'
               /\ bets'[k].outcome \in DOMAIN markets'[bets'[k].market].volumes
               /\ bets'[k].created < now'
               /\ bets'[k].status = "active" <=> markets'[bets'[k].market].status = "open"
    <3>1. /\ bets[k].market \in DOMAIN markets /\ bets[k].outcome \in DOMAIN markets[bets[k].market].volumes
          /\ bets[k].created < now
          /\ bets[k].status = "active" <=> markets[bets[k].market].status = "open"
      BY DEF BetsInv
    <3>2. CASE bets[k].market = m
      BY <1>1, <1>2, <2>1, <3>1, <3>2
    <3>3. CASE bets[k].market # m
      BY <1>1, <2>1, <3>1, <3>3
    <3>4. QED
      BY <3>2, <3>3
  <2>3. \A j, k \in DOMAIN bets : j < k => bets'[j].created < bets'[k].created
    BY <2>1 DEF BetsInv
  <2>4. Len(bets') < now'
    <3>1. Len(bets) \in Nat /\ Len(bets) < now
      BY BetTypes DEF BetsInv
    <3>2. QED
      BY <1>1, <3>1
  <2>5. QED
    BY <1>1, <2>2, <2>3, <2>4 DEF BetsInv
<1>5. MarketsInv'
  <2>1. \A j \in DOMAIN markets :
          /\ markets'[j].created = markets[j].created /\ markets[j].created \in Nat
          /\ markets'[j].volumes = markets[j].volumes /\ markets'[j].prices = markets[j].prices
          /\ markets'[j].winner = markets[j].winner \/ (j = m /\ markets'[j].winner = winner)
    BY <1>1, <1>2, MarketTypes
  <2>2. \A j \in DOMAIN markets : /\ markets'[j].created < now'
                                  /\ markets'[j].winner \in {0} \cup DOMAIN markets'[j].volumes
                                  /\ DOMAIN markets'[j].prices = DOMAIN markets'[j].volumes
    BY <1>1, <2>1 DEF MarketsInv
  <2>3. \A l, j \in DOMAIN markets : l < j => markets'[l].created < markets'[j].created
    BY <2>1 DEF MarketsInv
  <2>4. QED
    BY <1>1, <2>2, <2>3 DEF MarketsInv
<1>6. QED
  BY <1>3, <1>4, <1>5

\* Every step is one of the writes, or a reader's, which changes only its walk.
LEMMA Steps ==
  ASSUME NEW most, Fits(most), BoardsInv(most), Tables, MarketsInv, [Next]_vars
  PROVE  \/ \E n \in OutcomeCounts : \E closes \in {NoDeadline, now + BettingTime} : Created(n, closes)
         \/ \E u \in Users : \E m \in DOMAIN markets : \E i \in DOMAIN markets[m].volumes :
              \E amount \in StakeSizes : Placed(u, m, i, amount)
         \/ \E m \in DOMAIN markets : \E winner \in DOMAIN markets[m].volumes : Resolved(m, winner)
         \/ UNCHANGED <<now, balance, markets, bets, points>>
<1>1. ASSUME NEW n \in OutcomeCounts, NEW closes \in {NoDeadline, now + BettingTime}, CreateMarket(n, closes)
      PROVE  Created(n, closes)
  BY <1>1, CreateEffect
<1>2. ASSUME NEW u \in Users, NEW m \in DOMAIN markets, NEW amount \in StakeSizes,
             NEW i \in Outcomes(m), Place(u, m, i, amount)
      PROVE  Placed(u, m, i, amount) /\ i \in DOMAIN markets[m].volumes
  <2>1. DOMAIN markets[m].prices = DOMAIN markets[m].volumes
    BY DEF MarketsInv
  <2>2. QED
    BY <1>2, <2>1, PlaceEffect DEF Outcomes
<1>3. ASSUME NEW m \in DOMAIN markets, NEW winner \in Outcomes(m), Settle(m, winner)
      PROVE  Resolved(m, winner) /\ winner \in DOMAIN markets[m].volumes
  BY <1>3, SettleEffect DEF Outcomes
<1>4. ASSUME NEW w \in Walks, StartWalk(w) PROVE UNCHANGED <<now, balance, markets, bets, points>>
  BY <1>4 DEF StartWalk
<1>5. CASE ReadPage
  BY <1>5 DEF ReadPage
<1>6. CASE UNCHANGED vars
  BY <1>6 DEF vars
<1>7. QED
  BY <1>1, <1>2, <1>3, <1>4, <1>5, <1>6 DEF Next

\* The tables are in order in every state.
InOrderInv(most) == BoardsInv(most) /\ Tables /\ BetsInv /\ MarketsInv

\* Every step keeps the tables in order.
LEMMA NextInOrder ==
  ASSUME NEW most, Fits(most), InOrderInv(most), [Next]_vars
  PROVE  InOrderInv(most)'
<1>1. BoardsInv(most) /\ Tables /\ BetsInv /\ MarketsInv
  BY DEF InOrderInv
<1>2. BoardsInv(most)'
  BY <1>1, NextBoards DEF BoardsStep
<1>3. CASE \E n \in OutcomeCounts : \E closes \in {NoDeadline, now + BettingTime} : Created(n, closes)
  BY <1>1, <1>2, <1>3, CreatedTables DEF InOrderInv
<1>4. CASE \E u \in Users : \E m \in DOMAIN markets : \E i \in DOMAIN markets[m].volumes :
             \E amount \in StakeSizes : Placed(u, m, i, amount)
  BY <1>1, <1>2, <1>4, PlacedTables DEF InOrderInv
<1>5. CASE \E m \in DOMAIN markets : \E winner \in DOMAIN markets[m].volumes : Resolved(m, winner)
  BY <1>1, <1>2, <1>5, ResolvedTables DEF InOrderInv
<1>6. CASE UNCHANGED <<now, balance, markets, bets, points>>
  BY <1>1, <1>2, <1>6 DEF InOrderInv, Tables, BetsInv, MarketsInv
<1>7. QED
  BY <1>1, <1>3, <1>4, <1>5, <1>6, Steps

\* They are in order from the start.
LEMMA InOrderAlways ==
  ASSUME NEW CONSTANT most, LedgerFits, Fits(most)
  PROVE  Spec => []InOrderInv(most)
<1>1. Init => InOrderInv(most)
  <2>1. SUFFICES ASSUME Init PROVE InOrderInv(most)
    OBVIOUS
  <2>2. BoardsInv(most)
    BY <2>1 DEF Init, BoardsInv, Fits
  <2>3. Tables /\ BetsInv /\ MarketsInv
    BY <2>1, LedgerAssumption DEF Init, Tables, BetsInv, MarketsInv
  <2>4. QED
    BY <2>2, <2>3 DEF InOrderInv
<1>2. InOrderInv(most) /\ [Next]_vars => InOrderInv(most)'
  BY NextInOrder
<1>3. QED
  BY <1>1, <1>2, PTL DEF Spec

-----------------------------------------------------------------------------
(* Bet listings *)

\* The rows a listing is of.
Kept(scope, filter) == {k \in scope : Matches(filter, bets[k].status)}

\* Which of them comes first, by what the listing is sorted by.
BetPairs(S, sort) == {p \in S \X S : BetBefore(sort, bets[p[1]], bets[p[2]])}

\* Newest first, or the largest and then the newest, is a strict total order.
LEMMA BetOrder ==
  ASSUME Tables, BetsInv, NEW S, S \subseteq DOMAIN bets, NEW sort \in BetSorts
  PROVE  StrictOrder(S, BetPairs(S, sort)) /\ WeakOrder(S, BetPairs(S, sort))
<1>1. PICK f, g : /\ f = [k \in DOMAIN bets |-> bets[k].amount]
                  /\ g = [k \in DOMAIN bets |-> bets[k].created]
  OBVIOUS
<1>2. \A k \in S : f[k] = bets[k].amount /\ g[k] = bets[k].created /\ f[k] \in Nat /\ g[k] \in Nat
  BY <1>1, BetTypes
<1>3. \A j, k \in S : j # k => g[j] # g[k]
  <2>1. SUFFICES ASSUME NEW j \in S, NEW k \in S, j # k PROVE g[j] # g[k]
    OBVIOUS
  <2>2. j \in DOMAIN bets /\ k \in DOMAIN bets /\ (j < k \/ k < j)
    <3>1. j \in DOMAIN bets /\ k \in DOMAIN bets /\ \A x \in DOMAIN bets : x \in Nat
      BY BetTypes
    <3>2. j \in Nat /\ k \in Nat
      BY <3>1
    <3>3. QED
      BY <2>1, <3>1, <3>2
  <2>3. g[j] < g[k] \/ g[k] < g[j]
    BY <1>2, <2>2 DEF BetsInv
  <2>4. QED
    BY <1>2, <2>3
<1>4. \A j, k \in S : <<j, k>> \in BetPairs(S, sort) <=>
        \/ sort = "popular" /\ f[j] > f[k]
        \/ (sort = "newest" \/ f[j] = f[k]) /\ g[j] > g[k]
  BY <1>2 DEF BetPairs, BetBefore
<1>5. sort = "newest" \/ sort = "popular"
  BY DEF BetSorts
<1>6. CASE sort = "newest"
  <2>1. \A j, k \in S : <<j, k>> \in BetPairs(S, sort) <=> g[j] > g[k]
    BY <1>4, <1>6
  <2>2. StrictOrder(S, BetPairs(S, sort))
    BY <1>2, <1>3, <2>1 DEF StrictOrder
  <2>3. WeakOrder(S, BetPairs(S, sort))
    BY <1>2, <2>1 DEF WeakOrder
  <2>4. QED
    BY <2>2, <2>3
<1>7. CASE sort = "popular"
  <2>1. \A j, k \in S : <<j, k>> \in BetPairs(S, sort) <=> f[j] > f[k] \/ (f[j] = f[k] /\ g[j] > g[k])
    BY <1>4, <1>7
  <2>2. StrictOrder(S, BetPairs(S, sort))
    BY <1>2, <1>3, <2>1 DEF StrictOrder
  <2>3. WeakOrder(S, BetPairs(S, sort))
    BY <1>2, <2>1 DEF WeakOrder
  <2>4. QED
    BY <2>2, <2>3
<1>8. QED
  BY <1>5, <1>6, <1>7

\* The in-memory listing is the enumeration of the rows it keeps.
LEMMA MemBetsListing ==
  ASSUME Tables, BetsInv, NEW scope, scope \subseteq DOMAIN bets, NEW filter, NEW sort \in BetSorts,
         NEW S, S = Kept(scope, filter), NEW e, e = MemBets(bets, scope, filter, sort)
  PROVE  /\ S \in SUBSET Int /\ IsFiniteSet(S)
         /\ Enumerates(e, S, BetPairs(S, sort)) /\ Lists(e, S, BetPairs(S, sort))
<1>1. S \subseteq DOMAIN bets /\ S \in SUBSET Int /\ IsFiniteSet(S)
  <2>1. PICK n \in Nat : DOMAIN bets = 1 .. n
    BY BetTypes
  <2>2. S \in SUBSET (1 .. n) /\ IsFiniteSet(1 .. n)
    BY <2>1, FS_Interval DEF Kept
  <2>3. IsFiniteSet(S)
    BY <2>2, FS_Subset
  <2>4. QED
    BY <2>1, <2>2, <2>3
<1>2. PICK B : B = BetPairs(S, sort) /\ StrictOrder(S, B) /\ WeakOrder(S, B)
  BY <1>1, BetOrder
<1>3. \A k \in S : {j \in S : BetBefore(sort, bets[j], bets[k])
                              \/ (~BetBefore(sort, bets[k], bets[j]) /\ j < k)} = Ahead(S, Stable(S, B), k)
  <2>1. \A j, k \in S : <<j, k>> \in Stable(S, B) <=> <<j, k>> \in B \/ (<<k, j>> \notin B /\ j < k)
    BY DEF Stable
  <2>2. \A j, k \in S : <<j, k>> \in B <=> BetBefore(sort, bets[j], bets[k])
    BY <1>2 DEF BetPairs
  <2>3. QED
    BY <2>1, <2>2 DEF Ahead
<1>4. e = Enumeration(S, Stable(S, B))
  <2>1. e = [n \in 1 .. Cardinality(S) |-> CHOOSE i \in S : <<n, i>> \in
               {<<Cardinality({j \in S : BetBefore(sort, bets[j], bets[k])
                                          \/ (~BetBefore(sort, bets[k], bets[j]) /\ j < k)}) + 1, k>> : k \in S}]
    BY DEF MemBets, StableSort, InOrder, Kept
  <2>2. {<<Cardinality({j \in S : BetBefore(sort, bets[j], bets[k])
                                  \/ (~BetBefore(sort, bets[k], bets[j]) /\ j < k)}) + 1, k>> : k \in S}
        = {<<Cardinality(Ahead(S, Stable(S, B), k)) + 1, k>> : k \in S}
    BY <1>3
  <2>3. QED
    BY <2>1, <2>2 DEF Enumeration
<1>5. Enumerates(e, S, Stable(S, B)) /\ Lists(e, S, B)
  BY <1>1, <1>2, <1>4, StableListing
<1>6. \A j, k \in S : <<j, k>> \in Stable(S, B) => <<j, k>> \in B
  <2>1. SUFFICES ASSUME NEW j \in S, NEW k \in S, <<j, k>> \in Stable(S, B) PROVE <<j, k>> \in B
    OBVIOUS
  <2>2. <<j, k>> \in B \/ (<<k, j>> \notin B /\ j < k)
    BY <2>1 DEF Stable
  <2>3. j < k => j # k
    <3>1. j \in Int /\ k \in Int
      BY <1>1
    <3>2. QED
      BY <3>1
  <2>4. QED
    BY <1>2, <2>2, <2>3 DEF StrictOrder
<1>7. Enumerates(e, S, B)
  BY <1>5, <1>6 DEF Enumerates
<1>8. QED
  BY <1>1, <1>2, <1>5, <1>7

\* A listing is a sequence.
LEMMA ListingSequence ==
  ASSUME NEW S, IsFiniteSet(S), NEW B, NEW e, Lists(e, S, B)
  PROVE  e \in Seq(S) /\ Len(e) = Cardinality(S) /\ Cardinality(S) \in Nat /\ DOMAIN e = 1 .. Cardinality(S)
<1>1. PICK c \in Nat : c = Cardinality(S)
  BY FS_CardinalityType
<1>2. e \in [1 .. c -> S]
  BY <1>1 DEF Lists
<1>3. QED
  BY <1>1, <1>2

\* Every row once, in an order that the SQL may return them in.
BetsListedAlike(scope, filter, sort) ==
  LET listing == MemBets(bets, scope, filter, sort) IN
  /\ ToSet(listing) = PgBetRows(bets, scope, filter)
  /\ IsInjective(listing)
  /\ Ordered(listing, LAMBDA j, k : BetBefore(sort, bets[j], bets[k]))

\* The two listings of any scope agree.
LEMMA BetListings ==
  ASSUME Tables, BetsInv, NEW scope, scope \subseteq DOMAIN bets, NEW filter \in BetFilters, NEW sort \in BetSorts
  PROVE  BetsListedAlike(scope, filter, sort)
<1>1. PICK S, e : S = Kept(scope, filter) /\ e = MemBets(bets, scope, filter, sort)
  OBVIOUS
<1>2. PICK B : B = BetPairs(S, sort) /\ IsFiniteSet(S) /\ Lists(e, S, B)
  BY <1>1, MemBetsListing
<1>3. e \in Seq(S) /\ Len(e) = Cardinality(S) /\ Cardinality(S) \in Nat /\ DOMAIN e = 1 .. Cardinality(S)
  BY <1>2, ListingSequence
<1>4. ToSet(e) = S
  <2>1. \A n \in DOMAIN e : e[n] \in S
    BY <1>2 DEF Lists
  <2>2. \A k \in S : \E n \in DOMAIN e : e[n] = k
    BY <1>2 DEF Lists
  <2>3. QED
    BY <2>1, <2>2 DEF ToSet
<1>5. S = PgBetRows(bets, scope, filter)
  <2>1. \A k \in scope : bets[k].status \in {"active", "won", "lost"}
    BY BetTypes
  <2>2. filter \in {"any", "settled", "active", "won", "lost", "refunded"}
    BY DEF BetFilters, BetStatuses
  <2>3. QED
    BY <1>1, <2>1, <2>2 DEF Kept, Matches, PgBetRows, BetStatuses
<1>6. IsInjective(e)
  <2>1. \A n1, n2 \in DOMAIN e : n1 < n2 => e[n1] # e[n2]
    BY <1>2 DEF Lists
  <2>2. \A n1, n2 \in DOMAIN e : n1 # n2 => n1 < n2 \/ n2 < n1
    BY <1>3
  <2>3. QED
    BY <2>1, <2>2 DEF IsInjective
<1>7. Ordered(e, LAMBDA j, k : BetBefore(sort, bets[j], bets[k]))
  <2>1. SUFFICES ASSUME NEW n \in 1 .. Len(e) - 1 PROVE ~BetBefore(sort, bets[e[n + 1]], bets[e[n]])
    BY DEF Ordered
  <2>2. n \in DOMAIN e /\ n + 1 \in DOMAIN e /\ n < n + 1
    BY <1>3
  <2>3. <<e[n + 1], e[n]>> \notin B /\ e[n + 1] \in S /\ e[n] \in S
    BY <1>2, <2>2 DEF Lists
  <2>4. QED
    BY <1>2, <2>3 DEF BetPairs
<1>8. QED
  BY <1>1, <1>4, <1>5, <1>6, <1>7 DEF BetsListedAlike

-----------------------------------------------------------------------------
(* Market lists *)

MemPairs(S, sort) == {p \in S \X S : MemMarketBefore(sort, markets[p[1]], markets[p[2]])}
PgPairs(S, sort) == {p \in S \X S : PgMarketBefore(sort, markets[p[1]], markets[p[2]])}

\* What a market list is sorted by.
KeyOf(sort, m) ==
  CASE sort = "popular" -> Popularity(m) [] sort = "volume" -> m.total_volume
    [] sort = "newest" -> m.created [] sort = "closing_soon" -> m.closes

\* Both orders are by the key; the SQL one then by the creation.
LEMMA MarketOrders ==
  ASSUME Tables, NEW S, S \subseteq DOMAIN markets, NEW sort \in MarketSorts
  PROVE  /\ WeakOrder(S, MemPairs(S, sort)) /\ WeakOrder(S, PgPairs(S, sort))
         /\ MemPairs(S, sort) \subseteq PgPairs(S, sort)
         /\ \A j, k \in S : <<j, k>> \notin MemPairs(S, sort) /\ <<k, j>> \notin MemPairs(S, sort) =>
              KeyOf(sort, markets[j]) = KeyOf(sort, markets[k])
<1>1. PICK P, V, C, D :
        /\ P = [m \in DOMAIN markets |-> Popularity(markets[m])]
        /\ V = [m \in DOMAIN markets |-> markets[m].total_volume]
        /\ C = [m \in DOMAIN markets |-> markets[m].created]
        /\ D = [m \in DOMAIN markets |-> markets[m].closes]
  OBVIOUS
<1>2. \A m \in S : /\ P[m] = Popularity(markets[m]) /\ V[m] = markets[m].total_volume
                   /\ C[m] = markets[m].created /\ D[m] = markets[m].closes
  BY <1>1
<1>3. \A m \in S : P[m] \in Int /\ V[m] \in Int /\ C[m] \in Nat /\ D[m] \in Nat
  <2>1. SUFFICES ASSUME NEW m \in S PROVE P[m] \in Int /\ V[m] \in Int /\ C[m] \in Nat /\ D[m] \in Nat
    OBVIOUS
  <2>2. /\ markets[m].total_volume \in Int /\ markets[m].participants \in Int
        /\ markets[m].created \in Nat /\ markets[m].closes \in Nat
    BY MarketTypes
  <2>3. Popularity(markets[m]) \in Int
    BY <2>2 DEF Popularity
  <2>4. QED
    BY <1>2, <2>2, <2>3
<1>4. PICK A, B : A = MemPairs(S, sort) /\ B = PgPairs(S, sort)
  OBVIOUS
<1>5. \A j, k \in S : <<j, k>> \in A <=>
        \/ sort = "popular" /\ P[j] > P[k]
        \/ sort = "newest" /\ C[j] > C[k]
        \/ sort = "volume" /\ V[j] > V[k]
        \/ sort = "closing_soon" /\ D[j] # 0 /\ (D[k] = 0 \/ D[j] < D[k])
  BY <1>2, <1>4 DEF MemPairs, MemMarketBefore, ClosesBefore, NoDeadline
<1>6. \A j, k \in S : <<j, k>> \in B <=>
        \/ sort = "popular" /\ P[j] > P[k]
        \/ sort = "volume" /\ V[j] > V[k]
        \/ sort = "closing_soon" /\ D[j] # 0 /\ (D[j] < D[k] \/ D[k] = 0)
        \/ /\ C[j] > C[k]
           /\ sort = "popular" => P[j] = P[k]
           /\ sort = "volume" => V[j] = V[k]
           /\ sort = "closing_soon" => D[j] = D[k]
  BY <1>2, <1>4 DEF PgPairs, PgMarketBefore, NoDeadline
<1>7. \A m \in S : KeyOf(sort, markets[m]) =
        CASE sort = "popular" -> P[m] [] sort = "volume" -> V[m]
          [] sort = "newest" -> C[m] [] sort = "closing_soon" -> D[m]
  BY <1>2 DEF KeyOf
<1>8. ASSUME NEW F, \A m \in S : F[m] \in Int /\ KeyOf(sort, markets[m]) = F[m],
             \A j, k \in S : <<j, k>> \in A <=> F[j] > F[k],
             \A j, k \in S : <<j, k>> \in B <=> F[j] > F[k] \/ (C[j] > C[k] /\ F[j] = F[k])
      PROVE  /\ WeakOrder(S, A) /\ WeakOrder(S, B) /\ A \subseteq B
             /\ \A j, k \in S : <<j, k>> \notin A /\ <<k, j>> \notin A =>
                  KeyOf(sort, markets[j]) = KeyOf(sort, markets[k])
  <2>1. WeakOrder(S, A)
    BY <1>8 DEF WeakOrder
  <2>2. WeakOrder(S, B)
    BY <1>3, <1>8 DEF WeakOrder
  <2>3. A \subseteq B
    <3>1. A \subseteq S \X S
      BY <1>4 DEF MemPairs
    <3>2. QED
      BY <1>8, <3>1
  <2>4. QED
    BY <1>8, <2>1, <2>2, <2>3
<1>9. CASE sort = "popular"
  <2>1. \A j, k \in S : <<j, k>> \in A <=> P[j] > P[k]
    BY <1>5, <1>9
  <2>2. \A j, k \in S : <<j, k>> \in B <=> P[j] > P[k] \/ (C[j] > C[k] /\ P[j] = P[k])
    BY <1>6, <1>9
  <2>3. \A m \in S : KeyOf(sort, markets[m]) = P[m]
    BY <1>7, <1>9
  <2>4. QED
    BY <1>3, <1>4, <1>8, <2>1, <2>2, <2>3
<1>10. CASE sort = "volume"
  <2>1. \A j, k \in S : <<j, k>> \in A <=> V[j] > V[k]
    BY <1>5, <1>10
  <2>2. \A j, k \in S : <<j, k>> \in B <=> V[j] > V[k] \/ (C[j] > C[k] /\ V[j] = V[k])
    BY <1>6, <1>10
  <2>3. \A m \in S : KeyOf(sort, markets[m]) = V[m]
    BY <1>7, <1>10
  <2>4. QED
    BY <1>3, <1>4, <1>8, <2>1, <2>2, <2>3
<1>11. CASE sort = "newest"
  <2>1. \A j, k \in S : <<j, k>> \in A <=> C[j] > C[k]
    BY <1>5, <1>11
  <2>2. \A j, k \in S : <<j, k>> \in B <=> C[j] > C[k] \/ (C[j] > C[k] /\ C[j] = C[k])
    BY <1>6, <1>11
  <2>3. \A m \in S : KeyOf(sort, markets[m]) = C[m]
    BY <1>7, <1>11
  <2>4. QED
    BY <1>3, <1>4, <1>8, <2>1, <2>2, <2>3
<1>12. CASE sort = "closing_soon"
  <2>1. \A j, k \in S : <<j, k>> \in A <=> D[j] # 0 /\ (D[k] = 0 \/ D[j] < D[k])
    BY <1>5, <1>12
  <2>2. \A j, k \in S : <<j, k>> \in B <=>
          \/ D[j] # 0 /\ (D[j] < D[k] \/ D[k] = 0)
          \/ C[j] > C[k] /\ D[j] = D[k]
    BY <1>6, <1>12
  <2>3. \A m \in S : KeyOf(sort, markets[m]) = D[m]
    BY <1>7, <1>12
  <2>4. WeakOrder(S, A)
    BY <1>3, <2>1 DEF WeakOrder
  <2>5. WeakOrder(S, B)
    BY <1>3, <2>2 DEF WeakOrder
  <2>6. A \subseteq B
    <3>1. A \subseteq S \X S
      BY <1>4 DEF MemPairs
    <3>2. QED
      BY <2>1, <2>2, <3>1
  <2>7. \A j, k \in S : <<j, k>> \notin A /\ <<k, j>> \notin A => D[j] = D[k]
    BY <1>3, <2>1
  <2>8. QED
    BY <1>4, <2>3, <2>4, <2>5, <2>6, <2>7
<1>13. QED
  BY <1>9, <1>10, <1>11, <1>12 DEF MarketSorts

\* Each list is the enumeration of the markets of the status.
LEMMA MarketListings ==
  ASSUME Tables, NEW status, NEW sort \in MarketSorts, NEW S, S = OfStatus(markets, status)
  PROVE  /\ S \subseteq DOMAIN markets /\ IsFiniteSet(S)
         /\ Lists(MemMarkets(markets, status, sort), S, MemPairs(S, sort))
         /\ Lists(PgMarkets(markets, status, sort), S, PgPairs(S, sort))
<1>1. S \subseteq DOMAIN markets /\ S \in SUBSET Int /\ IsFiniteSet(S)
  <2>1. PICK n \in Nat : DOMAIN markets = 1 .. n
    BY MarketTypes
  <2>2. S \in SUBSET (1 .. n) /\ IsFiniteSet(1 .. n)
    BY <2>1, FS_Interval DEF OfStatus
  <2>3. IsFiniteSet(S)
    BY <2>2, FS_Subset
  <2>4. QED
    BY <2>1, <2>2, <2>3
<1>2. PICK A, B : A = MemPairs(S, sort) /\ WeakOrder(S, A) /\ B = PgPairs(S, sort) /\ WeakOrder(S, B)
  BY <1>1, MarketOrders
<1>3. MemMarkets(markets, status, sort) = Enumeration(S, Stable(S, A))
  <2>1. \A k \in S : {j \in S : MemMarketBefore(sort, markets[j], markets[k])
                                \/ (~MemMarketBefore(sort, markets[k], markets[j]) /\ j < k)}
                     = Ahead(S, Stable(S, A), k)
    <3>1. \A j, k \in S : <<j, k>> \in Stable(S, A) <=> <<j, k>> \in A \/ (<<k, j>> \notin A /\ j < k)
      BY DEF Stable
    <3>2. \A j, k \in S : <<j, k>> \in A <=> MemMarketBefore(sort, markets[j], markets[k])
      BY <1>2 DEF MemPairs
    <3>3. QED
      BY <3>1, <3>2 DEF Ahead
  <2>2. MemMarkets(markets, status, sort) =
          [n \in 1 .. Cardinality(S) |-> CHOOSE i \in S : <<n, i>> \in
             {<<Cardinality({j \in S : MemMarketBefore(sort, markets[j], markets[k])
                              \/ (~MemMarketBefore(sort, markets[k], markets[j]) /\ j < k)}) + 1, k>> : k \in S}]
    BY DEF MemMarkets, StableSort, InOrder
  <2>3. {<<Cardinality({j \in S : MemMarketBefore(sort, markets[j], markets[k])
                          \/ (~MemMarketBefore(sort, markets[k], markets[j]) /\ j < k)}) + 1, k>> : k \in S}
        = {<<Cardinality(Ahead(S, Stable(S, A), k)) + 1, k>> : k \in S}
    BY <2>1
  <2>4. QED
    BY <2>2, <2>3 DEF Enumeration
<1>4. PgMarkets(markets, status, sort) = Enumeration(S, Stable(S, B))
  <2>1. \A k \in S : {j \in S : PgMarketBefore(sort, markets[j], markets[k])
                                \/ (~PgMarketBefore(sort, markets[k], markets[j]) /\ j < k)}
                     = Ahead(S, Stable(S, B), k)
    <3>1. \A j, k \in S : <<j, k>> \in Stable(S, B) <=> <<j, k>> \in B \/ (<<k, j>> \notin B /\ j < k)
      BY DEF Stable
    <3>2. \A j, k \in S : <<j, k>> \in B <=> PgMarketBefore(sort, markets[j], markets[k])
      BY <1>2 DEF PgPairs
    <3>3. QED
      BY <3>1, <3>2 DEF Ahead
  <2>2. PgMarkets(markets, status, sort) =
          [n \in 1 .. Cardinality(S) |-> CHOOSE i \in S : <<n, i>> \in
             {<<Cardinality({j \in S : PgMarketBefore(sort, markets[j], markets[k])
                              \/ (~PgMarketBefore(sort, markets[k], markets[j]) /\ j < k)}) + 1, k>> : k \in S}]
    BY DEF PgMarkets, StableSort, InOrder
  <2>3. {<<Cardinality({j \in S : PgMarketBefore(sort, markets[j], markets[k])
                          \/ (~PgMarketBefore(sort, markets[k], markets[j]) /\ j < k)}) + 1, k>> : k \in S}
        = {<<Cardinality(Ahead(S, Stable(S, B), k)) + 1, k>> : k \in S}
    BY <2>1
  <2>4. QED
    BY <2>2, <2>3 DEF Enumeration
<1>5. QED
  BY <1>1, <1>2, <1>3, <1>4, StableListing

\* The members of a listing.
LEMMA ListingSet ==
  ASSUME NEW S, NEW B, NEW e, Lists(e, S, B)
  PROVE  ToSet(e) = S
<1>1. (\A n \in DOMAIN e : e[n] \in S) /\ \A k \in S : \E n \in DOMAIN e : e[n] = k
  BY DEF Lists
<1>2. QED
  BY <1>1 DEF ToSet

\* The two market lists have the same markets, and the same key in every place.
LEMMA MarketListsAgree ==
  ASSUME Tables, NEW status, NEW sort \in MarketSorts,
         NEW mem, mem = MemMarkets(markets, status, sort), NEW pg, pg = PgMarkets(markets, status, sort)
  PROVE  /\ ToSet(mem) = ToSet(pg)
         /\ [n \in DOMAIN mem |-> KeyOf(sort, markets[mem[n]])] = [n \in DOMAIN pg |-> KeyOf(sort, markets[pg[n]])]
<1>1. PICK S : S = OfStatus(markets, status)
  OBVIOUS
<1>2. S \subseteq DOMAIN markets /\ IsFiniteSet(S)
      /\ Lists(mem, S, MemPairs(S, sort)) /\ Lists(pg, S, PgPairs(S, sort))
  BY <1>1, MarketListings
<1>3. PICK A : A = MemPairs(S, sort) /\ WeakOrder(S, A) /\ A \subseteq PgPairs(S, sort)
               /\ \A j, k \in S : <<j, k>> \notin A /\ <<k, j>> \notin A =>
                    KeyOf(sort, markets[j]) = KeyOf(sort, markets[k])
  BY <1>2, MarketOrders
<1>4. Lists(mem, S, A) /\ Lists(pg, S, A)
  <2>1. ASSUME NEW e, NEW B, Lists(e, S, B), A \subseteq B PROVE Lists(e, S, A)
    BY <2>1 DEF Lists
  <2>2. QED
    BY <1>2, <1>3, <2>1
<1>5. DOMAIN mem = DOMAIN pg
  BY <1>4 DEF Lists
<1>6. ASSUME NEW n \in DOMAIN mem
      PROVE  KeyOf(sort, markets[mem[n]]) = KeyOf(sort, markets[pg[n]])
  <2>1. <<mem[n], pg[n]>> \notin A /\ <<pg[n], mem[n]>> \notin A
    BY <1>2, <1>3, <1>4, <1>5, SharedPlaces
  <2>2. mem[n] \in S /\ pg[n] \in S
    BY <1>4, <1>5 DEF Lists
  <2>3. QED
    BY <1>3, <2>1, <2>2
<1>7. ToSet(mem) = S /\ ToSet(pg) = S
  BY <1>4, ListingSet
<1>8. QED
  BY <1>5, <1>6, <1>7

\* The featured market: the last of the most popular is the newest.
LEMMA FeaturedAgree ==
  ASSUME Tables, MarketsInv
  PROVE  MemFeatured(markets) = PgFeatured(markets)
<1>1. \A k, j \in DOMAIN markets :
        /\ Popularity(markets[k]) \in Int /\ markets[k].created \in Nat /\ k \in Nat
        /\ j < k => markets[j].created < markets[k].created
  <2>1. \A k \in DOMAIN markets : Popularity(markets[k]) \in Int
    BY MarketTypes DEF Popularity
  <2>2. QED
    BY <2>1, MarketTypes DEF MarketsInv
<1>2. ASSUME NEW k \in DOMAIN markets, NEW j \in DOMAIN markets
      PROVE  \/ Popularity(markets[j]) < Popularity(markets[k])
             \/ Popularity(markets[j]) = Popularity(markets[k]) /\ j <= k
             <=> ~PgMarketBefore("popular", markets[j], markets[k])
  <2>1. PICK p, q, c, d : /\ p = Popularity(markets[j]) /\ q = Popularity(markets[k])
                          /\ c = markets[j].created /\ d = markets[k].created
    OBVIOUS
  <2>2. /\ p \in Int /\ q \in Int /\ c \in Nat /\ d \in Nat /\ j \in Nat /\ k \in Nat
        /\ (j < k => c < d) /\ (k < j => d < c) /\ (j = k => c = d)
    BY <1>1, <2>1
  <2>3. PgMarketBefore("popular", markets[j], markets[k]) <=> p > q \/ (c > d /\ p = q)
    BY <2>1 DEF PgMarketBefore
  <2>4. p < q \/ (p = q /\ j <= k) <=> ~(p > q \/ (c > d /\ p = q))
    BY <2>2
  <2>5. QED
    BY <2>1, <2>3, <2>4
<1>3. QED
  BY <1>2 DEF MemFeatured, PgFeatured

-----------------------------------------------------------------------------
(* Statistics and positions.  The in-memory repositories fold over the bets, a *)
(* recursion over the subsets of their places that takes the last place first; *)
(* what it comes to for a subset solves it, and nothing else does.             *)

\* The last of some places.
LEMMA MaxOf ==
  ASSUME NEW n \in Nat, NEW s \in SUBSET (1 .. n), s # {}
  PROVE  Max(s) \in s /\ \A y \in s : y <= Max(s)
<1>1. PICK T : T = {m \in Nat : \A y \in s : y <= m}
  OBVIOUS
<1>2. n \in T /\ T \subseteq Nat
  BY <1>1
<1>3. PICK m \in T : \A k \in T : m <= k
  BY <1>2, Least
<1>4. m \in s
  <2>1. SUFFICES ASSUME m \notin s PROVE FALSE
    OBVIOUS
  <2>0. PICK z : z \in s
    OBVIOUS
  <2>a. z \in 1 .. n
    BY <2>0
  <2>2. PICK y \in s : y \in Nat /\ y >= 1 /\ y <= m
    BY <1>1, <1>3, <2>0, <2>a
  <2>3. m \in Nat /\ m - 1 \in Nat
    BY <1>2, <1>3, <2>2
  <2>4. \A x \in s : x <= m - 1
    <3>1. SUFFICES ASSUME NEW x \in s PROVE x <= m - 1
      OBVIOUS
    <3>2. x \in Nat /\ x <= m /\ x # m
      BY <1>1, <1>3, <2>1
    <3>3. QED
      BY <2>3, <3>2
  <2>5. m - 1 \in T
    BY <1>1, <2>3, <2>4
  <2>6. m <= m - 1
    BY <1>3, <2>5
  <2>7. QED
    BY <2>3, <2>6
<1>5. \A y \in s : y <= m
  BY <1>1, <1>3
<1>6. QED
  BY <1>4, <1>5 DEF Max

OwnBets(s, u) == {k \in s : bets[k].user = u}
Amounts == [k \in DOMAIN bets |-> bets[k].amount]

NoStats == [total_bets |-> 0, wins |-> 0, losses |-> 0, total_volume |-> 0]

\* The statistics of the bets in some places.
StatsOf(s, u) ==
  [total_bets |-> Cardinality(OwnBets(s, u)),
   wins |-> Cardinality({k \in OwnBets(s, u) : bets[k].status = "won"}),
   losses |-> Cardinality({k \in OwnBets(s, u) : bets[k].status = "lost"}),
   total_volume |-> SumFunctionOnSet(Amounts, OwnBets(s, u))]

\* One bet more.
Counted(b, s, u) ==
  IF b.user # u THEN s
  ELSE [total_bets |-> s.total_bets + 1,
        wins |-> s.wins + (IF b.status = "won" THEN 1 ELSE 0),
        losses |-> s.losses + (IF b.status = "lost" THEN 1 ELSE 0),
        total_volume |-> s.total_volume + b.amount]

StatsFold(it, u) ==
  it = [s \in SUBSET DOMAIN bets |->
          IF s = {} THEN NoStats ELSE Counted(bets[Max(s)], it[s \ {Max(s)}], u)]

\* What one bet more does to the statistics.
LEMMA StatsStep ==
  ASSUME Tables, NEW u, NEW s \in SUBSET DOMAIN bets, NEW x \in s
  PROVE  StatsOf(s, u) = Counted(bets[x], StatsOf(s \ {x}, u), u)
<1>1. PICK A, B : A = OwnBets(s \ {x}, u) /\ B = OwnBets(s, u)
  OBVIOUS
<1>2. IsFiniteSet(A) /\ x \notin A /\ A \subseteq DOMAIN bets
  <2>1. PICK n \in Nat : DOMAIN bets = 1 .. n
    BY BetTypes
  <2>2. A \in SUBSET (1 .. n) /\ IsFiniteSet(1 .. n)
    BY <1>1, <2>1, FS_Interval DEF OwnBets
  <2>3. IsFiniteSet(A)
    BY <2>2, FS_Subset
  <2>4. QED
    BY <1>1, <2>3 DEF OwnBets
<1>3. CASE bets[x].user # u
  <2>1. A = B
    BY <1>1, <1>3 DEF OwnBets
  <2>2. QED
    BY <1>1, <1>3, <2>1 DEF StatsOf, Counted
<1>4. CASE bets[x].user = u
  <2>1. B = A \cup {x}
    BY <1>1, <1>4 DEF OwnBets
  <2>2. Cardinality(B) = Cardinality(A) + 1
    BY <1>2, <2>1, FS_AddElement
  <2>3. ASSUME NEW st
        PROVE  Cardinality({k \in B : bets[k].status = st}) =
                 Cardinality({k \in A : bets[k].status = st}) + (IF bets[x].status = st THEN 1 ELSE 0)
    <3>1. PICK C, D : C = {k \in A : bets[k].status = st} /\ D = {k \in B : bets[k].status = st}
      OBVIOUS
    <3>2. IsFiniteSet(C) /\ Cardinality(C) \in Nat /\ x \notin C
      <4>1. C \in SUBSET A
        BY <3>1
      <4>2. IsFiniteSet(C)
        BY <1>2, <4>1, FS_Subset
      <4>3. QED
        BY <1>2, <4>1, <4>2, FS_CardinalityType
    <3>3. CASE bets[x].status = st
      <4>1. D = C \cup {x}
        BY <2>1, <3>1, <3>3
      <4>2. Cardinality(D) = Cardinality(C) + 1
        BY <3>2, <4>1, FS_AddElement
      <4>3. QED
        BY <3>1, <3>3, <4>2
    <3>4. CASE bets[x].status # st
      <4>1. D = C
        BY <2>1, <3>1, <3>4
      <4>2. Cardinality(D) = Cardinality(C) + 0
        BY <3>2, <4>1
      <4>3. QED
        BY <3>1, <3>4, <4>2
    <3>5. QED
      BY <3>3, <3>4
  <2>4. SumFunctionOnSet(Amounts, B) = SumFunctionOnSet(Amounts, A) + bets[x].amount
    <3>1. \A k \in DOMAIN bets : Amounts[k] \in Int /\ Amounts[k] = bets[k].amount
      BY BetTypes DEF Amounts
    <3>2. QED
      BY <1>2, <2>1, <3>1, SumAdded
  <2>5. QED
    BY <1>1, <1>4, <2>2, <2>3, <2>4 DEF StatsOf, Counted
<1>5. QED
  BY <1>3, <1>4

\* The statistics of nothing.
LEMMA NoBetsStats ==
  ASSUME NEW u
  PROVE  StatsOf({}, u) = NoStats
<1>1. OwnBets({}, u) = {}
  BY DEF OwnBets
<1>2. Cardinality({}) = 0 /\ SumFunctionOnSet(Amounts, {}) = 0
  BY FS_EmptySet, SumEmpty
<1>3. {k \in {} : bets[k].status = "won"} = {} /\ {k \in {} : bets[k].status = "lost"} = {}
  OBVIOUS
<1>4. QED
  BY <1>1, <1>2, <1>3 DEF StatsOf, NoStats

\* The fold over the bets comes to the statistics the SQL counts.
LEMMA StatsFolded ==
  ASSUME Tables, NEW u
  PROVE  MemStats(bets, u) = StatsOf(DOMAIN bets, u)
<1>1. MemStats(bets, u) = (CHOOSE it : StatsFold(it, u))[DOMAIN bets]
  BY DEF MemStats, FoldLeft, MapThenFoldSet, StatsFold, Counted, NoStats
<1>2. PICK n \in Nat : DOMAIN bets = 1 .. n
  BY BetTypes
<1>3. \E it : StatsFold(it, u)
  <2>1. PICK it : it = [s \in SUBSET DOMAIN bets |-> StatsOf(s, u)]
    OBVIOUS
  <2>2. ASSUME NEW s \in SUBSET DOMAIN bets
        PROVE  it[s] = IF s = {} THEN NoStats ELSE Counted(bets[Max(s)], it[s \ {Max(s)}], u)
    <3>1. CASE s = {}
      BY <2>1, <3>1, NoBetsStats
    <3>2. CASE s # {}
      <4>1. Max(s) \in s
        BY <1>2, <3>2, MaxOf
      <4>2. StatsOf(s, u) = Counted(bets[Max(s)], StatsOf(s \ {Max(s)}, u), u)
        BY <4>1, StatsStep
      <4>3. it[s] = StatsOf(s, u) /\ it[s \ {Max(s)}] = StatsOf(s \ {Max(s)}, u)
        BY <2>1
      <4>4. QED
        BY <3>2, <4>2, <4>3
    <3>3. QED
      BY <3>1, <3>2
  <2>3. QED
    BY <2>1, <2>2 DEF StatsFold
<1>4. PICK it : it = (CHOOSE f : StatsFold(f, u)) /\ StatsFold(it, u)
  BY <1>3
<1>5. PICK F : F = {s \in SUBSET DOMAIN bets : it[s] # StatsOf(s, u)}
  OBVIOUS
<1>6. F = {}
  <2>1. SUFFICES ASSUME F # {} PROVE FALSE
    OBVIOUS
  <2>2. \A s \in F : IsFiniteSet(s)
    <3>1. IsFiniteSet(DOMAIN bets)
      BY <1>2, FS_Interval
    <3>2. QED
      BY <1>5, <3>1, FS_Subset
  <2>3. PICK s \in F : \A r \in F : Cardinality(s) <= Cardinality(r)
    BY <2>1, <2>2, Smallest
  <2>4. s \in SUBSET DOMAIN bets /\ IsFiniteSet(s)
        /\ it[s] = IF s = {} THEN NoStats ELSE Counted(bets[Max(s)], it[s \ {Max(s)}], u)
    BY <1>4, <1>5, <2>2, <2>3 DEF StatsFold
  <2>5. s # {}
    BY <1>5, <2>3, <2>4, NoBetsStats
  <2>6. Max(s) \in s
    BY <1>2, <2>4, <2>5, MaxOf
  <2>7. s \ {Max(s)} \notin F
    BY <2>3, <2>4, <2>5, <2>6, TakeOne
  <2>8. it[s \ {Max(s)}] = StatsOf(s \ {Max(s)}, u)
    BY <1>5, <2>4, <2>7
  <2>9. it[s] = StatsOf(s, u)
    BY <2>4, <2>5, <2>6, <2>8, StatsStep
  <2>10. QED
    BY <1>5, <2>3, <2>9
<1>7. it[DOMAIN bets] = StatsOf(DOMAIN bets, u)
  BY <1>5, <1>6
<1>8. QED
  BY <1>1, <1>4, <1>7

\* The two back ends count the same statistics.
LEMMA StatsAgree ==
  ASSUME Tables, NEW u
  PROVE  MemStats(bets, u) = PgStats(bets, u)
<1>1. PICK own : own = OfUser(bets, u) /\ own = OwnBets(DOMAIN bets, u)
  BY DEF OfUser, OwnBets
<1>2. IsFiniteSet(own) /\ own \subseteq DOMAIN bets
  <2>1. PICK n \in Nat : DOMAIN bets = 1 .. n
    BY BetTypes
  <2>2. own \in SUBSET (1 .. n) /\ IsFiniteSet(1 .. n)
    BY <1>1, <2>1, FS_Interval DEF OwnBets
  <2>3. QED
    BY <2>1, <2>2, FS_Subset
<1>3. PICK f : f = [k \in own |-> bets[k].amount]
  OBVIOUS
<1>4. SumFunction(f) = SumFunctionOnSet(Amounts, own)
  <2>1. \A k \in own : f[k] = Amounts[k]
    BY <1>2, <1>3 DEF Amounts
  <2>2. SumFunctionOnSet(f, own) = SumFunctionOnSet(Amounts, own)
    BY <1>2, <2>1, SumSame
  <2>3. DOMAIN f = own
    BY <1>3
  <2>4. QED
    BY <2>2, <2>3 DEF SumFunction
<1>5. PgStats(bets, u) = StatsOf(DOMAIN bets, u)
  BY <1>1, <1>3, <1>4 DEF PgStats, StatsOf
<1>6. QED
  BY <1>5, StatsFolded

Held(s, u, m, i) == {k \in s : Holds(bets[k], u, m, i)}
Costs == [k \in DOMAIN bets |-> bets[k].amount * bets[k].price]

\* What was paid for, and put on, a position by the bets in some places.
PositionOf(s, u, m, i) ==
  <<SumFunctionOnSet(Costs, Held(s, u, m, i)), SumFunctionOnSet(Amounts, Held(s, u, m, i))>>

\* One bet more.
Added(b, s, u, m, i) ==
  IF Holds(b, u, m, i) THEN <<s[1] + b.amount * b.price, s[2] + b.amount>> ELSE s

PositionFold(it, u, m, i) ==
  it = [s \in SUBSET DOMAIN bets |->
          IF s = {} THEN <<0, 0>> ELSE Added(bets[Max(s)], it[s \ {Max(s)}], u, m, i)]

\* The bets of a position are finitely many, and their amounts and costs numbers.
LEMMA HeldFinite ==
  ASSUME Tables, NEW s \in SUBSET DOMAIN bets, NEW u, NEW m, NEW i
  PROVE  /\ IsFiniteSet(Held(s, u, m, i)) /\ Held(s, u, m, i) \subseteq DOMAIN bets
         /\ \A k \in DOMAIN bets : /\ Amounts[k] = bets[k].amount /\ Amounts[k] \in Nat /\ Amounts[k] >= 1
                                   /\ Costs[k] = bets[k].amount * bets[k].price /\ Costs[k] \in Nat
<1>1. PICK n \in Nat : DOMAIN bets = 1 .. n
  BY BetTypes
<1>2. Held(s, u, m, i) \in SUBSET (1 .. n) /\ IsFiniteSet(1 .. n)
  BY <1>1, FS_Interval DEF Held
<1>3. IsFiniteSet(Held(s, u, m, i))
  BY <1>2, FS_Subset
<1>4. ASSUME NEW k \in DOMAIN bets
      PROVE  /\ Amounts[k] = bets[k].amount /\ Amounts[k] \in Nat /\ Amounts[k] >= 1
             /\ Costs[k] = bets[k].amount * bets[k].price /\ Costs[k] \in Nat
  <2>1. bets[k].amount \in Nat /\ bets[k].amount >= 1 /\ bets[k].price \in Nat
    BY BetTypes
  <2>2. bets[k].amount * bets[k].price \in Nat
    BY <2>1
  <2>3. Amounts[k] = bets[k].amount /\ Costs[k] = bets[k].amount * bets[k].price
    BY DEF Amounts, Costs
  <2>4. QED
    BY <2>1, <2>2, <2>3
<1>5. QED
  BY <1>1, <1>2, <1>3, <1>4

\* What one bet more does to the position.
LEMMA PositionStep ==
  ASSUME Tables, NEW u, NEW m, NEW i, NEW s \in SUBSET DOMAIN bets, NEW x \in s
  PROVE  PositionOf(s, u, m, i) = Added(bets[x], PositionOf(s \ {x}, u, m, i), u, m, i)
<1>1. PICK A, B : A = Held(s \ {x}, u, m, i) /\ B = Held(s, u, m, i)
  OBVIOUS
<1>2. IsFiniteSet(A) /\ A \subseteq DOMAIN bets /\ x \notin A /\ x \in DOMAIN bets
  <2>1. s \ {x} \in SUBSET DOMAIN bets /\ x \in DOMAIN bets
    OBVIOUS
  <2>2. IsFiniteSet(A) /\ A \subseteq DOMAIN bets
    BY <1>1, <2>1, HeldFinite
  <2>3. x \notin A
    BY <1>1 DEF Held
  <2>4. QED
    BY <2>1, <2>2, <2>3
<1>3. CASE ~Holds(bets[x], u, m, i)
  <2>1. A = B
    BY <1>1, <1>3 DEF Held
  <2>2. QED
    BY <1>1, <1>3, <2>1 DEF PositionOf, Added
<1>4. CASE Holds(bets[x], u, m, i)
  <2>1. B = A \cup {x}
    BY <1>1, <1>4 DEF Held
  <2>2. \A k \in DOMAIN bets : Amounts[k] \in Int /\ Costs[k] \in Int
    <3>1. \A k \in DOMAIN bets : Amounts[k] \in Nat /\ Costs[k] \in Nat
      BY HeldFinite
    <3>2. QED
      BY <3>1
  <2>3. SumFunctionOnSet(Amounts, B) = SumFunctionOnSet(Amounts, A) + Amounts[x]
    BY <1>2, <2>1, <2>2, SumAdded
  <2>4. SumFunctionOnSet(Costs, B) = SumFunctionOnSet(Costs, A) + Costs[x]
    BY <1>2, <2>1, <2>2, SumAdded
  <2>5. Amounts[x] = bets[x].amount /\ Costs[x] = bets[x].amount * bets[x].price
    BY <1>2, HeldFinite
  <2>6. QED
    BY <1>1, <1>4, <2>3, <2>4, <2>5 DEF PositionOf, Added
<1>5. QED
  BY <1>3, <1>4

\* The position in nothing.
LEMMA NoBetsPosition ==
  ASSUME NEW u, NEW m, NEW i
  PROVE  PositionOf({}, u, m, i) = <<0, 0>>
<1>1. Held({}, u, m, i) = {}
  BY DEF Held
<1>2. QED
  BY <1>1, SumEmpty DEF PositionOf

\* The accumulated position.
LEMMA PositionFolded ==
  ASSUME Tables, NEW u, NEW m, NEW i
  PROVE  LET acc == PositionOf(DOMAIN bets, u, m, i)
         IN  MemPosition(bets, u, m, i) = IF acc[2] = 0 THEN NoPosition ELSE TruncDiv(acc[1], acc[2])
<1>1. PICK t : t = (CHOOSE it : PositionFold(it, u, m, i))[DOMAIN bets]
  OBVIOUS
<1>2. MemPosition(bets, u, m, i) = IF t[2] = 0 THEN NoPosition ELSE TruncDiv(t[1], t[2])
  BY <1>1 DEF MemPosition, FoldLeft, MapThenFoldSet, PositionFold, Added
<1>3. PICK n \in Nat : DOMAIN bets = 1 .. n
  BY BetTypes
<1>4. \E it : PositionFold(it, u, m, i)
  <2>1. PICK it : it = [s \in SUBSET DOMAIN bets |-> PositionOf(s, u, m, i)]
    OBVIOUS
  <2>2. ASSUME NEW s \in SUBSET DOMAIN bets
        PROVE  it[s] = IF s = {} THEN <<0, 0>> ELSE Added(bets[Max(s)], it[s \ {Max(s)}], u, m, i)
    <3>1. CASE s = {}
      BY <2>1, <3>1, NoBetsPosition
    <3>2. CASE s # {}
      <4>1. Max(s) \in s
        BY <1>3, <3>2, MaxOf
      <4>2. PositionOf(s, u, m, i) = Added(bets[Max(s)], PositionOf(s \ {Max(s)}, u, m, i), u, m, i)
        BY <4>1, PositionStep
      <4>3. it[s] = PositionOf(s, u, m, i) /\ it[s \ {Max(s)}] = PositionOf(s \ {Max(s)}, u, m, i)
        BY <2>1
      <4>4. QED
        BY <3>2, <4>2, <4>3
    <3>3. QED
      BY <3>1, <3>2
  <2>3. QED
    BY <2>1, <2>2 DEF PositionFold
<1>5. PICK it : it = (CHOOSE f : PositionFold(f, u, m, i)) /\ PositionFold(it, u, m, i)
  BY <1>4
<1>6. PICK F : F = {s \in SUBSET DOMAIN bets : it[s] # PositionOf(s, u, m, i)}
  OBVIOUS
<1>7. F = {}
  <2>1. SUFFICES ASSUME F # {} PROVE FALSE
    OBVIOUS
  <2>2. \A s \in F : IsFiniteSet(s)
    <3>1. IsFiniteSet(DOMAIN bets)
      BY <1>3, FS_Interval
    <3>2. QED
      BY <1>6, <3>1, FS_Subset
  <2>3. PICK s \in F : \A r \in F : Cardinality(s) <= Cardinality(r)
    BY <2>1, <2>2, Smallest
  <2>4. s \in SUBSET DOMAIN bets /\ IsFiniteSet(s)
        /\ it[s] = IF s = {} THEN <<0, 0>> ELSE Added(bets[Max(s)], it[s \ {Max(s)}], u, m, i)
    BY <1>5, <1>6, <2>2, <2>3 DEF PositionFold
  <2>5. s # {}
    BY <1>6, <2>3, <2>4, NoBetsPosition
  <2>6. Max(s) \in s
    BY <1>3, <2>4, <2>5, MaxOf
  <2>7. s \ {Max(s)} \notin F
    BY <2>3, <2>4, <2>5, <2>6, TakeOne
  <2>8. it[s \ {Max(s)}] = PositionOf(s \ {Max(s)}, u, m, i)
    BY <1>6, <2>4, <2>7
  <2>9. it[s] = PositionOf(s, u, m, i)
    BY <2>4, <2>5, <2>6, <2>8, PositionStep
  <2>10. QED
    BY <1>6, <2>3, <2>9
<1>8. t = PositionOf(DOMAIN bets, u, m, i)
  BY <1>1, <1>5, <1>6, <1>7
<1>9. QED
  BY <1>2, <1>8

\* The in-memory average of a position: none without bets, else the floored mean.
LEMMA MemPositionIs ==
  ASSUME Tables, NEW u, NEW m, NEW i, NEW S, S = Held(DOMAIN bets, u, m, i)
  PROVE  /\ S = {} => MemPosition(bets, u, m, i) = NoPosition
         /\ S # {} => /\ SumFunctionOnSet(Amounts, S) \in Nat /\ SumFunctionOnSet(Amounts, S) >= 1
                      /\ SumFunctionOnSet(Costs, S) \in Nat
                      /\ MemPosition(bets, u, m, i) =
                           SumFunctionOnSet(Costs, S) \div SumFunctionOnSet(Amounts, S)
<1>1. PICK c, a : c = SumFunctionOnSet(Costs, S) /\ a = SumFunctionOnSet(Amounts, S)
  OBVIOUS
<1>2. PositionOf(DOMAIN bets, u, m, i) = <<c, a>>
  BY <1>1 DEF PositionOf
<1>3. MemPosition(bets, u, m, i) = IF a = 0 THEN NoPosition ELSE TruncDiv(c, a)
  BY <1>2, PositionFolded
<1>4. /\ IsFiniteSet(S) /\ S \subseteq DOMAIN bets
      /\ \A k \in S : Amounts[k] \in Nat /\ Amounts[k] >= 1 /\ Costs[k] \in Nat
  BY HeldFinite
<1>5. CASE S = {}
  BY <1>1, <1>3, <1>5, SumEmpty
<1>6. CASE S # {}
  <2>1. a \in Nat /\ c \in Nat
    BY <1>1, <1>4, SumNat
  <2>2. PICK k \in S : Amounts[k] <= a /\ Amounts[k] \in Nat /\ Amounts[k] >= 1
    BY <1>1, <1>4, <1>6, SumAbove
  <2>3. a >= 1 /\ a # 0
    BY <2>1, <2>2
  <2>4. TruncDiv(c, a) = c \div a
    BY <2>1 DEF TruncDiv
  <2>5. QED
    BY <1>1, <1>3, <1>6, <2>1, <2>3, <2>4
<1>7. QED
  BY <1>5, <1>6

\* The two back ends average a position alike.
LEMMA PositionsAgree ==
  ASSUME Tables, NEW u, NEW m, NEW i
  PROVE  MemPosition(bets, u, m, i) = PgPosition(bets, u, m, i)
<1>1. PICK S : S = Held(DOMAIN bets, u, m, i) /\ S = {k \in DOMAIN bets : Holds(bets[k], u, m, i)}
  BY DEF Held
<1>2. PICK f, p : f = [k \in S |-> bets[k].amount] /\ p = [k \in S |-> bets[k].price]
  OBVIOUS
<1>3. PgPosition(bets, u, m, i) = IF S = {} THEN NoPosition ELSE AveragePrice(f, p)
  BY <1>1, <1>2 DEF PgPosition
<1>4. IsFiniteSet(S) /\ \A k \in S : k \in DOMAIN bets /\ Amounts[k] = bets[k].amount
                                     /\ Costs[k] = bets[k].amount * bets[k].price
  BY <1>1, HeldFinite
<1>5. SumFunction(f) = SumFunctionOnSet(Amounts, S)
  <2>1. DOMAIN f = S /\ \A k \in S : f[k] = Amounts[k]
    BY <1>2, <1>4
  <2>2. SumFunctionOnSet(f, S) = SumFunctionOnSet(Amounts, S)
    BY <1>4, <2>1, SumSame
  <2>3. QED
    BY <2>1, <2>2 DEF SumFunction
<1>6. SumFunction([k \in DOMAIN f |-> f[k] * p[k]]) = SumFunctionOnSet(Costs, S)
  <2>1. PICK g : g = [k \in DOMAIN f |-> f[k] * p[k]]
    OBVIOUS
  <2>2. DOMAIN g = S /\ \A k \in S : g[k] = Costs[k]
    BY <1>2, <1>4, <2>1
  <2>3. SumFunctionOnSet(g, S) = SumFunctionOnSet(Costs, S)
    BY <1>4, <2>2, SumSame
  <2>4. QED
    BY <2>1, <2>2, <2>3 DEF SumFunction
<1>7. AveragePrice(f, p) = SumFunctionOnSet(Costs, S) \div SumFunctionOnSet(Amounts, S)
  BY <1>5, <1>6 DEF AveragePrice
<1>8. QED
  BY <1>1, <1>3, <1>7, MemPositionIs

\* The parts of RepositoriesAgree, unfolded.
LEMMA RepositoriesOfTables ==
  ASSUME Tables, BetsInv, MarketsInv
  PROVE  RepositoriesAgree
<1>1. ASSUME NEW scope, scope \subseteq DOMAIN bets
      PROVE  \A filter \in BetFilters, sort \in BetSorts :
               LET listing == MemBets(bets, scope, filter, sort) IN
               /\ ToSet(listing) = PgBetRows(bets, scope, filter)
               /\ IsInjective(listing)
               /\ Ordered(listing, LAMBDA j, k : BetBefore(sort, bets[j], bets[k]))
  BY <1>1, BetListings DEF BetsListedAlike
<1>2. BetNumbers \subseteq DOMAIN bets
  BY DEF BetNumbers
<1>3. \A u \in Users : OfUser(bets, u) \subseteq DOMAIN bets
  BY DEF OfUser
<1>4. \A m \in DOMAIN markets : OfMarket(bets, m) \subseteq DOMAIN bets
  BY DEF OfMarket
<1>5. \A u \in Users : MemStats(bets, u) = PgStats(bets, u)
  BY StatsAgree
<1>6. \A m \in DOMAIN markets : \A u \in Users, i \in Outcomes(m) :
        MemPosition(bets, u, m, i) = PgPosition(bets, u, m, i)
  BY PositionsAgree
<1>7. ASSUME NEW sort \in MarketSorts, NEW status \in {"open", "resolved"}
      PROVE  LET mem == MemMarkets(markets, status, sort)
                 pg  == PgMarkets(markets, status, sort)
             IN  /\ ToSet(mem) = ToSet(pg)
                 /\ [n \in DOMAIN mem |->
                       CASE sort = "popular" -> Popularity(markets[mem[n]])
                         [] sort = "volume" -> (markets[mem[n]]).total_volume
                         [] sort = "newest" -> (markets[mem[n]]).created
                         [] sort = "closing_soon" -> (markets[mem[n]]).closes]
                    = [n \in DOMAIN pg |->
                       CASE sort = "popular" -> Popularity(markets[pg[n]])
                         [] sort = "volume" -> (markets[pg[n]]).total_volume
                         [] sort = "newest" -> (markets[pg[n]]).created
                         [] sort = "closing_soon" -> (markets[pg[n]]).closes]
  <2>1. /\ ToSet(MemMarkets(markets, status, sort)) = ToSet(PgMarkets(markets, status, sort))
        /\ [n \in DOMAIN MemMarkets(markets, status, sort) |->
              KeyOf(sort, markets[MemMarkets(markets, status, sort)[n]])]
           = [n \in DOMAIN PgMarkets(markets, status, sort) |->
              KeyOf(sort, markets[PgMarkets(markets, status, sort)[n]])]
    BY MarketListsAgree
  <2>2. QED
    BY <2>1 DEF KeyOf
<1>8. MemFeatured(markets) = PgFeatured(markets)
  BY FeaturedAgree
<1>9. QED
  BY <1>1, <1>2, <1>3, <1>4, <1>5, <1>6, <1>7, <1>8 DEF RepositoriesAgree

\* The in-memory repositories answer as the SQL ones may, in every state: bet
\* listings, market lists, statistics, positions and the featured market (the two
\* modules persistence/in_memory and persistence/postgres).
THEOREM BackEndsAgree ==
  ASSUME LedgerFits
  PROVE  Spec => []RepositoriesAgree
<1>1. PICK most : Fits(most)
  BY MostOfLedger
<1>2. Spec => []InOrderInv(most)
  BY <1>1, InOrderAlways
<1>3. InOrderInv(most) => RepositoriesAgree
  BY RepositoriesOfTables DEF InOrderInv
<1>4. QED
  BY <1>2, <1>3, PTL

-----------------------------------------------------------------------------
(* Counters *)

Backing(m, i) == {k \in DOMAIN bets : bets[k].market = m /\ bets[k].outcome = i}
Bettors(m) == {bets[k].user : k \in {j \in DOMAIN bets : bets[j].market = m}}

\* What every user has staked, and every market taken.
Staked == [u \in Users |-> SumFunctionOnSet(Amounts, OwnBets(DOMAIN bets, u))]
Taken == [m \in DOMAIN markets |-> markets[m].total_volume]

\* The counters of the markets are those of the bets.
CountersInv ==
  /\ \A m \in DOMAIN markets : \A i \in DOMAIN markets[m].volumes :
       markets[m].volumes[i] = SumFunctionOnSet(Amounts, Backing(m, i))
  /\ \A m \in DOMAIN markets : markets[m].participants = Cardinality(Bettors(m))
  /\ SumFunctionOnSet(Staked, Users) = SumFunctionOnSet(Taken, DOMAIN markets)

\* The sums over some rows of a table once it has one row more.
LEMMA SumsGrow ==
  ASSUME NEW D, IsFiniteSet(D), NEW e, e \notin D, NEW f, NEW g, g[e] \in Nat,
         \A k \in D : f[k] \in Nat /\ f[k] = g[k], NEW K \in SUBSET D
  PROVE  /\ SumFunctionOnSet(f, K) \in Nat
         /\ SumFunctionOnSet(g, K) = SumFunctionOnSet(f, K)
         /\ SumFunctionOnSet(g, K \cup {e}) = SumFunctionOnSet(f, K) + g[e]
<1>1. IsFiniteSet(K) /\ e \notin K
  BY FS_Subset
<1>2. \A k \in K : f[k] \in Nat /\ f[k] = g[k]
  OBVIOUS
<1>3. SumFunctionOnSet(f, K) \in Nat
  BY <1>1, <1>2, SumNat
<1>4. SumFunctionOnSet(f, K) = SumFunctionOnSet(g, K)
  BY <1>1, <1>2, SumSame
<1>5. SumFunctionOnSet(g, K \cup {e}) = SumFunctionOnSet(g, K) + g[e]
  <2>1. (\A k \in K : g[k] \in Int) /\ g[e] \in Int
    BY <1>2
  <2>2. QED
    BY <1>1, <2>1, SumAdded
<1>6. QED
  BY <1>3, <1>4, <1>5

\* The backings, bettors and stakes are over finitely many bets.
LEMMA Stakes ==
  ASSUME Tables
  PROVE  /\ \A u \in Users : Staked[u] \in Nat
         /\ \A m : IsFiniteSet(Bettors(m)) /\ Bettors(m) \subseteq Users
<1>1. PICK n \in Nat : DOMAIN bets = 1 .. n
  BY BetTypes
<1>2. ASSUME NEW u \in Users PROVE Staked[u] \in Nat
  <2>1. OwnBets(DOMAIN bets, u) \in SUBSET (1 .. n) /\ IsFiniteSet(1 .. n)
    BY <1>1, FS_Interval DEF OwnBets
  <2>2. IsFiniteSet(OwnBets(DOMAIN bets, u))
    BY <2>1, FS_Subset
  <2>3. \A k \in OwnBets(DOMAIN bets, u) : Amounts[k] \in Nat
    BY BetTypes DEF OwnBets, Amounts
  <2>4. QED
    BY <2>2, <2>3, SumNat DEF Staked
<1>3. ASSUME NEW m PROVE IsFiniteSet(Bettors(m)) /\ Bettors(m) \subseteq Users
  <2>1. Bettors(m) \in SUBSET Users
    BY BetTypes DEF Bettors
  <2>2. IsFiniteSet(Users)
    BY LedgerAssumption
  <2>3. QED
    BY <2>1, <2>2, FS_Subset
<1>4. QED
  BY <1>2, <1>3

\* A stake on a board adds to one volume and to the total.
LEMMA StakeOnBoard ==
  ASSUME NEW most, Fits(most), BoardsInv(most), BoardsInv(most)', Tables,
         NEW u, NEW m \in DOMAIN markets, NEW i \in DOMAIN markets[m].volumes,
         NEW amount \in StakeSizes, Placed(u, m, i, amount)
  PROVE  /\ amount \in Nat /\ markets[m].total_volume \in Nat
         /\ DOMAIN markets'[m].volumes = DOMAIN markets[m].volumes
         /\ markets'[m].total_volume = markets[m].total_volume + amount
         /\ \A j \in DOMAIN markets[m].volumes :
              /\ markets[m].volumes[j] \in Nat
              /\ markets'[m].volumes[j] = markets[m].volumes[j] + (IF j = i THEN amount ELSE 0)
<1>1. amount \in Nat /\ amount <= most
  BY DEF Fits
<1>2. PICK k \in Nat : k = now - 1 /\ k + 1 <= MaxWrites
  <2>1. now' = now + 1 /\ now \in Nat /\ now >= 1 /\ now' <= MaxWrites + 1 /\ MaxWrites \in Nat
    BY DEF Placed, Tables, BoardsInv, Fits
  <2>2. now - 1 \in Nat /\ (now - 1) + 1 <= MaxWrites
    BY <2>1
  <2>3. QED
    BY <2>2
<1>3. PICK row : row = markets[m] /\ BoardExact(row, k, most)
  BY <1>2 DEF BoardsInv
<1>4. PICK n \in Nat : \E w : StakeAdded(row, i, amount, (k + 1) * most, n, w)
  BY <1>1, <1>2, <1>3, BoardAfterStake DEF Fits
<1>5. PICK w : StakeAdded(row, i, amount, (k + 1) * most, n, w)
  BY <1>4
<1>6. /\ w = markets'[m].volumes /\ markets'[m].total_volume = SumFunction(w)
  BY <1>3, <1>5 DEF StakeAdded, Placed
<1>7. /\ row.volumes \in [1 .. n -> Nat] /\ w \in [1 .. n -> Nat] /\ i \in 1 .. n
      /\ \A j \in 1 .. n : w[j] = row.volumes[j] + (IF j = i THEN amount ELSE 0)
  BY <1>5 DEF StakeAdded
<1>8. row.total_volume = SumFunction(row.volumes)
  BY <1>3 DEF BoardExact
<1>9. SumFunction(w) = SumFunction(row.volumes) + (w[i] - row.volumes[i])
  <2>1. IsFiniteSet(1 .. n)
    BY FS_Interval
  <2>2. PICK v : v = row.volumes
    OBVIOUS
  <2>3. DOMAIN v = 1 .. n /\ DOMAIN w = 1 .. n /\ \A x \in 1 .. n : v[x] \in Int /\ w[x] \in Int
    BY <1>7, <2>2
  <2>4. \A x \in (1 .. n) \ {i} : w[x] = v[x]
    BY <1>7, <2>2, <2>3
  <2>5. SumFunction(w) = SumFunction(v) + (w[i] - v[i])
    BY <1>7, <2>1, <2>3, <2>4, VectorChanged
  <2>6. QED
    BY <2>2, <2>5
<1>10. SumFunction(row.volumes) \in Nat
  <2>1. PICK v : v = row.volumes /\ v \in [1 .. n -> Nat]
    BY <1>7
  <2>2. IsFiniteSet(1 .. n)
    BY FS_Interval
  <2>3. DOMAIN v = 1 .. n /\ \A x \in 1 .. n : v[x] \in Nat
    BY <2>1
  <2>4. SumFunctionOnSet(v, 1 .. n) \in Nat
    BY <2>2, <2>3, SumNat
  <2>5. QED
    BY <2>1, <2>3, <2>4 DEF SumFunction
<1>11. w[i] - row.volumes[i] = amount
  BY <1>1, <1>7
<1>12. QED
  BY <1>1, <1>3, <1>6, <1>7, <1>8, <1>9, <1>10, <1>11

\* A stake is counted wherever it should be.
LEMMA PlacedCounters ==
  ASSUME NEW most, Fits(most), BoardsInv(most), BoardsInv(most)', Tables, BetsInv, Tables', CountersInv,
         NEW u \in Users, NEW m \in DOMAIN markets, NEW i \in DOMAIN markets[m].volumes,
         NEW amount \in StakeSizes, Placed(u, m, i, amount)
  PROVE  CountersInv'
<1>1. PICK b \in BetRow :
        /\ Grown(bets, bets', b)
        /\ b.user = u /\ b.market = m /\ b.outcome = i /\ b.amount = amount
  BY DEF Placed
<1>2. PICK new : /\ new = Len(bets) + 1 /\ new \notin DOMAIN bets /\ DOMAIN bets' = DOMAIN bets \cup {new}
                 /\ bets'[new] = b /\ \A k \in DOMAIN bets : bets'[k] = bets[k]
  BY <1>1 DEF Grown
<1>3. PICK n \in Nat : DOMAIN bets = 1 .. n
  BY BetTypes
<1>4. PICK f, g : f = Amounts /\ g = Amounts'
  OBVIOUS
<1>5. ASSUME NEW K \in SUBSET DOMAIN bets
      PROVE  /\ SumFunctionOnSet(f, K) \in Nat
             /\ SumFunctionOnSet(g, K) = SumFunctionOnSet(f, K)
             /\ SumFunctionOnSet(g, K \cup {new}) = SumFunctionOnSet(f, K) + amount
  <2>1. \A k \in DOMAIN bets : f[k] \in Nat /\ f[k] = g[k]
    BY <1>2, <1>4, BetTypes DEF Amounts
  <2>2. g[new] = amount
    BY <1>1, <1>2, <1>4 DEF Amounts
  <2>3. amount \in Nat
    BY StakeOnBoard
  <2>4. IsFiniteSet(DOMAIN bets)
    BY <1>3, FS_Interval
  <2>5. new \notin DOMAIN bets /\ g[new] \in Nat
    BY <1>2, <2>2, <2>3
  <2>6. /\ SumFunctionOnSet(f, K) \in Nat
        /\ SumFunctionOnSet(g, K) = SumFunctionOnSet(f, K)
        /\ SumFunctionOnSet(g, K \cup {new}) = SumFunctionOnSet(f, K) + g[new]
    BY ONLY K \in SUBSET DOMAIN bets, <2>1, <2>4, <2>5, SumsGrow
  <2>7. QED
    BY <2>2, <2>6
<1>6. /\ amount \in Nat /\ markets[m].total_volume \in Nat
      /\ DOMAIN markets'[m].volumes = DOMAIN markets[m].volumes
      /\ markets'[m].total_volume = markets[m].total_volume + amount
      /\ \A j \in DOMAIN markets[m].volumes :
           /\ markets[m].volumes[j] \in Nat
           /\ markets'[m].volumes[j] = markets[m].volumes[j] + (IF j = i THEN amount ELSE 0)
  BY StakeOnBoard
<1>0. /\ DOMAIN markets' = DOMAIN markets /\ \A l \in DOMAIN markets \ {m} : markets'[l] = markets[l]
      /\ markets'[m].participants = markets[m].participants + (IF NewParticipant(u, m) THEN 1 ELSE 0)
  BY DEF Placed
<1>7. ASSUME NEW l \in DOMAIN markets, NEW j \in DOMAIN markets[l].volumes
      PROVE  markets'[l].volumes[j] = SumFunctionOnSet(g, Backing(l, j)')
  <2>1. PICK K : K = Backing(l, j) /\ K \in SUBSET DOMAIN bets
    BY DEF Backing
  <2>2. markets[l].volumes[j] = SumFunctionOnSet(f, K)
    BY <1>4, <2>1 DEF CountersInv
  <2>3. Backing(l, j)' = K \cup (IF l = m /\ j = i THEN {new} ELSE {})
    BY <1>1, <1>2, <2>1 DEF Backing
  <2>4. CASE l = m /\ j = i
    <3>1. Backing(l, j)' = K \cup {new}
      BY <2>3, <2>4
    <3>2. SumFunctionOnSet(g, Backing(l, j)') = SumFunctionOnSet(f, K) + amount
      BY <1>5, <2>1, <3>1
    <3>3. markets'[l].volumes[j] = markets[l].volumes[j] + amount
      BY <1>6, <1>0, <2>4
    <3>4. QED
      BY <2>2, <3>2, <3>3
  <2>5. CASE ~(l = m /\ j = i)
    <3>1. Backing(l, j)' = K
      BY <2>3, <2>5
    <3>2. SumFunctionOnSet(g, Backing(l, j)') = SumFunctionOnSet(f, K)
      BY <1>5, <2>1, <3>1
    <3>3. markets'[l].volumes[j] = markets[l].volumes[j]
      BY <1>6, <1>0, <2>5
    <3>4. QED
      BY <2>2, <3>2, <3>3
  <2>6. QED
    BY <2>4, <2>5
<1>8. ASSUME NEW l \in DOMAIN markets PROVE markets'[l].participants = Cardinality(Bettors(l)')
  <2>1. PICK B : B = Bettors(l) /\ IsFiniteSet(B) /\ markets[l].participants = Cardinality(B)
    BY Stakes DEF CountersInv
  <2>2. Cardinality(B) \in Nat
    BY <2>1, FS_CardinalityType
  <2>3. CASE l # m
    <3>1. Bettors(l)' = B
      BY <1>1, <1>2, <2>1, <2>3 DEF Bettors
    <3>2. QED
      BY <1>6, <1>0, <2>1, <2>3, <3>1
  <2>4. CASE l = m
    <3>1. Bettors(l)' = B \cup {u}
      BY <1>1, <1>2, <2>1, <2>4 DEF Bettors
    <3>2. NewParticipant(u, m) <=> u \notin B
      BY <2>1, <2>4 DEF NewParticipant, Bettors, BetNumbers
    <3>3. CASE u \notin B
      <4>1. Cardinality(B \cup {u}) = Cardinality(B) + 1
        BY <2>1, <3>3, FS_AddElement
      <4>2. markets'[m].participants = markets[m].participants + 1
        BY <1>0, <3>2, <3>3
      <4>3. QED
        BY <2>1, <2>4, <3>1, <4>1, <4>2
    <3>4. CASE u \in B
      <4>1. B \cup {u} = B
        BY <3>4
      <4>2. markets'[m].participants = markets[m].participants + 0
        BY <1>0, <3>2, <3>4
      <4>3. markets'[m].participants = Cardinality(B)
        BY <2>1, <2>2, <2>4, <4>2
      <4>4. Bettors(l)' = B
        BY <3>1, <4>1
      <4>5. QED
        BY <2>4, <4>3, <4>4
    <3>5. QED
      BY <3>3, <3>4
  <2>5. QED
    BY <2>3, <2>4
<1>9. SumFunctionOnSet(Staked', Users) = SumFunctionOnSet(Staked, Users) + amount
  <2>1. PICK s, t : s = Staked /\ t = Staked'
    OBVIOUS
  <2>2. ASSUME NEW v \in Users
        PROVE  s[v] \in Int /\ t[v] \in Int /\ t[v] = s[v] + (IF v = u THEN amount ELSE 0)
    <3>1. PICK K : K = OwnBets(DOMAIN bets, v) /\ K \in SUBSET DOMAIN bets
      BY DEF OwnBets
    <3>2. (OwnBets(DOMAIN bets, v))' = K \cup (IF v = u THEN {new} ELSE {})
      BY <1>1, <1>2, <3>1 DEF OwnBets
    <3>3. s[v] = SumFunctionOnSet(f, K)
      BY <1>4, <2>1, <3>1 DEF Staked
    <3>4. t[v] = SumFunctionOnSet(g, (OwnBets(DOMAIN bets, v))')
      BY <1>4, <2>1 DEF Staked, OwnBets
    <3>5. CASE v = u
      <4>1. (OwnBets(DOMAIN bets, v))' = K \cup {new}
        BY <3>2, <3>5
      <4>2. s[v] \in Nat /\ t[v] = s[v] + amount /\ amount \in Nat
        BY <1>5, <1>6, <3>1, <3>3, <3>4, <4>1
      <4>3. QED
        BY <3>5, <4>2
    <3>6. CASE v # u
      <4>1. (OwnBets(DOMAIN bets, v))' = K
        BY <3>2, <3>6
      <4>2. s[v] \in Nat /\ t[v] = s[v]
        BY <1>5, <3>1, <3>3, <3>4, <4>1
      <4>3. QED
        BY <3>6, <4>2
    <3>7. QED
      BY <3>5, <3>6, Zenon
  <2>3. IsFiniteSet(Users)
    BY LedgerAssumption
  <2>4. \A v \in Users : s[v] \in Int /\ t[v] \in Int
    BY <2>2
  <2>5. \A v \in Users \ {u} : t[v] = s[v]
    BY <2>2
  <2>6. SumFunctionOnSet(t, Users) = SumFunctionOnSet(s, Users) + (t[u] - s[u])
    BY ONLY u \in Users, <2>3, <2>4, <2>5, SumChanged
  <2>7. t[u] - s[u] = amount
    BY <1>6, <1>0, <2>2
  <2>8. QED
    BY <2>1, <2>6, <2>7
<1>10. SumFunctionOnSet(Taken', DOMAIN markets) = SumFunctionOnSet(Taken, DOMAIN markets) + amount
  <2>1. PICK s, t : s = Taken /\ t = Taken'
    OBVIOUS
  <2>2. ASSUME NEW l \in DOMAIN markets
        PROVE  s[l] \in Int /\ t[l] \in Int /\ t[l] = s[l] + (IF l = m THEN amount ELSE 0)
    <3>1. markets[l].total_volume \in Int
      BY MarketTypes
    <3>2. s[l] = markets[l].total_volume /\ t[l] = markets'[l].total_volume
      BY <1>6, <1>0, <2>1 DEF Taken
    <3>3. QED
      BY <1>6, <1>0, <3>1, <3>2
  <2>3. IsFiniteSet(DOMAIN markets)
    <3>1. PICK c \in Nat : DOMAIN markets = 1 .. c
      BY MarketTypes
    <3>2. IsFiniteSet(1 .. c)
      BY FS_Interval
    <3>3. QED
      BY <3>1, <3>2
  <2>4. \A l \in DOMAIN markets : s[l] \in Int /\ t[l] \in Int
    BY <2>2
  <2>5. \A l \in DOMAIN markets \ {m} : t[l] = s[l]
    BY <2>2
  <2>6. SumFunctionOnSet(t, DOMAIN markets) = SumFunctionOnSet(s, DOMAIN markets) + (t[m] - s[m])
    BY ONLY m \in DOMAIN markets, <2>3, <2>4, <2>5, SumChanged
  <2>7. t[m] - s[m] = amount
    BY <1>6, <1>0, <2>2
  <2>8. QED
    BY <2>1, <2>6, <2>7
<1>11. SumFunctionOnSet(Staked', Users) = SumFunctionOnSet(Taken', DOMAIN markets')
  BY <1>6, <1>0, <1>9, <1>10 DEF CountersInv
<1>12. \A l \in DOMAIN markets' : \A j \in DOMAIN markets'[l].volumes :
         markets'[l].volumes[j] = SumFunctionOnSet(Amounts', Backing(l, j)')
  <2>1. ASSUME NEW l \in DOMAIN markets PROVE DOMAIN markets'[l].volumes = DOMAIN markets[l].volumes
    BY <1>6, <1>0
  <2>2. QED
    BY <1>4, <1>0, <1>7, <2>1
<1>13. QED
  BY <1>6, <1>0, <1>8, <1>11, <1>12 DEF CountersInv

\* A new market has taken nothing.
LEMMA CreatedCounters ==
  ASSUME Tables, BetsInv, CountersInv, NEW n, NEW closes, Created(n, closes)
  PROVE  CountersInv'
<1>1. PICK new : /\ new \notin DOMAIN markets /\ DOMAIN markets' = DOMAIN markets \cup {new}
                 /\ \A l \in DOMAIN markets : markets'[l] = markets[l]
                 /\ markets'[new].total_volume = 0 /\ markets'[new].participants = 0
                 /\ markets'[new].volumes = [i \in 1 .. n |-> 0]
  BY DEF Created, Grown
<1>2. bets' = bets
  BY DEF Created
<1>3. PICK f : f = Amounts /\ f = Amounts'
  BY <1>2 DEF Amounts
<1>4. \A l, i : Backing(l, i)' = Backing(l, i) /\ Bettors(l)' = Bettors(l)
  BY <1>2 DEF Backing, Bettors
<1>5. Staked' = Staked
  BY <1>2, <1>3 DEF Staked, OwnBets
<1>6. \A i : Backing(new, i) = {} /\ Bettors(new) = {}
  BY <1>1 DEF BetsInv, Backing, Bettors
<1>7. ASSUME NEW l \in DOMAIN markets', NEW i \in DOMAIN markets'[l].volumes
      PROVE  markets'[l].volumes[i] = SumFunctionOnSet(Amounts', Backing(l, i)')
  <2>1. CASE l = new
    <3>1. markets'[l].volumes[i] = 0
      BY <1>1, <1>7, <2>1
    <3>2. Backing(l, i)' = {}
      BY <1>4, <1>6, <2>1
    <3>3. QED
      BY <3>1, <3>2, SumEmpty
  <2>2. CASE l \in DOMAIN markets
    <3>1. i \in DOMAIN markets[l].volumes /\ markets'[l] = markets[l]
      BY <1>1, <1>7, <2>2
    <3>2. markets[l].volumes[i] = SumFunctionOnSet(f, Backing(l, i))
      BY <1>3, <2>2, <3>1 DEF CountersInv
    <3>3. QED
      BY <1>3, <1>4, <3>1, <3>2
  <2>3. QED
    BY <1>1, <2>1, <2>2
<1>8. ASSUME NEW l \in DOMAIN markets' PROVE markets'[l].participants = Cardinality(Bettors(l)')
  <2>1. CASE l = new
    BY <1>1, <1>4, <1>6, <2>1, FS_EmptySet
  <2>2. CASE l \in DOMAIN markets
    BY <1>1, <1>4, <2>2 DEF CountersInv
  <2>3. QED
    BY <1>1, <2>1, <2>2
<1>9. SumFunctionOnSet(Taken', DOMAIN markets') = SumFunctionOnSet(Taken, DOMAIN markets)
  <2>1. PICK s, t, D : s = Taken /\ t = Taken' /\ D = DOMAIN markets
    OBVIOUS
  <2>2. \A l \in D : s[l] \in Int /\ s[l] = t[l]
    BY <1>1, <2>1, MarketTypes DEF Taken
  <2>3. t[new] = 0
    BY <1>1, <2>1 DEF Taken
  <2>4. IsFiniteSet(D)
    <3>1. PICK c \in Nat : D = 1 .. c
      BY <2>1, MarketTypes
    <3>2. IsFiniteSet(1 .. c)
      BY FS_Interval
    <3>3. QED
      BY <3>1, <3>2
  <2>5. SumFunctionOnSet(s, D) = SumFunctionOnSet(t, D) /\ SumFunctionOnSet(s, D) \in Int
    BY <2>2, <2>4, SumSame, SumType
  <2>6. new \notin D /\ \A l \in D : t[l] \in Int
    BY <1>1, <2>1, <2>2
  <2>7. SumFunctionOnSet(t, D \cup {new}) = SumFunctionOnSet(t, D) + t[new]
    BY <2>3, <2>4, <2>6, SumAdded
  <2>8. SumFunctionOnSet(t, D \cup {new}) = SumFunctionOnSet(s, D)
    BY <2>3, <2>5, <2>7
  <2>9. QED
    BY <1>1, <2>1, <2>8
<1>10. QED
  BY <1>5, <1>7, <1>8, <1>9 DEF CountersInv

\* A settlement changes no stake.
LEMMA ResolvedCounters ==
  ASSUME Tables, CountersInv, NEW m \in DOMAIN markets, NEW winner, Resolved(m, winner)
  PROVE  CountersInv'
<1>1. \A l \in DOMAIN markets :
        /\ markets'[l].volumes = markets[l].volumes /\ markets'[l].participants = markets[l].participants
        /\ markets'[l].total_volume = markets[l].total_volume
  <2>1. ASSUME NEW l \in DOMAIN markets, l # m PROVE markets'[l] = markets[l]
    BY <2>1 DEF Resolved
  <2>2. markets'[m] = [markets[m] EXCEPT !.status = "resolved", !.winner = winner] /\ markets[m] \in Rows
    BY MarketTypes DEF Resolved
  <2>3. /\ markets'[m].volumes = markets[m].volumes /\ markets'[m].participants = markets[m].participants
        /\ markets'[m].total_volume = markets[m].total_volume
    BY <2>2 DEF Rows
  <2>4. QED
    BY <2>1, <2>3
<1>2. /\ DOMAIN markets' = DOMAIN markets /\ DOMAIN bets' = DOMAIN bets
      /\ \A k \in DOMAIN bets : /\ bets'[k].user = bets[k].user /\ bets'[k].market = bets[k].market
                                /\ bets'[k].outcome = bets[k].outcome /\ bets'[k].amount = bets[k].amount
  BY DEF Resolved
<1>3. Amounts' = Amounts
  BY <1>2 DEF Amounts
<1>4. \A l, i : Backing(l, i)' = Backing(l, i) /\ Bettors(l)' = Bettors(l)
  BY <1>2 DEF Backing, Bettors
<1>5. Staked' = Staked
  <2>1. \A u : (OwnBets(DOMAIN bets, u))' = OwnBets(DOMAIN bets, u)
    BY <1>2 DEF OwnBets
  <2>2. QED
    BY <1>3, <2>1 DEF Staked
<1>6. Taken' = Taken
  BY <1>1, <1>2 DEF Taken
<1>7. \A l \in DOMAIN markets' : \A i \in DOMAIN markets'[l].volumes :
        markets'[l].volumes[i] = SumFunctionOnSet(Amounts', Backing(l, i)')
  BY <1>1, <1>2, <1>3, <1>4 DEF CountersInv
<1>8. \A l \in DOMAIN markets' : markets'[l].participants = Cardinality(Bettors(l)')
  BY <1>1, <1>2, <1>4 DEF CountersInv
<1>9. QED
  BY <1>2, <1>5, <1>6, <1>7, <1>8 DEF CountersInv

\* Every step keeps the counters.
LEMMA NextCounters ==
  ASSUME NEW most, Fits(most), InOrderInv(most), InOrderInv(most)', CountersInv, [Next]_vars
  PROVE  CountersInv'
<1>1. /\ BoardsInv(most) /\ Tables /\ BetsInv /\ MarketsInv
      /\ BoardsInv(most)' /\ Tables'
  BY DEF InOrderInv
<1>2. CASE \E n \in OutcomeCounts : \E closes \in {NoDeadline, now + BettingTime} : Created(n, closes)
  BY <1>1, <1>2, CreatedCounters
<1>3. CASE \E u \in Users : \E m \in DOMAIN markets : \E i \in DOMAIN markets[m].volumes :
             \E amount \in StakeSizes : Placed(u, m, i, amount)
  BY <1>1, <1>3, PlacedCounters
<1>4. CASE \E m \in DOMAIN markets : \E winner \in DOMAIN markets[m].volumes : Resolved(m, winner)
  BY <1>1, <1>4, ResolvedCounters
<1>5. CASE UNCHANGED <<now, balance, markets, bets, points>>
  <2>1. markets' = markets /\ bets' = bets
    BY <1>5
  <2>2. Amounts' = Amounts /\ Taken' = Taken
    BY <2>1 DEF Amounts, Taken
  <2>3. \A l, i : Backing(l, i)' = Backing(l, i) /\ Bettors(l)' = Bettors(l)
    BY <2>1 DEF Backing, Bettors
  <2>4. Staked' = Staked
    BY <2>1, <2>2 DEF Staked, OwnBets
  <2>5. QED
    BY <2>1, <2>2, <2>3, <2>4 DEF CountersInv
<1>6. QED
  BY <1>1, <1>2, <1>3, <1>4, <1>5, Steps

\* The invariant of the counters.
LEMMA CountersAlways ==
  ASSUME NEW CONSTANT most, LedgerFits, Fits(most)
  PROVE  Spec => []CountersInv
<1>1. Init => CountersInv
  <2>1. SUFFICES ASSUME Init PROVE CountersInv
    OBVIOUS
  <2>2. markets = << >> /\ bets = << >>
    BY <2>1 DEF Init
  <2>3. DOMAIN markets = {} /\ DOMAIN bets = {}
    BY <2>2
  <2>4. SumFunctionOnSet(Taken, DOMAIN markets) = 0
    BY <2>3, SumEmpty
  <2>5. \A u \in Users : Staked[u] = 0
    <3>1. \A u \in Users : OwnBets(DOMAIN bets, u) = {}
      BY <2>3 DEF OwnBets
    <3>2. QED
      BY <3>1, SumEmpty DEF Staked
  <2>6. SumFunctionOnSet(Staked, Users) = 0
    <3>1. IsFiniteSet(Users) /\ Cardinality(Users) \in Nat
      BY LedgerAssumption, FS_CardinalityType
    <3>2. SumFunctionOnSet(Staked, Users) = 0 * Cardinality(Users)
      BY <2>5, <3>1, SumEqual
    <3>3. QED
      BY <3>1, <3>2
  <2>7. QED
    BY <2>3, <2>4, <2>6 DEF CountersInv
<1>2. InOrderInv(most) /\ InOrderInv(most)' /\ CountersInv /\ [Next]_vars => CountersInv'
  BY NextCounters
<1>3. Spec => []InOrderInv(most)
  BY InOrderAlways
<1>4. QED
  BY <1>1, <1>2, <1>3, PTL DEF Spec

\* What the counters are read for.
LEMMA CountersOfBoards ==
  ASSUME NEW most, Fits(most), InOrderInv(most), CountersInv
  PROVE  CountersMatchBets
<1>1. BoardsInv(most) /\ Tables /\ BetsInv /\ MarketsInv
  BY DEF InOrderInv
<1>2. PICK n \in Nat : DOMAIN bets = 1 .. n
  BY <1>1, BetTypes
<1>3. ASSUME NEW m \in DOMAIN markets
      PROVE  LET on == {k \in BetNumbers : bets[k].market = m} IN
             /\ markets[m].total_volume = SumFunction(markets[m].volumes)
             /\ \A i \in Outcomes(m) :
                  markets[m].volumes[i] =
                    SumFunction([k \in {j \in on : bets[j].outcome = i} |-> bets[k].amount])
             /\ markets[m].participants = Cardinality({bets[k].user : k \in on})
  <2>1. markets[m].total_volume = SumFunction(markets[m].volumes)
    BY <1>1 DEF BoardsInv, BoardExact
  <2>2. PICK on : on = {k \in BetNumbers : bets[k].market = m}
    OBVIOUS
  <2>3. markets[m].participants = Cardinality({bets[k].user : k \in on})
    BY <2>2 DEF CountersInv, Bettors, BetNumbers
  <2>4. ASSUME NEW i \in Outcomes(m)
        PROVE  markets[m].volumes[i] = SumFunction([k \in {j \in on : bets[j].outcome = i} |-> bets[k].amount])
    <3>1. PICK K, f : K = {j \in on : bets[j].outcome = i} /\ f = [k \in K |-> bets[k].amount]
      OBVIOUS
    <3>2. K = Backing(m, i) /\ K \in SUBSET (1 .. n)
      BY <1>2, <2>2, <3>1 DEF Backing, BetNumbers
    <3>3. IsFiniteSet(K)
      <4>1. IsFiniteSet(1 .. n)
        BY FS_Interval
      <4>2. QED
        BY <3>2, <4>1, FS_Subset
    <3>4. DOMAIN f = K /\ \A k \in K : f[k] = Amounts[k]
      BY <1>2, <3>1, <3>2 DEF Amounts
    <3>5. SumFunctionOnSet(f, K) = SumFunctionOnSet(Amounts, K)
      BY <3>3, <3>4, SumSame
    <3>6. markets[m].volumes[i] = SumFunctionOnSet(Amounts, K)
      BY <3>2 DEF CountersInv, Outcomes
    <3>7. SumFunction(f) = markets[m].volumes[i]
      BY <3>4, <3>5, <3>6 DEF SumFunction
    <3>8. QED
      BY <3>1, <3>7
  <2>5. QED
    BY <2>1, <2>2, <2>3, <2>4
<1>4. SumFunction([u \in Users |-> Profile(u).total_volume]) =
        SumFunction([m \in DOMAIN markets |-> markets[m].total_volume])
  <2>1. \A u \in Users : Profile(u).total_volume = SumFunctionOnSet(Amounts, OwnBets(DOMAIN bets, u))
    <3>1. SUFFICES ASSUME NEW u \in Users
                   PROVE  Profile(u).total_volume = SumFunctionOnSet(Amounts, OwnBets(DOMAIN bets, u))
      OBVIOUS
    <3>2. Profile(u) = StatsOf(DOMAIN bets, u)
      BY <1>1, StatsFolded DEF Profile
    <3>3. QED
      BY <3>2 DEF StatsOf
  <2>2. [u \in Users |-> Profile(u).total_volume] = Staked
    BY <2>1 DEF Staked
  <2>3. [m \in DOMAIN markets |-> markets[m].total_volume] = Taken
    BY DEF Taken
  <2>4. DOMAIN Staked = Users /\ DOMAIN Taken = DOMAIN markets
    BY DEF Staked, Taken
  <2>5. QED
    BY <2>2, <2>3, <2>4 DEF CountersInv, SumFunction
<1>5. QED
  BY <1>3, <1>4 DEF CountersMatchBets

-----------------------------------------------------------------------------
(* The average shown with a bet *)

\* A floored weighted mean lies between two of what it is taken of.
LEMMA WeightedMean ==
  ASSUME NEW S, IsFiniteSet(S), S # {}, NEW a, NEW p, NEW c,
         \A k \in S : a[k] \in Nat /\ a[k] >= 1 /\ p[k] \in Nat /\ c[k] = a[k] * p[k],
         NEW A \in Nat, A >= 1, A = SumFunctionOnSet(a, S),
         NEW C \in Nat, C = SumFunctionOnSet(c, S), NEW q \in Nat, q = C \div A
  PROVE  (\E k \in S : p[k] <= q) /\ (\E k \in S : p[k] >= q)
<1>1. A * q <= C /\ C <= A * q + (A - 1)
  BY DivBounds
<1>2. ASSUME NEW z \in Nat
      PROVE  \E h : /\ \A k \in S : h[k] = z * a[k] /\ h[k] \in Int
                    /\ SumFunctionOnSet(h, S) = z * A
  <2>1. PICK h : h = [k \in S |-> z * a[k]]
    OBVIOUS
  <2>2. \A k \in S : a[k] \in Int /\ h[k] = z * a[k]
    BY <2>1
  <2>3. SumFunctionOnSet(h, S) = z * SumFunctionOnSet(a, S)
    BY <2>2, SumTimes
  <2>4. \A k \in S : h[k] \in Int
    BY <2>2
  <2>5. QED
    BY <2>2, <2>3, <2>4
<1>4. ASSUME \A k \in S : ~(p[k] <= q) PROVE FALSE
  <2>1. PICK h : (\A k \in S : h[k] = (q + 1) * a[k] /\ h[k] \in Int) /\ SumFunctionOnSet(h, S) = (q + 1) * A
    BY <1>2
  <2>2. ASSUME NEW k \in S PROVE h[k] \in Int /\ c[k] \in Int /\ h[k] <= c[k]
    <3>1. PICK x \in Nat, y \in Nat : x = a[k] /\ y = p[k] /\ y >= q + 1
      BY <1>4
    <3>2. PICK d \in Nat : y = (q + 1) + d
      <4>1. y - (q + 1) \in Nat /\ y = (q + 1) + (y - (q + 1))
        BY <3>1
      <4>2. QED
        BY <4>1
    <3>3. x * y = (q + 1) * x + x * d /\ x * d \in Nat
      BY <3>2
    <3>4. h[k] = (q + 1) * x /\ c[k] = x * y
      BY <2>1, <3>1
    <3>5. QED
      BY <3>3, <3>4
  <2>3. SumFunctionOnSet(h, S) <= SumFunctionOnSet(c, S)
    BY <2>2, SumLeq
  <2>4. (q + 1) * A = A * q + A
    OBVIOUS
  <2>5. QED
    BY <1>1, <2>1, <2>3, <2>4
<1>5. ASSUME \A k \in S : ~(p[k] >= q) PROVE FALSE
  <2>0. PICK k \in S : TRUE
    OBVIOUS
  <2>1. PICK w \in Nat : q = w + 1
    <3>1. q >= 1
      BY <1>5, <2>0
    <3>2. q - 1 \in Nat /\ q = (q - 1) + 1
      BY <3>1
    <3>3. QED
      BY <3>2
  <2>2. PICK h : (\A j \in S : h[j] = w * a[j] /\ h[j] \in Int) /\ SumFunctionOnSet(h, S) = w * A
    BY <1>2
  <2>3. ASSUME NEW j \in S PROVE c[j] \in Int /\ h[j] \in Int /\ c[j] <= h[j]
    <3>1. PICK x \in Nat, y \in Nat : x = a[j] /\ y = p[j] /\ y <= w
      BY <1>5, <2>1
    <3>2. PICK d \in Nat : w = y + d
      <4>1. w - y \in Nat /\ w = y + (w - y)
        BY <3>1
      <4>2. QED
        BY <4>1
    <3>3. w * x = x * y + x * d /\ x * d \in Nat
      BY <3>2
    <3>4. h[j] = w * x /\ c[j] = x * y
      BY <2>2, <3>1
    <3>5. QED
      BY <3>3, <3>4
  <2>4. SumFunctionOnSet(c, S) <= SumFunctionOnSet(h, S)
    BY <2>3, SumLeq
  <2>5. A * q = w * A + A
    BY <2>1
  <2>6. QED
    BY <1>1, <2>2, <2>4, <2>5
<1>6. QED
  BY <1>4, <1>5

\* The price shown with a bet.
LEMMA AveragesShown ==
  ASSUME Tables, BetsInv
  PROVE  ShownAverageIsAPrice
<1>1. SUFFICES ASSUME NEW n \in BetNumbers
               PROVE  LET b == bets[n]
                          position == {j \in BetNumbers : Holds(bets[j], b.user, b.market, b.outcome)}
                          shown == ShownAverage(bets, b)
                      IN  IF b.status # "active" THEN shown = b.price
                          ELSE /\ shown >= MinTick
                               /\ \E j \in position : bets[j].price <= shown
                               /\ \E j \in position : bets[j].price >= shown
  BY DEF ShownAverageIsAPrice
<1>2. PICK u, m, i, S : /\ u = bets[n].user /\ m = bets[n].market /\ i = bets[n].outcome
                        /\ S = {j \in BetNumbers : Holds(bets[j], u, m, i)} /\ S = Held(DOMAIN bets, u, m, i)
  BY DEF Held, BetNumbers
<1>3. ShownAverage(bets, bets[n]) =
        IF MemPosition(bets, u, m, i) = NoPosition THEN bets[n].price ELSE MemPosition(bets, u, m, i)
  BY <1>2 DEF ShownAverage
<1>4. CASE bets[n].status # "active"
  <2>1. markets[m].status # "open"
    BY <1>2, <1>4 DEF BetsInv, BetNumbers
  <2>2. \A j \in DOMAIN bets : bets[j].market = m => bets[j].status # "active"
    BY <2>1 DEF BetsInv
  <2>3. S = {}
    BY <1>2, <2>2 DEF Holds, BetNumbers
  <2>4. MemPosition(bets, u, m, i) = NoPosition
    BY <1>2, <2>3, MemPositionIs
  <2>5. ShownAverage(bets, bets[n]) = bets[n].price
    BY <1>3, <2>4
  <2>6. QED
    BY <1>4, <2>5
<1>5. CASE bets[n].status = "active"
  <2>1. n \in S
    BY <1>2, <1>5 DEF Holds
  <2>2. PICK A, C, q : A = SumFunctionOnSet(Amounts, S) /\ C = SumFunctionOnSet(Costs, S)
                       /\ q = MemPosition(bets, u, m, i)
    OBVIOUS
  <2>3. A \in Nat /\ A >= 1 /\ C \in Nat /\ q = C \div A
    BY <1>2, <2>1, <2>2, MemPositionIs
  <2>4. q \in Nat
    BY <2>3, DivBounds
  <2>5. PICK p : p = [j \in DOMAIN bets |-> bets[j].price]
    OBVIOUS
  <2>6. IsFiniteSet(S) /\ S \subseteq DOMAIN bets
    <3>1. IsFiniteSet(Held(DOMAIN bets, u, m, i)) /\ Held(DOMAIN bets, u, m, i) \subseteq DOMAIN bets
      BY HeldFinite
    <3>2. QED
      BY <1>2, <3>1
  <2>7. \A j \in DOMAIN bets : /\ Amounts[j] \in Nat /\ Amounts[j] >= 1
                               /\ p[j] = bets[j].price /\ p[j] \in Nat /\ p[j] >= MinTick
                               /\ Costs[j] = Amounts[j] * p[j]
    BY <2>5, BetTypes DEF Amounts, Costs
  <2>8. (\E j \in S : p[j] <= q) /\ (\E j \in S : p[j] >= q)
    <3>1. \A j \in S : Amounts[j] \in Nat /\ Amounts[j] >= 1 /\ p[j] \in Nat /\ Costs[j] = Amounts[j] * p[j]
      BY <2>6, <2>7
    <3>2. QED
      BY ONLY <2>1, <2>2, <2>3, <2>4, <2>6, <3>1, WeightedMean
  <2>9. q >= MinTick
    <3>1. PICK j \in S : p[j] <= q
      BY <2>8
    <3>2. p[j] >= MinTick /\ p[j] \in Nat
      BY <2>6, <2>7
    <3>3. QED
      BY <2>4, <3>1, <3>2 DEF MinTick
  <2>10. ShownAverage(bets, bets[n]) = q
    BY <1>3, <2>2, <2>4 DEF NoPosition
  <2>11. \A j \in S : p[j] = bets[j].price
    BY <2>6, <2>7
  <2>12. (\E j \in S : bets[j].price <= q) /\ (\E j \in S : bets[j].price >= q)
    BY <2>8, <2>11
  <2>13. QED
    BY <1>2, <1>5, <2>9, <2>10, <2>12
<1>6. QED
  BY <1>4, <1>5

-----------------------------------------------------------------------------
(* A reader's walk *)

\* A page moves the reader on.  U are the bets of the start it had not seen, and V
\* those it still has not; of the rest, enough are ahead of every one of them.
LEMMA PageRead ==
  ASSUME NEW S, IsFiniteSet(S), NEW R, StrictOrder(S, R), NEW e, Enumerates(e, S, R),
         NEW off \in Nat, NEW size \in Nat, NEW U, NEW V, V \subseteq U,
         \A n \in DOMAIN e : off < n /\ n <= off + size => e[n] \notin V,
         \A k \in U \cap S : Cardinality(Ahead(S, R, k) \ U) >= off
  PROVE  /\ \A k \in V \cap S : Cardinality(Ahead(S, R, k) \ V) >= off + size
         /\ Cardinality(S) <= off => U \cap S = {}
<1>1. PICK c \in Nat : c = Cardinality(S) /\ DOMAIN e = 1 .. c
  BY FS_CardinalityType DEF Enumerates
<1>2. /\ \A n \in 1 .. c : e[n] \in S
      /\ \A k \in S : \E n \in 1 .. c : e[n] = k
      /\ \A n1, n2 \in 1 .. c : n1 < n2 => <<e[n1], e[n2]>> \in R
  BY <1>1 DEF Enumerates
<1>3. ASSUME NEW K, IsFiniteSet(K), NEW L, IsFiniteSet(L), NEW f \in [K -> L],
             \A x, y \in K : f[x] = f[y] => x = y
      PROVE  Cardinality(K) <= Cardinality(L)
  <2>1. f \in Injection(K, L)
    BY <1>3 DEF Injection, IsInjective
  <2>2. QED
    BY <1>3, <2>1, FS_Injection
<1>4. ASSUME NEW m \in Nat PROVE IsFiniteSet(1 .. m) /\ Cardinality(1 .. m) = m
  <2>1. IsFiniteSet(1 .. m) /\ Cardinality(1 .. m) = IF 1 > m THEN 0 ELSE m - 1 + 1
    BY FS_Interval
  <2>2. QED
    BY <2>1
<1>5. ASSUME NEW k \in S, NEW W PROVE IsFiniteSet(Ahead(S, R, k) \ W)
  <2>1. Ahead(S, R, k) \ W \in SUBSET S
    BY DEF Ahead
  <2>2. QED
    BY <2>1, FS_Subset
<1>6. ASSUME NEW n \in 1 .. c, e[n] \in U PROVE n > off
  <2>0. PICK k \in S : k = e[n]
    BY <1>2
  <2>1. PICK K : k = e[n] /\ K = Ahead(S, R, k) \ U
    BY <2>0
  <2>2. Cardinality(K) >= off
    BY <1>6, <2>1
  <2>3. ASSUME NEW j \in K PROVE \E m \in 1 .. n - 1 : e[m] = j
    <3>1. j \in S /\ <<j, k>> \in R
      BY <2>1 DEF Ahead
    <3>2. PICK m \in 1 .. c : e[m] = j
      BY <1>2, <3>1
    <3>3. m # n /\ ~(n < m)
      <4>1. ~(<<j, j>> \in R)
        BY <3>1 DEF StrictOrder
      <4>2. <<k, j>> \in R => <<j, j>> \in R
        BY <3>1 DEF StrictOrder
      <4>3. n < m => <<k, j>> \in R
        BY <1>2, <2>1, <3>2
      <4>4. m = n => <<j, j>> \in R
        BY <2>1, <3>1, <3>2
      <4>5. QED
        BY <4>1, <4>2, <4>3, <4>4
    <3>4. m \in 1 .. n - 1
      BY <1>1, <3>3
    <3>5. QED
      BY <3>2, <3>4
  <2>4. PICK f : f = [j \in K |-> CHOOSE m \in 1 .. n - 1 : e[m] = j]
    OBVIOUS
  <2>5. \A j \in K : f[j] \in 1 .. n - 1 /\ e[f[j]] = j
    BY <2>3, <2>4
  <2>6. f \in [K -> 1 .. n - 1] /\ \A x, y \in K : f[x] = f[y] => x = y
    BY <2>4, <2>5
  <2>7. PICK p \in Nat : p = n - 1 /\ IsFiniteSet(1 .. p) /\ Cardinality(1 .. p) = p
    <3>1. n - 1 \in Nat
      BY <1>1
    <3>2. QED
      BY <1>4, <3>1
  <2>8. Cardinality(K) <= p
    <3>1. IsFiniteSet(K)
      BY <1>5, <2>1
    <3>2. f \in [K -> 1 .. p]
      BY <2>6, <2>7
    <3>3. Cardinality(K) <= Cardinality(1 .. p)
      BY <1>3, <2>6, <2>7, <3>1, <3>2
    <3>4. QED
      BY <2>7, <3>3
  <2>9. Cardinality(K) \in Nat
    BY <1>5, <2>1, FS_CardinalityType
  <2>10. n \in Nat
    BY <1>1
  <2>11. QED
    BY <2>2, <2>7, <2>8, <2>9, <2>10
<1>7. ASSUME NEW k \in V \cap S PROVE Cardinality(Ahead(S, R, k) \ V) >= off + size
  <2>1. PICK n \in 1 .. c : e[n] = k
    BY <1>2
  <2>2. n > off + size
    BY <1>1, <1>6, <2>1
  <2>3. PICK p \in Nat : p = off + size /\ IsFiniteSet(1 .. p) /\ Cardinality(1 .. p) = p
    BY <1>4
  <2>4. PICK g, L : g = [m \in 1 .. p |-> e[m]] /\ L = Ahead(S, R, k) \ V
    OBVIOUS
  <2>5. ASSUME NEW m \in 1 .. p PROVE e[m] \in L /\ m \in 1 .. c
    <3>1. m \in 1 .. c /\ m < n
      BY <1>1, <2>1, <2>2, <2>3
    <3>2. e[m] \in S /\ <<e[m], k>> \in R
      BY <1>2, <2>1, <3>1
    <3>3. e[m] \notin V
      BY <1>1, <1>6, <2>3, <3>1
    <3>4. QED
      BY <2>4, <3>1, <3>2, <3>3 DEF Ahead
  <2>6. g \in [1 .. p -> L]
    BY <2>4, <2>5
  <2>7. ASSUME NEW x \in 1 .. p, NEW y \in 1 .. p, g[x] = g[y] PROVE x = y
    <3>1. x \in 1 .. c /\ y \in 1 .. c /\ e[x] = e[y] /\ e[x] \in S
      BY <1>2, <2>4, <2>5, <2>7
    <3>2. <<e[x], e[x]>> \notin R
      BY <3>1 DEF StrictOrder
    <3>3. ~(x < y) /\ ~(y < x)
      BY <1>2, <3>1, <3>2
    <3>4. QED
      BY <3>3
  <2>8. IsFiniteSet(L)
    BY <1>5, <2>4
  <2>9. Cardinality(1 .. p) <= Cardinality(L)
    BY <1>3, <2>3, <2>6, <2>7, <2>8
  <2>10. Cardinality(L) \in Nat
    BY <2>8, FS_CardinalityType
  <2>11. QED
    BY <2>3, <2>4, <2>9, <2>10
<1>8. ASSUME Cardinality(S) <= off PROVE U \cap S = {}
  BY <1>1, <1>2, <1>6, <1>8
<1>9. QED
  BY <1>7, <1>8

\* The greater and the lesser of two.
LEMMA OfTwo ==
  ASSUME NEW a \in Int, NEW b \in Int
  PROVE  /\ Max({a, b}) = IF a >= b THEN a ELSE b
         /\ Min({a, b}) = IF a <= b THEN a ELSE b
<1>1. \E x \in {a, b} : \A y \in {a, b} : x >= y
  OBVIOUS
<1>2. Max({a, b}) \in {a, b} /\ \A y \in {a, b} : Max({a, b}) >= y
  BY <1>1 DEF Max
<1>3. \E x \in {a, b} : \A y \in {a, b} : x <= y
  OBVIOUS
<1>4. Min({a, b}) \in {a, b} /\ \A y \in {a, b} : Min({a, b}) <= y
  BY <1>3 DEF Min
<1>5. QED
  BY <1>2, <1>4

\* A page has at least one place and at most MaxLimit.
LEMMA PageSize ==
  ASSUME NEW limit \in Int
  PROVE  ClampLimit(limit) \in 1 .. MaxLimit /\ MaxLimit \in Nat
<1>1. MaxLimit \in Nat /\ MaxLimit >= 1
  BY ListingsAssumption
<1>2. PICK x \in Int : x = Max({limit, 1}) /\ x >= 1
  BY OfTwo
<1>3. Min({x, MaxLimit}) = IF x <= MaxLimit THEN x ELSE MaxLimit
  BY <1>1, OfTwo
<1>4. QED
  BY <1>1, <1>2, <1>3 DEF ClampLimit

\* What a page holds: the places after those of the pages before it.
LEMMA PageHolds ==
  ASSUME NEW S, NEW e \in Seq(S), NEW limit \in Int, NEW page \in Nat, page >= 1,
         NEW size, size = ClampLimit(limit), NEW off \in Nat, off = (page - 1) * size, off <= I64MAX,
         NEW read, read = PageOf(e, page, limit)
  PROVE  /\ read = << >> <=> Len(e) <= off
         /\ ToSet(read) = {e[n] : n \in {m \in DOMAIN e : off < m /\ m <= off + size}}
<1>1. size \in Nat /\ size >= 1
  BY PageSize
<1>2. Max({page, 1}) = page
  BY OfTwo
<1>3. Offset(page, limit) = off
  <2>1. off \in I64
    BY PricingAssumption DEF I64
  <2>2. QED
    BY <1>2, <2>1 DEF Offset, WrapI64
<1>4. Max({Offset(page, limit), 0}) = off
  BY <1>3, OfTwo
<1>5. PICK c \in Nat : c = Len(e) /\ DOMAIN e = 1 .. c /\ \A n \in 1 .. c : e[n] \in S
  OBVIOUS
<1>6. PICK hi \in Nat : hi = (IF off + size <= c THEN off + size ELSE c) /\ hi = Min({off + size, c})
  <2>1. off + size \in Int /\ c \in Int
    BY <1>1
  <2>2. Min({off + size, c}) = IF off + size <= c THEN off + size ELSE c
    BY <2>1, OfTwo
  <2>3. QED
    BY <1>1, <2>2
<1>7. read = SubSeq(e, off + 1, hi)
  BY <1>4, <1>5, <1>6 DEF PageOf
<1>8. /\ Len(read) = IF off + 1 <= hi THEN hi - (off + 1) + 1 ELSE 0
      /\ read \in Seq(S)
      /\ \A i \in 1 .. hi - (off + 1) + 1 : read[i] = e[(off + 1) + i - 1]
  <2>1. \A i \in off + 1 .. hi : e[i] \in S
    BY <1>5, <1>6
  <2>2. off + 1 \in Int /\ hi \in Int
    OBVIOUS
  <2>3. QED
    BY <1>7, <2>1, <2>2, SubSeqProperties
<1>9. CASE c <= off
  <2>1. hi < off + 1
    BY ONLY <1>6, <1>9, c \in Nat, hi \in Nat, off \in Nat
  <2>2. read = << >>
    BY <1>7, <2>1, SubSeqEmpty
  <2>3. {m \in DOMAIN e : off < m /\ m <= off + size} = {}
    BY <1>5, <1>9
  <2>4. ToSet(read) = {}
    BY <2>2 DEF ToSet
  <2>5. QED
    BY <1>5, <1>9, <2>2, <2>3, <2>4
<1>10. CASE c > off
  <2>0. /\ hi - off \in Nat /\ hi - off >= 1 /\ off + 1 <= hi /\ hi <= c /\ hi <= off + size
        /\ hi = off + size \/ hi = c
    BY ONLY <1>1, <1>6, <1>10, c \in Nat, hi \in Nat, off \in Nat
  <2>1. PICK l \in Nat : l = hi - off /\ l >= 1
    BY <2>0
  <2>2. Len(read) = l /\ DOMAIN read = 1 .. l
    <3>1. hi - (off + 1) + 1 = l
      BY ONLY <2>1, hi \in Nat, off \in Nat
    <3>2. Len(read) = l /\ read \in Seq(S)
      BY <1>8, <2>0, <3>1
    <3>3. QED
      BY <3>2
  <2>3. \A i \in 1 .. l : read[i] = e[off + i]
    <3>1. hi - (off + 1) + 1 = l
      BY ONLY <2>1, hi \in Nat, off \in Nat
    <3>2. \A i \in 1 .. l : (off + 1) + i - 1 = off + i
      OBVIOUS
    <3>3. QED
      BY <1>8, <3>1, <3>2
  <2>4. read # << >>
    BY <2>1, <2>2
  <2>5. \A i \in 1 .. l : off + i \in DOMAIN e /\ off < off + i /\ off + i <= off + size
    <3>1. \A i \in 1 .. l : off + i \in 1 .. c /\ off < off + i /\ off + i <= off + size
      BY ONLY <1>1, <2>0, <2>1, c \in Nat, hi \in Nat, off \in Nat
    <3>2. QED
      BY <1>5, <3>1
  <2>6. \A m \in DOMAIN e : off < m /\ m <= off + size => m - off \in 1 .. l /\ m = off + (m - off)
    <3>1. \A m \in 1 .. c : off < m /\ m <= off + size => m - off \in 1 .. l /\ m = off + (m - off)
      BY ONLY <1>1, <2>0, <2>1, c \in Nat, hi \in Nat, off \in Nat
    <3>2. QED
      BY <1>5, <3>1
  <2>7. ToSet(read) = {e[n] : n \in {m \in DOMAIN e : off < m /\ m <= off + size}}
    <3>1. ToSet(read) = {read[i] : i \in 1 .. l}
      BY <2>2 DEF ToSet
    <3>2. ASSUME NEW i \in 1 .. l
          PROVE  read[i] \in {e[n] : n \in {m \in DOMAIN e : off < m /\ m <= off + size}}
      BY <2>3, <2>5
    <3>3. ASSUME NEW n \in DOMAIN e, off < n, n <= off + size
          PROVE  e[n] \in {read[i] : i \in 1 .. l}
      <4>1. n - off \in 1 .. l /\ n = off + (n - off)
        BY <2>6, <3>3
      <4>2. read[n - off] = e[n]
        BY <2>3, <4>1
      <4>3. QED
        BY <4>1, <4>2
    <3>4. QED
      BY <3>1, <3>2, <3>3
  <2>8. QED
    BY <1>5, <1>10, <2>4, <2>7
<1>11. QED
  BY <1>5, <1>9, <1>10

\* The offset of a walk never leaves the i64 range.
WalkFits == MaxWrites + MaxLimit <= I64MAX

\* What the reader's filter lists now, what it listed at the start and was not seen
\* since, and how many places have been read.
Listed == Kept(BetNumbers, walk.filter)
Unseen == walk.start \ walk.seen
PlacesRead == (walk.page - 1) * ClampLimit(walk.limit)

\* No bet the reader has passed has left the listing.
NoneLeft ==
  walk.filter = "active" =>
    \A k \in DOMAIN bets : k \in walk.seen \/ k > walk.last => bets[k].status = "active"

\* The bets ahead of one that are not among the unseen.
PassedBefore(k) == Ahead(Listed, BetPairs(Listed, walk.sort), k) \ Unseen

\* The filters that keep settled bets only.
Closed == BetFilters \ {"any", "active"}

\* What is known of a walk under way.
WalkTyped ==
  /\ walk.filter \in BetFilters /\ walk.sort \in BetSorts /\ walk.limit \in Int
  /\ walk.page \in Nat /\ walk.page >= 1
  /\ walk.last \in Nat /\ walk.last <= Len(bets)
  /\ PlacesRead <= MaxWrites + MaxLimit
  /\ walk.filter = "active" =>
       \A k \in DOMAIN bets : k <= walk.last /\ bets[k].status = "active" => k \in walk.start
  /\ walk.filter \in Closed => \A k \in walk.start : Matches(walk.filter, bets[k].status)

\* The inductive invariant of the walk: as long as no bet the reader has passed has
\* left the listing, a bet it has yet to see is behind all the places it has read.
WalkInv ==
  /\ walk.at \in {"unstarted", "reading", "finished"}
  /\ walk.start \subseteq DOMAIN bets /\ walk.seen \subseteq DOMAIN bets
  /\ walk.at # "unstarted" => WalkTyped
  /\ walk.at = "reading" /\ NoneLeft =>
       \A k \in Unseen \cap Listed : Cardinality(PassedBefore(k)) >= PlacesRead
  /\ walk.at = "finished" /\ NoneLeft => Unseen \cap Listed = {}

\* What the writers do to the bets: more of them, and some no longer active.
BetsMove ==
  /\ DOMAIN bets \subseteq DOMAIN bets' /\ Len(bets) <= Len(bets')
  /\ \A k \in DOMAIN bets' \ DOMAIN bets : k > Len(bets)
  /\ \A k \in DOMAIN bets :
       /\ bets'[k].amount = bets[k].amount /\ bets'[k].created = bets[k].created
       /\ bets[k].status # "active" => bets'[k].status = bets[k].status

\* The status filters.
LEMMA Filters ==
  ASSUME NEW status \in {"active", "won", "lost"}
  PROVE  /\ Matches("any", status)
         /\ Matches("active", status) <=> status = "active"
         /\ \A filter \in Closed : Matches(filter, status) => status # "active"
  BY DEF Matches, Closed, BetFilters, BetStatuses

\* The writers' steps move the bets so.
LEMMA WritersMoveBets ==
  ASSUME NEW most, Fits(most), InOrderInv(most), InOrderInv(most)', [Next]_vars
  PROVE  BetsMove
<1>1. /\ BoardsInv(most) /\ Tables /\ BetsInv /\ MarketsInv /\ Tables'
  BY DEF InOrderInv
<1>2. PICK n \in Nat : Len(bets) = n /\ DOMAIN bets = 1 .. n
  BY <1>1, BetTypes
<1>3. ASSUME bets' = bets PROVE BetsMove
  BY <1>2, <1>3 DEF BetsMove
<1>4. CASE \E m \in OutcomeCounts : \E closes \in {NoDeadline, now + BettingTime} : Created(m, closes)
  BY <1>3, <1>4 DEF Created
<1>5. ASSUME NEW u, NEW m, NEW i, NEW amount, Placed(u, m, i, amount) PROVE BetsMove
  <2>1. PICK b : Grown(bets, bets', b)
    BY <1>5 DEF Placed
  <2>2. QED
    BY <1>2, <2>1 DEF Grown, BetsMove
<1>6. ASSUME NEW m, NEW winner, Resolved(m, winner) PROVE BetsMove
  BY <1>2, <1>6 DEF Resolved, BetsMove
<1>7. QED
  BY <1>1, <1>3, <1>4, <1>5, <1>6, Steps

\* The writers keep the walk in order.
LEMMA WritersAndWalk ==
  ASSUME Tables, Tables', WalkInv, BetsMove, walk' = walk
  PROVE  WalkInv'
<1>1. /\ DOMAIN bets \subseteq DOMAIN bets' /\ Len(bets) <= Len(bets')
      /\ \A k \in DOMAIN bets' \ DOMAIN bets : k > Len(bets)
      /\ \A k \in DOMAIN bets :
           /\ bets'[k].amount = bets[k].amount /\ bets'[k].created = bets[k].created
           /\ bets[k].status # "active" => bets'[k].status = bets[k].status
  BY DEF BetsMove
<1>2. PICK n, p : n = Len(bets) /\ p = Len(bets') /\ n \in Nat /\ p \in Nat /\ n <= p
                  /\ DOMAIN bets = 1 .. n /\ DOMAIN bets' = 1 .. p
  <2>1. Len(bets') \in Nat /\ DOMAIN bets' = 1 .. Len(bets')
    BY DEF Tables
  <2>2. QED
    BY <1>1, <2>1, BetTypes
<1>3. /\ \A k \in DOMAIN bets : bets[k].status \in {"active", "won", "lost"}
      /\ \A k \in DOMAIN bets' : bets'[k].status \in {"active", "won", "lost"}
  <2>1. \A k \in DOMAIN bets' : bets'[k] \in BetRow
    BY DEF Tables
  <2>2. \A k \in DOMAIN bets' : bets'[k].status \in {"active", "won", "lost"}
    BY <2>1 DEF BetRow
  <2>3. QED
    BY <2>2, BetTypes
<1>4. Unseen' = Unseen /\ PlacesRead' = PlacesRead
  BY DEF Unseen, PlacesRead
<1>5. walk.at \in {"unstarted", "reading", "finished"} /\ walk.start \subseteq DOMAIN bets /\ walk.seen \subseteq DOMAIN bets
  BY DEF WalkInv
<1>6. ASSUME WalkTyped PROVE WalkTyped'
  <2>1. walk.filter = "active" =>
          \A k \in DOMAIN bets' : k <= walk.last /\ bets'[k].status = "active" => k \in walk.start
    <3>1. SUFFICES ASSUME walk.filter = "active", NEW k \in DOMAIN bets', k <= walk.last, bets'[k].status = "active"
                   PROVE  k \in walk.start
      OBVIOUS
    <3>2. k \in DOMAIN bets
      BY <1>1, <1>2, <1>6, <3>1 DEF WalkTyped
    <3>3. bets[k].status = "active"
      BY <1>1, <3>1, <3>2
    <3>4. QED
      BY <1>6, <3>1, <3>2, <3>3 DEF WalkTyped
  <2>2. walk.filter \in Closed => \A k \in walk.start : Matches(walk.filter, bets'[k].status)
    <3>1. SUFFICES ASSUME walk.filter \in Closed, NEW k \in walk.start
                   PROVE  Matches(walk.filter, bets'[k].status)
      OBVIOUS
    <3>2. k \in DOMAIN bets /\ Matches(walk.filter, bets[k].status)
      BY <1>5, <1>6, <3>1 DEF WalkTyped
    <3>3. bets[k].status # "active"
      BY <1>3, <3>1, <3>2, Filters
    <3>4. QED
      BY <1>1, <3>2, <3>3
  <2>3. walk.last <= Len(bets')
    BY <1>2, <1>6 DEF WalkTyped
  <2>4. QED
    BY <1>4, <1>6, <2>1, <2>2, <2>3 DEF WalkTyped
<1>7. NoneLeft' => NoneLeft
  BY <1>1 DEF NoneLeft
<1>8. ASSUME walk.at # "unstarted", NEW k \in Unseen, k \in Listed' PROVE k \in Listed
  <2>1. k \in walk.start /\ k \in DOMAIN bets /\ WalkTyped
    BY <1>5, <1>8 DEF Unseen, WalkInv
  <2>2. Matches(walk.filter, bets'[k].status)
    BY <1>8 DEF Listed, Kept
  <2>3. walk.filter \in {"any", "active"} \cup Closed
    BY <2>1 DEF WalkTyped, Closed
  <2>4. Matches(walk.filter, bets[k].status)
    <3>1. CASE walk.filter = "any"
      BY <1>3, <2>1, <3>1, Filters
    <3>2. CASE walk.filter = "active"
      <4>1. bets'[k].status = "active"
        BY <1>1, <1>3, <2>1, <2>2, <3>2, Filters
      <4>2. QED
        BY <1>1, <1>3, <2>1, <3>2, <4>1, Filters
    <3>3. CASE walk.filter \in Closed
      BY <2>1, <3>3 DEF WalkTyped
    <3>4. QED
      BY <2>3, <3>1, <3>2, <3>3
  <2>5. QED
    BY <2>1, <2>4 DEF Listed, Kept, BetNumbers
<1>9. ASSUME walk.at # "unstarted", NoneLeft', NEW j \in Listed, j \notin Unseen PROVE j \in Listed'
  <2>1. WalkTyped /\ j \in DOMAIN bets /\ j \in DOMAIN bets' /\ Matches(walk.filter, bets[j].status)
    BY <1>1, <1>9 DEF WalkInv, Listed, Kept, BetNumbers
  <2>2. walk.filter \in {"any", "active"} \cup Closed
    BY <2>1 DEF WalkTyped, Closed
  <2>3. Matches(walk.filter, bets'[j].status)
    <3>1. CASE walk.filter = "any"
      BY <1>3, <2>1, <3>1, Filters
    <3>2. CASE walk.filter = "active"
      <4>1. bets[j].status = "active"
        BY <1>3, <2>1, <3>2, Filters
      <4>2. j \in walk.seen \/ j > walk.last
        <5>1. j \in walk.start => j \in walk.seen
          BY <1>9 DEF Unseen
        <5>2. j <= walk.last => j \in walk.start
          BY <2>1, <3>2, <4>1 DEF WalkTyped
        <5>3. j <= walk.last \/ j > walk.last
          BY <1>2, <2>1 DEF WalkTyped
        <5>4. QED
          BY <5>1, <5>2, <5>3
      <4>3. bets'[j].status = "active"
        BY <1>9, <2>1, <3>2, <4>2 DEF NoneLeft
      <4>4. QED
        BY <1>3, <2>1, <3>2, <4>3, Filters
    <3>3. CASE walk.filter \in Closed
      <4>1. bets[j].status # "active"
        BY <1>3, <2>1, <3>3, Filters
      <4>2. QED
        BY <1>1, <2>1, <4>1
    <3>4. QED
      BY <2>2, <3>1, <3>2, <3>3
  <2>4. QED
    BY <2>1, <2>3 DEF Listed, Kept, BetNumbers
<1>10. ASSUME walk.at = "reading", NoneLeft', NEW k \in Unseen, k \in Listed'
       PROVE  Cardinality(PassedBefore(k)') >= PlacesRead
  <2>1. k \in Listed
    BY <1>8, <1>10
  <2>2. Cardinality(PassedBefore(k)) >= PlacesRead
    BY <1>7, <1>10, <2>1 DEF WalkInv
  <2>3. \A j \in PassedBefore(k) : j \in PassedBefore(k)'
    <3>1. SUFFICES ASSUME NEW j \in PassedBefore(k) PROVE j \in PassedBefore(k)'
      OBVIOUS
    <3>2. j \in Listed /\ j \notin Unseen /\ BetBefore(walk.sort, bets[j], bets[k])
      BY <3>1 DEF PassedBefore, Ahead, BetPairs
    <3>3. j \in Listed'
      BY <1>9, <1>10, <3>2
    <3>4. j \in DOMAIN bets /\ k \in DOMAIN bets
      BY <2>1, <3>2 DEF Listed, Kept, BetNumbers
    <3>5. BetBefore(walk.sort, bets'[j], bets'[k])
      BY <1>1, <3>2, <3>4 DEF BetBefore
    <3>6. QED
      BY <1>4, <1>10, <3>2, <3>3, <3>5 DEF PassedBefore, Ahead, BetPairs
  <2>4. PICK K, L : K = PassedBefore(k) /\ L = PassedBefore(k)' /\ K \in SUBSET L
    BY <2>3
  <2>5. L \in SUBSET (1 .. p) /\ IsFiniteSet(1 .. p)
    BY <1>2, <2>4, FS_Interval DEF PassedBefore, Ahead, Listed, Kept, BetNumbers
  <2>6. IsFiniteSet(L)
    BY <2>5, FS_Subset
  <2>7. IsFiniteSet(K) /\ Cardinality(K) <= Cardinality(L)
    BY <2>4, <2>6, FS_Subset
  <2>8. Cardinality(K) \in Nat /\ Cardinality(L) \in Nat
    BY <2>6, <2>7, FS_CardinalityType
  <2>9. PlacesRead \in Int
    <3>1. walk.page \in Nat /\ walk.limit \in Int
      BY <1>10 DEF WalkInv, WalkTyped
    <3>2. ClampLimit(walk.limit) \in Int
      BY <3>1, PageSize
    <3>3. QED
      BY <3>1, <3>2 DEF PlacesRead
  <2>10. QED
    BY <2>2, <2>4, <2>7, <2>8, <2>9
<1>11. ASSUME walk.at = "finished", NoneLeft' PROVE (Unseen \cap Listed)' = {}
  BY <1>4, <1>7, <1>8, <1>11 DEF WalkInv
<1>12. QED
  BY <1>1, <1>4, <1>5, <1>6, <1>10, <1>11 DEF WalkInv

\* A walk starts with nothing read.
LEMMA WalkStarts ==
  ASSUME Tables, BetsInv, WalkInv, NEW w \in Walks, StartWalk(w)
  PROVE  WalkInv'
<1>1. w.filter \in BetFilters /\ w.sort \in BetSorts /\ w.limit \in Int
  BY LedgerAssumption
<1>2. PICK S : S = Kept(BetNumbers, w.filter) /\ S \subseteq DOMAIN bets
  BY DEF Kept, BetNumbers
<1>3. ToSet(Feed(w.filter, w.sort)) = S
  <2>1. BetNumbers \subseteq DOMAIN bets
    BY DEF BetNumbers
  <2>2. Lists(MemBets(bets, BetNumbers, w.filter, w.sort), S, BetPairs(S, w.sort))
    BY <1>1, <1>2, <2>1, MemBetsListing
  <2>3. ToSet(MemBets(bets, BetNumbers, w.filter, w.sort)) = S
    BY <2>2, ListingSet
  <2>4. QED
    BY <2>3 DEF Feed
<1>4. /\ walk'.at = "reading" /\ walk'.filter = w.filter /\ walk'.sort = w.sort /\ walk'.limit = w.limit
      /\ walk'.page = 1 /\ walk'.start = S /\ walk'.last = Len(bets) /\ walk'.seen = {}
      /\ bets' = bets
  BY <1>3 DEF StartWalk
<1>5. PICK n \in Nat : n = Len(bets) /\ DOMAIN bets = 1 .. n
  BY BetTypes
<1>6. PlacesRead' = 0
  <2>1. ClampLimit(w.limit) \in Int
    BY <1>1, PageSize
  <2>2. PlacesRead' = (1 - 1) * ClampLimit(w.limit)
    BY <1>4 DEF PlacesRead
  <2>3. QED
    BY <2>1, <2>2
<1>7. \A k \in DOMAIN bets : bets[k].status \in {"active", "won", "lost"}
  BY BetTypes
<1>8. WalkTyped'
  <2>1. w.filter = "active" => \A k \in DOMAIN bets : bets[k].status = "active" => k \in S
    BY <1>2, <1>7, Filters DEF Kept, BetNumbers
  <2>2. w.filter \in Closed => \A k \in S : Matches(w.filter, bets[k].status)
    BY <1>2 DEF Kept, BetNumbers
  <2>3. 0 <= MaxWrites + MaxLimit
    BY PageSize, <1>1, LedgerAssumption
  <2>4. QED
    BY <1>1, <1>4, <1>5, <1>6, <2>1, <2>2, <2>3 DEF WalkTyped
<1>9. ASSUME NEW k \in DOMAIN bets PROVE Cardinality(PassedBefore(k)') >= 0
  <2>1. PassedBefore(k)' \in SUBSET (1 .. n) /\ IsFiniteSet(1 .. n)
    BY <1>4, <1>5, FS_Interval DEF PassedBefore, Ahead, Listed, Kept, BetNumbers
  <2>2. IsFiniteSet(PassedBefore(k)')
    BY <2>1, FS_Subset
  <2>3. QED
    BY <2>2, FS_CardinalityType
<1>10. \A k \in (Unseen \cap Listed)' : k \in DOMAIN bets
  BY <1>4 DEF Listed, Kept, BetNumbers
<1>11. QED
  BY <1>2, <1>4, <1>6, <1>8, <1>9, <1>10 DEF WalkInv

\* A page takes the reader on, or the walk is over.
LEMMA WalkReads ==
  ASSUME WalkFits, NEW most, Fits(most), BoardsInv(most), Tables, BetsInv, WalkInv, ReadPage
  PROVE  WalkInv'
<1>1. PICK S, B, e, read : /\ S = Listed /\ B = BetPairs(S, walk.sort)
                           /\ e = Feed(walk.filter, walk.sort) /\ read = PageOf(e, walk.page, walk.limit)
  OBVIOUS
<1>2. /\ walk.at = "reading" /\ WalkTyped /\ bets' = bets
      /\ walk' = IF read = << >> THEN [walk EXCEPT !.at = "finished"]
                 ELSE [walk EXCEPT !.page = @ + 1, !.seen = @ \cup ToSet(read)]
  BY <1>1 DEF ReadPage, WalkInv
<1>3. walk.filter \in BetFilters /\ walk.sort \in BetSorts /\ walk.limit \in Int
      /\ walk.page \in Nat /\ walk.page >= 1
  BY <1>2 DEF WalkTyped
<1>4. S \subseteq DOMAIN bets /\ IsFiniteSet(S) /\ Enumerates(e, S, B) /\ Lists(e, S, B) /\ StrictOrder(S, B)
  <2>1. BetNumbers \subseteq DOMAIN bets /\ S = Kept(BetNumbers, walk.filter) /\ S \subseteq DOMAIN bets
    BY <1>1 DEF BetNumbers, Listed, Kept
  <2>2. IsFiniteSet(S) /\ Enumerates(e, S, B) /\ Lists(e, S, B)
    BY <1>1, <1>3, <2>1, MemBetsListing DEF Feed
  <2>3. QED
    BY <1>1, <1>3, <2>1, <2>2, BetOrder
<1>5. PICK size \in Nat : size = ClampLimit(walk.limit) /\ size >= 1 /\ size <= MaxLimit /\ MaxLimit \in Nat
  BY <1>3, PageSize
<1>6. PICK off \in Nat : off = (walk.page - 1) * size /\ off = PlacesRead
  <2>1. walk.page - 1 \in Nat
    BY <1>3
  <2>2. (walk.page - 1) * size \in Nat
    BY <2>1
  <2>3. QED
    BY <1>5, <2>2 DEF PlacesRead
<1>7. off <= I64MAX
  <2>1. off <= MaxWrites + MaxLimit
    BY <1>2, <1>6 DEF WalkTyped
  <2>2. MaxWrites \in Nat /\ I64MAX \in Nat
    BY PricingAssumption, LedgerAssumption
  <2>3. QED
    BY <1>5, <2>1, <2>2 DEF WalkFits
<1>8. e \in Seq(S) /\ Len(e) = Cardinality(S) /\ Cardinality(S) \in Nat
  BY <1>4, ListingSequence
<1>9. /\ read = << >> <=> Len(e) <= off
      /\ ToSet(read) = {e[n] : n \in {m \in DOMAIN e : off < m /\ m <= off + size}}
  BY <1>1, <1>3, <1>5, <1>6, <1>7, <1>8, PageHolds
<1>10. ASSUME NoneLeft PROVE \A k \in Unseen \cap S : Cardinality(Ahead(S, B, k) \ Unseen) >= off
  BY <1>1, <1>2, <1>6, <1>10 DEF WalkInv, PassedBefore
<1>11. CASE read = << >>
  <2>1. /\ walk'.at = "finished" /\ walk'.filter = walk.filter /\ walk'.sort = walk.sort
        /\ walk'.limit = walk.limit /\ walk'.page = walk.page /\ walk'.start = walk.start
        /\ walk'.last = walk.last /\ walk'.seen = walk.seen
    BY <1>2, <1>11
  <2>2. WalkTyped'
    BY <1>2, <2>1 DEF WalkTyped, PlacesRead
  <2>3. ASSUME NoneLeft' PROVE (Unseen \cap Listed)' = {}
    <3>1. NoneLeft
      BY <1>2, <2>1, <2>3 DEF NoneLeft
    <3>2. Cardinality(S) <= off
      BY <1>8, <1>9, <1>11
    <3>3. PICK U : U = Unseen /\ \A k \in U \cap S : Cardinality(Ahead(S, B, k) \ U) >= off
      BY <1>10, <3>1
    <3>4. Cardinality(S) <= off => U \cap S = {}
      <4>1. PICK V : V = {}
        OBVIOUS
      <4>2. V \subseteq U /\ \A n \in DOMAIN e : e[n] \notin V
        BY <4>1
      <4>3. QED
        BY <1>4, <3>3, <4>2, PageRead
    <3>5. Unseen' = Unseen /\ Listed' = Listed
      BY <1>2, <2>1 DEF Unseen, Listed, Kept, BetNumbers
    <3>6. QED
      BY <1>1, <3>2, <3>3, <3>4, <3>5
  <2>4. QED
    BY <1>2, <2>1, <2>2, <2>3 DEF WalkInv
<1>12. CASE read # << >>
  <2>1. /\ walk'.at = "reading" /\ walk'.filter = walk.filter /\ walk'.sort = walk.sort
        /\ walk'.limit = walk.limit /\ walk'.page = walk.page + 1 /\ walk'.start = walk.start
        /\ walk'.last = walk.last /\ walk'.seen = walk.seen \cup ToSet(read)
    BY <1>2, <1>12
  <2>2. PlacesRead' = off + size
    <3>1. PICK p \in Nat : walk.page = p + 1
      <4>1. walk.page - 1 \in Nat /\ walk.page = (walk.page - 1) + 1
        BY <1>3
      <4>2. QED
        BY <4>1
    <3>2. off = p * size
      <4>1. walk.page - 1 = p
        BY <3>1
      <4>2. QED
        BY <1>6, <4>1
    <3>3. PlacesRead' = (p + 1) * size
      <4>1. PlacesRead' = (walk'.page - 1) * ClampLimit(walk'.limit)
        BY DEF PlacesRead
      <4>2. walk'.page - 1 = p + 1
        BY <2>1, <3>1
      <4>3. QED
        BY <1>5, <2>1, <4>1, <4>2
    <3>4. (p + 1) * size = p * size + size
      OBVIOUS
    <3>5. QED
      BY <3>2, <3>3, <3>4
  <2>3. off + size <= MaxWrites + MaxLimit
    <3>1. Cardinality(S) <= Len(bets) /\ Len(bets) \in Nat
      <4>1. PICK n \in Nat : n = Len(bets) /\ DOMAIN bets = 1 .. n
        BY BetTypes
      <4>2. IsFiniteSet(1 .. n) /\ Cardinality(1 .. n) = n
        <5>1. IsFiniteSet(1 .. n) /\ Cardinality(1 .. n) = IF 1 > n THEN 0 ELSE n - 1 + 1
          BY FS_Interval
        <5>2. QED
          BY <5>1
      <4>3. S \in SUBSET (1 .. n)
        BY <1>4, <4>1
      <4>4. Cardinality(S) <= Cardinality(1 .. n)
        BY <4>2, <4>3, FS_Subset
      <4>5. QED
        BY <4>1, <4>2, <4>4
    <3>2. Len(bets) <= MaxWrites
      <4>1. now \in Nat /\ now <= MaxWrites + 1 /\ MaxWrites \in Nat /\ Len(bets) < now
        BY DEF Tables, BoardsInv, BetsInv, Fits
      <4>2. QED
        BY <3>1, <4>1
    <3>3. ~(Len(e) <= off)
      BY <1>9, <1>12
    <3>4. MaxWrites \in Nat
      BY LedgerAssumption
    <3>5. QED
      BY ONLY <1>5, <1>8, <3>1, <3>2, <3>3, <3>4, off \in Nat, size \in Nat
  <2>4. WalkTyped'
    BY <1>2, <1>3, <2>1, <2>2, <2>3 DEF WalkTyped
  <2>5. ToSet(read) \subseteq S
    BY <1>4, <1>9 DEF Enumerates
  <2>6. walk'.seen \subseteq DOMAIN bets /\ walk'.start \subseteq DOMAIN bets
    BY <1>4, <2>1, <2>5 DEF WalkInv
  <2>7. ASSUME NoneLeft' PROVE \A k \in (Unseen \cap Listed)' : Cardinality(PassedBefore(k)') >= PlacesRead'
    <3>1. NoneLeft
      BY <1>2, <2>1, <2>7 DEF NoneLeft
    <3>2. PICK U, V : /\ U = Unseen /\ V = Unseen'
                      /\ \A k \in U \cap S : Cardinality(Ahead(S, B, k) \ U) >= off
      BY <1>10, <3>1
    <3>3. V \subseteq U /\ \A n \in DOMAIN e : off < n /\ n <= off + size => e[n] \notin V
      <4>1. \A n \in DOMAIN e : off < n /\ n <= off + size => e[n] \in ToSet(read)
        BY <1>9
      <4>2. V = walk.start \ (walk.seen \cup ToSet(read))
        BY <2>1, <3>2 DEF Unseen
      <4>3. QED
        BY <3>2, <4>1, <4>2 DEF Unseen
    <3>4. \A k \in V \cap S : Cardinality(Ahead(S, B, k) \ V) >= off + size
      BY <1>4, <3>2, <3>3, PageRead
    <3>5. Listed' = S
      BY <1>1, <1>2, <2>1 DEF Listed, Kept, BetNumbers
    <3>6. \A k : PassedBefore(k)' = Ahead(S, B, k) \ V
      BY <1>1, <1>2, <2>1, <3>2, <3>5 DEF PassedBefore, BetPairs
    <3>7. QED
      BY <2>2, <3>2, <3>4, <3>5, <3>6
  <2>8. QED
    BY <1>2, <2>1, <2>4, <2>6, <2>7 DEF WalkInv
<1>13. QED
  BY <1>11, <1>12

\* Every step keeps the walk in order.
LEMMA NextWalk ==
  ASSUME WalkFits, NEW most, Fits(most), InOrderInv(most), InOrderInv(most)', WalkInv, [Next]_vars
  PROVE  WalkInv'
<1>1. BoardsInv(most) /\ Tables /\ BetsInv /\ Tables'
  BY DEF InOrderInv
<1>2. CASE walk' = walk
  BY <1>1, <1>2, WritersMoveBets, WritersAndWalk
<1>3. ASSUME NEW w \in Walks, StartWalk(w) PROVE WalkInv'
  BY <1>1, <1>3, WalkStarts
<1>4. CASE ReadPage
  BY <1>1, <1>4, WalkReads
<1>5. ASSUME NEW n, NEW closes, CreateMarket(n, closes) PROVE walk' = walk
  BY <1>5 DEF CreateMarket
<1>6. ASSUME NEW u, NEW m, NEW i, NEW amount, Place(u, m, i, amount) PROVE walk' = walk
  BY <1>6 DEF Place
<1>7. ASSUME NEW m, NEW winner, Settle(m, winner) PROVE walk' = walk
  BY <1>7 DEF Settle
<1>8. QED
  BY <1>2, <1>3, <1>4, <1>5, <1>6, <1>7 DEF Next, vars

\* The walk is in order in every state.
LEMMA WalkAlways ==
  ASSUME NEW CONSTANT most, LedgerFits, WalkFits, Fits(most)
  PROVE  Spec => []WalkInv
<1>1. Init => WalkInv
  BY DEF Init, WalkInv, NoWalk
<1>2. InOrderInv(most) /\ InOrderInv(most)' /\ WalkInv /\ [Next]_vars => WalkInv'
  BY NextWalk
<1>3. Spec => []InOrderInv(most)
  BY InOrderAlways
<1>4. QED
  BY <1>1, <1>2, <1>3, PTL DEF Spec

\* A reader who pages through the feed while bets are placed and settled misses no
\* bet that was listed when it started and still is, unless, on the filter for active
\* bets, one it has passed leaves the listing (bet_repository.rs, list and filtered).
THEOREM WalkComplete ==
  ASSUME LedgerFits, WalkFits
  PROVE  Spec => []WalkMissesNothing
<1>1. PICK most : Fits(most)
  BY MostOfLedger
<1>2. Spec => []WalkInv
  BY <1>1, WalkAlways
<1>3. Spec => []InOrderInv(most)
  BY <1>1, InOrderAlways
<1>4. InOrderInv(most) /\ WalkInv => WalkMissesNothing
  <2>1. SUFFICES ASSUME InOrderInv(most), WalkInv, walk.at = "finished"
                 PROVE  \/ \A k \in walk.start \ walk.seen : ~Matches(walk.filter, bets[k].status)
                        \/ /\ walk.filter = "active"
                           /\ \E k \in BetNumbers : (k \in walk.seen \/ k > walk.last)
                                                    /\ ~Matches(walk.filter, bets[k].status)
    BY DEF WalkMissesNothing
  <2>2. CASE NoneLeft
    <3>1. Unseen \cap Listed = {}
      BY <2>1, <2>2 DEF WalkInv
    <3>2. walk.start \subseteq DOMAIN bets
      BY <2>1 DEF WalkInv
    <3>3. QED
      BY <3>1, <3>2 DEF Unseen, Listed, Kept, BetNumbers
  <2>3. CASE ~NoneLeft
    <3>1. PICK k \in DOMAIN bets : (k \in walk.seen \/ k > walk.last) /\ bets[k].status # "active"
      BY <2>3 DEF NoneLeft
    <3>2. walk.filter = "active" /\ bets[k].status \in {"active", "won", "lost"}
      BY <2>1, <2>3, BetTypes DEF NoneLeft, InOrderInv
    <3>3. ~Matches(walk.filter, bets[k].status)
      BY <3>1, <3>2, Filters
    <3>4. QED
      BY <3>1, <3>2, <3>3 DEF BetNumbers
  <2>4. QED
    BY <2>2, <2>3
<1>5. QED
  BY <1>2, <1>3, <1>4, PTL

-----------------------------------------------------------------------------
(* The board *)

\* The types of the state.
LEMMA TypesOfTables ==
  ASSUME NEW most, Fits(most), InOrderInv(most), WalkInv
  PROVE  TypeOK
<1>1. BoardsInv(most) /\ Tables /\ BetsInv /\ MarketsInv
  BY DEF InOrderInv
<1>2. now \in Nat /\ balance \in [Users -> Nat]
  BY <1>1 DEF Tables
<1>3. ASSUME NEW m \in DOMAIN markets
      PROVE  /\ markets[m].status \in {"open", "resolved"} /\ markets[m].winner \in {0} \cup Outcomes(m)
             /\ markets[m].volumes \in [Outcomes(m) -> Nat] /\ markets[m].prices \in [Outcomes(m) -> Price]
  <2>1. PICK n \in Nat : markets[m].volumes \in [1 .. n -> Nat] /\ markets[m].prices \in [1 .. n -> Price]
    BY <1>1, BoardDomains
  <2>2. Outcomes(m) = 1 .. n
    BY <2>1 DEF Outcomes
  <2>3. markets[m].status \in {"open", "resolved"}
    BY <1>1, MarketTypes
  <2>4. markets[m].winner \in {0} \cup Outcomes(m)
    BY <1>1 DEF MarketsInv, Outcomes
  <2>5. QED
    BY <2>1, <2>2, <2>3, <2>4
<1>4. ASSUME NEW k \in BetNumbers PROVE bets[k] \in Bet /\ bets[k].outcome \in Outcomes(bets[k].market)
  <2>1. k \in DOMAIN bets /\ bets[k] \in BetRow
    BY <1>1, BetTypes DEF BetNumbers
  <2>2. bets[k].market \in DOMAIN markets /\ bets[k].outcome \in Outcomes(bets[k].market)
    BY <1>1, <2>1 DEF BetsInv, Outcomes
  <2>3. QED
    BY <2>1, <2>2 DEF BetRow, Bet
<1>5. walk.start \cup walk.seen \subseteq BetNumbers
  BY DEF WalkInv, BetNumbers
<1>6. QED
  BY <1>2, <1>3, <1>4, <1>5 DEF TypeOK

\* The boards are what every later computation takes them for: prices that add up and
\* track their shares, counters that match the bets and the bettors' statistics, and
\* averages that are prices (recalculate_prices, apply_bet, place, user_stats, enrich).
THEOREM BoardsCorrect ==
  ASSUME LedgerFits, WalkFits
  PROVE  Spec => []BoardInv
<1>1. PICK most : Fits(most)
  BY MostOfLedger
<1>2. Spec => []InOrderInv(most)
  BY <1>1, InOrderAlways
<1>3. Spec => []CountersInv
  BY <1>1, CountersAlways
<1>4. Spec => []WalkInv
  BY <1>1, WalkAlways
<1>5. InOrderInv(most) /\ CountersInv /\ WalkInv => BoardInv
  <2>1. SUFFICES ASSUME InOrderInv(most), CountersInv, WalkInv PROVE BoardInv
    OBVIOUS
  <2>2. TypeOK
    BY <1>1, <2>1, TypesOfTables
  <2>3. PricesSumToOne /\ PricesTrackShares
    BY <1>1, <2>1, PricesOfBoards DEF InOrderInv
  <2>4. CountersMatchBets
    BY <1>1, <2>1, CountersOfBoards
  <2>5. ShownAverageIsAPrice
    BY <2>1, AveragesShown DEF InOrderInv
  <2>6. QED
    BY <2>2, <2>3, <2>4, <2>5 DEF BoardInv
<1>6. QED
  BY <1>2, <1>3, <1>4, <1>5, PTL

-----------------------------------------------------------------------------
(* Charts *)

\* The last point recorded of an outcome has the price on the board.
LatestPoint(k, m, i) ==
  /\ points[k].market = m /\ points[k].outcome = i /\ points[k].price = markets[m].prices[i]
  /\ \A j \in DOMAIN points : points[j].market = m /\ points[j].outcome = i => points[j].at <= points[k].at

\* One point of an outcome at a time, none from the future, the last at its price.
PointsInv ==
  /\ \A k \in DOMAIN points : points[k].at < now
  /\ \A j, k \in DOMAIN points :
       /\ points[j].market = points[k].market /\ points[j].outcome = points[k].outcome
       /\ points[j].at = points[k].at
       => j = k
  /\ \A m \in DOMAIN markets : \A i \in DOMAIN markets[m].volumes :
       \E k \in DOMAIN points : LatestPoint(k, m, i)

\* The points of a new board keep all three.
LEMMA PointsRecorded ==
  ASSUME Tables, PointsInv, now' = now + 1, NEW m \in Nat, NEW n \in Nat, NEW prices \in [1 .. n -> Price],
         points' = points \o PointsOf(m, prices),
         DOMAIN markets' \subseteq DOMAIN markets \cup {m},
         \A l \in DOMAIN markets' \ {m} : markets'[l] = markets[l],
         markets'[m].prices = prices, DOMAIN markets'[m].volumes = 1 .. n
  PROVE  PointsInv'
<1>1. now \in Nat /\ points \in Seq(PointRow)
  BY DEF Tables
<1>2. PICK len \in Nat : len = Len(points) /\ DOMAIN points = 1 .. len
  BY PointTypes
<1>3. PICK q : q = points'
  OBVIOUS
<1>4. /\ DOMAIN q = 1 .. Len(points) + n
      /\ \A k \in DOMAIN points : q[k] = points[k]
      /\ \A i \in 1 .. n : q[Len(points) + i] = [market |-> m, outcome |-> i, price |-> prices[i], at |-> now]
  <2>1. PICK s : s = PointsOf(m, prices)
    OBVIOUS
  <2>2. /\ s = [i \in 1 .. n |-> s[i]]
        /\ \A i \in 1 .. n : s[i] = [market |-> m, outcome |-> i, price |-> prices[i], at |-> now]
    BY <2>1 DEF PointsOf
  <2>3. \A i \in 1 .. n : s[i] \in PointRow
    BY <1>1, <2>2 DEF PointRow
  <2>4. s \in [1 .. n -> PointRow]
    BY <2>2, <2>3
  <2>5. s \in Seq(PointRow) /\ Len(s) = n
    BY <2>4
  <2>6. q = points \o s
    BY <1>3, <2>1
  <2>7. q \in Seq(PointRow) /\ Len(q) = Len(points) + n
    BY ONLY <1>1, <2>5, <2>6, ConcatProperties
  <2>8. DOMAIN q = 1 .. Len(points) + n
    BY <2>7
  <2>9. \A k \in DOMAIN points : q[k] = points[k]
    BY ONLY <1>1, <2>5, <2>6, ConcatProperties
  <2>10. \A i \in 1 .. n : q[Len(points) + i] = s[i]
    BY ONLY <1>1, <2>5, <2>6, ConcatProperties, n \in Nat
  <2>11. QED
    BY <2>2, <2>8, <2>9, <2>10
<1>5. \A i \in 1 .. n : /\ q[len + i].market = m /\ q[len + i].outcome = i
                        /\ q[len + i].price = prices[i] /\ q[len + i].at = now
                        /\ len + i \in DOMAIN q
  <2>1. SUFFICES ASSUME NEW i \in 1 .. n
                 PROVE  /\ q[len + i].market = m /\ q[len + i].outcome = i
                        /\ q[len + i].price = prices[i] /\ q[len + i].at = now
                        /\ len + i \in DOMAIN q
    OBVIOUS
  <2>2. q[len + i] = [market |-> m, outcome |-> i, price |-> prices[i], at |-> now]
    BY <1>2, <1>4
  <2>3. len + i \in 1 .. len + n
    OBVIOUS
  <2>4. QED
    BY <1>2, <1>4, <2>2, <2>3
<1>6. \A k \in DOMAIN points : /\ points[k].at \in Nat /\ points[k].at < now
                               /\ q[k] = points[k] /\ k \in DOMAIN q /\ k <= len
  <2>1. \A k \in DOMAIN points : points[k].at \in Nat /\ points[k].at < now
    BY PointTypes DEF PointsInv
  <2>2. \A k \in 1 .. len : k \in 1 .. len + n
    OBVIOUS
  <2>3. QED
    BY <1>2, <1>4, <2>1, <2>2
<1>a. \A k \in DOMAIN q : k \notin DOMAIN points =>
        /\ q[k].market = m /\ q[k].at = now /\ q[k].outcome \in 1 .. n /\ k = len + q[k].outcome
  <2>1. SUFFICES ASSUME NEW k \in 1 .. len + n, k \notin 1 .. len
                 PROVE  /\ q[k].market = m /\ q[k].at = now /\ q[k].outcome \in 1 .. n
                        /\ k = len + q[k].outcome
    BY <1>2, <1>4
  <2>2. PICK i \in 1 .. n : k = len + i
    <3>1. k - len \in 1 .. n /\ k = len + (k - len)
      BY <2>1
    <3>2. QED
      BY <3>1
  <2>3. QED
    BY <1>5, <2>2
<1>7. \A k \in DOMAIN q : q[k].at < now + 1 /\ q[k].at <= now /\ q[k].at \in Nat
  BY <1>1, <1>6, <1>a
<1>8. ASSUME NEW j \in DOMAIN q, NEW k \in DOMAIN q,
             q[j].market = q[k].market, q[j].outcome = q[k].outcome, q[j].at = q[k].at
      PROVE  j = k
  <2>1. CASE j \in DOMAIN points /\ k \in DOMAIN points
    <3>1. q[j] = points[j] /\ q[k] = points[k]
      BY <1>6, <2>1
    <3>2. QED
      BY <1>8, <2>1, <3>1 DEF PointsInv
  <2>2. CASE j \notin DOMAIN points /\ k \notin DOMAIN points
    BY <1>a, <1>8, <2>2
  <2>3. \A x \in DOMAIN q : x \in DOMAIN points <=> q[x].at # now
    <3>1. \A x \in DOMAIN points : q[x].at # now
      BY <1>1, <1>6
    <3>2. QED
      BY <1>a, <3>1
  <2>4. QED
    BY <1>8, <2>1, <2>2, <2>3
<1>9. ASSUME NEW l \in DOMAIN markets', NEW i \in DOMAIN markets'[l].volumes
      PROVE  \E k \in DOMAIN points' : LatestPoint(k, l, i)'
  <2>1. CASE l = m
    <3>1. i \in 1 .. n
      BY <2>1
    <3>2. PICK k \in DOMAIN q : k = len + i /\ q[k].market = m /\ q[k].outcome = i
                                /\ q[k].price = prices[i] /\ q[k].at = now
      BY <1>5, <3>1
    <3>3. QED
      BY <1>3, <1>7, <2>1, <3>2 DEF LatestPoint
  <2>2. CASE l # m
    <3>1. l \in DOMAIN markets /\ markets'[l] = markets[l]
      BY <2>2
    <3>2. i \in DOMAIN markets[l].volumes
      BY <3>1
    <3>3. PICK k \in DOMAIN points : LatestPoint(k, l, i)
      BY <3>1, <3>2 DEF PointsInv
    <3>4. q[k] = points[k] /\ k \in DOMAIN q
      BY <1>6
    <3>5. \A j \in DOMAIN q : q[j].market = l => j \in DOMAIN points /\ q[j] = points[j]
      BY <1>a, <1>6, <2>2
    <3>6. /\ q[k].market = l /\ q[k].outcome = i /\ q[k].price = markets'[l].prices[i]
          /\ \A j \in DOMAIN q : q[j].market = l /\ q[j].outcome = i => q[j].at <= q[k].at
      BY <3>1, <3>3, <3>4, <3>5 DEF LatestPoint
    <3>7. LatestPoint(k, l, i)'
      BY <1>3, <3>6 DEF LatestPoint
    <3>8. QED
      BY <1>3, <3>4, <3>7
  <2>3. QED
    BY <2>1, <2>2
<1>10. QED
  BY <1>3, <1>7, <1>8, <1>9 DEF PointsInv

\* Every step keeps them.
LEMMA NextPoints ==
  ASSUME NEW most, Fits(most), InOrderInv(most), PointsInv, [Next]_vars
  PROVE  PointsInv'
<1>1. BoardsInv(most) /\ Tables /\ BetsInv /\ MarketsInv
  BY DEF InOrderInv
<1>2. BoardsInv(most)'
  BY NextInOrder DEF InOrderInv
<1>3. ASSUME NEW n, NEW closes, Created(n, closes) PROVE PointsInv'
  <2>1. PICK prices \in [1 .. n -> Price], row \in Rows :
          /\ Grown(markets, markets', row)
          /\ row.volumes = [i \in 1 .. n |-> 0] /\ row.prices = prices
          /\ points' = points \o PointsOf(Len(markets) + 1, prices)
    BY <1>3 DEF Created
  <2>2. n \in Nat /\ now' = now + 1
    BY <1>3 DEF Created
  <2>3. PICK m \in Nat : m = Len(markets) + 1
    BY <1>1, MarketTypes
  <2>4. /\ DOMAIN markets' = DOMAIN markets \cup {m} /\ markets'[m] = row
        /\ \A l \in DOMAIN markets : markets'[l] = markets[l]
    BY <2>1, <2>3 DEF Grown
  <2>5. markets'[m].prices = prices /\ DOMAIN markets'[m].volumes = 1 .. n
    BY <2>1, <2>4
  <2>6. QED
    BY <1>1, <2>1, <2>2, <2>3, <2>4, <2>5, PointsRecorded
<1>4. ASSUME NEW u, NEW m \in DOMAIN markets, NEW i, NEW amount, Placed(u, m, i, amount) PROVE PointsInv'
  <2>1. /\ now' = now + 1 /\ DOMAIN markets' = DOMAIN markets
        /\ \A l \in DOMAIN markets \ {m} : markets'[l] = markets[l]
        /\ points' = points \o PointsOf(m, markets'[m].prices)
    BY <1>4 DEF Placed
  <2>2. PICK n \in Nat : markets'[m].volumes \in [1 .. n -> Nat] /\ markets'[m].prices \in [1 .. n -> Price]
    <3>1. now' \in 1 .. MaxWrites + 1 /\ MaxWrites \in Nat
      BY <1>2 DEF BoardsInv, Fits
    <3>a. now \in Nat /\ now <= MaxWrites /\ now' - 1 = now
      BY <1>1, <2>1, <3>1 DEF Tables
    <3>2. PICK k \in Nat : k = now' - 1 /\ k <= MaxWrites
      BY <3>a
    <3>3. BoardExact(markets'[m], k, most)
      BY <1>2, <2>1, <3>2 DEF BoardsInv
    <3>4. QED
      BY <3>2, <3>3, ExactBoard DEF Fits
  <2>3. m \in Nat
    BY <1>1, MarketTypes
  <2>4. DOMAIN markets'[m].volumes = 1 .. n
    BY <2>2
  <2>5. QED
    BY <1>1, <2>1, <2>2, <2>3, <2>4, PointsRecorded
<1>5. ASSUME NEW m \in DOMAIN markets, NEW winner, Resolved(m, winner) PROVE PointsInv'
  <2>1. /\ now' = now + 1 /\ points' = points /\ DOMAIN markets' = DOMAIN markets
        /\ \A l \in DOMAIN markets \ {m} : markets'[l] = markets[l]
        /\ markets'[m] = [markets[m] EXCEPT !.status = "resolved", !.winner = winner]
    BY <1>5 DEF Resolved
  <2>2. markets[m] \in Rows
    BY <1>1, MarketTypes
  <2>3. markets'[m].prices = markets[m].prices /\ markets'[m].volumes = markets[m].volumes
    BY <2>1, <2>2 DEF Rows
  <2>4. \A l \in DOMAIN markets : markets'[l].prices = markets[l].prices /\ markets'[l].volumes = markets[l].volumes
    BY <2>1, <2>3
  <2>5. \A k \in DOMAIN points : points[k].at < now'
    <3>1. now \in Nat /\ \A k \in DOMAIN points : points[k].at \in Nat
      BY <1>1, PointTypes DEF Tables
    <3>2. QED
      BY <2>1, <3>1 DEF PointsInv
  <2>6. QED
    BY <2>1, <2>4, <2>5 DEF PointsInv, LatestPoint
<1>6. CASE UNCHANGED <<now, balance, markets, bets, points>>
  BY <1>6 DEF PointsInv, LatestPoint
<1>7. QED
  BY <1>1, <1>3, <1>4, <1>5, <1>6, Steps

\* They hold from the start.
LEMMA PointsAlways ==
  ASSUME NEW CONSTANT most, LedgerFits, Fits(most)
  PROVE  Spec => []PointsInv
<1>1. Init => PointsInv
  BY DEF Init, PointsInv
<1>2. InOrderInv(most) /\ PointsInv /\ [Next]_vars => PointsInv'
  BY NextPoints
<1>3. Spec => []InOrderInv(most)
  BY InOrderAlways
<1>4. QED
  BY <1>1, <1>2, <1>3, PTL DEF Spec

\* Which point comes first.
TimePairs(S) == {p \in S \X S : points[p[1]].at < points[p[2]].at}

\* A history lists its points, oldest first.
LEMMA HistoryListing ==
  ASSUME Tables, NEW S, S \subseteq DOMAIN points, NEW e, e = InTime(points, S)
  PROVE  IsFiniteSet(S) /\ Lists(e, S, TimePairs(S))
<1>1. S \in SUBSET Int /\ IsFiniteSet(S)
  <2>1. PICK n \in Nat : DOMAIN points = 1 .. n
    BY PointTypes
  <2>2. S \in SUBSET (1 .. n) /\ IsFiniteSet(1 .. n)
    BY <2>1, FS_Interval
  <2>3. IsFiniteSet(S)
    BY <2>2, FS_Subset
  <2>4. QED
    BY <2>1, <2>2, <2>3
<1>2. PICK B : B = TimePairs(S)
  OBVIOUS
<1>3. WeakOrder(S, B)
  <2>1. PICK f : f = [k \in DOMAIN points |-> points[k].at]
    OBVIOUS
  <2>2. \A k \in S : f[k] = points[k].at /\ f[k] \in Nat
    BY <2>1, PointTypes
  <2>3. \A j, k \in S : <<j, k>> \in B <=> f[j] < f[k]
    BY <1>2, <2>2 DEF TimePairs
  <2>4. QED
    BY <2>2, <2>3 DEF WeakOrder
<1>4. \A k \in S : {j \in S : points[j].at < points[k].at \/ (~(points[k].at < points[j].at) /\ j < k)}
                   = Ahead(S, Stable(S, B), k)
  <2>1. \A j, k \in S : <<j, k>> \in Stable(S, B) <=> <<j, k>> \in B \/ (<<k, j>> \notin B /\ j < k)
    BY DEF Stable
  <2>2. \A j, k \in S : <<j, k>> \in B <=> points[j].at < points[k].at
    BY <1>2 DEF TimePairs
  <2>3. QED
    BY <2>1, <2>2 DEF Ahead
<1>5. e = Enumeration(S, Stable(S, B))
  <2>1. e = [n \in 1 .. Cardinality(S) |-> CHOOSE i \in S : <<n, i>> \in
               {<<Cardinality({j \in S : points[j].at < points[k].at
                                         \/ (~(points[k].at < points[j].at) /\ j < k)}) + 1, k>> : k \in S}]
    BY DEF InTime, StableSort, InOrder
  <2>2. {<<Cardinality({j \in S : points[j].at < points[k].at
                                  \/ (~(points[k].at < points[j].at) /\ j < k)}) + 1, k>> : k \in S}
        = {<<Cardinality(Ahead(S, Stable(S, B), k)) + 1, k>> : k \in S}
    BY <1>4
  <2>3. QED
    BY <2>1, <2>2 DEF Enumeration
<1>6. QED
  BY <1>1, <1>2, <1>3, <1>5, StableListing

\* The last place of an outcome in a history has its latest point.
LEMMA SeriesEnd ==
  ASSUME Tables, NEW S, S \subseteq DOMAIN points, NEW e, e = InTime(points, S), NEW i,
         NEW series, series = SeriesOf(points, e, i), \E k \in S : points[k].outcome = i
  PROVE  /\ series # {} /\ Max(series) \in series /\ \A n \in series : n <= Max(series)
         /\ e[Max(series)] \in S /\ points[e[Max(series)]].outcome = i
         /\ \A k \in S : points[k].outcome = i => points[k].at <= points[e[Max(series)]].at
<1>1. PICK B : B = TimePairs(S) /\ IsFiniteSet(S) /\ Lists(e, S, B)
  BY HistoryListing
<1>2. PICK c \in Nat : c = Cardinality(S) /\ DOMAIN e = 1 .. c
  BY <1>1, FS_CardinalityType DEF Lists
<1>3. /\ \A n \in DOMAIN e : e[n] \in S
      /\ \A k \in S : \E n \in DOMAIN e : e[n] = k
      /\ \A n1, n2 \in DOMAIN e : n1 < n2 => <<e[n2], e[n1]>> \notin B
  BY <1>1 DEF Lists
<1>4. series \in SUBSET (1 .. c) /\ \A n \in 1 .. c : n \in series <=> points[e[n]].outcome = i
  BY <1>2 DEF SeriesOf
<1>5. series # {}
  BY <1>2, <1>3, <1>4
<1>6. PICK last : last = Max(series) /\ last \in series /\ \A n \in series : n <= last
  BY <1>4, <1>5, MaxOf
<1>7. last \in 1 .. c /\ e[last] \in S /\ points[e[last]].outcome = i
  BY <1>2, <1>3, <1>4, <1>6
<1>8. ASSUME NEW k \in S, points[k].outcome = i PROVE points[k].at <= points[e[last]].at
  <2>1. PICK n \in 1 .. c : e[n] = k
    BY <1>2, <1>3
  <2>2. n \in series /\ n <= last
    BY <1>4, <1>6, <1>8, <2>1
  <2>3. CASE n = last
    <3>1. points[k].at \in Nat
      BY PointTypes
    <3>2. QED
      BY <2>1, <2>3, <3>1
  <2>4. CASE n < last
    <3>1. <<e[last], k>> \notin B
      BY <1>2, <1>3, <1>7, <2>1, <2>4
    <3>2. ~(points[e[last]].at < points[k].at)
      BY <1>1, <1>7, <3>1 DEF TimePairs
    <3>3. points[k].at \in Nat /\ points[e[last]].at \in Nat
      BY <1>7, PointTypes
    <3>4. QED
      BY <3>2, <3>3
  <2>5. QED
    BY <1>7, <2>1, <2>2, <2>3, <2>4
<1>9. QED
  BY <1>5, <1>6, <1>7, <1>8

\* The points a chart keeps of a window.
LastPoints(W) == {k \in W : LastOfBucket(points[k], {points[j] : j \in W})}

\* The interval a point falls in.
BucketOf(k) == points[k].at \div Bucket

\* The chart of a window has a point of each interval and the raw chart's last.
LEMMA ChartOfWindow ==
  ASSUME Tables, PointsInv, NEW m, NEW i, NEW W, W \subseteq DOMAIN points,
         \A k \in W : points[k].market = m
  PROVE  LET raws   == InTime(points, W)
             charts == InTime(points, LastPoints(W))
             raw    == SeriesOf(points, raws, i)
             chart  == SeriesOf(points, charts, i)
         IN  /\ Cardinality(chart) = Cardinality({points[raws[n]].at \div Bucket : n \in raw})
             /\ raw # {} => charts[Max(chart)] = raws[Max(raw)]
<1>0. PICK L, raws, charts, raw, chart :
        /\ L = LastPoints(W) /\ raws = InTime(points, W) /\ charts = InTime(points, L)
        /\ raw = SeriesOf(points, raws, i) /\ chart = SeriesOf(points, charts, i)
  OBVIOUS
<1>1. \A k \in W : k \in L <=> \A j \in W : /\ points[j].outcome = points[k].outcome
                                            /\ BucketOf(j) = BucketOf(k)
                                            => points[j].at <= points[k].at
  BY <1>0 DEF LastPoints, LastOfBucket, BucketOf
<1>2. L \subseteq W /\ L \subseteq DOMAIN points
  BY <1>0 DEF LastPoints
<1>3. \A j, k \in W : points[j].outcome = points[k].outcome /\ points[j].at = points[k].at => j = k
  <2>1. SUFFICES ASSUME NEW j \in W, NEW k \in W,
                        points[j].outcome = points[k].outcome, points[j].at = points[k].at
                 PROVE  j = k
    OBVIOUS
  <2>2. j \in DOMAIN points /\ k \in DOMAIN points /\ points[j].market = points[k].market
    OBVIOUS
  <2>3. QED
    BY <2>1, <2>2 DEF PointsInv
<1>4. PICK A : A = TimePairs(W) /\ IsFiniteSet(W) /\ Lists(raws, W, A)
  BY <1>0, HistoryListing
<1>5. PICK B : B = TimePairs(L) /\ IsFiniteSet(L) /\ Lists(charts, L, B)
  BY <1>0, <1>2, HistoryListing
<1>6. PICK c, d \in Nat : /\ c = Cardinality(W) /\ DOMAIN raws = 1 .. c
                          /\ d = Cardinality(L) /\ DOMAIN charts = 1 .. d
  BY <1>4, <1>5, FS_CardinalityType DEF Lists
<1>7. /\ \A n \in 1 .. c : raws[n] \in W
      /\ \A k \in W : \E n \in 1 .. c : raws[n] = k
      /\ \A n \in raw : n \in 1 .. c /\ points[raws[n]].outcome = i
      /\ \A n \in 1 .. c : points[raws[n]].outcome = i => n \in raw
  BY <1>0, <1>4, <1>6 DEF Lists, SeriesOf
<1>8. /\ \A n \in 1 .. d : charts[n] \in L
      /\ \A k \in L : \E n \in 1 .. d : charts[n] = k
      /\ \A n \in chart : n \in 1 .. d /\ points[charts[n]].outcome = i
      /\ \A n \in 1 .. d : points[charts[n]].outcome = i => n \in chart
  BY <1>0, <1>5, <1>6 DEF Lists, SeriesOf
<1>9. \A n1, n2 \in 1 .. d : charts[n1] = charts[n2] => n1 = n2
  <2>1. SUFFICES ASSUME NEW n1 \in 1 .. d, NEW n2 \in 1 .. d, charts[n1] = charts[n2] PROVE n1 = n2
    OBVIOUS
  <2>b. Lists(charts, L, B)
    BY <1>5
  <2>a. \A x, y \in DOMAIN charts : x < y => charts[x] # charts[y]
    BY ONLY <2>b DEF Lists
  <2>2. ~(n1 < n2) /\ ~(n2 < n1)
    BY <1>6, <2>1, <2>a
  <2>3. QED
    BY <2>2
<1>10. ASSUME NEW k \in W, points[k].outcome = i
       PROVE  \E n \in chart : BucketOf(charts[n]) = BucketOf(k)
  <2>1. PICK S : S = {j \in W : BucketOf(j) = BucketOf(k)}
    OBVIOUS
  <2>2. PICK e : e = InTime(points, S)
    OBVIOUS
  <2>3. PICK series : series = SeriesOf(points, e, i)
    OBVIOUS
  <2>4. S \subseteq DOMAIN points /\ k \in S
    BY <2>1
  <2>5. PICK last \in S : points[last].outcome = i
                          /\ \A j \in S : points[j].outcome = i => points[j].at <= points[last].at
    BY <1>10, <2>2, <2>3, <2>4, SeriesEnd
  <2>6. last \in W /\ BucketOf(last) = BucketOf(k)
    BY <2>1
  <2>7. last \in L
    BY <1>1, <2>1, <2>5, <2>6
  <2>8. QED
    BY <1>8, <2>5, <2>6, <2>7
<1>11. PICK T : T = {points[raws[n]].at \div Bucket : n \in raw}
  OBVIOUS
<1>12. PICK f : f = [n \in chart |-> BucketOf(charts[n])]
  OBVIOUS
<1>13. f \in Bijection(chart, T)
  <2>1. ASSUME NEW n \in chart PROVE f[n] \in T
    <3>1. charts[n] \in W /\ points[charts[n]].outcome = i
      BY <1>2, <1>8
    <3>2. PICK x \in raw : raws[x] = charts[n]
      BY <1>7, <3>1
    <3>3. QED
      BY <1>11, <1>12, <3>2 DEF BucketOf
  <2>2. ASSUME NEW n1 \in chart, NEW n2 \in chart, f[n1] = f[n2] PROVE n1 = n2
    <3>1. PICK j, k \in L : j = charts[n1] /\ k = charts[n2]
      BY <1>8
    <3>2. j \in W /\ k \in W /\ points[j].outcome = i /\ points[k].outcome = i /\ BucketOf(j) = BucketOf(k)
      BY <1>2, <1>8, <1>12, <2>2, <3>1
    <3>3. points[j].at <= points[k].at /\ points[k].at <= points[j].at
      BY <1>1, <3>1, <3>2
    <3>4. points[j].at \in Nat /\ points[k].at \in Nat
      BY <1>2, <3>1, PointTypes
    <3>5. points[j].at = points[k].at
      BY <3>3, <3>4
    <3>6. j = k
      BY <1>3, <3>2, <3>5
    <3>7. n1 \in 1 .. d /\ n2 \in 1 .. d
      BY <1>8
    <3>8. QED
      BY <1>9, <3>1, <3>6, <3>7
  <2>3. ASSUME NEW t \in T PROVE \E n \in chart : f[n] = t
    <3>1. PICK x \in raw : t = BucketOf(raws[x])
      BY <1>11 DEF BucketOf
    <3>2. raws[x] \in W /\ points[raws[x]].outcome = i
      BY <1>7
    <3>3. QED
      BY <1>10, <1>12, <3>1, <3>2
  <2>4. f \in [chart -> T]
    BY <1>12, <2>1
  <2>5. QED
    BY <2>2, <2>3, <2>4 DEF Bijection, Injection, Surjection, IsInjective
<1>14. Cardinality(chart) = Cardinality(T)
  <2>1. chart \in SUBSET (1 .. d) /\ IsFiniteSet(1 .. d)
    BY <1>8, FS_Interval
  <2>2. IsFiniteSet(chart)
    BY <2>1, FS_Subset
  <2>3. ExistsBijection(chart, T)
    BY <1>13 DEF ExistsBijection
  <2>4. QED
    BY <2>2, <2>3, FS_Bijection
<1>15. ASSUME raw # {} PROVE charts[Max(chart)] = raws[Max(raw)]
  <2>1. PICK x \in raw : raws[x] \in W /\ points[raws[x]].outcome = i
    BY <1>7, <1>15
  <2>2. PICK k \in W : /\ k = raws[Max(raw)] /\ points[k].outcome = i
                       /\ \A j \in W : points[j].outcome = i => points[j].at <= points[k].at
    BY <1>0, <2>1, SeriesEnd
  <2>3. k \in L
    BY <1>1, <2>2
  <2>4. PICK l \in L : /\ l = charts[Max(chart)] /\ points[l].outcome = i
                       /\ \A j \in L : points[j].outcome = i => points[j].at <= points[l].at
    BY <1>0, <1>2, <2>2, <2>3, SeriesEnd
  <2>5. points[k].at <= points[l].at /\ points[l].at <= points[k].at
    BY <1>2, <2>2, <2>3, <2>4
  <2>6. points[k].at \in Nat /\ points[l].at \in Nat
    BY <1>2, <2>2, <2>4, PointTypes
  <2>7. points[k].at = points[l].at
    BY <2>5, <2>6
  <2>8. k = l
    BY <1>2, <1>3, <2>2, <2>4, <2>7
  <2>9. QED
    BY <2>2, <2>4, <2>8
<1>16. QED
  BY <1>0, <1>11, <1>14, <1>15

\* The chart of every window is complete and ends at the price on the board.
LEMMA ChartsOfTables ==
  ASSUME Tables, PointsInv
  PROVE  ChartEndsAtPrice
<1>0. SUFFICES ASSUME NEW m \in DOMAIN markets, NEW from \in markets[m].created .. now, NEW to \in from .. now,
                      NEW i \in Outcomes(m)
               PROVE  LET chart == SeriesOf(points, Chart(m, from, to), i)
                          raw   == SeriesOf(points, RawChart(m, from, to), i)
                      IN  /\ Cardinality(chart) =
                               Cardinality({points[RawChart(m, from, to)[n]].at \div Bucket : n \in raw})
                          /\ raw # {} => Chart(m, from, to)[Max(chart)] = RawChart(m, from, to)[Max(raw)]
                          /\ (raw # {} /\ to = now) =>
                               points[Chart(m, from, to)[Max(chart)]].price = markets[m].prices[i]
  BY DEF ChartEndsAtPrice
<1>1. PICK charts, raws, chart, raw : /\ charts = Chart(m, from, to) /\ raws = RawChart(m, from, to)
                                      /\ chart = SeriesOf(points, charts, i) /\ raw = SeriesOf(points, raws, i)
  OBVIOUS
<1>2. PICK W : W = Window(points, m, from, to)
  OBVIOUS
<1>3. W \subseteq DOMAIN points
  BY <1>2 DEF Window
<1>4. \A k \in DOMAIN points : k \in W <=> points[k].market = m /\ points[k].at \in from .. to
  BY <1>2 DEF Window, InWindow
<1>5. PICK L : L = LastPoints(W)
  OBVIOUS
<1>6. raws = InTime(points, W)
  BY <1>1, <1>2 DEF RawChart, MemHistory
<1>7. charts = InTime(points, L)
  BY <1>1, <1>2, <1>5 DEF Chart, PgHistory, LastPoints
<1>8. /\ Cardinality(chart) = Cardinality({points[raws[n]].at \div Bucket : n \in raw})
      /\ raw # {} => charts[Max(chart)] = raws[Max(raw)]
  <2>1. \A k \in W : points[k].market = m
    BY <1>3, <1>4
  <2>2. /\ chart = SeriesOf(points, InTime(points, LastPoints(W)), i) /\ charts = InTime(points, LastPoints(W))
        /\ raw = SeriesOf(points, InTime(points, W), i) /\ raws = InTime(points, W)
    BY <1>1, <1>5, <1>6, <1>7
  <2>3. LET rs == InTime(points, W)
            cs == InTime(points, LastPoints(W))
            r  == SeriesOf(points, rs, i)
            c  == SeriesOf(points, cs, i)
        IN  /\ Cardinality(c) = Cardinality({points[rs[n]].at \div Bucket : n \in r})
            /\ r # {} => cs[Max(c)] = rs[Max(r)]
    BY <1>3, <2>1, ChartOfWindow
  <2>4. QED
    BY ONLY <2>2, <2>3
<1>9. ASSUME raw # {}, to = now PROVE points[raws[Max(raw)]].price = markets[m].prices[i]
  <2>1. PICK A : A = TimePairs(W) /\ IsFiniteSet(W) /\ Lists(raws, W, A)
    BY <1>3, <1>6, HistoryListing
  <2>2. PICK x \in W : points[x].outcome = i
    BY <1>1, <1>9, <2>1 DEF SeriesOf, Lists
  <2>3. PICK k \in W : /\ k = raws[Max(raw)] /\ points[k].outcome = i
                       /\ \A j \in W : points[j].outcome = i => points[j].at <= points[k].at
    BY <1>1, <1>3, <1>6, <2>2, SeriesEnd
  <2>4. PICK l \in DOMAIN points : LatestPoint(l, m, i)
    BY DEF PointsInv, Outcomes
  <2>5. /\ points[l].market = m /\ points[l].outcome = i /\ points[l].price = markets[m].prices[i]
        /\ points[k].at <= points[l].at /\ points[k].market = m
    BY <1>3, <1>4, <2>3, <2>4 DEF LatestPoint
  <2>6. points[l].at \in Nat /\ points[l].at < now /\ points[k].at \in Nat /\ points[k].at \in from .. to
    BY <1>3, <1>4, <2>3, PointTypes DEF PointsInv
  <2>7. from \in Int /\ now \in Nat
    BY MarketTypes DEF Tables
  <2>8. points[l].at \in from .. to
    BY <1>9, <2>5, <2>6, <2>7
  <2>9. l \in W /\ points[l].at <= points[k].at
    BY <1>4, <2>3, <2>5, <2>8
  <2>10. points[l].at = points[k].at
    BY <2>5, <2>6, <2>9
  <2>11. l = k
    BY <1>3, <2>3, <2>5, <2>10 DEF PointsInv
  <2>12. QED
    BY <2>3, <2>5, <2>11
<1>10. QED
  BY <1>1, <1>8, <1>9

\* Charts have a point for each interval something was recorded in and end at
\* the last price, the one on the board (price_history, record_price_points).
THEOREM ChartsEndAtPrices ==
  ASSUME LedgerFits
  PROVE  Spec => []ChartEndsAtPrice
<1>1. PICK most : Fits(most)
  BY MostOfLedger
<1>2. Spec => []InOrderInv(most)
  BY <1>1, InOrderAlways
<1>3. Spec => []PointsInv
  BY <1>1, PointsAlways
<1>4. InOrderInv(most) /\ PointsInv => ChartEndsAtPrice
  BY ChartsOfTables DEF InOrderInv
<1>5. QED
  BY <1>2, <1>3, <1>4, PTL
=============================================================================
