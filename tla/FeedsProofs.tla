----------------------------- MODULE FeedsProofs -----------------------------
(***************************************************************************)
(* Proofs about BookFeeds, for every set of clients, ids, prices and       *)
(* quantities and every number of orders: what the subscriber of the       *)
(* market updates and what the clients know is what the book holds.        *)
(***************************************************************************)
EXTENDS BookFeeds, OrderBookProofs

-------------------------------------------------------------------------------
(* Sums.                                                                       *)

\* What Total() computes: each number is added to the sum of those before.
LEMMA TotalSteps ==
  ASSUME NEW n \in Nat, NEW g
  PROVE  \E sum : /\ sum = [k \in 0 .. n |-> IF k = 0 THEN 0 ELSE sum[k - 1] + g[k]]
                  /\ Total(g, n) = sum[n]
<1> DEFINE IsSum(f, k) == f = [i \in 0 .. k |-> IF i = 0 THEN 0 ELSE f[i - 1] + g[i]]
           S == {k \in 0 .. n : \E f : IsSum(f, k)}
           sum == CHOOSE f : IsSum(f, n)
<1>1. 0 \in S
  <2>1. PICK f : f = [i \in {0} |-> 0]
    OBVIOUS
  <2>2. f = [i \in 0 .. 0 |-> IF i = 0 THEN 0 ELSE f[i - 1] + g[i]]
    BY <2>1
  <2> QED
    BY <2>2
<1>2. ASSUME NEW k \in S, k < n PROVE k + 1 \in S
  <2>1. PICK f : f = [i \in 0 .. k |-> IF i = 0 THEN 0 ELSE f[i - 1] + g[i]]
    OBVIOUS
  <2> DEFINE h == [i \in 0 .. k + 1 |-> IF i = k + 1 THEN f[k] + g[k + 1] ELSE f[i]]
  <2>2. k \in Nat /\ k + 1 \in 0 .. n
    BY <1>2
  <2>3. \A i \in 0 .. k + 1 : h[i] = IF i = 0 THEN 0 ELSE h[i - 1] + g[i]
    <3> TAKE i \in 0 .. k + 1
    <3>1. CASE i = k + 1
      BY <2>2, <3>1
    <3>2. CASE i # k + 1
      <4>1. i \in 0 .. k /\ h[i] = f[i] /\ (i # 0 => h[i - 1] = f[i - 1])
        BY <2>2, <3>2
      <4>2. f[i] = IF i = 0 THEN 0 ELSE f[i - 1] + g[i]
        BY <2>1, <4>1
      <4> QED
        BY <4>1, <4>2
    <3> QED
      BY <3>1, <3>2
  <2>4. IsSum(h, k + 1)
    BY <2>3
  <2> QED
    BY <2>2, <2>4
<1>3. n \in S
  <2> HIDE DEF S
  <2>1. \A k \in 0 .. n : k \in S /\ k < n => k + 1 \in S
    BY <1>2
  <2> QED
    BY <1>1, <2>1, Ascent
<1>4. IsSum(sum, n)
  BY <1>3
<1>5. Total(g, n) = sum[n]
  BY DEF Total
<1> HIDE DEF sum
<1> QED
  BY <1>4, <1>5

\* The readers' totals grow by what one step adds to one entry of g.
LEMMA TotalGrows ==
  ASSUME NEW n \in Nat, NEW g \in [1 .. n -> Int], NEW m \in 1 .. n, NEW d \in Int
  PROVE  Total([g EXCEPT ![m] = @ + d], n) = Total(g, n) + d /\ Total(g, n) \in Int
<1> DEFINE h == [g EXCEPT ![m] = @ + d]
<1> HIDE DEF h
<1>0. \A f : \E sum : /\ sum = [k \in 0 .. n |-> IF k = 0 THEN 0 ELSE sum[k - 1] + f[k]]
                      /\ Total(f, n) = sum[n]
  BY TotalSteps
<1>1. PICK s : /\ s = [k \in 0 .. n |-> IF k = 0 THEN 0 ELSE s[k - 1] + g[k]]
               /\ Total(g, n) = s[n]
  BY <1>0
<1>2. PICK t : /\ t = [k \in 0 .. n |-> IF k = 0 THEN 0 ELSE t[k - 1] + h[k]]
               /\ Total(h, n) = t[n]
  BY <1>0
<1> DEFINE S == {k \in 0 .. n : s[k] \in Int /\ t[k] = s[k] + (IF k < m THEN 0 ELSE d)}
<1>3. 0 \in S
  BY <1>1, <1>2
<1>4. ASSUME NEW k \in S, k < n PROVE k + 1 \in S
  <2>1. k + 1 \in 1 .. n /\ k + 1 \in 0 .. n /\ k \in Int /\ m \in Int
    BY <1>4
  <2>2. s[k + 1] = s[k] + g[k + 1] /\ t[k + 1] = t[k] + h[k + 1]
    BY <1>1, <1>2, <2>1
  <2>3. h[k + 1] = (IF k + 1 = m THEN g[k + 1] + d ELSE g[k + 1]) /\ g[k + 1] \in Int
    BY <2>1 DEF h
  <2> QED
    BY <2>1, <2>2, <2>3
<1>5. n \in S
  <2> HIDE DEF S
  <2>1. \A k \in 0 .. n : k \in S /\ k < n => k + 1 \in S
    BY <1>4
  <2> QED
    BY <1>3, <2>1, AscentToTheEnd
<1> QED
  BY <1>1, <1>2, <1>5 DEF h

LEMMA TotalGrowsTwice ==
  ASSUME NEW n \in Nat, NEW g \in [1 .. n -> Int], NEW i \in 1 .. n, NEW j \in 1 .. n,
         NEW d \in Int
  PROVE  Total([[g EXCEPT ![i] = @ + d] EXCEPT ![j] = @ + d], n) = Total(g, n) + 2 * d
<1> DEFINE h == [g EXCEPT ![i] = @ + d]
<1>1. h \in [1 .. n -> Int]
  OBVIOUS
<1>2. Total(h, n) = Total(g, n) + d /\ Total(g, n) \in Int
  BY TotalGrows
<1> HIDE DEF h
<1>3. Total([h EXCEPT ![j] = @ + d], n) = Total(h, n) + d
  BY <1>1, TotalGrows
<1>4. Total([h EXCEPT ![j] = @ + d], n) = Total(g, n) + 2 * d
  BY <1>2, <1>3
<1> QED
  BY <1>4 DEF h

LEMMA TotalOfNone ==
  ASSUME NEW n \in Nat, NEW g, \A k \in 1 .. n : g[k] = 0
  PROVE  Total(g, n) = 0
<1>1. PICK s : /\ s = [k \in 0 .. n |-> IF k = 0 THEN 0 ELSE s[k - 1] + g[k]]
               /\ Total(g, n) = s[n]
  BY TotalSteps
<1> DEFINE S == {k \in 0 .. n : s[k] = 0}
<1>2. 0 \in S
  BY <1>1
<1>3. ASSUME NEW k \in S, k < n PROVE k + 1 \in S
  <2>1. s[k + 1] = s[k] + g[k + 1]
    BY <1>1, <1>3
  <2> QED
    BY <1>3, <2>1
<1>4. n \in S
  <2> HIDE DEF S
  <2>1. \A k \in 0 .. n : k \in S /\ k < n => k + 1 \in S
    BY <1>3
  <2> QED
    BY <1>2, <2>1, Ascent
<1> QED
  BY <1>1, <1>4

-------------------------------------------------------------------------------
(* The messages of one step.                                                   *)

\* What AfterUpdates() computes: each message is applied to what those before left.
LEMMA UpdatesSteps ==
  ASSUME NEW book, NEW U, NEW msgs \in Seq(U)
  PROVE  \E after :
           /\ after = [k \in 0 .. Len(msgs) |->
                         IF k = 0 THEN book ELSE ApplyUpdate(after[k - 1], msgs[k])]
           /\ AfterUpdates(book, msgs) = after[Len(msgs)]
<1> DEFINE n == Len(msgs)
           IsAfter(f, k) == f = [i \in 0 .. k |->
                                  IF i = 0 THEN book ELSE ApplyUpdate(f[i - 1], msgs[i])]
           S == {k \in 0 .. n : \E f : IsAfter(f, k)}
           after == CHOOSE f : IsAfter(f, n)
<1>0. n \in Nat
  OBVIOUS
<1>1. 0 \in S
  <2>1. PICK f : f = [i \in {0} |-> book]
    OBVIOUS
  <2>2. f = [i \in 0 .. 0 |-> IF i = 0 THEN book ELSE ApplyUpdate(f[i - 1], msgs[i])]
    BY <2>1
  <2> QED
    BY <1>0, <2>2
<1>2. ASSUME NEW k \in S, k < n PROVE k + 1 \in S
  <2>1. PICK f : f = [i \in 0 .. k |-> IF i = 0 THEN book ELSE ApplyUpdate(f[i - 1], msgs[i])]
    OBVIOUS
  <2> DEFINE h == [i \in 0 .. k + 1 |->
                    IF i = k + 1 THEN ApplyUpdate(f[k], msgs[k + 1]) ELSE f[i]]
  <2>2. k \in Nat /\ k + 1 \in 0 .. n
    BY <1>0, <1>2
  <2>3. \A i \in 0 .. k + 1 : h[i] = IF i = 0 THEN book ELSE ApplyUpdate(h[i - 1], msgs[i])
    <3> TAKE i \in 0 .. k + 1
    <3>1. CASE i = k + 1
      <4>1. h[i] = ApplyUpdate(f[k], msgs[k + 1]) /\ h[i - 1] = f[k] /\ i # 0 /\ i - 1 = k
        BY <2>2, <3>1
      <4> QED
        BY <3>1, <4>1
    <3>2. CASE i # k + 1
      <4>1. i \in 0 .. k /\ h[i] = f[i] /\ (i # 0 => h[i - 1] = f[i - 1])
        BY <2>2, <3>2
      <4>2. f[i] = IF i = 0 THEN book ELSE ApplyUpdate(f[i - 1], msgs[i])
        BY <2>1, <4>1
      <4> QED
        BY <4>1, <4>2
    <3> QED
      BY <3>1, <3>2
  <2>4. IsAfter(h, k + 1)
    BY <2>3
  <2> QED
    BY <2>2, <2>4
<1>3. n \in S
  <2> HIDE DEF S, n
  <2>1. \A k \in 0 .. n : k \in S /\ k < n => k + 1 \in S
    BY <1>2
  <2> QED
    BY <1>0, <1>1, <2>1, AscentToTheEnd
<1>4. IsAfter(after, n)
  BY <1>3
<1>5. AfterUpdates(book, msgs) = after[n]
  BY DEF AfterUpdates
<1> HIDE DEF after
<1> QED
  BY <1>4, <1>5

\* What AfterResponses() computes.
LEMMA ResponsesSteps ==
  ASSUME NEW acc, NEW R, NEW msgs \in Seq(R)
  PROVE  \E after :
           /\ after = [k \in 0 .. Len(msgs) |->
                         IF k = 0 THEN acc ELSE ApplyResponse(after[k - 1], msgs[k])]
           /\ AfterResponses(acc, msgs) = after[Len(msgs)]
<1> DEFINE n == Len(msgs)
           IsAfter(f, k) == f = [i \in 0 .. k |->
                                  IF i = 0 THEN acc ELSE ApplyResponse(f[i - 1], msgs[i])]
           S == {k \in 0 .. n : \E f : IsAfter(f, k)}
           after == CHOOSE f : IsAfter(f, n)
<1>0. n \in Nat
  OBVIOUS
<1>1. 0 \in S
  <2>1. PICK f : f = [i \in {0} |-> acc]
    OBVIOUS
  <2>2. f = [i \in 0 .. 0 |-> IF i = 0 THEN acc ELSE ApplyResponse(f[i - 1], msgs[i])]
    BY <2>1
  <2> QED
    BY <1>0, <2>2
<1>2. ASSUME NEW k \in S, k < n PROVE k + 1 \in S
  <2>1. PICK f : f = [i \in 0 .. k |-> IF i = 0 THEN acc ELSE ApplyResponse(f[i - 1], msgs[i])]
    OBVIOUS
  <2> DEFINE h == [i \in 0 .. k + 1 |->
                    IF i = k + 1 THEN ApplyResponse(f[k], msgs[k + 1]) ELSE f[i]]
  <2>2. k \in Nat /\ k + 1 \in 0 .. n
    BY <1>0, <1>2
  <2>3. \A i \in 0 .. k + 1 : h[i] = IF i = 0 THEN acc ELSE ApplyResponse(h[i - 1], msgs[i])
    <3> TAKE i \in 0 .. k + 1
    <3>1. CASE i = k + 1
      <4>1. h[i] = ApplyResponse(f[k], msgs[k + 1]) /\ h[i - 1] = f[k] /\ i # 0 /\ i - 1 = k
        BY <2>2, <3>1
      <4> QED
        BY <3>1, <4>1
    <3>2. CASE i # k + 1
      <4>1. i \in 0 .. k /\ h[i] = f[i] /\ (i # 0 => h[i - 1] = f[i - 1])
        BY <2>2, <3>2
      <4>2. f[i] = IF i = 0 THEN acc ELSE ApplyResponse(f[i - 1], msgs[i])
        BY <2>1, <4>1
      <4> QED
        BY <4>1, <4>2
    <3> QED
      BY <3>1, <3>2
  <2>4. IsAfter(h, k + 1)
    BY <2>3
  <2> QED
    BY <2>2, <2>4
<1>3. n \in S
  <2> HIDE DEF S, n
  <2>1. \A k \in 0 .. n : k \in S /\ k < n => k + 1 \in S
    BY <1>2
  <2> QED
    BY <1>0, <1>1, <2>1, AscentToTheEnd
<1>4. IsAfter(after, n)
  BY <1>3
<1>5. AfterResponses(acc, msgs) = after[n]
  BY DEF AfterResponses
<1> HIDE DEF after
<1> QED
  BY <1>4, <1>5

\* No message changes nothing; a step writes one update, or the two of a fill.
LEMMA UpdatesOfAStep ==
  ASSUME NEW book
  PROVE  /\ AfterUpdates(book, <<>>) = book
         /\ \A u : AfterUpdates(book, <<u>>) = ApplyUpdate(book, u)
         /\ \A u, v : AfterUpdates(book, <<u, v>>) = ApplyUpdate(ApplyUpdate(book, u), v)
<1>1. AfterUpdates(book, <<>>) = book
  <2> DEFINE msgs == <<>>
  <2>1. msgs \in Seq({book}) /\ Len(msgs) = 0
    OBVIOUS
  <2> HIDE DEF msgs
  <2>2. PICK after :
          /\ after = [k \in 0 .. Len(msgs) |->
                       IF k = 0 THEN book ELSE ApplyUpdate(after[k - 1], msgs[k])]
          /\ AfterUpdates(book, msgs) = after[Len(msgs)]
    BY <2>1, UpdatesSteps
  <2>3. AfterUpdates(book, msgs) = book
    BY <2>1, <2>2
  <2> QED
    BY <2>3 DEF msgs
<1>2. ASSUME NEW u PROVE AfterUpdates(book, <<u>>) = ApplyUpdate(book, u)
  <2> DEFINE msgs == <<u>>
  <2>1. msgs \in Seq({u}) /\ Len(msgs) = 1 /\ msgs[1] = u
    OBVIOUS
  <2> HIDE DEF msgs
  <2>2. PICK after :
          /\ after = [k \in 0 .. Len(msgs) |->
                       IF k = 0 THEN book ELSE ApplyUpdate(after[k - 1], msgs[k])]
          /\ AfterUpdates(book, msgs) = after[Len(msgs)]
    BY <2>1, UpdatesSteps
  <2>3. after[0] = book /\ after[1] = ApplyUpdate(after[0], msgs[1])
    BY <2>1, <2>2
  <2>4. AfterUpdates(book, msgs) = ApplyUpdate(book, u)
    BY <2>1, <2>2, <2>3
  <2> QED
    BY <2>4 DEF msgs
<1>3. ASSUME NEW u, NEW v
      PROVE  AfterUpdates(book, <<u, v>>) = ApplyUpdate(ApplyUpdate(book, u), v)
  <2> DEFINE msgs == <<u, v>>
  <2>1. msgs \in Seq({u, v}) /\ Len(msgs) = 2 /\ msgs[1] = u /\ msgs[2] = v
    OBVIOUS
  <2> HIDE DEF msgs
  <2>2. PICK after :
          /\ after = [k \in 0 .. Len(msgs) |->
                       IF k = 0 THEN book ELSE ApplyUpdate(after[k - 1], msgs[k])]
          /\ AfterUpdates(book, msgs) = after[Len(msgs)]
    BY <2>1, UpdatesSteps
  <2>3. /\ after[0] = book
        /\ after[1] = ApplyUpdate(after[0], msgs[1])
        /\ after[2] = ApplyUpdate(after[1], msgs[2])
    BY <2>1, <2>2
  <2>4. AfterUpdates(book, msgs) = ApplyUpdate(ApplyUpdate(book, u), v)
    BY <2>1, <2>2, <2>3
  <2> QED
    BY <2>4 DEF msgs
<1> QED
  BY <1>1, <1>2, <1>3

\* No response, one, or the two of a fill.
LEMMA ResponsesOfAStep ==
  ASSUME NEW acc
  PROVE  /\ AfterResponses(acc, <<>>) = acc
         /\ \A r : AfterResponses(acc, <<r>>) = ApplyResponse(acc, r)
         /\ \A r, s : AfterResponses(acc, <<r, s>>) = ApplyResponse(ApplyResponse(acc, r), s)
<1>1. AfterResponses(acc, <<>>) = acc
  <2> DEFINE msgs == <<>>
  <2>1. msgs \in Seq({acc}) /\ Len(msgs) = 0
    OBVIOUS
  <2> HIDE DEF msgs
  <2>2. PICK after :
          /\ after = [k \in 0 .. Len(msgs) |->
                       IF k = 0 THEN acc ELSE ApplyResponse(after[k - 1], msgs[k])]
          /\ AfterResponses(acc, msgs) = after[Len(msgs)]
    BY <2>1, ResponsesSteps
  <2>3. AfterResponses(acc, msgs) = acc
    BY <2>1, <2>2
  <2> QED
    BY <2>3 DEF msgs
<1>2. ASSUME NEW r PROVE AfterResponses(acc, <<r>>) = ApplyResponse(acc, r)
  <2> DEFINE msgs == <<r>>
  <2>1. msgs \in Seq({r}) /\ Len(msgs) = 1 /\ msgs[1] = r
    OBVIOUS
  <2> HIDE DEF msgs
  <2>2. PICK after :
          /\ after = [k \in 0 .. Len(msgs) |->
                       IF k = 0 THEN acc ELSE ApplyResponse(after[k - 1], msgs[k])]
          /\ AfterResponses(acc, msgs) = after[Len(msgs)]
    BY <2>1, ResponsesSteps
  <2>3. after[0] = acc /\ after[1] = ApplyResponse(after[0], msgs[1])
    BY <2>1, <2>2
  <2>4. AfterResponses(acc, msgs) = ApplyResponse(acc, r)
    BY <2>1, <2>2, <2>3
  <2> QED
    BY <2>4 DEF msgs
<1>3. ASSUME NEW r, NEW s
      PROVE  AfterResponses(acc, <<r, s>>) = ApplyResponse(ApplyResponse(acc, r), s)
  <2> DEFINE msgs == <<r, s>>
  <2>1. msgs \in Seq({r, s}) /\ Len(msgs) = 2 /\ msgs[1] = r /\ msgs[2] = s
    OBVIOUS
  <2> HIDE DEF msgs
  <2>2. PICK after :
          /\ after = [k \in 0 .. Len(msgs) |->
                       IF k = 0 THEN acc ELSE ApplyResponse(after[k - 1], msgs[k])]
          /\ AfterResponses(acc, msgs) = after[Len(msgs)]
    BY <2>1, ResponsesSteps
  <2>3. /\ after[0] = acc
        /\ after[1] = ApplyResponse(after[0], msgs[1])
        /\ after[2] = ApplyResponse(after[1], msgs[2])
    BY <2>1, <2>2
  <2>4. AfterResponses(acc, msgs) = ApplyResponse(ApplyResponse(acc, r), s)
    BY <2>1, <2>2, <2>3
  <2> QED
    BY <2>4 DEF msgs
<1> QED
  BY <1>1, <1>2, <1>3

\* The volume of a step's updates: that of its trade, which is written first.
LEMMA VolumeOfAStep ==
  /\ Volume(<<>>) = 0
  /\ \A u : u.type # "TRADE" => Volume(<<u>>) = 0
  /\ \A u, v : u.type = "TRADE" /\ u.qty \in Int /\ v.type # "TRADE"
                 => Volume(<<u, v>>) = u.qty
<1>1. Volume(<<>>) = 0
  BY TotalOfNone DEF Volume
<1>2. ASSUME NEW u, u.type # "TRADE" PROVE Volume(<<u>>) = 0
  <2> DEFINE g == [i \in 1 .. 1 |-> IF <<u>>[i].type = "TRADE" THEN <<u>>[i].qty ELSE 0]
  <2>1. Volume(<<u>>) = Total(g, 1)
    BY DEF Volume
  <2>2. \A k \in 1 .. 1 : g[k] = 0
    BY <1>2
  <2> HIDE DEF g
  <2> QED
    BY <2>1, <2>2, TotalOfNone
<1>3. ASSUME NEW u, NEW v, u.type = "TRADE", u.qty \in Int, v.type # "TRADE"
      PROVE  Volume(<<u, v>>) = u.qty
  <2> DEFINE g == [i \in 1 .. 2 |->
                    IF <<u, v>>[i].type = "TRADE" THEN <<u, v>>[i].qty ELSE 0]
  <2>1. Volume(<<u, v>>) = Total(g, 2)
    BY DEF Volume
  <2>2. g[1] = u.qty /\ g[2] = 0
    BY <1>3
  <2> HIDE DEF g
  <2>3. PICK sum : /\ sum = [k \in 0 .. 2 |-> IF k = 0 THEN 0 ELSE sum[k - 1] + g[k]]
                   /\ Total(g, 2) = sum[2]
    BY TotalSteps
  <2>4. sum[0] = 0 /\ sum[1] = sum[0] + g[1] /\ sum[2] = sum[1] + g[2]
    BY <2>3
  <2> QED
    BY <1>3, <2>1, <2>2, <2>3, <2>4
<1> QED
  BY <1>1, <1>2, <1>3

-------------------------------------------------------------------------------
(* The invariant.                                                              *)

\* What the subscriber's book should hold for the order m.
Shown(m) ==
  IF m \in Pooled
  THEN [side |-> order_pool_[m].side, price |-> order_pool_[m].price,
        qty |-> order_pool_[m].qty, priority |-> order_pool_[m].priority]
  ELSE Null

Filled == [m \in MOids |-> IF account[m] = Null THEN 0 ELSE account[m].filled]

FeedTypes ==
  /\ mirror = [m \in MOids |-> mirror[m]]
  /\ traded \in Nat
  /\ account \in [MOids -> OrNull(Account)]

\* Every order that was accepted has an account, and the one add() works on is
\* open, in the name of the client that sent it.
AccountsOpened ==
  /\ \A m \in MOids : account[m] # Null <=> m < next_market_order_id_
  /\ (job # Null /\ status = "up") =>
       /\ account[job.moid].open
       /\ account[job.moid].client = job.client
       /\ account[job.moid].oid = job.oid

FInv == FeedTypes /\ AccountsOpened /\ MirrorAgrees /\ AccountsAgree /\ TradesAgree

LEMMA MirrorIsShown ==
  MirrorAgrees <=> (status # "closed" => \A m \in MOids : mirror[m] = Shown(m))
BY DEF MirrorAgrees, Shown

LEMMA TradesAreFilled == TradesAgree <=> 2 * traded = Total(Filled, MaxOrders)
BY DEF TradesAgree, Filled

LEMMA FilledType == FeedTypes => Filled \in [1 .. MaxOrders -> Int]
BY DEF FeedTypes, Filled, Account, OrNull, MOids

\* Nothing was said and no order in the book has changed.
LEMMA QuietStep ==
  ASSUME IInv, FInv, UNCHANGED <<mirror, traded, account>>,
         UNCHANGED <<order_pool_, next_market_order_id_>>,
         status' = "up" => status = "up", status' # "closed" => status # "closed",
         \/ job' = Null /\ (job = Null \/ job.leaves = 0)
         \/ /\ job' # Null /\ job # Null
            /\ job'.moid = job.moid /\ job'.client = job.client
            /\ job'.oid = job.oid /\ job'.leaves = job.leaves
  PROVE  FInv'
<1>1. UNCHANGED Pooled
  BY DEF Pooled
<1>2. FeedTypes' /\ AccountsOpened' /\ TradesAgree'
  BY DEF FInv, FeedTypes, AccountsOpened, TradesAgree
<1>3. MirrorAgrees'
  BY <1>1 DEF FInv, MirrorAgrees
<1>4. AccountsAgree'
  BY <1>1 DEF FInv, AccountsAgree
<1> QED
  BY <1>2, <1>3, <1>4 DEF FInv

\* The book is destroyed: what was said stays true.
LEMMA CloseKeepsFInv ==
  ASSUME IInv, FInv, UNCHANGED <<mirror, traded, account>>, Close, job = Null,
         UNCHANGED <<job, next_market_order_id_>>
  PROVE  FInv'
<1>1. status' = "closed" /\ Pooled' = {}
  BY CloseEmpties DEF IInv, Book, Close
<1> QED
  BY <1>1 DEF FInv, FeedTypes, AccountsOpened, MirrorAgrees, AccountsAgree, TradesAgree

\* What a step says is what is observed.
LEMMA ObserveQuiet ==
  ASSUME Observe, FeedTypes, resp' = <<>>, upd' = <<>>
  PROVE  UNCHANGED <<mirror, traded, account>>
<1>1. mirror' = AfterUpdates(mirror, <<>>) /\ account' = AfterResponses(account, <<>>)
      /\ traded' = traded + Volume(<<>>)
  BY DEF Observe
<1> QED
  BY <1>1, UpdatesOfAStep, ResponsesOfAStep, VolumeOfAStep DEF FeedTypes

\* add() begins: the account is opened, nothing is filled.
LEMMA AcceptKeepsFInv ==
  ASSUME IInv, FInv, Observe, NEW c \in Clients, NEW o \in OrderIds, NEW side \in Sides,
         NEW p \in Limits(side), NEW q \in Qtys, Accept(c, o, side, p, q)
  PROVE  FInv'
<1> USE NullFacts, NullIsNoAccount
<1> DEFINE m == next_market_order_id_
           a == [client |-> c, oid |-> o, ordered |-> q, filled |-> 0, leaves |-> q,
                 open |-> TRUE]
<1>1. /\ m \in MOids /\ m \in Nat /\ m' = m + 1 /\ status' = status /\ status = "up"
      /\ UNCHANGED order_pool_ /\ job = Null
      /\ job' = [moid |-> m, client |-> c, oid |-> o, side |-> side, price |-> p,
                 leaves |-> q, phase |-> "match", target |-> Null]
      /\ resp' = <<MEClientResponse("ACCEPTED", c, o, m, side, p, 0, q)>>
      /\ upd' = <<>>
  BY DEF Accept, Emit, bookVars
<1>2. mirror' = mirror /\ traded' = traded
  <2>1. mirror' = AfterUpdates(mirror, <<>>) /\ traded' = traded + Volume(<<>>)
    BY <1>1 DEF Observe
  <2> QED
    BY <2>1, UpdatesOfAStep, VolumeOfAStep DEF FInv, FeedTypes
<1>3. account' = [account EXCEPT ![m] = a]
  <2> DEFINE r == MEClientResponse("ACCEPTED", c, o, m, side, p, 0, q)
  <2>1. account' = AfterResponses(account, <<r>>)
    BY <1>1 DEF Observe
  <2>2. account' = ApplyResponse(account, r)
    BY <2>1, ResponsesOfAStep
  <2> QED
    BY <2>2 DEF ApplyResponse, MEClientResponse
<1>4. a \in Account /\ a # Null /\ account[m] = Null /\ q \in Nat /\ job' # Null
  <2>1. q \in Nat /\ p \in Prices
    BY BookConstants DEF Limits, Prices
  <2>2. a \in Account
    BY <2>1 DEF Account
  <2>3. account[m] = Null
    BY <1>1 DEF FInv, AccountsOpened
  <2>4. job' \in Job
    BY <1>1, <2>1 DEF Job
  <2> QED
    BY <2>1, <2>2, <2>3, <2>4
<1>5. /\ account'[m] = a
      /\ \A n \in MOids \ {m} : account'[n] = account[n]
      /\ account' \in [MOids -> OrNull(Account)]
  BY <1>1, <1>3, <1>4 DEF FInv, FeedTypes, OrNull
<1> HIDE DEF a
<1>6. UNCHANGED Pooled /\ m \notin Pooled
  BY <1>1 DEF Pooled, IInv, FreshIds
<1>7. FeedTypes'
  BY <1>2, <1>5 DEF FInv, FeedTypes
<1>8. AccountsOpened'
  <2>1. \A n \in MOids : account'[n] # Null <=> n < m + 1
    BY <1>1, <1>4, <1>5 DEF FInv, AccountsOpened
  <2> QED
    BY <1>1, <1>5, <2>1 DEF AccountsOpened, a
<1>9. MirrorAgrees'
  BY <1>1, <1>2, <1>6 DEF FInv, MirrorAgrees
<1>10. AccountsAgree'
  <2> SUFFICES ASSUME NEW n \in MOids, account'[n] # Null
               PROVE  LET b == account'[n]
                      IN  /\ b.ordered = b.filled + b.leaves
                          /\ status' = "up" /\ b.open =>
                               b.leaves = IF n \in Pooled' THEN order_pool_'[n].qty
                                          ELSE IF job' # Null /\ job'.moid = n
                                               THEN job'.leaves ELSE 0
                          /\ n \in Pooled' => /\ b.open
                                              /\ order_pool_'[n].client = b.client
                                              /\ order_pool_'[n].oid = b.oid
    BY DEF AccountsAgree
  <2>1. CASE n = m
    BY <1>1, <1>4, <1>5, <1>6, <2>1 DEF a
  <2>2. CASE n # m
    BY <1>1, <1>5, <1>6, <2>2 DEF FInv, AccountsAgree
  <2> QED
    BY <2>1, <2>2
<1>11. TradesAgree'
  <2>1. Filled' = Filled
    BY <1>1, <1>4, <1>5 DEF Filled, a
  <2> QED
    BY <1>2, <2>1 DEF FInv, TradesAgree, Filled
<1> QED
  BY <1>7, <1>8, <1>9, <1>10, <1>11 DEF FInv

\* The order and the two readers' entries for it go together.
LEMMA CancelKeepsFInv ==
  ASSUME IInv, FInv, Observe, NEW c \in Clients, NEW o \in OrderIds, Cancel(c, o)
  PROVE  FInv'
<1> USE NullFacts, NullIsNoAccount
<1> DEFINE m == cid_oid_to_order_[c][o]
           x == order_pool_[m]
           r == MEClientResponse("CANCELED", c, o, m, x.side, x.price, Null, x.qty)
           u == MEMarketUpdate("CANCEL", m, x.side, x.price, 0, x.priority)
<1>1. /\ status = "up" /\ job = Null /\ UNCHANGED <<job, next_market_order_id_>>
      /\ m \in Pooled /\ m \in MOids /\ x \in MEOrder /\ x.client = c /\ x.oid = o
  <2>1. m \in Pooled /\ x.client = c /\ x.oid = o
    BY DEF Cancel, IInv, Book, CidMapSound
  <2> QED
    BY <2>1, PooledFacts DEF Cancel, IInv, Book
<1>2. removeOrder(m) /\ (IF status' = "up" THEN Emit(<<r>>, <<u>>) ELSE Emit(<<>>, <<>>))
  BY DEF Cancel
<1>3. CASE Die("segv")
  <2>1. /\ status' = "segv" /\ UNCHANGED <<order_pool_, next_market_order_id_>>
        /\ resp' = <<>> /\ upd' = <<>> /\ job' = Null
    BY <1>1, <1>2, <1>3 DEF Die, bookVars, Emit
  <2> QED
    BY <1>1, <2>1, ObserveQuiet, QuietStep DEF FInv
<1>4. CASE UNCHANGED status /\ order_pool_' = [order_pool_ EXCEPT ![m] = Null]
  <2>1. resp' = <<r>> /\ upd' = <<u>>
    BY <1>1, <1>2, <1>4 DEF Emit
  <2>2. /\ mirror' = ApplyUpdate(mirror, u) /\ traded' = traded + Volume(<<u>>)
        /\ account' = ApplyResponse(account, r)
    BY <2>1, UpdatesOfAStep, ResponsesOfAStep DEF Observe
  <2>3. mirror' = [mirror EXCEPT ![m] = Null] /\ traded' = traded
    <3>1. u.type = "CANCEL" /\ u.moid = m
      BY DEF MEMarketUpdate
    <3> HIDE DEF u
    <3>2. Volume(<<u>>) = 0
      BY <3>1, VolumeOfAStep
    <3> QED
      BY <2>2, <3>1, <3>2 DEF ApplyUpdate, FInv, FeedTypes
  <2>4. account' = [account EXCEPT ![m].leaves = x.qty, ![m].open = FALSE]
    <3>1. r.type = "CANCELED" /\ r.moid = m /\ r.leaves = x.qty
      BY DEF MEClientResponse
    <3> HIDE DEF r
    <3> QED
      BY <2>2, <3>1 DEF ApplyResponse
  <2>5. /\ account[m] \in Account /\ account[m].leaves = x.qty
        /\ account[m].ordered = account[m].filled + x.qty
    <3>1. m < next_market_order_id_ /\ account[m] # Null /\ account[m].open
      BY <1>1 DEF IInv, FreshIds, FInv, AccountsOpened, AccountsAgree
    <3> QED
      BY <1>1, <3>1 DEF FInv, AccountsAgree, FeedTypes, OrNull
  <2> HIDE DEF x, m
  <2>6. /\ account'[m] = [account[m] EXCEPT !.leaves = x.qty, !.open = FALSE]
        /\ \A n \in MOids \ {m} : account'[n] = account[n]
        /\ account' \in [MOids -> OrNull(Account)]
    <3>1. [account[m] EXCEPT !.leaves = x.qty, !.open = FALSE] \in Account
      BY <1>1, <2>5 DEF Account, MEOrder
    <3> QED
      BY <1>1, <2>4, <3>1 DEF FInv, FeedTypes, OrNull
  <2>7. /\ account'[m] \in Account /\ account'[m] # Null /\ ~account'[m].open
        /\ account'[m].leaves = x.qty /\ account'[m].filled = account[m].filled
        /\ account'[m].ordered = account[m].ordered
    <3>1. account'[m] \in Account
      BY <1>1, <2>5, <2>6 DEF Account, MEOrder
    <3> QED
      BY <2>5, <2>6, <3>1 DEF Account
  <2>8. /\ Pooled' = Pooled \ {m}
        /\ \A n \in MOids \ {m} : order_pool_'[n] = order_pool_[n]
    BY <1>1, <1>4 DEF Pooled, IInv, Book, PoolTypes
  <2>9. FeedTypes'
    BY <2>3, <2>6 DEF FInv, FeedTypes
  <2>10. AccountsOpened'
    <3>1. \A n \in MOids : account'[n] # Null <=> account[n] # Null
      BY <2>5, <2>6, <2>7
    <3> QED
      BY <1>1, <3>1 DEF FInv, AccountsOpened
  <2>11. MirrorAgrees'
    <3>1. /\ mirror'[m] = Null
          /\ \A n \in MOids \ {m} : mirror'[n] = mirror[n]
      BY <1>1, <2>3 DEF FInv, FeedTypes
    <3>2. \A n \in MOids : mirror'[n] = Shown(n)'
      <4> TAKE n \in MOids
      <4>1. CASE n = m
        BY <2>8, <3>1, <4>1 DEF Shown
      <4>2. CASE n # m
        <5>1. mirror[n] = Shown(n)
          BY <1>1, MirrorIsShown DEF FInv
        <5> QED
          BY <2>8, <3>1, <4>2, <5>1 DEF Shown
      <4> QED
        BY <4>1, <4>2
    <3> QED
      BY <3>2 DEF MirrorAgrees, Shown
  <2>12. AccountsAgree'
    <3> SUFFICES ASSUME NEW n \in MOids, account'[n] # Null
                 PROVE  LET b == account'[n]
                        IN  /\ b.ordered = b.filled + b.leaves
                            /\ status' = "up" /\ b.open =>
                                 b.leaves = IF n \in Pooled' THEN order_pool_'[n].qty
                                            ELSE IF job' # Null /\ job'.moid = n
                                                 THEN job'.leaves ELSE 0
                            /\ n \in Pooled' => /\ b.open
                                                /\ order_pool_'[n].client = b.client
                                                /\ order_pool_'[n].oid = b.oid
      BY DEF AccountsAgree
    <3>1. CASE n = m
      BY <2>5, <2>7, <2>8, <3>1
    <3>2. CASE n # m
      BY <1>1, <1>4, <2>6, <2>8, <3>2 DEF FInv, AccountsAgree
    <3> QED
      BY <3>1, <3>2
  <2>13. TradesAgree'
    <3>1. Filled' = Filled
      BY <1>1, <2>5, <2>6, <2>7 DEF Filled
    <3> QED
      BY <2>3, <3>1 DEF FInv, TradesAgree, Filled
  <2> QED
    BY <2>9, <2>10, <2>11, <2>12, <2>13 DEF FInv
<1> QED
  BY <1>2, <1>3, <1>4 DEF removeOrder

\* The order comes to rest and is published; its account keeps what is left.
LEMMA RestKeepsFInv ==
  ASSUME IInv, FInv, Observe, status = "up", job \in Job, job # Null, job.leaves > 0, Rest
  PROVE  FInv'
<1> USE NullFacts, NullIsNoAccount
<1> DEFINE m == job.moid
           prio == getNextPriority(job.price)
           x == [client |-> job.client, oid |-> job.oid, side |-> job.side,
                 price |-> job.price, qty |-> job.leaves, priority |-> prio]
           u == MEMarketUpdate("ADD", m, job.side, job.price, job.leaves, prio)
<1>1. /\ m \in MOids /\ m \notin Pooled /\ job' = Null
      /\ UNCHANGED <<status, next_market_order_id_>>
      /\ order_pool_' = [order_pool_ EXCEPT ![m] = x]
      /\ resp' = <<>> /\ upd' = <<u>>
  BY DEF Rest, Emit, IInv, JobOK, Job
<1>2. x # Null
  <2>1. getNextPriority(job.price) \in Nat \ {0}
    BY PriorityIsPositive DEF IInv, Job
  <2>2. x \in MEOrder
    BY <2>1 DEF Job, MEOrder
  <2> QED
    BY <2>2
<1>3. /\ mirror' = ApplyUpdate(mirror, u) /\ traded' = traded + Volume(<<u>>)
      /\ account' = account
  BY <1>1, UpdatesOfAStep, ResponsesOfAStep DEF Observe
<1>4. /\ mirror' = [mirror EXCEPT ![m] = [side |-> job.side, price |-> job.price,
                                          qty |-> job.leaves, priority |-> prio]]
      /\ traded' = traded
  <2>1. /\ u.type = "ADD" /\ u.moid = m /\ u.side = job.side /\ u.price = job.price
        /\ u.qty = job.leaves /\ u.priority = prio
    BY DEF MEMarketUpdate
  <2> HIDE DEF u
  <2>2. Volume(<<u>>) = 0
    BY <2>1, VolumeOfAStep
  <2> QED
    BY <1>3, <2>1, <2>2 DEF ApplyUpdate, FInv, FeedTypes
<1> HIDE DEF prio
<1>5. /\ order_pool_'[m] = x
      /\ \A n \in MOids \ {m} : order_pool_'[n] = order_pool_[n]
      /\ Pooled' = Pooled \cup {m}
  BY <1>1, <1>2 DEF Pooled, IInv, Book, PoolTypes
<1>6. FeedTypes' /\ AccountsOpened' /\ TradesAgree'
  BY <1>1, <1>3, <1>4 DEF FInv, FeedTypes, AccountsOpened, TradesAgree
<1>7. MirrorAgrees'
  <2>1. ASSUME NEW n \in MOids PROVE mirror'[n] = Shown(n)'
    <3>1. CASE n = m
      BY <1>1, <1>4, <1>5, <3>1 DEF Shown, FInv, FeedTypes
    <3>2. CASE n # m
      <4>1. mirror[n] = Shown(n) /\ mirror'[n] = mirror[n]
        BY <1>4, <3>2, MirrorIsShown DEF FInv, FeedTypes
      <4> QED
        BY <1>5, <3>2, <4>1 DEF Shown
    <3> QED
      BY <3>1, <3>2
  <2> QED
    BY <2>1 DEF MirrorAgrees, Shown
<1>8. AccountsAgree'
  <2> SUFFICES ASSUME NEW n \in MOids, account'[n] # Null
               PROVE  LET b == account'[n]
                      IN  /\ b.ordered = b.filled + b.leaves
                          /\ status' = "up" /\ b.open =>
                               b.leaves = IF n \in Pooled' THEN order_pool_'[n].qty
                                          ELSE IF job' # Null /\ job'.moid = n
                                               THEN job'.leaves ELSE 0
                          /\ n \in Pooled' => /\ b.open
                                              /\ order_pool_'[n].client = b.client
                                              /\ order_pool_'[n].oid = b.oid
    BY DEF AccountsAgree
  <2>1. CASE n = m
    <3>1. /\ account[m].open /\ account[m].client = job.client
          /\ account[m].oid = job.oid
      BY DEF FInv, AccountsOpened
    <3>2. /\ account[m].ordered = account[m].filled + account[m].leaves
          /\ account[m].leaves = job.leaves
      BY <1>1, <1>3, <2>1, <3>1 DEF FInv, AccountsAgree
    <3> QED
      BY <1>1, <1>3, <1>5, <2>1, <3>1, <3>2
  <2>2. CASE n # m
    BY <1>1, <1>3, <1>5, <2>2 DEF FInv, AccountsAgree
  <2> QED
    BY <2>1, <2>2
<1> QED
  BY <1>6, <1>7, <1>8 DEF FInv

\* match() goes round only against the level asks_at_price_ leads to, which has
\* a next_entry_: removeOrder() gets it out of the ring.
LEMMA FillSurvives ==
  ASSUME IInv, match, removeOrder(BestOrder)
  PROVE  /\ UNCHANGED status
         /\ order_pool_' = [order_pool_ EXCEPT ![BestOrder] = Null]
<1> USE NullFacts
<1>1. /\ job.side = "BUY" /\ asks_at_price_ # Null
      /\ BestOrder = orders_at_price[asks_at_price_][1]
  <2>1. Opposite(job.side) # Null /\ bids_at_price_ = Null
    BY DEF match, Marketable, IInv, Book, Linked
  <2>2. job.side = "BUY" /\ Opposite(job.side) = asks_at_price_
    BY <2>1 DEF Opposite
  <2>3. BestOrder = orders_at_price[asks_at_price_][1]
    BY <2>2 DEF BestOrder
  <2> QED
    BY <2>1, <2>2, <2>3
<1>2. PICK R \in SUBSET Levels : Ring(R)
  BY DEF IInv, RingInv
<1>3. asks_at_price_ \in R /\ next_entry_[asks_at_price_] # Null
  <2>1. asks_at_price_ \in R /\ Sorted(R)
    BY <1>1, <1>2 DEF Ring, OrNull
  <2> QED
    BY <2>1 DEF Sorted
<1>4. LevelAt(order_pool_[BestOrder].price) = asks_at_price_
  <2>1. asks_at_price_ \in Levels /\ asks_at_price_ \in Prices
    BY <1>2, <1>3 DEF Levels
  <2>2. 1 \in 1 .. Len(orders_at_price[asks_at_price_])
    BY <2>1 DEF Levels, IInv, Book, PoolTypes
  <2>3. /\ BestOrder \in Pooled
        /\ priceToIndex(order_pool_[BestOrder].price) = priceToIndex(asks_at_price_)
    BY <1>1, <2>1, <2>2 DEF IInv, Book, LevelsAndOrdersAgree
  <2>4. order_pool_[BestOrder].price \in Prices
    BY <2>3, PooledFacts DEF IInv, Book, MEOrder
  <2> QED
    BY <2>1, <2>3, <2>4, LevelAtIsTheLevel DEF IInv, Book
<1> QED
  BY <1>3, <1>4 DEF removeOrder

\* Both accounts of a fill, the trade and the order in the book move together.
LEMMA MatchKeepsFInv ==
  ASSUME IInv, FInv, Observe, match
  PROVE  FInv'
<1> USE NullFacts, NullIsNoAccount
<1> DEFINE m == BestOrder
           j == job.moid
           o == order_pool_[m]
           fill == FillQty(job.leaves, o.qty)
           left == job.leaves - fill
           r1 == MEClientResponse("FILLED", job.client, job.oid, j, job.side,
                                  o.price, fill, left)
           r2 == MEClientResponse("FILLED", o.client, o.oid, m, o.side, o.price,
                                  fill, o.qty - fill)
           u1 == Trade(o, fill)
           u2 == BookChange(m, o, fill)
<1>1. job \in Job /\ job # Null /\ status = "up" /\ job.phase = "match" /\ Marketable
  BY DEF match, IInv, CallTypes, OrNull
<1>2. /\ m \in Pooled /\ m \in MOids /\ o \in MEOrder
      /\ j \in MOids /\ j \notin Pooled /\ j # m
  BY <1>1, BestOrderIsPooled, PooledFacts DEF IInv, Book, JobOK, Job
<1>3. /\ job.leaves \in Nat /\ o.qty \in Nat \ {0} /\ fill \in Nat
      /\ left \in Nat /\ o.qty - fill \in Nat
  <2>1. job.leaves \in Nat /\ o.qty \in Nat \ {0}
    BY <1>1, <1>2 DEF Job, MEOrder
  <2> QED
    BY <2>1 DEF FillQty
<1>4. /\ job' = [job EXCEPT !.leaves = left] /\ UNCHANGED next_market_order_id_
      /\ resp' = <<r1, r2>> /\ upd' = <<u1, u2>>
      /\ IF fill = o.qty THEN removeOrder(m)
         ELSE /\ order_pool_' = [order_pool_ EXCEPT ![m].qty = o.qty - fill]
              /\ UNCHANGED status
  <2>1. /\ job' = [job EXCEPT !.leaves = left] /\ UNCHANGED next_market_order_id_
        /\ Emit(FillResponses(m, o, fill), <<u1, u2>>)
    BY <1>1 DEF match, Job
  <2>2. IF fill = o.qty THEN removeOrder(m)
        ELSE /\ order_pool_' = [order_pool_ EXCEPT ![m].qty = o.qty - fill]
             /\ UNCHANGED status
    BY <1>1, <1>2 DEF match
  <2> QED
    BY <2>1, <2>2 DEF Emit, FillResponses
<1>5. /\ UNCHANGED status
      /\ order_pool_' = IF fill = o.qty THEN [order_pool_ EXCEPT ![m] = Null]
                        ELSE [order_pool_ EXCEPT ![m].qty = o.qty - fill]
  BY <1>4, FillSurvives
<1>6. /\ \A n \in MOids \ {m} : order_pool_'[n] = order_pool_[n]
      /\ fill = o.qty => Pooled' = Pooled \ {m}
      /\ fill # o.qty => /\ Pooled' = Pooled
                         /\ order_pool_'[m] = [o EXCEPT !.qty = o.qty - fill]
  <2>1. CASE fill = o.qty
    BY <1>2, <1>5, <2>1 DEF Pooled, IInv, Book, PoolTypes
  <2>2. CASE fill # o.qty
    <3>1. [o EXCEPT !.qty = o.qty - fill] \in MEOrder
      <4>1. o.qty - fill \in Nat \ {0}
        BY <1>3, <2>2
      <4> QED
        BY <1>2, <4>1 DEF MEOrder
    <3>2. order_pool_'[m] = [o EXCEPT !.qty = o.qty - fill]
      BY <1>2, <1>5, <2>2 DEF IInv, Book, PoolTypes
    <3>3. \A n \in MOids \ {m} : order_pool_'[n] = order_pool_[n]
      BY <1>2, <1>5, <2>2 DEF IInv, Book, PoolTypes
    <3> QED
      BY <1>2, <2>2, <3>1, <3>2, <3>3 DEF Pooled
  <2> QED
    BY <2>1, <2>2
<1>7. /\ mirror' = ApplyUpdate(mirror, u2) /\ traded' = traded + fill
  <2>1. u1.type = "TRADE" /\ u1.qty = fill /\ u2.type # "TRADE"
    BY DEF Trade, BookChange, MEMarketUpdate
  <2>2. mirror' = ApplyUpdate(ApplyUpdate(mirror, u1), u2)
    BY <1>4, UpdatesOfAStep DEF Observe
  <2>3. traded' = traded + Volume(<<u1, u2>>)
    BY <1>4 DEF Observe
  <2> HIDE DEF u1, u2, fill
  <2>4. ApplyUpdate(mirror, u1) = mirror
    BY <2>1 DEF ApplyUpdate
  <2>5. Volume(<<u1, u2>>) = fill
    BY <1>3, <2>1, VolumeOfAStep
  <2> QED
    BY <2>2, <2>3, <2>4, <2>5
<1>8. account' =
        [[account EXCEPT ![j].filled = @ + fill, ![j].leaves = left]
           EXCEPT ![m].filled = @ + fill, ![m].leaves = o.qty - fill]
  <2>1. /\ r1.type = "FILLED" /\ r1.moid = j /\ r1.exec = fill /\ r1.leaves = left
        /\ r2.type = "FILLED" /\ r2.moid = m /\ r2.exec = fill
        /\ r2.leaves = o.qty - fill
    BY DEF MEClientResponse
  <2> HIDE DEF r1, r2, fill, left, j, m, o
  <2>3. account' = AfterResponses(account, <<r1, r2>>)
    BY <1>4 DEF Observe
  <2>2. account' = ApplyResponse(ApplyResponse(account, r1), r2)
    BY <2>3, ResponsesOfAStep
  <2> QED
    BY <2>1, <2>2 DEF ApplyResponse
<1>9. /\ account[j] \in Account /\ account[j].open
      /\ account[j].client = job.client /\ account[j].oid = job.oid
      /\ account[j].leaves = job.leaves
      /\ account[j].ordered = account[j].filled + job.leaves
  <2>1. account[j] # Null
    BY <1>1, <1>2 DEF IInv, JobOK, FInv, AccountsOpened
  <2> QED
    BY <1>1, <1>2, <2>1 DEF FInv, AccountsOpened, AccountsAgree, FeedTypes, OrNull
<1>10. /\ account[m] \in Account /\ account[m].open
       /\ account[m].client = o.client /\ account[m].oid = o.oid
       /\ account[m].leaves = o.qty
       /\ account[m].ordered = account[m].filled + o.qty
  <2>1. account[m] # Null
    BY <1>2 DEF IInv, FreshIds, FInv, AccountsOpened
  <2> QED
    BY <1>1, <1>2, <2>1 DEF FInv, AccountsAgree, FeedTypes, OrNull
<1> HIDE DEF m, j, o, fill, left, r1, r2, u1, u2
<1>11. /\ \A n \in MOids \ {j, m} : account'[n] = account[n]
       /\ account'[j] = [account[j] EXCEPT !.filled = @ + fill, !.leaves = left]
       /\ account'[m] = [account[m] EXCEPT !.filled = @ + fill, !.leaves = o.qty - fill]
       /\ account' = [n \in MOids |-> account'[n]]
  BY <1>2, <1>8 DEF FInv, FeedTypes
<1>12. /\ account'[j] \in Account /\ account'[j].open
       /\ account'[j].client = job.client /\ account'[j].oid = job.oid
       /\ account'[j].leaves = left /\ account'[j].filled = account[j].filled + fill
       /\ account'[j].ordered = account[j].ordered
  <2>1. account'[j] = [account[j] EXCEPT !.filled = @ + fill, !.leaves = left]
    BY <1>11
  <2>2. account[j].filled + fill \in Nat /\ left \in Nat
    BY <1>3, <1>9 DEF Account
  <2> DEFINE a == account[j]
  <2>3. [a EXCEPT !.filled = @ + fill, !.leaves = left] \in Account
    <3>1. a \in Account /\ a.filled + fill \in Nat /\ left \in Nat
      BY <1>9, <2>2
    <3> HIDE DEF a
    <3> QED
      BY <3>1 DEF Account
  <2>4. /\ account'[j].open = a.open /\ account'[j].client = a.client
        /\ account'[j].oid = a.oid /\ account'[j].leaves = left
        /\ account'[j].filled = a.filled + fill /\ account'[j].ordered = a.ordered
    <3>1. a \in Account /\ account'[j] = [a EXCEPT !.filled = @ + fill, !.leaves = left]
      BY <1>9, <2>1
    <3> HIDE DEF a
    <3> QED
      BY <3>1 DEF Account
  <2> QED
    BY <1>9, <2>1, <2>3, <2>4
<1>13. /\ account'[m] \in Account /\ account'[m].open
       /\ account'[m].client = o.client /\ account'[m].oid = o.oid
       /\ account'[m].leaves = o.qty - fill
       /\ account'[m].filled = account[m].filled + fill
       /\ account'[m].ordered = account[m].ordered
  <2>1. account'[m] = [account[m] EXCEPT !.filled = @ + fill, !.leaves = o.qty - fill]
    BY <1>11
  <2>2. account[m].filled + fill \in Nat /\ o.qty - fill \in Nat
    BY <1>3, <1>10 DEF Account
  <2> DEFINE a == account[m]
  <2>3. [a EXCEPT !.filled = @ + fill, !.leaves = o.qty - fill] \in Account
    <3>1. a \in Account /\ a.filled + fill \in Nat /\ o.qty - fill \in Nat
      BY <1>10, <2>2
    <3> HIDE DEF a
    <3> QED
      BY <3>1 DEF Account
  <2>4. /\ account'[m].open = a.open /\ account'[m].client = a.client
        /\ account'[m].oid = a.oid /\ account'[m].leaves = o.qty - fill
        /\ account'[m].filled = a.filled + fill /\ account'[m].ordered = a.ordered
    <3>1. a \in Account /\ account'[m] = [a EXCEPT !.filled = @ + fill, !.leaves = o.qty - fill]
      BY <1>10, <2>1
    <3> HIDE DEF a
    <3> QED
      BY <3>1 DEF Account
  <2> QED
    BY <1>10, <2>1, <2>3, <2>4
<1>14. /\ job'.moid = j /\ job'.client = job.client /\ job'.oid = job.oid
       /\ job'.leaves = left /\ job' # Null
  <2>1. job' \in Job
    BY <1>1, <1>3, <1>4 DEF Job
  <2> QED
    BY <1>1, <1>4, <2>1 DEF Job, j
<1>15. FeedTypes'
  <2>1. account' \in [MOids -> OrNull(Account)]
    <3>1. \A n \in MOids : account'[n] \in OrNull(Account)
      BY <1>2, <1>11, <1>12, <1>13 DEF FInv, FeedTypes, OrNull
    <3> QED
      BY <1>11, <3>1
  <2>2. mirror' = [n \in MOids |-> mirror'[n]]
    <3>1. u2.type \in {"CANCEL", "MODIFY"}
      BY DEF u2, BookChange, MEMarketUpdate
    <3> QED
      BY <1>7, <3>1 DEF ApplyUpdate, FInv, FeedTypes
  <2> QED
    BY <1>3, <1>7, <2>1, <2>2 DEF FInv, FeedTypes
<1>16. AccountsOpened'
  <2>1. \A n \in MOids : account'[n] # Null <=> account[n] # Null
    BY <1>9, <1>10, <1>11, <1>12, <1>13
  <2> QED
    BY <1>4, <1>12, <1>14, <2>1 DEF FInv, AccountsOpened
<1>17. MirrorAgrees'
  <2>1. \A n \in MOids \ {m} : mirror'[n] = mirror[n]
    <3>1. u2.type \in {"CANCEL", "MODIFY"} /\ u2.moid = m
      BY DEF u2, BookChange, MEMarketUpdate
    <3> QED
      BY <1>2, <1>7, <3>1 DEF ApplyUpdate, FInv, FeedTypes
  <2>2. ASSUME NEW n \in MOids, n = m PROVE mirror'[n] = Shown(n)'
    <3>1. CASE fill = o.qty
      <4>1. u2.type = "CANCEL" /\ u2.moid = m
        BY <3>1 DEF u2, BookChange, MEMarketUpdate
      <4>2. mirror'[m] = Null
        BY <1>2, <1>7, <4>1 DEF ApplyUpdate, FInv, FeedTypes
      <4>3. m \notin Pooled'
        BY <1>6, <3>1
      <4> QED
        BY <2>2, <4>2, <4>3 DEF Shown
    <3>2. CASE fill # o.qty
      <4>1. /\ u2.type = "MODIFY" /\ u2.moid = m /\ u2.side = o.side
            /\ u2.price = o.price /\ u2.qty = o.qty - fill /\ u2.priority = o.priority
        BY <3>2 DEF u2, BookChange, MEMarketUpdate
      <4>2. mirror'[m] = [side |-> o.side, price |-> o.price, qty |-> o.qty - fill,
                          priority |-> o.priority]
        BY <1>2, <1>7, <4>1 DEF ApplyUpdate, FInv, FeedTypes
      <4>3. /\ m \in Pooled' /\ order_pool_'[m].side = o.side
            /\ order_pool_'[m].price = o.price /\ order_pool_'[m].qty = o.qty - fill
            /\ order_pool_'[m].priority = o.priority
        BY <1>2, <1>6, <3>2 DEF MEOrder
      <4> QED
        BY <2>2, <4>2, <4>3 DEF Shown
    <3> QED
      BY <3>1, <3>2
  <2>3. \A n \in MOids \ {m} : mirror'[n] = Shown(n)'
    <3> TAKE n \in MOids \ {m}
    <3>1. mirror[n] = Shown(n)
      BY <1>1, MirrorIsShown DEF FInv
    <3>2. order_pool_'[n] = order_pool_[n] /\ (n \in Pooled' <=> n \in Pooled)
      BY <1>6
    <3> QED
      BY <2>1, <3>1, <3>2 DEF Shown
  <2>4. \A n \in MOids : mirror'[n] = Shown(n)'
    <3> TAKE n \in MOids
    <3>1. CASE n = m
      BY <2>2, <3>1
    <3>2. CASE n # m
      BY <2>3, <3>2
    <3> QED
      BY <3>1, <3>2
  <2> QED
    BY <2>4 DEF MirrorAgrees, Shown
<1>18. AccountsAgree'
  <2> SUFFICES ASSUME NEW n \in MOids, account'[n] # Null
               PROVE  LET b == account'[n]
                      IN  /\ b.ordered = b.filled + b.leaves
                          /\ status' = "up" /\ b.open =>
                               b.leaves = IF n \in Pooled' THEN order_pool_'[n].qty
                                          ELSE IF job' # Null /\ job'.moid = n
                                               THEN job'.leaves ELSE 0
                          /\ n \in Pooled' => /\ b.open
                                              /\ order_pool_'[n].client = b.client
                                              /\ order_pool_'[n].oid = b.oid
    BY DEF AccountsAgree
  <2>1. CASE n = m
    <3>1. account'[m].ordered = account'[m].filled + account'[m].leaves
      BY <1>3, <1>10, <1>13 DEF Account
    <3>2. CASE fill = o.qty
      BY <1>2, <1>3, <1>6, <1>13, <1>14, <2>1, <3>1, <3>2
    <3>3. CASE fill # o.qty
      <4>1. /\ m \in Pooled' /\ order_pool_'[m].client = o.client
            /\ order_pool_'[m].oid = o.oid /\ order_pool_'[m].qty = o.qty - fill
        BY <1>2, <1>6, <3>3 DEF MEOrder
      <4> QED
        BY <1>13, <2>1, <3>1, <4>1
    <3> QED
      BY <3>2, <3>3
  <2>2. CASE n = j
    <3>1. account'[j].ordered = account'[j].filled + account'[j].leaves
      BY <1>3, <1>9, <1>12 DEF Account, left
    <3>2. j \notin Pooled'
      BY <1>2, <1>6
    <3> QED
      BY <1>12, <1>14, <2>2, <3>1, <3>2
  <2>3. CASE n \notin {j, m}
    <3>1. /\ account'[n] = account[n] /\ order_pool_'[n] = order_pool_[n]
          /\ (n \in Pooled' <=> n \in Pooled) /\ job.moid # n
      BY <1>6, <1>11, <2>3 DEF j
    <3> QED
      BY <1>1, <1>5, <1>14, <2>3, <3>1 DEF FInv, AccountsAgree
  <2> QED
    BY <2>1, <2>2, <2>3
<1>19. TradesAgree'
  <2> DEFINE g == Filled
             h == [g EXCEPT ![j] = @ + fill]
             k == [h EXCEPT ![m] = @ + fill]
  <2>1. g \in [1 .. MaxOrders -> Int] /\ h \in [1 .. MaxOrders -> Int]
        /\ j \in 1 .. MaxOrders /\ m \in 1 .. MaxOrders /\ MaxOrders \in Nat
        /\ fill \in Int
    BY <1>2, <1>3, FilledType, BookConstants DEF FInv, MOids
  <2>2. Filled' = k
    <3>1. \A n \in MOids : Filled'[n] = k[n]
      <4> TAKE n \in MOids
      <4>1. Filled'[n] = IF account'[n] = Null THEN 0 ELSE account'[n].filled
        BY DEF Filled
      <4>2. Filled[n] = IF account[n] = Null THEN 0 ELSE account[n].filled
        BY DEF Filled
      <4>3. CASE n = j
        BY <1>2, <1>9, <1>12, <2>1, <4>1, <4>2, <4>3
      <4>4. CASE n = m
        BY <1>2, <1>10, <1>13, <2>1, <4>1, <4>2, <4>4
      <4>5. CASE n \notin {j, m}
        BY <1>11, <2>1, <4>1, <4>2, <4>5 DEF MOids
      <4> QED
        BY <4>3, <4>4, <4>5
    <3> QED
      BY <2>1, <3>1 DEF Filled, MOids
  <2> HIDE DEF g
  <2>8. /\ g \in [1 .. MaxOrders -> Int] /\ j \in 1 .. MaxOrders
        /\ m \in 1 .. MaxOrders /\ MaxOrders \in Nat /\ fill \in Int
    BY <2>1
  <2>3. Total([[g EXCEPT ![j] = @ + fill] EXCEPT ![m] = @ + fill], MaxOrders)
          = Total(g, MaxOrders) + 2 * fill
    BY ONLY <2>8, TotalGrowsTwice, Zenon
  <2>4. Total(k, MaxOrders) = Total(g, MaxOrders) + 2 * fill
    BY <2>3
  <2> HIDE DEF h, k
  <2>5. 2 * traded = Total(g, MaxOrders)
    BY TradesAreFilled DEF FInv, g
  <2>6. 2 * traded' = Total(k, MaxOrders)
    BY <1>3, <1>7, <2>4, <2>5 DEF FInv, FeedTypes
  <2>7. Total(Filled', MaxOrders) = Total(k, MaxOrders)
    BY <2>2
  <2> QED
    BY <2>6, <2>7 DEF TradesAgree, Filled
<1> QED
  BY <1>15, <1>16, <1>17, <1>18, <1>19 DEF FInv

-------------------------------------------------------------------------------
(* Every step.                                                                 *)

LEMMA InitFInv == FeedInit => FInv
<1> SUFFICES ASSUME FeedInit PROVE FInv
  OBVIOUS
<1>1. /\ status = "up" /\ job = Null /\ Pooled = {} /\ next_market_order_id_ = 1
      /\ mirror = [m \in MOids |-> Null] /\ traded = 0
      /\ account = [m \in MOids |-> Null]
  BY DEF FeedInit, Init, NoOrders, Pooled
<1>2. FeedTypes /\ AccountsOpened /\ MirrorAgrees /\ AccountsAgree
  <2>1. \A m \in MOids : m \in Nat /\ m >= 1
    BY BookConstants DEF MOids
  <2> QED
    BY <1>1, <2>1 DEF FeedTypes, AccountsOpened, MirrorAgrees, AccountsAgree, OrNull
<1>3. TradesAgree
  <2>1. MaxOrders \in Nat /\ \A k \in 1 .. MaxOrders : Filled[k] = 0
    BY <1>1, BookConstants DEF Filled, MOids
  <2>2. Total(Filled, MaxOrders) = 0
    BY <2>1, TotalOfNone
  <2> QED
    BY <1>1, <2>2, TradesAreFilled
<1> QED
  BY <1>2, <1>3 DEF FInv

LEMMA NextFInv ==
  ASSUME IInv, FInv, [FeedNext]_feedVars
  PROVE  FInv'
<1> USE NullFacts
<1>1. ASSUME NEW c \in Clients, NEW o \in OrderIds, NEW side \in Sides,
             NEW p \in Limits(side), NEW q \in Qtys, Accept(c, o, side, p, q), Observe
      PROVE  FInv'
  BY <1>1, AcceptKeepsFInv
<1>2. ASSUME NEW c \in Clients, NEW o \in OrderIds, CancelReject(c, o), Observe
      PROVE  FInv'
  <2> DEFINE r == MEClientResponse("CANCEL_REJECTED", c, o, Null, Null, Null, Null, Null)
  <2>1. /\ UNCHANGED <<status, job, order_pool_, next_market_order_id_>> /\ job = Null
        /\ resp' = <<r>> /\ upd' = <<>>
    BY <1>2 DEF CancelReject, Emit, bookVars
  <2>2. account' = account
    <3>1. r.type = "CANCEL_REJECTED"
      BY DEF MEClientResponse
    <3> HIDE DEF r
    <3>2. account' = AfterResponses(account, <<r>>)
      BY <1>2, <2>1 DEF Observe
    <3>3. account' = ApplyResponse(account, r)
      BY <3>2, ResponsesOfAStep
    <3> QED
      BY <3>1, <3>3 DEF ApplyResponse
  <2>3. mirror' = mirror /\ traded' = traded
    <3>1. mirror' = AfterUpdates(mirror, <<>>) /\ traded' = traded + Volume(<<>>)
      BY <1>2, <2>1 DEF Observe
    <3> QED
      BY <3>1, UpdatesOfAStep, VolumeOfAStep DEF FInv, FeedTypes
  <2> QED
    BY <2>1, <2>2, <2>3, QuietStep
<1>3. ASSUME NEW c \in Clients, NEW o \in OrderIds, Cancel(c, o), Observe
      PROVE  FInv'
  BY <1>3, CancelKeepsFInv
<1>4. CASE match /\ Observe
  BY <1>4, MatchKeepsFInv
<1>5. CASE (RestAtLevel \/ RestAtNewLevel \/ LinkFound) /\ Observe
  <2>1. Rest /\ job \in Job /\ job # Null /\ status = "up" /\ job.leaves > 0
    BY <1>5 DEF RestAtLevel, RestAtNewLevel, LinkFound, Unmatched, Searching,
       IInv, CallTypes, OrNull, JobOK
  <2> QED
    BY <1>5, <2>1, RestKeepsFInv
<1>6. CASE (SearchLevel \/ SearchNext \/ Complete \/ Crash) /\ Observe
  <2>1. /\ UNCHANGED <<order_pool_, next_market_order_id_>>
        /\ resp' = <<>> /\ upd' = <<>> /\ job \in Job /\ job # Null /\ status = "up"
        /\ status' \in {"up", "segv", "out_of_space"}
    BY <1>6 DEF SearchLevel, SearchNext, Complete, Crash, Die, Emit, bookVars,
       Unmatched, Searching, IInv, CallTypes, OrNull
  <2>2. \/ job' = Null /\ job.leaves = 0
        \/ job' = job
        \/ \E t \in OrNull(Prices) : job' = [job EXCEPT !.phase = "link", !.target = t]
        \/ \E t \in OrNull(Prices) : job' = [job EXCEPT !.target = t]
    <3>1. CASE SearchLevel
      <4>1. Best(job.side) \in Prices
        BY <3>1 DEF SearchLevel, Best, IInv, Book, PointerTypes, OrNull
      <4> QED
        BY <3>1, <4>1 DEF SearchLevel, IInv, Book, PointerTypes
    <3>2. CASE SearchNext
      <4>1. job.target \in Prices
        BY <2>1, <3>2 DEF SearchNext, Job
      <4> QED
        BY <3>2, <4>1 DEF SearchNext, IInv, Book, PointerTypes
    <3> QED
      BY <1>6, <3>1, <3>2 DEF Complete, Crash
  <2>4. \/ job' = Null /\ job.leaves = 0
        \/ /\ job' # Null /\ job'.moid = job.moid /\ job'.client = job.client
           /\ job'.oid = job.oid /\ job'.leaves = job.leaves
    <3>1. ASSUME NEW t \in OrNull(Prices), NEW j,
                 j = [job EXCEPT !.phase = "link", !.target = t]
                   \/ j = [job EXCEPT !.target = t]
          PROVE  /\ j \in Job /\ j.moid = job.moid /\ j.client = job.client
                 /\ j.oid = job.oid /\ j.leaves = job.leaves
      BY <2>1, <3>1 DEF Job, OrNull
    <3> QED
      BY <2>1, <2>2, <3>1
  <2> QED
    BY <1>6, <2>1, <2>4, ObserveQuiet, QuietStep DEF FInv
<1>7. CASE Destroy /\ Observe
  <2>1. UNCHANGED <<mirror, traded, account>>
    BY <1>7, DestroyCases, ObserveQuiet DEF FInv
  <2>2. CASE Close
    BY <1>7, <2>1, <2>2, DestroyCases, CloseKeepsFInv
  <2>3. CASE UNCHANGED bookVars
    <3>1. UNCHANGED order_pool_ /\ status = "up"
      BY <1>7, <2>3 DEF bookVars, Destroy
    <3> QED
      BY <1>7, <2>1, <3>1, DestroyCases, QuietStep
  <2> QED
    BY <1>7, <2>2, <2>3, DestroyCases
<1>8. CASE UNCHANGED feedVars
  <2>1. UNCHANGED <<mirror, traded, account, order_pool_, next_market_order_id_, status, job>>
    BY <1>8 DEF feedVars, vars, bookVars
  <2> QED
    BY <2>1, QuietStep
<1> QED
  BY <1>1, <1>2, <1>3, <1>4, <1>5, <1>6, <1>7, <1>8 DEF FeedNext, Next, Step

LEMMA FeedInvariance == LimitsApart => (FeedSpec => []FInv)
<1> SUFFICES ASSUME LimitsApart PROVE FeedSpec => []FInv
  OBVIOUS
<1>1. FeedInit => Init /\ FInv
  BY InitFInv DEF FeedInit
<1>2. [FeedNext]_feedVars => [Next]_vars
  BY DEF FeedNext, feedVars
<1>3. IInv /\ FInv /\ [FeedNext]_feedVars => FInv'
  BY NextFInv
<1>4. Spec => []IInv
  BY Invariance
<1> QED
  BY <1>1, <1>2, <1>3, <1>4, PTL DEF FeedSpec, Spec

\* A subscriber that applies ADD, MODIFY and CANCEL in the order they are written
\* holds the book, order by order, whatever was matched, rested and cancelled
\* (me_order_book.cpp:63-98,155-164,200-210).
THEOREM SubscriberHoldsTheBook == LimitsApart => (FeedSpec => []MirrorAgrees)
<1> SUFFICES ASSUME LimitsApart PROVE FeedSpec => []MirrorAgrees
  OBVIOUS
<1>1. FInv => MirrorAgrees
  BY DEF FInv
<1> QED
  BY <1>1, FeedInvariance, PTL

\* What a client was told was filled and what it was told is left make up what it
\* ordered, and what is left is what rests or what add() still works on: no
\* quantity is lost or made by the loop of match() calls, by resting or by
\* cancelling (me_order_book.cpp:47-98,125-150,171-210).
THEOREM NoQuantityIsLost == LimitsApart => (FeedSpec => []AccountsAgree)
<1> SUFFICES ASSUME LimitsApart PROVE FeedSpec => []AccountsAgree
  OBVIOUS
<1>1. FInv => AccountsAgree
  BY DEF FInv
<1> QED
  BY <1>1, FeedInvariance, PTL

\* The volume published as TRADE is half of what all FILLED responses together
\* told the clients: every fill is told to both sides and published once
\* (match(), me_order_book.cpp:47-98).
THEOREM TradesAreToldTwice == LimitsApart => (FeedSpec => []TradesAgree)
<1> SUFFICES ASSUME LimitsApart PROVE FeedSpec => []TradesAgree
  OBVIOUS
<1>1. FInv => TradesAgree
  BY DEF FInv
<1> QED
  BY <1>1, FeedInvariance, PTL
===============================================================================
