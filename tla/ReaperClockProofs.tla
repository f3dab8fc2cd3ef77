-------------------------- MODULE ReaperClockProofs --------------------------
(***************************************************************************)
(* Proofs about ReaperClock for any floor, ceiling and timeout.  ReapWalk  *)
(* is a recursive function over the idle sessions; WalkComputed says what  *)
(* it computes on every list that is sorted by age, and ClockInv, the      *)
(* inductive invariant, that the lists it meets are.                       *)
(***************************************************************************)
EXTENDS ReaperClock, WellFoundedInduction, TLAPS

--------------------------------------------------------------------------------
(* Induction, over sets of numbers *)

\* Every set of natural numbers has a least element.
LEMMA LeastNumber ==
  ASSUME NEW S \in SUBSET Nat, S # {}
  PROVE  \E x \in S : \A y \in S : x <= y
<1> DEFINE R == {pair \in Nat \X Nat : pair[1] < pair[2]}
<1>1. IsWellFoundedOn(R, Nat)
    BY NatLessThanWellFounded DEF OpToRel
<1>2. \E x \in S : \A y \in S : ~ (<<y, x>> \in R)
    <2> HIDE DEF R
    <2> QED
        BY Zenon, <1>1, WFMin
<1>3. PICK x \in S : \A y \in S : ~ (<<y, x>> \in R)
    BY <1>2
<1>4. ASSUME NEW y \in S
      PROVE  x <= y
    <2>1. x \in Nat /\ y \in Nat /\ ~ (y < x)
        BY Zenon, <1>3
    <2> QED
        BY <2>1
<1> QED
    BY <1>4

--------------------------------------------------------------------------------
(* What the walk computes *)

\* Least recently used first: give_back puts the youngest last.
Sorted == \A i, k \in 1..Len(ages) : i < k => ages[i] >= ages[k]

AgesOK == ages \in Seq(0..AgeCap)

\* The first `ripe` sessions, and only they, have been idle for the timeout.
FirstRipe(ripe) == /\ ripe \in 0..Len(ages)
                   /\ \A i \in 1..Len(ages) : ages[i] >= Timeout <=> i <= ripe

\* In a list sorted by age the sessions that are due come first.
LEMMA RipeComeFirst ==
  ASSUME AgesOK, Sorted
  PROVE  \E ripe \in 0..Len(ages) : FirstRipe(ripe)
<1>0. Len(ages) \in Nat /\ Timeout \in Nat /\ \A i \in 1..Len(ages) : ages[i] \in Nat
    BY ElasticAssumption DEF AgesOK, AgeCap
<1> DEFINE Young == {i \in 1..Len(ages) : ages[i] < Timeout}
<1>1. CASE Young = {}
    <2>1. \A i \in 1..Len(ages) : ages[i] >= Timeout
        BY <1>0, <1>1
    <2>2. FirstRipe(Len(ages)) /\ Len(ages) \in 0..Len(ages)
        BY <1>0, <2>1 DEF FirstRipe
    <2> QED
        BY <2>2
<1>2. CASE Young # {}
    <2>1. Young \in SUBSET Nat
        BY <1>0
    <2>2. PICK x \in Young : \A y \in Young : x <= y
        <3> HIDE DEF Young
        <3> QED
            BY <1>2, <2>1, LeastNumber
    <2>3. x - 1 \in 0..Len(ages)
        BY <1>0
    <2>4. ASSUME NEW i \in 1..Len(ages)
          PROVE  ages[i] >= Timeout <=> i <= x - 1
        BY <1>0, <2>2 DEF Sorted
    <2> QED
        BY Zenon, <2>3, <2>4 DEF FirstRipe
<1> QED
    BY <1>1, <1>2

\* The walk after i entries, with `closed` sessions to close in all.
WalkAfter(spare, closed, i) ==
  [spare   |-> spare - Lesser(i, closed),
   expired |-> Lesser(i, closed),
   kept    |-> IF i <= closed THEN <<>> ELSE SubSeq(ages, closed + 1, i),
   wait    |-> IF i > closed /\ spare > closed THEN Timeout - ages[closed + 1]
                                               ELSE Timeout]

\* Keeping an entry lengthens what is kept by it.
LEMMA KeepOne ==
  ASSUME AgesOK, NEW c \in Nat, NEW i \in 1..Len(ages), c < i
  PROVE  Append(IF i - 1 <= c THEN <<>> ELSE SubSeq(ages, c + 1, i - 1), ages[i])
           = SubSeq(ages, c + 1, i)
<1>1. CASE i - 1 <= c
    BY <1>1 DEF AgesOK
<1>2. CASE i - 1 > c
    BY <1>2 DEF AgesOK
<1> QED
    BY <1>1, <1>2

\* A record of the walk.
Walk(spare, expired, kept, w) ==
  [spare |-> spare, expired |-> expired, kept |-> kept, wait |-> w]

\* An entry that is due is closed while one can be spared.
LEMMA EntryCloses ==
  ASSUME NEW spare, NEW expired, NEW kept, NEW w, NEW waited,
         spare > 0, waited >= Timeout
  PROVE  ReapEntry(Walk(spare, expired, kept, w), waited)
           = Walk(spare - 1, expired + 1, kept, w)
BY Zenon DEF ReapEntry, Walk

\* Any other entry is kept, and may shorten the wait.
LEMMA EntryKeeps ==
  ASSUME NEW spare, NEW expired, NEW kept, NEW w, NEW waited,
         ~ (spare > 0 /\ waited >= Timeout)
  PROVE  ReapEntry(Walk(spare, expired, kept, w), waited)
           = Walk(spare, expired, Append(kept, waited),
                  WaitAfter(Walk(spare, expired, kept, w), waited))
BY Zenon DEF ReapEntry, Walk

\* One entry takes the walk from one WalkAfter to the next.
LEMMA EntryWalked ==
  ASSUME AgesOK, Sorted, NEW spare \in Nat, NEW ripe \in Nat, FirstRipe(ripe),
         NEW i \in 1..Len(ages)
  PROVE  ReapEntry(WalkAfter(spare, Lesser(spare, ripe), i - 1), ages[i])
           = WalkAfter(spare, Lesser(spare, ripe), i)
<1> DEFINE closed == Lesser(spare, ripe)
           before == WalkAfter(spare, closed, i - 1)
<1> SUFFICES ReapEntry(before, ages[i]) = WalkAfter(spare, closed, i)
    OBVIOUS
<1>1. /\ closed \in Nat /\ closed <= spare /\ closed <= ripe /\ i \in Nat \ {0}
      /\ closed = spare \/ closed = ripe
    BY DEF Lesser
<1>2. /\ Timeout \in Nat /\ Len(ages) \in Nat /\ ripe <= Len(ages)
      /\ \A k \in 1..Len(ages) : ages[k] \in Nat
    BY ElasticAssumption DEF AgesOK, AgeCap, FirstRipe
<1>3. ages[i] >= Timeout <=> i <= ripe
    BY DEF FirstRipe
<1> HIDE DEF closed, before
<1>4. CASE i <= closed
    <2>1. Lesser(i - 1, closed) = i - 1 /\ Lesser(i, closed) = i
        BY <1>1, <1>4 DEF Lesser
    <2>2. /\ before = Walk(spare - (i - 1), i - 1, <<>>, Timeout)
          /\ WalkAfter(spare, closed, i) = Walk(spare - i, i, <<>>, Timeout)
        BY <1>1, <1>4, <2>1 DEF before, WalkAfter, Walk
    <2>3. /\ spare - (i - 1) > 0 /\ ages[i] >= Timeout
          /\ spare - (i - 1) - 1 = spare - i /\ i - 1 + 1 = i
        BY <1>1, <1>2, <1>3, <1>4
    <2> QED
        BY <2>2, <2>3, EntryCloses
<1>5. CASE i > closed
    <2> DEFINE kept == IF i - 1 <= closed THEN <<>> ELSE SubSeq(ages, closed + 1, i - 1)
               w == IF i - 1 > closed /\ spare > closed THEN Timeout - ages[closed + 1]
                                                        ELSE Timeout
               last == IF spare > closed THEN Timeout - ages[closed + 1] ELSE Timeout
    <2>1. Lesser(i - 1, closed) = closed /\ Lesser(i, closed) = closed
        BY <1>1, <1>5 DEF Lesser
    <2>2. before = Walk(spare - closed, closed, kept, w)
        BY Zenon, <2>1 DEF before, WalkAfter, Walk
    <2>3. ~ (i <= closed)
        BY <1>1, <1>5
    <2>4. WalkAfter(spare, closed, i)
            = Walk(spare - closed, closed, SubSeq(ages, closed + 1, i), last)
        BY <1>5, <2>1, <2>3 DEF WalkAfter, Walk
    <2>5. ~ (spare - closed > 0 /\ ages[i] >= Timeout)
        BY <1>1, <1>3, <1>5
    <2>6. Append(kept, ages[i]) = SubSeq(ages, closed + 1, i)
        BY <1>1, <1>5, KeepOne
    <2>7. WaitAfter(Walk(spare - closed, closed, kept, w), ages[i]) = last
        <3> HIDE DEF kept
        <3>1. CASE spare > closed
            <4>1. closed + 1 \in 1..Len(ages) /\ ages[i] <= ages[closed + 1]
                BY <1>1, <1>2, <1>5 DEF Sorted
            <4> QED
                BY <1>1, <1>2, <1>5, <3>1, <4>1 DEF WaitAfter, Lesser, Walk
        <3>2. CASE ~ (spare > closed)
            BY <1>1, <3>2 DEF WaitAfter, Walk
        <3> QED
            BY <3>1, <3>2
    <2> HIDE DEF kept, w, last
    <2>8. ReapEntry(before, ages[i])
            = Walk(spare - closed, closed, Append(kept, ages[i]),
                   WaitAfter(Walk(spare - closed, closed, kept, w), ages[i]))
        BY <2>2, <2>5, EntryKeeps
    <2> QED
        BY <2>4, <2>6, <2>7, <2>8
<1> QED
    BY <1>1, <1>4, <1>5

\* The whole walk, from its first entry to its last.
LEMMA WalkComputed ==
  ASSUME AgesOK, Sorted, NEW spare \in Nat, NEW ripe \in Nat, FirstRipe(ripe)
  PROVE  ReapWalk(spare) = WalkAfter(spare, Lesser(spare, ripe), Len(ages))
<1> DEFINE start == [spare |-> spare, expired |-> 0, kept |-> <<>>, wait |-> Timeout]
           Walks(f) == f = [i \in 0..Len(ages) |->
                              IF i = 0 THEN start ELSE ReapEntry(f[i - 1], ages[i])]
           walk[i \in 0..Len(ages)] ==
             IF i = 0
             THEN [spare |-> spare, expired |-> 0, kept |-> <<>>, wait |-> Timeout]
             ELSE ReapEntry(walk[i - 1], ages[i])
           closed == Lesser(spare, ripe)
           after == [i \in 0..Len(ages) |-> WalkAfter(spare, closed, i)]
<1>1. ReapWalk(spare) = walk[Len(ages)]
    BY DEF ReapWalk
<1>2. Len(ages) \in Nat /\ closed \in Nat
    BY DEF AgesOK, Lesser
<1>3. after[0] = start
    BY <1>2 DEF WalkAfter, Lesser
<1>4. ASSUME NEW i \in 1..Len(ages)
      PROVE  after[i] = ReapEntry(after[i - 1], ages[i])
    <2>1. i \in 0..Len(ages) /\ i - 1 \in 0..Len(ages)
        BY <1>2
    <2> QED
        BY <2>1, EntryWalked
<1>5. Walks(after)
    <2> HIDE DEF start
    <2>1. ASSUME NEW i \in 0..Len(ages)
          PROVE  after[i] = IF i = 0 THEN start ELSE ReapEntry(after[i - 1], ages[i])
        <3> HIDE DEF after
        <3>1. CASE i = 0
            BY <1>3, <3>1
        <3>2. CASE i # 0
            BY <1>2, <1>4, <3>2
        <3> QED
            BY <3>1, <3>2
    <2> QED
        BY <2>1
<1>6. Walks(walk)
    BY <1>5
<1>7. /\ walk[0] = start
      /\ \A i \in 1..Len(ages) : walk[i] = ReapEntry(walk[i - 1], ages[i])
    <2> HIDE DEF walk, start
    <2> QED
        BY <1>2, <1>6
<1>8. walk[Len(ages)] = after[Len(ages)]
    <2> HIDE DEF walk, after, start
    <2>1. \A i \in 1..Len(ages) : walk[i - 1] = after[i - 1] => walk[i] = after[i]
        BY <1>4, <1>7
    <2>2. walk[0] = after[0]
        BY <1>3, <1>7
    <2> DEFINE Differ == {i \in 0..Len(ages) : walk[i] # after[i]}
    <2>3. SUFFICES ASSUME Differ # {}
                   PROVE  FALSE
        BY <1>2
    <2>4. Differ \in SUBSET Nat
        BY <1>2
    <2>5. PICK x \in Differ : \A y \in Differ : x <= y
        <3> HIDE DEF Differ
        <3> QED
            BY <2>3, <2>4, LeastNumber
    <2>6. x \in 1..Len(ages) /\ x - 1 \in 0..Len(ages)
        BY <1>2, <2>2
    <2>7. x - 1 \notin Differ
        BY <1>2, <2>5, <2>6
    <2> QED
        BY <2>1, <2>6, <2>7
<1> QED
    BY <1>1, <1>2, <1>8

\* What State::reap answers: how many it closes, what it keeps, and a wait that
\* is not zero and over before anything kept can be due, if more can be spared.
LEMMA ReapAnswers ==
  ASSUME AgesOK, Sorted, open \in Int, NEW ripe \in Nat, FirstRipe(ripe)
  PROVE  /\ Reaped.expired = Lesser(Spare, ripe)
         /\ Reaped.kept = SubSeq(ages, Lesser(Spare, ripe) + 1, Len(ages))
         /\ Reaped.wait \in 1..Timeout
         /\ Spare > Lesser(Spare, ripe) =>
              \A i \in 1..Len(ages) :
                i > Lesser(Spare, ripe) => Reaped.wait + ages[i] <= Timeout
<1>1. /\ Timeout \in Nat /\ 1 <= Timeout /\ Len(ages) \in Nat /\ Spare \in Nat
      /\ ripe <= Len(ages) /\ \A i \in 1..Len(ages) : ages[i] \in Nat
    BY ElasticAssumption DEF AgesOK, AgeCap, FirstRipe, Spare
<1>2. CASE Spare = 0 \/ ages = <<>>
    <2>1. Lesser(Spare, ripe) = 0
        BY <1>1, <1>2 DEF Lesser
    <2>2. SubSeq(ages, 0 + 1, Len(ages)) = ages
        BY DEF AgesOK
    <2>3. Reaped.expired = 0 /\ Reaped.kept = ages /\ Reaped.wait = Timeout
        BY <1>2 DEF Reaped
    <2> QED
        BY <1>1, <1>2, <2>1, <2>2, <2>3
<1>3. CASE ~ (Spare = 0 \/ ages = <<>>)
    <2> DEFINE closed == Lesser(Spare, ripe)
    <2>1. /\ closed \in Nat /\ closed <= Spare /\ closed <= ripe
          /\ closed = Spare \/ closed = ripe
        BY <1>1 DEF Lesser
    <2>2. Reaped = WalkAfter(Spare, closed, Len(ages))
        BY <1>1, <1>3, WalkComputed DEF Reaped
    <2> HIDE DEF closed
    <2>3. Lesser(Len(ages), closed) = closed
        BY <1>1, <2>1 DEF Lesser
    <2>4. /\ Reaped.expired = closed
          /\ Reaped.kept = IF Len(ages) <= closed THEN <<>>
                                                  ELSE SubSeq(ages, closed + 1, Len(ages))
          /\ Reaped.wait = IF Len(ages) > closed /\ Spare > closed
                           THEN Timeout - ages[closed + 1] ELSE Timeout
        BY <2>2, <2>3 DEF WalkAfter
    <2>5. Len(ages) <= closed => SubSeq(ages, closed + 1, Len(ages)) = <<>>
        BY <1>1, <2>1 DEF AgesOK
    <2>6. ASSUME Len(ages) > closed, Spare > closed
          PROVE  /\ closed + 1 \in 1..Len(ages) /\ ages[closed + 1] < Timeout
                 /\ \A i \in 1..Len(ages) : i > closed => ages[i] <= ages[closed + 1]
        <3>1. closed + 1 \in 1..Len(ages) /\ ~ (closed + 1 <= ripe)
            BY <1>1, <2>1, <2>6
        <3> QED
            BY <1>1, <2>1, <3>1 DEF FirstRipe, Sorted
    <2>7. Reaped.wait \in 1..Timeout
        BY <1>1, <2>1, <2>4, <2>6
    <2>8. ASSUME Spare > closed, NEW i \in 1..Len(ages), i > closed
          PROVE  Reaped.wait + ages[i] <= Timeout
        <3>1. Len(ages) > closed
            BY <1>1, <2>1, <2>8
        <3>2. /\ ages[i] <= ages[closed + 1]
              /\ ages[i] \in Nat /\ ages[closed + 1] \in Nat
            BY <1>1, <2>6, <2>8, <3>1
        <3>3. Reaped.wait = Timeout - ages[closed + 1]
            BY <2>4, <2>8, <3>1
        <3> QED
            BY <1>1, <3>2, <3>3
    <2> QED
        BY Zenon, <2>4, <2>5, <2>7, <2>8 DEF closed
<1> QED
    BY <1>2, <1>3

--------------------------------------------------------------------------------
(* The invariant *)

CountInv == /\ busy \in Nat /\ opening \in Nat
            /\ open = Len(ages) + busy + opening

\* While the pool is above its floor, the reaper will look again before any idle
\* session is overdue, unless the pool has not been there for a timeout yet.
OnTimeInv ==
  /\ wait \in 0..Timeout
  /\ surplus \in 0..AgeCap
  /\ open <= Min => surplus = 0
  /\ open > Min => \/ \A i \in 1..Len(ages) : wait + ages[i] <= Timeout
                   \/ surplus + wait <= Timeout

ClockInv == AgesOK /\ Sorted /\ CountInv /\ OnTimeInv

\* The types that arithmetic needs.
LEMMA ClockTyped ==
  ASSUME ClockInv
  PROVE  /\ Min \in Nat /\ Timeout \in Nat /\ 1 <= Timeout /\ 1 <= Min
         /\ Len(ages) \in Nat /\ open \in Nat /\ busy \in Nat /\ opening \in Nat
         /\ wait \in Nat /\ wait <= Timeout /\ surplus \in Nat
         /\ \A i \in 1..Len(ages) : ages[i] \in 0..(Timeout + 1)
BY ElasticAssumption DEF ClockInv, AgesOK, CountInv, OnTimeInv, AgeCap

\* A pool opens at its floor, with nothing idle for any time.
LEMMA ClockInitInv == Init => ClockInv
<1> SUFFICES ASSUME Init
             PROVE  ClockInv
    OBVIOUS
<1>1. Len(ages) = Min /\ ages \in Seq(0..AgeCap) /\ \A i \in 1..Len(ages) : ages[i] = 0
    BY ElasticAssumption DEF Init, AgeCap
<1> QED
    BY <1>1, ElasticAssumption DEF Init, ClockInv, AgesOK, Sorted, CountInv, OnTimeInv,
                                  AgeCap

\* A piece of the list, entry by entry.
LEMMA Piece ==
  ASSUME AgesOK, NEW m \in Nat, NEW n \in Nat, m <= n, n <= Len(ages)
  PROVE  /\ SubSeq(ages, m + 1, n) \in Seq(0..AgeCap)
         /\ Len(SubSeq(ages, m + 1, n)) = n - m
         /\ \A i \in 1..(n - m) : /\ i + m \in 1..Len(ages)
                                 /\ SubSeq(ages, m + 1, n)[i] = ages[i + m]
<1>1. Len(SubSeq(ages, m + 1, n)) = n - m
    BY DEF AgesOK
<1>2. ASSUME NEW i \in 1..(n - m)
      PROVE  i + m \in 1..Len(ages) /\ SubSeq(ages, m + 1, n)[i] = ages[i + m]
    BY DEF AgesOK
<1>3. SubSeq(ages, m + 1, n) \in Seq(0..AgeCap)
    <2>1. ASSUME NEW S, ages \in Seq(S)
          PROVE  SubSeq(ages, m + 1, n) \in Seq(S)
        BY <2>1
    <2> QED
        BY Zenon, <2>1 DEF AgesOK
<1> QED
    BY <1>1, <1>2, <1>3

\* The youngest is taken.
LEMMA TakeInv ==
  ASSUME ClockInv, Take
  PROVE  ClockInv'
<1>1. /\ ages' \in Seq(0..AgeCap) /\ Len(ages') = Len(ages) - 1
      /\ \A i \in 1..Len(ages') : i \in 1..Len(ages) /\ ages'[i] = ages[i]
    <2>1. Len(ages) \in Nat /\ Len(ages) > 0 /\ ages \in Seq(0..AgeCap)
        BY DEF ClockInv, AgesOK, Take
    <2> DEFINE first == 0
               last == Len(ages) - 1
               rest == SubSeq(ages, first + 1, last)
    <2>2. /\ first \in Nat /\ last \in Nat /\ first <= last /\ last <= Len(ages)
          /\ last = Len(ages) - 1 /\ first = 0
        BY <2>1
    <2>3. ages' = rest
        BY DEF Take
    <2> HIDE DEF first, last
    <2>4. /\ rest \in Seq(0..AgeCap) /\ Len(rest) = last - first
          /\ \A i \in 1..(last - first) :
               i + first \in 1..Len(ages) /\ rest[i] = ages[i + first]
        BY Zenon, <2>1, <2>2, Piece DEF ClockInv
    <2> HIDE DEF rest
    <2> QED
        BY <2>1, <2>2, <2>3, <2>4
<1>2. AgesOK' /\ Sorted'
    BY <1>1 DEF ClockInv, AgesOK, Sorted, AgeCap
<1>3. CountInv'
    <2>1. open' = open /\ busy' = busy + 1 /\ opening' = opening
        BY DEF Take
    <2> QED
        BY <1>1, <2>1, ClockTyped DEF ClockInv, CountInv
<1>4. OnTimeInv'
    BY <1>1, ClockTyped DEF ClockInv, OnTimeInv, Take, AgeCap
<1> QED
    BY <1>2, <1>3, <1>4 DEF ClockInv

\* What leaves the list alone.
LEMMA CountStepInv ==
  ASSUME ClockInv, Reserve \/ Grow \/ GrowFails
  PROVE  ClockInv'
<1>1. UNCHANGED <<ages, wait>>
    BY DEF Reserve, Grow, GrowFails
<1>2. AgesOK' /\ Sorted'
    BY <1>1 DEF ClockInv, AgesOK, Sorted, AgeCap
<1>3. CountInv'
    BY <1>1, ClockTyped DEF ClockInv, CountInv, Reserve, Grow, GrowFails
<1>4. OnTimeInv'
    <2>1. CASE Reserve
        BY <1>1, <2>1, ClockTyped DEF ClockInv, OnTimeInv, Reserve, Recount, AgeCap
    <2>2. CASE Grow
        BY <1>1, <2>2, ClockTyped DEF ClockInv, OnTimeInv, Grow, AgeCap
    <2>3. CASE GrowFails
        BY <1>1, <2>3, ClockTyped DEF ClockInv, OnTimeInv, GrowFails, Recount, AgeCap
    <2> QED
        BY <2>1, <2>2, <2>3
<1> QED
    BY <1>2, <1>3, <1>4 DEF ClockInv

\* A session given back is the youngest, and goes last.
LEMMA GiveBackInv ==
  ASSUME ClockInv, GiveBack
  PROVE  ClockInv'
<1>1. /\ ages' \in Seq(0..AgeCap) /\ Len(ages') = Len(ages) + 1
      /\ \A i \in 1..Len(ages) : ages'[i] = ages[i]
      /\ ages'[Len(ages) + 1] = 0
    BY ElasticAssumption DEF ClockInv, AgesOK, GiveBack, GiveBackInto, AgeCap
<1>2. AgesOK'
    BY <1>1 DEF AgesOK, AgeCap
<1>3. Sorted'
    <2> SUFFICES ASSUME NEW i \in 1..Len(ages'), NEW k \in 1..Len(ages'), i < k
                 PROVE  ages'[i] >= ages'[k]
        BY DEF Sorted
    <2>1. i \in 1..Len(ages) /\ ages[i] \in Nat /\ ages'[i] = ages[i]
        BY <1>1, ClockTyped
    <2>2. CASE k = Len(ages) + 1
        BY <1>1, <2>1, <2>2
    <2>3. CASE k # Len(ages) + 1
        <3>1. k \in 1..Len(ages) /\ ages'[k] = ages[k]
            BY <1>1, <2>3, ClockTyped
        <3> QED
            BY <2>1, <3>1 DEF ClockInv, Sorted
    <2> QED
        BY <2>2, <2>3
<1>4. CountInv'
    BY <1>1, ClockTyped DEF ClockInv, CountInv, GiveBack, GiveBackInto
<1>5. OnTimeInv'
    <2>1. UNCHANGED <<open, wait, surplus>>
        BY DEF GiveBack, GiveBackInto
    <2>2. ASSUME \A i \in 1..Len(ages) : wait + ages[i] <= Timeout,
                 NEW i \in 1..Len(ages')
          PROVE  wait + ages'[i] <= Timeout
        <3>1. CASE i = Len(ages) + 1
            BY <1>1, <3>1, ClockTyped
        <3>2. CASE i # Len(ages) + 1
            BY <1>1, <2>2, <3>2, ClockTyped
        <3> QED
            BY <3>1, <3>2
    <2> QED
        BY <2>1, <2>2 DEF ClockInv, OnTimeInv, AgeCap
<1> QED
    BY <1>2, <1>3, <1>4, <1>5 DEF ClockInv

\* The reaper closes from the front, and looks again in time.
LEMMA ReapInv ==
  ASSUME ClockInv, Reap
  PROVE  ClockInv'
<1>1. PICK ripe \in 0..Len(ages) : FirstRipe(ripe)
    BY RipeComeFirst DEF ClockInv
<1> DEFINE closed == Lesser(Spare, ripe)
<1>2. /\ Spare \in Nat /\ ripe \in Nat /\ closed \in Nat /\ closed <= Spare
      /\ closed <= ripe /\ ripe <= Len(ages) /\ (closed = Spare \/ closed = ripe)
    BY <1>1, ClockTyped DEF Lesser, Spare
<1>3. /\ Reaped.expired = closed
      /\ Reaped.kept = SubSeq(ages, closed + 1, Len(ages))
      /\ Reaped.wait \in 1..Timeout
      /\ Spare > closed => \A i \in 1..Len(ages) :
                              i > closed => Reaped.wait + ages[i] <= Timeout
    BY <1>1, <1>2, ClockTyped, ReapAnswers DEF ClockInv
<1> HIDE DEF closed
<1>4. /\ ages' \in Seq(0..AgeCap) /\ Len(ages') = Len(ages) - closed
      /\ \A i \in 1..Len(ages') : /\ i + closed \in 1..Len(ages)
                                  /\ ages'[i] = ages[i + closed]
    <2>1. Len(ages) \in Nat /\ ages \in Seq(0..AgeCap) /\ closed <= Len(ages)
        BY <1>2, ClockTyped DEF ClockInv, AgesOK
    <2> DEFINE rest == SubSeq(ages, closed + 1, Len(ages))
    <2>2. /\ rest \in Seq(0..AgeCap) /\ Len(rest) = Len(ages) - closed
          /\ \A i \in 1..(Len(ages) - closed) :
               i + closed \in 1..Len(ages) /\ rest[i] = ages[i + closed]
        BY <1>2, <2>1, Piece DEF ClockInv
    <2>3. ages' = rest
        BY <1>3 DEF Reap
    <2> HIDE DEF rest
    <2> QED
        BY <2>2, <2>3
<1>5. AgesOK' /\ Sorted'
    BY <1>2, <1>4 DEF ClockInv, AgesOK, Sorted, AgeCap
<1>6. CountInv'
    BY <1>2, <1>3, <1>4, ClockTyped DEF ClockInv, CountInv, Reap
<1>7. ASSUME open' > Min, NEW i \in 1..Len(ages')
      PROVE  wait' + ages'[i] <= Timeout
    <2>1. Spare > closed
        <3>1. open' = open - closed
            BY <1>3 DEF Reap
        <3> QED
            BY <1>2, <1>7, <3>1, ClockTyped DEF Spare
    <2>2. CASE closed > 0
        <3>1. ages[i + closed] \in Nat /\ ~ (ages[i + closed] >= Timeout)
            BY <1>1, <1>2, <1>4, <2>1, ClockTyped DEF FirstRipe
        <3>2. wait' = 0
            BY <1>3, <2>2 DEF Reap
        <3> QED
            BY <1>4, <3>1, <3>2, ClockTyped
    <2>3. CASE ~ (closed > 0)
        <3>1. wait' = Reaped.wait /\ i + closed > closed
            BY <1>2, <1>3, <2>3 DEF Reap
        <3> QED
            BY <1>3, <1>4, <2>1, <3>1
    <2> QED
        BY <2>2, <2>3
<1>8. OnTimeInv'
    <2>1. open' = open - closed /\ wait' = IF closed > 0 THEN 0 ELSE Reaped.wait
        BY <1>3 DEF Reap
    <2>2. wait' \in 0..Timeout
        BY <1>3, <2>1, ClockTyped
    <2>3. surplus' \in 0..AgeCap /\ (open' <= Min => surplus' = 0)
        BY <1>2, <2>1, ClockTyped DEF ClockInv, OnTimeInv, Reap, Recount, AgeCap
    <2> QED
        BY <1>7, <2>2, <2>3 DEF OnTimeInv, AgeCap
<1> QED
    BY <1>5, <1>6, <1>8 DEF ClockInv

\* Time passes for all alike.
LEMMA TickInv ==
  ASSUME ClockInv, Tick
  PROVE  ClockInv'
<1>1. /\ ages' \in Seq(0..AgeCap) /\ Len(ages') = Len(ages)
      /\ \A i \in 1..Len(ages) : ages'[i] = Later(ages[i])
    <2>1. ages' = [i \in 1..Len(ages) |-> Later(ages[i])] /\ Len(ages) \in Nat
        BY ClockTyped DEF Tick
    <2>2. \A i \in 1..Len(ages) : Later(ages[i]) \in 0..AgeCap
        BY ClockTyped DEF Later, AgeCap
    <2> HIDE DEF ClockInv, Tick, Later, AgeCap
    <2> QED
        BY <2>1, <2>2
<1>2. AgesOK'
    BY <1>1 DEF AgesOK, AgeCap
<1>3. Sorted'
    <2> SUFFICES ASSUME NEW i \in 1..Len(ages), NEW k \in 1..Len(ages), i < k
                 PROVE  Later(ages[i]) >= Later(ages[k])
        BY <1>1 DEF Sorted
    <2>1. ages[i] >= ages[k] /\ ages[i] \in Nat /\ ages[k] \in Nat /\ Timeout \in Nat
        BY ClockTyped DEF ClockInv, Sorted
    <2> QED
        BY <2>1 DEF Later, AgeCap
<1>4. CountInv'
    BY <1>1, ClockTyped DEF ClockInv, CountInv, Tick
<1>5. OnTimeInv'
    <2>1. /\ wait > 0 /\ wait' = wait - 1 /\ open' = open
          /\ surplus' = IF open > Min THEN Later(surplus) ELSE 0
        BY DEF Tick
    <2>2. /\ wait' \in 0..Timeout /\ surplus' \in 0..AgeCap
          /\ open' <= Min => surplus' = 0
        BY <2>1, ClockTyped DEF Later, AgeCap
    <2>3. ASSUME NEW i \in 1..Len(ages), wait + ages[i] <= Timeout
          PROVE  wait' + ages'[i] <= Timeout
        <3>1. ages[i] \in Nat /\ Timeout \in Nat /\ wait \in Nat
            BY ClockTyped
        <3>2. Later(ages[i]) <= ages[i] + 1 /\ Later(ages[i]) \in Nat
            BY <3>1 DEF Later, AgeCap
        <3>3. ages'[i] = Later(ages[i])
            BY <1>1
        <3> QED
            BY <2>1, <2>3, <3>1, <3>2, <3>3
    <2>4. ASSUME open > Min, surplus + wait <= Timeout
          PROVE  surplus' + wait' <= Timeout
        BY <2>1, <2>4, ClockTyped DEF Later, AgeCap
    <2>5. open > Min => \/ \A i \in 1..Len(ages) : wait + ages[i] <= Timeout
                        \/ surplus + wait <= Timeout
        BY DEF ClockInv, OnTimeInv
    <2> QED
        BY <1>1, <2>1, <2>2, <2>3, <2>4, <2>5 DEF OnTimeInv, AgeCap
<1> QED
    BY <1>2, <1>3, <1>4, <1>5 DEF ClockInv

\* ClockInv always holds.
LEMMA ClockAlways == Spec => []ClockInv
<1>1. ClockInv /\ [Next]_clockVars => ClockInv'
    <2>1. ClockInv /\ UNCHANGED clockVars => ClockInv'
        BY DEF clockVars, ClockInv, AgesOK, Sorted, CountInv, OnTimeInv, AgeCap
    <2> QED
        BY <2>1, TakeInv, CountStepInv, GiveBackInv, ReapInv, TickInv DEF Next
<1> QED
    BY <1>1, ClockInitInv, PTL DEF Spec

--------------------------------------------------------------------------------
(* What the reaper promises *)

\* For any pool, what SessionPool takes for granted: the walk closes the sessions
\* that are due, oldest first and down to the floor, and keeps the rest in order.
THEOREM OldestAreTaken == Spec => []WalkTakesOldest
<1>1. ClockInv => WalkTakesOldest
    <2> SUFFICES ASSUME ClockInv
                 PROVE  WalkTakesOldest
        OBVIOUS
    <2>1. PICK ripe \in 0..Len(ages) : FirstRipe(ripe)
        BY RipeComeFirst DEF ClockInv
    <2>2. ripe \in Nat /\ Len(ages) \in Nat
        BY ClockTyped
    <2>3. Ripe = 1..ripe
        BY <2>1, <2>2 DEF FirstRipe, Ripe
    <2> QED
        BY <2>1, <2>2, <2>3, ClockTyped, ReapAnswers DEF ClockInv, WalkTakesOldest
<1> QED
    BY <1>1, ClockAlways, PTL

\* For any pool, the reaper never spins.
THEOREM ReaperNeverSpins == Spec => []WaitNeverZero
<1>1. ClockInv => WaitNeverZero
    <2> SUFFICES ASSUME ClockInv
                 PROVE  WaitNeverZero
        OBVIOUS
    <2>1. PICK ripe \in 0..Len(ages) : FirstRipe(ripe)
        BY RipeComeFirst DEF ClockInv
    <2>2. Reaped.wait \in 1..Timeout
        BY <2>1, ClockTyped, ReapAnswers DEF ClockInv
    <2> QED
        BY <2>2, ClockTyped DEF WaitNeverZero
<1> QED
    BY <1>1, ClockAlways, PTL

\* For any pool above its floor, nothing idles for longer than the timeout.
THEOREM ClosesOnTime == Spec => []ClosedOnTime
<1>1. ClockInv => ClosedOnTime
    BY ClockTyped DEF ClockInv, OnTimeInv, ClosedOnTime
<1> QED
    BY <1>1, ClockAlways, PTL
================================================================================
