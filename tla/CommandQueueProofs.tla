------------------------- MODULE CommandQueueProofs -------------------------
(***************************************************************************)
(* Proofs about CommandQueue, for every set of commands, spacing, age      *)
(* limit and backlog: no wake-up is lost, and the queue implements         *)
(* PacedDelivery.  The array is related to the promise by two facts: it    *)
(* holds exactly the waiting commands, and it is sorted in the order of    *)
(* departure; so its head is the first of them, its last ordinary command  *)
(* the newest, and its length their number.                                *)
(***************************************************************************)
EXTENDS CommandQueue, SequenceTheorems, FunctionTheorems, FiniteSetTheorems, TLAPS

----------------------------------------------------------------------------
(* The array.                                                              *)

\* r is q with c put in at p.
Inserted(r, q, p, c) ==
    /\ Len(r) = Len(q) + 1
    /\ \A i \in 1..(Len(q) + 1) :
          r[i] = IF i < p THEN q[i] ELSE IF i = p THEN c ELSE q[i - 1]

LEMMA Insertion ==
    ASSUME NEW S, NEW q \in Seq(S), NEW c \in S, NEW p \in 1..(Len(q) + 1)
    PROVE  /\ InsertAt(q, p, c) \in Seq(S)
           /\ Inserted(InsertAt(q, p, c), q, p, c)
<1> DEFINE front == SubSeq(q, 1, p - 1)
           back == SubSeq(q, p, Len(q))
           left == front \o <<c>>
<1>1. /\ front \in Seq(S) /\ Len(front) = p - 1
      /\ \A i \in 1..(p - 1) : front[i] = q[i]
  BY SubSeqProperties
<1>2. /\ back \in Seq(S) /\ Len(back) = Len(q) - p + 1
      /\ \A i \in 1..(Len(q) - p + 1) : back[i] = q[p + i - 1]
  BY SubSeqProperties
<1>3. /\ left \in Seq(S) /\ Len(left) = p
      /\ \A i \in 1..p : left[i] = IF i < p THEN q[i] ELSE c
  BY <1>1, ConcatProperties
<1>4. InsertAt(q, p, c) = left \o back
  BY DEF InsertAt
<1> HIDE DEF left, back
<1>5. /\ left \o back \in Seq(S) /\ Len(left \o back) = Len(left) + Len(back)
      /\ \A i \in 1..(Len(left) + Len(back)) :
            (left \o back)[i] = IF i <= Len(left) THEN left[i] ELSE back[i - Len(left)]
  BY <1>2, <1>3, ConcatProperties
<1>6. ASSUME NEW i \in 1..(Len(q) + 1), i > p
      PROVE  (left \o back)[i] = q[i - 1]
  <2>1. i - p \in 1..(Len(q) - p + 1) /\ p + (i - p) - 1 = i - 1
    BY <1>6
  <2>2. back[i - p] = q[p + (i - p) - 1]
    BY <1>2, <2>1
  <2>3. (left \o back)[i] = back[i - p]
    BY <1>2, <1>3, <1>5, <1>6
  <2> QED
    BY <2>1, <2>2, <2>3
<1>7. \A i \in 1..p : (left \o back)[i] = IF i < p THEN q[i] ELSE c
  BY <1>2, <1>3, <1>5
<1> QED
  BY <1>2, <1>3, <1>4, <1>5, <1>6, <1>7 DEF Inserted

LEMMA Removal ==
    ASSUME NEW S, NEW q \in Seq(S), NEW p \in 1..Len(q)
    PROVE  /\ RemoveAt(q, p) \in Seq(S)
           /\ Len(RemoveAt(q, p)) = Len(q) - 1
           /\ \A i \in 1..(Len(q) - 1) :
                 RemoveAt(q, p)[i] = IF i < p THEN q[i] ELSE q[i + 1]
<1> DEFINE n == Len(q)
           front == SubSeq(q, 1, p - 1)
           back == SubSeq(q, p + 1, n)
<1>0. n \in Nat /\ p \in 1..n
  OBVIOUS
<1>1. /\ front \in Seq(S) /\ Len(front) = p - 1
      /\ \A i \in 1..(p - 1) : front[i] = q[i]
  BY SubSeqProperties
<1>2. /\ back \in Seq(S) /\ Len(back) = Len(q) - p
      /\ \A i \in 1..(Len(q) - p) : back[i] = q[p + i]
  <2>1. p + 1 \in Int /\ n \in Int /\ \A i \in (p + 1)..n : q[i] \in S
    OBVIOUS
  <2>2. /\ back \in Seq(S)
        /\ Len(back) = IF p + 1 <= n THEN n - (p + 1) + 1 ELSE 0
        /\ \A i \in 1..(n - (p + 1) + 1) : back[i] = q[(p + 1) + i - 1]
    BY <2>1, SubSeqProperties
  <2> HIDE DEF n, back
  <2>3. Len(back) = n - p
    BY <1>0, <2>2
  <2>4. \A i \in 1..(n - p) : back[i] = q[p + i]
    <3>1. SUFFICES ASSUME NEW i \in 1..(n - p) PROVE back[i] = q[p + i]
      OBVIOUS
    <3>2. i \in 1..(n - (p + 1) + 1) /\ (p + 1) + i - 1 = p + i
      BY <1>0
    <3> QED
      BY <2>2, <3>2
  <2> QED
    BY <2>2, <2>3, <2>4 DEF n
<1>3. RemoveAt(q, p) = front \o back
  BY DEF RemoveAt
<1> HIDE DEF front, back
<1>4. /\ front \o back \in Seq(S) /\ Len(front \o back) = Len(front) + Len(back)
      /\ \A i \in 1..(Len(front) + Len(back)) :
            (front \o back)[i] = IF i <= Len(front) THEN front[i] ELSE back[i - Len(front)]
  BY <1>1, <1>2, ConcatProperties
<1>5. \A i \in 1..(p - 1) : (front \o back)[i] = q[i]
  BY <1>1, <1>2, <1>4
<1>6. ASSUME NEW i \in 1..(Len(q) - 1), i >= p
      PROVE  (front \o back)[i] = q[i + 1]
  <2>1. i - (p - 1) \in 1..(Len(q) - p) /\ p + (i - (p - 1)) = i + 1
    BY <1>6
  <2>2. back[i - (p - 1)] = q[p + (i - (p - 1))]
    BY <1>2, <2>1
  <2>3. (front \o back)[i] = back[i - (p - 1)]
    BY <1>1, <1>2, <1>4, <1>6
  <2> QED
    BY <2>1, <2>2, <2>3
<1>7. Len(front) + Len(back) = Len(q) - 1
  BY <1>1, <1>2
<1> QED
  BY <1>3, <1>4, <1>5, <1>6, <1>7

Before(c, d, arr) ==
    \/ c \in Urgent /\ d \notin Urgent
    \/ (c \in Urgent <=> d \in Urgent) /\ arr[c] < arr[d]

Sorted(q, arr) == \A i, j \in 1..Len(q) : i < j => Before(q[i], q[j], arr)

Holds(q, f) ==
    \A c \in Command : f[c] = "waiting" <=> \E i \in 1..Len(q) : q[i] = c

\* The newest command, put in its place, leaves the array sorted.
LEMMA PlacedIsSorted ==
    ASSUME NEW q \in Seq(Command), NEW arr \in [Command -> Nat], NEW n \in Nat,
           NEW c \in Command, NEW p \in 1..(Len(q) + 1), IsPlace(q, c, p),
           Sorted(q, arr), \A i \in 1..Len(q) : q[i] # c /\ arr[q[i]] <= n,
           NEW r, Inserted(r, q, p, c)
    PROVE  Sorted(r, [arr EXCEPT ![c] = n + 1])
<1>1. /\ Len(r) = Len(q) + 1
      /\ \A i \in 1..(Len(q) + 1) :
            r[i] = IF i < p THEN q[i] ELSE IF i = p THEN c ELSE q[i - 1]
  BY DEF Inserted
<1> DEFINE late == [arr EXCEPT ![c] = n + 1]
<1>2. \A i \in 1..Len(q) : q[i] \in Command
  OBVIOUS
<1>3. late[c] = n + 1 /\ \A i \in 1..Len(q) : late[q[i]] = arr[q[i]]
  BY <1>2
<1>4. \A i, j \in 1..Len(q) : i < j => Before(q[i], q[j], late)
  BY <1>3 DEF Sorted, Before
<1>5. \A i \in 1..Len(q) : i < p => Before(q[i], c, late)
  <2>1. CASE c \in Urgent
    BY <1>3, <2>1 DEF IsPlace, Before
  <2>2. CASE c \notin Urgent
    BY <1>3, <2>2 DEF Before
  <2> QED
    BY <2>1, <2>2
<1>6. \A i \in 1..Len(q) : i >= p => Before(c, q[i], late)
  <2>1. SUFFICES ASSUME NEW i \in 1..Len(q), i >= p PROVE c \in Urgent /\ q[i] \notin Urgent
    BY DEF Before
  <2>2. c \in Urgent /\ p \in 1..Len(q) /\ q[p] \notin Urgent
    BY <2>1 DEF IsPlace
  <2>3. CASE i = p
    BY <2>2, <2>3
  <2>4. CASE i > p
    BY <2>2, <2>4 DEF Sorted, Before
  <2> QED
    BY <2>1, <2>3, <2>4
<1> HIDE DEF late
<1>7. ASSUME NEW i \in 1..(Len(q) + 1), NEW j \in 1..(Len(q) + 1), i < j
      PROVE  Before(r[i], r[j], late)
  <2>1. CASE j < p
    <3>1. r[i] = q[i] /\ r[j] = q[j] /\ i \in 1..Len(q) /\ j \in 1..Len(q)
      BY <1>1, <1>7, <2>1
    <3> QED
      BY <3>1, <1>4, <1>7
  <2>2. CASE j = p
    <3>1. r[i] = q[i] /\ r[j] = c /\ i \in 1..Len(q) /\ i < p
      BY <1>1, <1>7, <2>2
    <3> QED
      BY <3>1, <1>5
  <2>3. CASE j > p /\ i < p
    <3>1. r[i] = q[i] /\ r[j] = q[j - 1] /\ i \in 1..Len(q) /\ j - 1 \in 1..Len(q) /\ i < j - 1
      BY <1>1, <2>3
    <3> QED
      BY <3>1, <1>4
  <2>4. CASE j > p /\ i = p
    <3>1. r[i] = c /\ r[j] = q[j - 1] /\ j - 1 \in 1..Len(q) /\ j - 1 >= p
      BY <1>1, <2>4
    <3> QED
      BY <3>1, <1>6
  <2>5. CASE j > p /\ i > p
    <3>1. /\ r[i] = q[i - 1] /\ r[j] = q[j - 1]
          /\ i - 1 \in 1..Len(q) /\ j - 1 \in 1..Len(q) /\ i - 1 < j - 1
      BY <1>1, <1>7, <2>5
    <3> QED
      BY <3>1, <1>4
  <2> QED
    BY <2>1, <2>2, <2>3, <2>4, <2>5
<1> QED
  BY <1>1, <1>7 DEF Sorted, late

\* It then holds one command more.
LEMMA PlacedHolds ==
    ASSUME NEW q \in Seq(Command), NEW f, NEW g, NEW c \in Command,
           NEW p \in 1..(Len(q) + 1), Holds(q, f), f[c] # "waiting",
           g[c] = "waiting", \A d \in Command \ {c} : g[d] = "waiting" <=> f[d] = "waiting",
           NEW r, Inserted(r, q, p, c)
    PROVE  Holds(r, g)
<1>1. /\ Len(r) = Len(q) + 1
      /\ \A i \in 1..(Len(q) + 1) :
            r[i] = IF i < p THEN q[i] ELSE IF i = p THEN c ELSE q[i - 1]
  BY DEF Inserted
<1>2. \A i \in 1..Len(q) : \E j \in 1..Len(r) : r[j] = q[i]
  <2>1. SUFFICES ASSUME NEW i \in 1..Len(q) PROVE \E j \in 1..Len(r) : r[j] = q[i]
    OBVIOUS
  <2>2. CASE i < p
    BY <1>1, <2>2
  <2>3. CASE i >= p
    <3>1. i + 1 \in 1..Len(r) /\ r[i + 1] = q[i]
      BY <1>1, <2>3
    <3> QED
      BY <3>1
  <2> QED
    BY <2>2, <2>3
<1>3. \A j \in 1..Len(r) : r[j] = c \/ \E i \in 1..Len(q) : q[i] = r[j]
  <2>1. SUFFICES ASSUME NEW j \in 1..Len(r), r[j] # c
                 PROVE  \E i \in 1..Len(q) : q[i] = r[j]
    OBVIOUS
  <2>2. CASE j < p
    BY <1>1, <2>2
  <2>3. CASE j >= p
    <3>1. j - 1 \in 1..Len(q) /\ r[j] = q[j - 1]
      BY <1>1, <2>1, <2>3
    <3> QED
      BY <3>1
  <2> QED
    BY <2>2, <2>3
<1>4. p \in 1..Len(r) /\ r[p] = c
  BY <1>1
<1> QED
  <2> SUFFICES ASSUME NEW d \in Command
               PROVE  g[d] = "waiting" <=> \E i \in 1..Len(r) : r[i] = d
    BY DEF Holds
  <2>1. CASE d = c
    BY <1>4, <2>1
  <2>2. CASE d # c
    <3>1. g[d] = "waiting" <=> \E i \in 1..Len(q) : q[i] = d
      BY <2>2 DEF Holds
    <3>2. (\E i \in 1..Len(q) : q[i] = d) => \E i \in 1..Len(r) : r[i] = d
      BY <1>2
    <3>3. (\E i \in 1..Len(r) : r[i] = d) => \E i \in 1..Len(q) : q[i] = d
      BY <1>3, <2>2
    <3> QED
      BY <3>1, <3>2, <3>3
  <2> QED
    BY <2>1, <2>2

\* A removed command is gone and the rest are in the same order.
LEMMA RemovedIsSorted ==
    ASSUME NEW q \in Seq(Command), NEW arr, NEW p \in 1..Len(q), Sorted(q, arr)
    PROVE  Sorted(RemoveAt(q, p), arr)
<1>1. /\ Len(RemoveAt(q, p)) = Len(q) - 1
      /\ \A i \in 1..(Len(q) - 1) : RemoveAt(q, p)[i] = IF i < p THEN q[i] ELSE q[i + 1]
  BY Removal
<1>2. ASSUME NEW i \in 1..(Len(q) - 1), NEW j \in 1..(Len(q) - 1), i < j
      PROVE  Before(RemoveAt(q, p)[i], RemoveAt(q, p)[j], arr)
  <2>1. CASE j < p
    BY <1>1, <1>2, <2>1 DEF Sorted
  <2>2. CASE i < p /\ p <= j
    BY <1>1, <1>2, <2>2 DEF Sorted
  <2>3. CASE p <= i
    BY <1>1, <1>2, <2>3 DEF Sorted
  <2> QED
    BY <2>1, <2>2, <2>3
<1> QED
  BY <1>1, <1>2 DEF Sorted

LEMMA Distinct ==
    ASSUME NEW q \in Seq(Command), NEW arr \in [Command -> Nat], Sorted(q, arr)
    PROVE  \A i, j \in 1..Len(q) : q[i] = q[j] => i = j
  BY DEF Sorted, Before

LEMMA RemovedHolds ==
    ASSUME NEW q \in Seq(Command), NEW arr \in [Command -> Nat], NEW f, NEW g,
           NEW p \in 1..Len(q), Sorted(q, arr), Holds(q, f), g[q[p]] # "waiting",
           \A d \in Command \ {q[p]} : g[d] = "waiting" <=> f[d] = "waiting"
    PROVE  Holds(RemoveAt(q, p), g)
<1> DEFINE r == RemoveAt(q, p)
<1>1. /\ Len(r) = Len(q) - 1
      /\ \A i \in 1..(Len(q) - 1) : r[i] = IF i < p THEN q[i] ELSE q[i + 1]
  BY Removal
<1> HIDE DEF r
<1>2. \A i \in 1..Len(q) : i # p => \E j \in 1..Len(r) : r[j] = q[i]
  <2>1. SUFFICES ASSUME NEW i \in 1..Len(q), i # p PROVE \E j \in 1..Len(r) : r[j] = q[i]
    OBVIOUS
  <2>2. CASE i < p
    <3>1. i \in 1..Len(r) /\ r[i] = q[i]
      BY <1>1, <2>2
    <3> QED
      BY <3>1
  <2>3. CASE i > p
    <3>1. i - 1 \in 1..Len(r) /\ r[i - 1] = q[i]
      BY <1>1, <2>3
    <3> QED
      BY <3>1
  <2> QED
    BY <2>1, <2>2, <2>3
<1>3. \A j \in 1..Len(r) : \E i \in 1..Len(q) : i # p /\ q[i] = r[j]
  <2>1. SUFFICES ASSUME NEW j \in 1..Len(r) PROVE \E i \in 1..Len(q) : i # p /\ q[i] = r[j]
    OBVIOUS
  <2>2. CASE j < p
    BY <1>1, <2>2
  <2>3. CASE j >= p
    <3>1. j + 1 \in 1..Len(q) /\ r[j] = q[j + 1]
      BY <1>1, <2>3
    <3> QED
      BY <3>1, <2>3
  <2> QED
    BY <2>2, <2>3
<1>4. \A i \in 1..Len(q) : q[i] = q[p] => i = p
  BY Distinct
<1>5. ASSUME NEW d \in Command
      PROVE  g[d] = "waiting" <=> \E j \in 1..Len(r) : r[j] = d
  <2>1. CASE d = q[p]
    BY <1>3, <1>4, <2>1
  <2>2. CASE d # q[p]
    <3>1. g[d] = "waiting" <=> \E i \in 1..Len(q) : q[i] = d
      BY <2>2 DEF Holds
    <3>2. ASSUME NEW i \in 1..Len(q), q[i] = d PROVE \E j \in 1..Len(r) : r[j] = d
      BY <1>2, <2>2, <3>2
    <3>3. ASSUME NEW j \in 1..Len(r), r[j] = d PROVE \E i \in 1..Len(q) : q[i] = d
      BY <1>3, <3>3
    <3> QED
      BY <3>1, <3>2, <3>3
  <2> QED
    BY <2>1, <2>2
<1> QED
  BY <1>5 DEF Holds, r

\* The length of the array is the number of waiting commands.
LEMMA LengthCounts ==
    ASSUME NEW q \in Seq(Command), NEW arr \in [Command -> Nat], NEW f,
           Sorted(q, arr), Holds(q, f)
    PROVE  Cardinality({c \in Command : f[c] = "waiting"}) = Len(q)
<1> DEFINE held == {c \in Command : f[c] = "waiting"}
<1>1. q \in Bijection(1..Len(q), held)
  <2>1. q \in [1..Len(q) -> held]
    BY DEF Holds
  <2>2. q \in Injection(1..Len(q), held)
    BY <2>1, Distinct, Fun_IsInj
  <2>3. q \in Surjection(1..Len(q), held)
    BY <2>1, Fun_IsSurj DEF Holds
  <2> QED
    BY <2>2, <2>3 DEF Bijection
<1>2. IsFiniteSet(1..Len(q)) /\ Cardinality(1..Len(q)) = Len(q)
  <2>1. Len(q) \in Nat
    BY LenProperties
  <2> HIDE DEF held
  <2>2. Cardinality(1..Len(q)) = IF 1 > Len(q) THEN 0 ELSE Len(q) - 1 + 1
    BY <2>1, FS_Interval
  <2>3. IsFiniteSet(1..Len(q))
    BY <2>1, FS_Interval
  <2> QED
    BY <2>1, <2>2, <2>3
<1> QED
  BY <1>1, <1>2, FS_Bijection, Fun_ExistsBij

\* The drainer takes the first command out.
LEMMA Departure ==
    ASSUME NEW q \in Seq(Command), q # <<>>
    PROVE  1 \in 1..Len(q) /\ Head(q) = q[1] /\ Tail(q) = RemoveAt(q, 1)
<1>1. Tail(q) = SubSeq(q, 2, Len(q)) /\ Tail(q) \in Seq(Command)
  BY TailIsSubSeq
<1>2. SubSeq(q, 1, 1 - 1) = <<>>
  BY SubSeqEmpty
<1>3. RemoveAt(q, 1) = <<>> \o Tail(q)
  BY <1>1, <1>2 DEF RemoveAt
<1> QED
  BY <1>1, <1>3, ConcatEmptySeq

----------------------------------------------------------------------------
(* The invariant.                                                          *)

LEMMA QueueFacts ==
    QueueInv <=> /\ Holds(pending, fate)
                 /\ Sorted(pending, arrival)
                 /\ \A c \in Command : arrival[c] <= accepted
  BY DEF QueueInv, Holds, Sorted, Precedes, Before

\* The commands in the array are not new, and came before the next one.
LEMMA InTheArray ==
    ASSUME TypeOK, QueueInv, NEW i \in 1..Len(pending)
    PROVE  /\ pending[i] \in Command
           /\ fate[pending[i]] = "waiting"
           /\ arrival[pending[i]] <= accepted
<1>1. pending[i] \in Command
  BY DEF TypeOK
<1> QED
  BY <1>1, QueueFacts DEF Holds

\* What push does to the array, whether or not a command made room in it.
LEMMA TakenKeepsQueue ==
    ASSUME TypeOK, NEW q \in Seq(Command), NEW f, NEW c \in Command,
           Holds(q, f), Sorted(q, arrival), Place(q, c), Taken(c),
           f[c] = "new", \A d \in Command : arrival[d] <= accepted,
           fate' = [f EXCEPT ![c] = "waiting"], f \in [Command -> Fate],
           Len(q) < MaxBacklog, drainer = "asleep" => gap + sleep >= Spacing, Yielded
    PROVE  IInv'
<1>1. PICK p \in 1..(Len(q) + 1) : IsPlace(q, c, p) /\ pending' = InsertAt(q, p, c)
  BY DEF Place
<1>2. arrival \in [Command -> Nat] /\ accepted \in Nat
  BY DEF TypeOK
<1>3. /\ arrival' = [arrival EXCEPT ![c] = accepted + 1] /\ accepted' = accepted + 1
      /\ drainer' \in {"loop", "asleep"} /\ (drainer' = "asleep" => drainer = "asleep")
      /\ UNCHANGED <<sleep, session, age, gap>>
  BY DEF Taken, Yielded
<1>4. pending' \in Seq(Command) /\ Len(pending') = Len(q) + 1
      /\ Inserted(pending', q, p, c)
  <2>1. pending' \in Seq(Command) /\ Inserted(pending', q, p, c)
    BY <1>1, Insertion
  <2> QED
    BY <2>1 DEF Inserted
<1>5. TypeOK'
  <2>1. arrival' \in [Command -> Nat] /\ accepted' \in Nat
    BY <1>2, <1>3
  <2>2. fate' \in [Command -> Fate]
    BY DEF Fate
  <2>3. Len(pending') <= MaxBacklog
    BY <1>4, LenProperties, QueueAssumption
  <2> QED
    BY <1>3, <1>4, <2>1, <2>2, <2>3 DEF TypeOK
<1>6. pending' # <<>>
  BY <1>4
<1>7. \A i \in 1..Len(q) : q[i] # c /\ arrival[q[i]] <= accepted
  <2>1. \A i \in 1..Len(q) : q[i] \in Command
    OBVIOUS
  <2> QED
    BY <2>1 DEF Holds
<1>8. Sorted(pending', arrival')
  BY <1>1, <1>2, <1>3, <1>4, <1>7, PlacedIsSorted
<1>9. Holds(pending', fate')
  <2>1. fate'[c] = "waiting" /\ \A d \in Command \ {c} : fate'[d] = f[d]
    OBVIOUS
  <2> QED
    BY <1>1, <1>4, <2>1, PlacedHolds
<1>10. \A d \in Command : arrival'[d] <= accepted'
  BY <1>2, <1>3
<1>11. QueueInv'
  BY <1>8, <1>9, <1>10 DEF QueueInv, Holds, Sorted, Precedes, Before
<1> QED
  BY <1>3, <1>5, <1>6, <1>11 DEF IInv, WaitingIsDrained, DrainerInv

LEMMA PushKeepsInv ==
    ASSUME IInv, NEW c \in Command, Push(c)
    PROVE  IInv'
<1>1. Holds(pending, fate) /\ Sorted(pending, arrival)
      /\ \A d \in Command : arrival[d] <= accepted
  BY QueueFacts DEF IInv
<1>2. Len(pending) < MaxBacklog
  BY LenProperties, QueueAssumption DEF IInv, TypeOK, Push, Full
<1> QED
  BY <1>1, <1>2, TakenKeepsQueue DEF IInv, TypeOK, Push, DrainerInv

LEMMA DisplacingKeepsInv ==
    ASSUME IInv, NEW c \in Command, PushDisplacing(c)
    PROVE  IInv'
<1>1. Holds(pending, fate) /\ Sorted(pending, arrival)
      /\ \A d \in Command : arrival[d] <= accepted
  BY QueueFacts DEF IInv
<1>2. PICK i \in 1..Len(pending) :
         /\ Place(RemoveAt(pending, i), c)
         /\ fate' = [fate EXCEPT ![c] = "waiting", ![pending[i]] = "discarded"]
  BY DEF PushDisplacing, OrdinaryAt
<1> DEFINE q == RemoveAt(pending, i)
           f == [fate EXCEPT ![pending[i]] = "discarded"]
<1>3. pending \in Seq(Command) /\ fate \in [Command -> Fate] /\ arrival \in [Command -> Nat]
      /\ Len(pending) <= MaxBacklog
  BY DEF IInv, TypeOK
<1>4. pending[i] \in Command /\ fate[pending[i]] = "waiting"
  BY InTheArray DEF IInv
<1>5. fate[c] = "new"
  BY DEF PushDisplacing
<1>6. pending[i] # c
  BY <1>4, <1>5
<1>7. f \in [Command -> Fate] /\ f[c] = "new" /\ f[pending[i]] = "discarded"
      /\ \A d \in Command \ {pending[i]} : f[d] = fate[d]
  BY <1>3, <1>4, <1>5, <1>6 DEF Fate
<1>8. fate' = [f EXCEPT ![c] = "waiting"]
  BY <1>2, <1>3, <1>4, <1>6
<1>9. q \in Seq(Command) /\ Len(q) = Len(pending) - 1
  BY <1>3, Removal
<1>10. Sorted(q, arrival)
  BY <1>1, <1>3, RemovedIsSorted
<1> HIDE DEF f
<1>11. Holds(q, f)
  BY <1>1, <1>3, <1>7, RemovedHolds
<1> HIDE DEF q
<1>12. Len(q) < MaxBacklog
  BY <1>3, <1>9, QueueAssumption
<1>13. Place(q, c)
  BY <1>2 DEF q
<1> QED
  BY <1>1, <1>7, <1>8, <1>9, <1>10, <1>11, <1>12, <1>13, TakenKeepsQueue
     DEF IInv, PushDisplacing, DrainerInv

LEMMA RefusedKeepsInv ==
    ASSUME IInv, NEW c \in Command, PushRefused(c)
    PROVE  IInv'
<1>1. fate \in [Command -> Fate] /\ fate[c] = "new"
  BY DEF IInv, TypeOK, PushRefused
<1>2. fate' \in [Command -> Fate]
      /\ \A d \in Command : fate'[d] = "waiting" <=> fate[d] = "waiting"
  BY <1>1 DEF PushRefused, Fate
<1>3. TypeOK'
  BY <1>2 DEF IInv, TypeOK, PushRefused
<1>4. QueueInv'
  BY <1>2 DEF IInv, QueueInv, Precedes, PushRefused
<1> QED
  BY <1>3, <1>4 DEF IInv, WaitingIsDrained, DrainerInv, PushRefused

\* Expire and Deliver take the head out of the array.
LEMMA DepartureKeepsQueue ==
    ASSUME IInv, pending # <<>>, pending' = Tail(pending), NEW end \in {"sent", "discarded"},
           fate' = [fate EXCEPT ![Head(pending)] = end], UNCHANGED <<arrival, accepted>>
    PROVE  /\ pending' \in Seq(Command) /\ Len(pending') <= MaxBacklog
           /\ fate' \in [Command -> Fate] /\ QueueInv'
<1>1. pending \in Seq(Command) /\ fate \in [Command -> Fate] /\ arrival \in [Command -> Nat]
      /\ Len(pending) <= MaxBacklog
  BY DEF IInv, TypeOK
<1>2. 1 \in 1..Len(pending) /\ Head(pending) = pending[1] /\ pending' = RemoveAt(pending, 1)
  BY <1>1, Departure
<1>3. pending[1] \in Command
  BY <1>1, <1>2
<1>4. Holds(pending, fate) /\ Sorted(pending, arrival)
      /\ \A d \in Command : arrival[d] <= accepted
  BY QueueFacts DEF IInv
<1>5. pending' \in Seq(Command) /\ Len(pending') = Len(pending) - 1
  BY <1>1, <1>2, Removal
<1>6. /\ fate' \in [Command -> Fate] /\ fate'[pending[1]] # "waiting"
      /\ \A d \in Command \ {pending[1]} : fate'[d] = fate[d]
  BY <1>1, <1>2, <1>3 DEF Fate
<1>7. Sorted(pending', arrival)
  BY <1>1, <1>2, <1>4, RemovedIsSorted
<1>8. Holds(pending', fate')
  <2>1. \A d \in Command \ {pending[1]} : fate'[d] = "waiting" <=> fate[d] = "waiting"
    BY <1>6
  <2>2. Holds(RemoveAt(pending, 1), fate')
    BY <1>1, <1>2, <1>4, <1>6, <2>1, RemovedHolds
  <2> QED
    BY <1>2, <2>2
<1>9. QueueInv'
  BY <1>4, <1>7, <1>8 DEF QueueInv, Holds, Sorted, Precedes, Before
<1> QED
  BY <1>1, <1>5, <1>6, <1>9, LenProperties, QueueAssumption

LEMMA DrainKeepsInv ==
    ASSUME IInv, DrainStep
    PROVE  IInv'
<1>1. CASE Stop \/ Wake \/ Hold
  <2>1. TypeOK'
    <3>1. /\ UNCHANGED <<pending, session, age, gap, fate, arrival, accepted>>
          /\ drainer' \in {"off", "head", "asleep"} /\ sleep' \in {sleep, Spacing}
      BY <1>1 DEF Stop, Wake, Hold, Asleep
    <3> QED
      BY <3>1, QueueAssumption DEF IInv, TypeOK
  <2>2. QueueInv'
    BY <1>1 DEF IInv, QueueInv, Precedes, Stop, Wake, Hold
  <2>3. gap \in 0..Spacing /\ sleep \in 0..Spacing /\ Spacing \in Nat
    BY QueueAssumption DEF IInv, TypeOK
  <2>4. WaitingIsDrained' /\ DrainerInv'
    <3>1. CASE Stop
      BY <3>1 DEF Stop, WaitingIsDrained, DrainerInv
    <3>2. CASE Wake
      BY <2>3, <3>2 DEF IInv, Wake, WaitingIsDrained, DrainerInv
    <3>3. CASE Hold
      BY <2>3, <3>3 DEF IInv, Hold, Asleep, WaitingIsDrained, DrainerInv
    <3> QED
      BY <1>1, <3>1, <3>2, <3>3
  <2> QED
    BY <2>1, <2>2, <2>4 DEF IInv
<1>2. CASE Pace
  <2>1. gap \in 0..Spacing /\ Spacing \in Nat
    BY QueueAssumption DEF IInv, TypeOK
  <2>2. \/ gap < Spacing /\ drainer' = "asleep" /\ sleep' = Spacing - gap
        \/ gap = Spacing /\ drainer' = "head" /\ sleep' = sleep
    BY <1>2, <2>1 DEF Pace, Asleep
  <2>3. /\ pending # <<>> /\ UNCHANGED <<pending, session, age, gap, fate, arrival, accepted>>
    BY <1>2 DEF Pace
  <2>4. TypeOK'
    BY <2>1, <2>2, <2>3 DEF IInv, TypeOK
  <2>5. QueueInv'
    BY <2>3 DEF IInv, QueueInv, Precedes
  <2> QED
    BY <2>1, <2>2, <2>3, <2>4, <2>5 DEF IInv, WaitingIsDrained, DrainerInv
<1>3. CASE Expire \/ Deliver
  <2>1. pending # <<>> /\ pending' = Tail(pending) /\ UNCHANGED <<arrival, accepted>>
        /\ drainer' = "loop" /\ gap' \in {0, gap} /\ UNCHANGED <<sleep, session, age>>
    BY <1>3 DEF IInv, DrainerInv, Expire, Deliver, AfterDiscard
  <2>2. \E end \in {"sent", "discarded"} : fate' = [fate EXCEPT ![Head(pending)] = end]
    BY <1>3 DEF Expire, Deliver
  <2>3. /\ pending' \in Seq(Command) /\ Len(pending') <= MaxBacklog
        /\ fate' \in [Command -> Fate] /\ QueueInv'
    BY <2>1, <2>2, DepartureKeepsQueue
  <2>4. TypeOK'
    BY <2>1, <2>3, QueueAssumption DEF IInv, TypeOK
  <2> QED
    BY <2>1, <2>3, <2>4 DEF IInv, WaitingIsDrained, DrainerInv
<1> QED
  BY <1>1, <1>2, <1>3 DEF DrainStep

LEMMA TimeKeepsInv ==
    ASSUME IInv, Tick
    PROVE  IInv'
<1>1. /\ gap \in 0..Spacing /\ sleep \in 0..Spacing /\ Spacing \in Nat
      /\ age \in [Command -> Nat] /\ MaxAge \in [Command -> Nat]
      /\ \A c \in Command : age[c] <= MaxAge[c]
  BY QueueAssumption DEF IInv, TypeOK
<1>2. /\ gap' = (IF gap < Spacing THEN gap + 1 ELSE gap)
      /\ sleep' = (IF sleep > 0 THEN sleep - 1 ELSE sleep)
      /\ UNCHANGED <<pending, drainer, session, fate, arrival, accepted>>
  BY DEF Tick
<1>3. age' \in [Command -> Nat] /\ \A c \in Command : age'[c] <= MaxAge[c]
  BY <1>1 DEF Tick
<1>4. gap' \in 0..Spacing /\ sleep' \in 0..Spacing
      /\ (gap = Spacing => gap' = Spacing)
      /\ (gap + sleep >= Spacing => gap' + sleep' >= Spacing)
  BY <1>1, <1>2
<1>5. TypeOK'
  BY <1>2, <1>3, <1>4 DEF IInv, TypeOK
<1>6. QueueInv'
  BY <1>2 DEF IInv, QueueInv, Precedes
<1> QED
  BY <1>2, <1>4, <1>5, <1>6 DEF IInv, WaitingIsDrained, DrainerInv

\* The invariant holds in every reachable state: the array is what the promise
\* says of the waiting commands, and somebody is there to drain it.
THEOREM Invariance == Spec => []IInv
<1>1. Init => IInv
  <2> SUFFICES ASSUME Init PROVE IInv
    OBVIOUS
  <2>1. TypeOK
    BY QueueAssumption DEF Init, TypeOK, Fate
  <2>2. QueueInv
    BY DEF Init, QueueInv
  <2> QED
    BY <2>1, <2>2 DEF Init, IInv, WaitingIsDrained, DrainerInv
<1>2. IInv /\ [Next]_vars => IInv'
  <2> SUFFICES ASSUME IInv, [Next]_vars PROVE IInv'
    OBVIOUS
  <2>1. ASSUME NEW c \in Command, Push(c) \/ PushDisplacing(c) \/ PushRefused(c) PROVE IInv'
    BY <2>1, PushKeepsInv, DisplacingKeepsInv, RefusedKeepsInv
  <2>2. CASE SessionChanges
    <3>1. /\ session' \in BOOLEAN
          /\ UNCHANGED <<pending, drainer, sleep, age, gap, fate, arrival, accepted>>
      BY <2>2 DEF SessionChanges
    <3> QED
      BY <3>1 DEF IInv, TypeOK, QueueInv, Precedes, WaitingIsDrained, DrainerInv
  <2>3. CASE UNCHANGED vars
    BY <2>3 DEF vars, IInv, TypeOK, QueueInv, Precedes, WaitingIsDrained, DrainerInv
  <2> QED
    BY <2>1, <2>2, <2>3, DrainKeepsInv, TimeKeepsInv DEF Next
<1> QED
  BY <1>1, <1>2, PTL DEF Spec

\* Every variable keeps its type and the backlog its bound.
THEOREM TypeCorrectness == Spec => []TypeOK
<1>1. IInv => TypeOK
  BY DEF IInv
<1> QED
  BY <1>1, Invariance, PTL

\* Whatever push does while the drainer sleeps, a waiting command has one.
THEOREM NoLostWakeUp == Spec => []WaitingIsDrained
<1>1. IInv => WaitingIsDrained
  BY DEF IInv
<1> QED
  BY <1>1, Invariance, PTL

----------------------------------------------------------------------------
(* The queue implements the promise.                                       *)

LEMMA WaitingIsCounted ==
    ASSUME IInv
    PROVE  Cardinality(Promise!Waiting) = Len(pending)
<1>1. pending \in Seq(Command) /\ arrival \in [Command -> Nat]
  BY DEF IInv, TypeOK
<1>2. Holds(pending, fate) /\ Sorted(pending, arrival)
  BY QueueFacts DEF IInv
<1> QED
  BY <1>1, <1>2, LengthCounts DEF Promise!Waiting

LEMMA FullIsFull ==
    ASSUME IInv
    PROVE  Full <=> Promise!Full
  BY WaitingIsCounted DEF Full, Promise!Full, Promise!Cardinality, Cardinality

LEMMA WaitingIsInTheArray ==
    ASSUME IInv
    PROVE  /\ \A c \in Promise!Waiting : \E i \in 1..Len(pending) : pending[i] = c
           /\ \A i \in 1..Len(pending) : pending[i] \in Promise!Waiting
<1>1. \A i \in 1..Len(pending) : pending[i] \in Command /\ fate[pending[i]] = "waiting"
  BY InTheArray DEF IInv
<1> QED
  BY <1>1 DEF IInv, QueueInv, Promise!Waiting

LEMMA PushAccepts ==
    ASSUME IInv, NEW c \in Command, Push(c)
    PROVE  Promise!Accept(c)
  BY FullIsFull DEF Push, Taken, Promise!Accept, Promise!Arrives

LEMMA RefusedIsRefused ==
    ASSUME IInv, NEW c \in Command, PushRefused(c)
    PROVE  Promise!Refuse(c)
<1>1. c \in Urgent => Promise!Waiting \subseteq Urgent
  BY WaitingIsInTheArray DEF PushRefused, OrdinaryAt
<1> QED
  BY <1>1, FullIsFull DEF PushRefused, Promise!Refuse

\* The last ordinary command of a sorted array is the newest.
LEMMA DisplacingAcceptsInstead ==
    ASSUME IInv, NEW c \in Command, PushDisplacing(c)
    PROVE  \E victim \in Command : Promise!AcceptInstead(c, victim)
<1>1. PICK i \in OrdinaryAt :
         /\ \A j \in OrdinaryAt : j <= i
         /\ fate' = [fate EXCEPT ![c] = "waiting", ![pending[i]] = "discarded"]
  BY DEF PushDisplacing
<1>2. i \in 1..Len(pending) /\ pending[i] \notin Urgent
  BY DEF OrdinaryAt
<1>3. pending[i] \in Promise!Waiting \ Urgent /\ pending[i] \in Command
  BY <1>2, WaitingIsInTheArray DEF Promise!Waiting
<1>4. ASSUME NEW d \in Promise!Waiting \ (Urgent \cup {pending[i]})
      PROVE  arrival[d] < arrival[pending[i]]
  <2>1. PICK j \in 1..Len(pending) : pending[j] = d
    BY WaitingIsInTheArray
  <2>2. j \in OrdinaryAt /\ j # i
    BY <1>4, <2>1 DEF OrdinaryAt
  <2>3. j < i
    BY <1>1, <1>2, <2>2
  <2> QED
    BY <1>2, <1>4, <2>1, <2>3 DEF IInv, QueueInv, Precedes
<1>5. fate[c] = "new" /\ fate[pending[i]] = "waiting"
  BY <1>3 DEF PushDisplacing, Promise!Waiting
<1>6. Promise!AcceptInstead(c, pending[i])
  BY <1>1, <1>3, <1>4, <1>5, FullIsFull
     DEF PushDisplacing, Taken, Promise!AcceptInstead, Promise!Arrives
<1> QED
  BY <1>3, <1>6

\* The head of a sorted array is the first of the waiting commands.
LEMMA HeadIsFirst ==
    ASSUME IInv, pending # <<>>
    PROVE  Head(pending) \in Command /\ Promise!IsFirst(Head(pending))
<1>1. pending \in Seq(Command)
  BY DEF IInv, TypeOK
<1>2. 1 \in 1..Len(pending) /\ Head(pending) = pending[1]
  BY <1>1, Departure
<1>3. pending[1] \in Promise!Waiting /\ pending[1] \in Command
  BY <1>2, WaitingIsInTheArray DEF Promise!Waiting
<1>4. ASSUME NEW d \in Promise!Waiting \ {pending[1]}
      PROVE  Promise!Precedes(pending[1], d)
  <2>1. PICK j \in 1..Len(pending) : pending[j] = d
    BY WaitingIsInTheArray
  <2>2. 1 < j
    BY <1>4, <2>1
  <2> QED
    BY <1>2, <2>1, <2>2 DEF IInv, QueueInv, Precedes, Promise!Precedes
<1> QED
  BY <1>2, <1>3, <1>4 DEF Promise!IsFirst

LEMMA AgeHasLimit ==
    ASSUME IInv, NEW c \in Command
    PROVE  age[c] \in Nat /\ MaxAge[c] \in Nat /\ age[c] <= MaxAge[c]
  BY QueueAssumption DEF IInv, TypeOK

LEMMA DeliverSends ==
    ASSUME IInv, Deliver
    PROVE  \E c \in Command : Promise!Send(c)
<1>1. pending # <<>> /\ gap = Spacing
  BY DEF IInv, DrainerInv, Deliver
<1>2. Head(pending) \in Command /\ Promise!IsFirst(Head(pending))
  BY <1>1, HeadIsFirst
<1>3. age[Head(pending)] < MaxAge[Head(pending)]
  BY <1>2, AgeHasLimit DEF Deliver, Overdue
<1>4. Promise!Send(Head(pending))
  BY <1>1, <1>2, <1>3 DEF Deliver, Promise!Send
<1> QED
  BY <1>2, <1>4

LEMMA ExpireAbandons ==
    ASSUME IInv, Expire
    PROVE  \E c \in Command : Promise!Abandon(c)
<1>1. pending # <<>>
  BY DEF IInv, DrainerInv, Expire
<1>2. Head(pending) \in Command /\ Head(pending) \in Promise!Waiting
  BY <1>1, HeadIsFirst DEF Promise!IsFirst
<1>3. age[Head(pending)] = MaxAge[Head(pending)]
  BY <1>2, AgeHasLimit DEF Expire, Overdue
<1>4. Promise!Abandon(Head(pending))
  BY <1>2, <1>3 DEF Expire, Promise!Abandon
<1> QED
  BY <1>2, <1>4

LEMMA StepKeepsPromise ==
    ASSUME IInv, [Next]_vars
    PROVE  [Promise!Next]_Promise!vars
<1>1. ASSUME NEW c \in Command, Push(c) PROVE Promise!Next
  BY <1>1, PushAccepts DEF Promise!Next
<1>2. ASSUME NEW c \in Command, PushDisplacing(c) PROVE Promise!Next
  BY <1>2, DisplacingAcceptsInstead DEF Promise!Next
<1>3. ASSUME NEW c \in Command, PushRefused(c) PROVE Promise!Next
  BY <1>3, RefusedIsRefused DEF Promise!Next
<1>4. CASE Deliver
  BY <1>4, DeliverSends DEF Promise!Next
<1>5. CASE Expire
  BY <1>5, ExpireAbandons DEF Promise!Next
<1>6. CASE Stop \/ Pace \/ Wake \/ Hold \/ SessionChanges \/ UNCHANGED vars
  BY <1>6 DEF Stop, Pace, Wake, Hold, SessionChanges, vars, Promise!vars
<1>7. CASE Tick
  BY <1>7 DEF Tick, Promise!Next, Promise!Tick, Promise!Waiting
<1> QED
  BY <1>1, <1>2, <1>3, <1>4, <1>5, <1>6, <1>7 DEF Next, DrainStep

\* Refinement: whatever the interleaving of pushes, timers and reconnects, the
\* queue does only what PacedDelivery allows: one hook per accepted command,
\* spaced sends in the promised order, nothing late.
THEOREM QueueKeepsPromise == Spec => PromiseKept
<1>1. Init => Promise!Init
  BY DEF Init, Promise!Init
<1> QED
  BY <1>1, Invariance, StepKeepsPromise, PTL DEF Spec, PromiseKept, Promise!Spec
=============================================================================
