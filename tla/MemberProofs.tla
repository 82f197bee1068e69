---------------------------- MODULE MemberProofs ----------------------------
(***************************************************************************)
(* Proofs about what belongs to a member: IngestSession, for any lengths   *)
(* of queue and batch and any number of connections, TicketNumbers, for    *)
(* any openers and number of tries, Tickets, for any staff and limits, and *)
(* XpLedger, for any runs and calls, any length of a level and any         *)
(* activity.                                                               *)
(***************************************************************************)
EXTENDS IngestSession, TicketNumbers, Tickets, XpLedger, FiniteSetTheorems, SequenceTheorems,
        TLAPS

----------------------------------------------------------------------------
(* The stream of records: the order of what is queued, what waits in the   *)
(* inboxes (box) and what was received (rg), as facts about sequences.     *)

Number == 1..MaxOffers

Boxes == [Line -> Seq(Frame)]

Rings == Seq(Line \X Number)

\* Whatever was sent is older than whatever is queued, and the queue rises.
QueueIsNewest(rg, box, q, o) ==
    /\ \A a, b \in 1..Len(q) : a < b => q[a] < q[b]
    /\ \A a \in 1..Len(q) :
          /\ q[a] <= o
          /\ \A i \in 1..Len(rg) : rg[i][2] < q[a]
          /\ \A k \in Line : \A i \in 1..Len(box[k]) : \A b \in 1..Len(box[k][i]) :
                box[k][i][b] < q[a]

\* Whatever was sent was captured.
SentWasCaptured(rg, box, o) ==
    /\ \A i \in 1..Len(rg) : rg[i][2] <= o
    /\ \A k \in Line : \A i \in 1..Len(box[k]) : \A b \in 1..Len(box[k][i]) : box[k][i][b] <= o

\* No record waits twice, and those of one connection wait in order.
WaitingInOrder(box) ==
    \A k, l \in Line : \A i \in 1..Len(box[k]), j \in 1..Len(box[l]) :
        \A a \in 1..Len(box[k][i]), b \in 1..Len(box[l][j]) :
            /\ k # l => box[k][i][a] # box[l][j][b]
            /\ k = l /\ (i < j \/ (i = j /\ a < b)) => box[k][i][a] < box[l][j][b]

\* What was received waits no more, and came before what still waits.
ReceivedFirst(rg, box) ==
    \A i \in 1..Len(rg), k \in Line : \A j \in 1..Len(box[k]) : \A a \in 1..Len(box[k][j]) :
        /\ rg[i][2] # box[k][j][a]
        /\ rg[i][1] = k => rg[i][2] < box[k][j][a]

ReceivedOnce(rg) ==
    \A i, j \in 1..Len(rg) :
        i < j => /\ rg[i][2] # rg[j][2]
                 /\ rg[i][1] = rg[j][1] => rg[i][2] < rg[j][2]

Orderly(rg, box, q, o) ==
    /\ QueueIsNewest(rg, box, q, o) /\ SentWasCaptured(rg, box, o)
    /\ WaitingInOrder(box) /\ ReceivedFirst(rg, box) /\ ReceivedOnce(rg)

\* What the numbers of a frame, a box and a ring are.
LEMMA FrameFacts ==
    ASSUME NEW box \in Boxes
    PROVE  /\ \A k \in Line : box[k] \in Seq(Frame) /\ Len(box[k]) \in Nat
           /\ \A k \in Line : \A i \in 1..Len(box[k]) :
                 /\ box[k][i] \in Frame /\ Len(box[k][i]) \in Nat
                 /\ \A a \in 1..Len(box[k][i]) : box[k][i][a] \in Int
<1>1. ASSUME NEW f \in Frame PROVE Len(f) \in Nat /\ \A a \in 1..Len(f) : f[a] \in Number
  <2>1. f \in Seq(Number)
    BY DEF Frame, Number
  <2> QED
    BY <2>1
<1>2. \A k \in Line : box[k] \in Seq(Frame) /\ Len(box[k]) \in Nat
  BY DEF Boxes
<1>3. \A k \in Line : \A i \in 1..Len(box[k]) : box[k][i] \in Frame
  BY <1>2
<1>4. Number \subseteq Int
  BY DEF Number
<1> QED
  BY <1>1, <1>2, <1>3, <1>4

LEMMA RingFacts ==
    ASSUME NEW rg \in Rings
    PROVE  Len(rg) \in Nat /\ \A i \in 1..Len(rg) : rg[i][1] \in Line /\ rg[i][2] \in Int
<1>1. \A i \in 1..Len(rg) : rg[i] \in Line \X Number
  BY DEF Rings
<1> QED
  BY <1>1, IngestAssumption DEF Rings, Number

LEMMA QueueFacts ==
    ASSUME NEW q \in Frame
    PROVE  Len(q) \in Nat /\ \A a \in 1..Len(q) : q[a] \in Int
  BY IngestAssumption DEF Frame

LEMMA ShiftKeepsOrder ==
    ASSUME NEW i \in Int, NEW j \in Int, NEW g \in Int,
           NEW m, m = i + g, NEW n, n = j + g
    PROVE  (i < j => m < n) /\ (i = j => m = n)
  OBVIOUS

\* Frames that leave from the front of the inboxes, or all of them, leave the
\* rest in order.
LEMMA OrderlyShrinks ==
    ASSUME NEW rg \in Rings, NEW box \in Boxes, NEW q \in Frame, NEW o \in Nat,
           Orderly(rg, box, q, o),
           NEW box2 \in Boxes, NEW gone \in [Line -> Nat],
           \A k \in Line : /\ Len(box2[k]) + gone[k] <= Len(box[k])
                           /\ \A i \in 1..Len(box2[k]) : box2[k][i] = box[k][i + gone[k]]
    PROVE  Orderly(rg, box2, q, o)
<1>1. \A k \in Line : \A i \in 1..Len(box2[k]) :
         i + gone[k] \in 1..Len(box[k]) /\ box2[k][i] = box[k][i + gone[k]]
  BY FrameFacts
<1>2. QueueIsNewest(rg, box2, q, o)
  <2>1. ASSUME NEW a \in 1..Len(q), NEW k \in Line, NEW i \in 1..Len(box2[k]),
               NEW b \in 1..Len(box2[k][i])
        PROVE  box2[k][i][b] < q[a]
    <3>1. PICK m \in 1..Len(box[k]) : box2[k][i] = box[k][m]
      BY <1>1
    <3> QED
      BY <3>1 DEF Orderly, QueueIsNewest
  <2> QED
    BY <2>1 DEF Orderly, QueueIsNewest
<1>3. SentWasCaptured(rg, box2, o)
  <2>1. ASSUME NEW k \in Line, NEW i \in 1..Len(box2[k]), NEW b \in 1..Len(box2[k][i])
        PROVE  box2[k][i][b] <= o
    <3>1. PICK m \in 1..Len(box[k]) : box2[k][i] = box[k][m]
      BY <1>1
    <3> QED
      BY <3>1 DEF Orderly, SentWasCaptured
  <2> QED
    BY <2>1 DEF Orderly, SentWasCaptured
<1>4. WaitingInOrder(box2)
  <2> SUFFICES ASSUME NEW k \in Line, NEW l \in Line,
                      NEW i \in 1..Len(box2[k]), NEW j \in 1..Len(box2[l]),
                      NEW a \in 1..Len(box2[k][i]), NEW b \in 1..Len(box2[l][j])
               PROVE  /\ k # l => box2[k][i][a] # box2[l][j][b]
                      /\ k = l /\ (i < j \/ (i = j /\ a < b)) => box2[k][i][a] < box2[l][j][b]
    BY DEF WaitingInOrder
  <2>1. PICK m \in 1..Len(box[k]) : m = i + gone[k] /\ box2[k][i] = box[k][m]
    BY <1>1
  <2>2. PICK n \in 1..Len(box[l]) : n = j + gone[l] /\ box2[l][j] = box[l][n]
    BY <1>1
  <2>3. i \in Int /\ j \in Int /\ gone[k] \in Int /\ gone[l] \in Int
    BY FrameFacts
  <2>4. a \in 1..Len(box[k][m]) /\ b \in 1..Len(box[l][n])
    BY <2>1, <2>2
  <2>5. /\ k # l => box[k][m][a] # box[l][n][b]
        /\ k = l /\ (m < n \/ (m = n /\ a < b)) => box[k][m][a] < box[l][n][b]
    <3>1. WaitingInOrder(box)
      BY DEF Orderly
    <3> QED
      BY <2>4, <3>1 DEF WaitingInOrder
  <2>6. k = l => (i < j => m < n) /\ (i = j => m = n)
    <3>1. CASE k = l
      <4>1. m = i + gone[k] /\ n = j + gone[k] /\ i \in Int /\ j \in Int /\ gone[k] \in Int
        BY <2>1, <2>2, <2>3, <3>1
      <4> QED
        BY <4>1, ShiftKeepsOrder
    <3> QED
      BY <3>1
  <2> QED
    BY <2>1, <2>2, <2>5, <2>6
<1>5. ReceivedFirst(rg, box2)
  <2> SUFFICES ASSUME NEW i \in 1..Len(rg), NEW k \in Line, NEW j \in 1..Len(box2[k]),
                      NEW a \in 1..Len(box2[k][j])
               PROVE  /\ rg[i][2] # box2[k][j][a]
                      /\ rg[i][1] = k => rg[i][2] < box2[k][j][a]
    BY DEF ReceivedFirst
  <2>1. PICK m \in 1..Len(box[k]) : box2[k][j] = box[k][m]
    BY <1>1
  <2>2. ReceivedFirst(rg, box)
    BY DEF Orderly
  <2>3. /\ rg[i][2] # box[k][m][a]
        /\ rg[i][1] = k => rg[i][2] < box[k][m][a]
    BY <2>1, <2>2 DEF ReceivedFirst
  <2> QED
    BY <2>1, <2>3
<1> QED
  BY <1>2, <1>3, <1>4, <1>5 DEF Orderly

\* So does the queue when its oldest records go.
LEMMA OrderlyDrops ==
    ASSUME NEW rg \in Rings, NEW box \in Boxes, NEW q \in Frame, NEW o \in Nat,
           Orderly(rg, box, q, o),
           NEW q2 \in Frame, NEW n \in Nat, Len(q2) + n <= Len(q),
           \A a \in 1..Len(q2) : q2[a] = q[a + n]
    PROVE  Orderly(rg, box, q2, o)
<1>1. \A a \in 1..Len(q2) : a + n \in 1..Len(q) /\ q2[a] = q[a + n]
  BY QueueFacts
<1>2. QueueIsNewest(rg, box, q2, o)
  <2>1. ASSUME NEW a \in 1..Len(q2), NEW b \in 1..Len(q2), a < b PROVE q2[a] < q2[b]
    <3>1. a + n \in 1..Len(q) /\ b + n \in 1..Len(q) /\ a + n < b + n
      BY <1>1, <2>1, QueueFacts
    <3>2. q[a + n] < q[b + n]
      BY <3>1 DEF Orderly, QueueIsNewest
    <3> QED
      BY <1>1, <3>2
  <2>2. ASSUME NEW a \in 1..Len(q2)
        PROVE  /\ q2[a] <= o
               /\ \A i \in 1..Len(rg) : rg[i][2] < q2[a]
               /\ \A k \in Line : \A i \in 1..Len(box[k]) : \A b \in 1..Len(box[k][i]) :
                     box[k][i][b] < q2[a]
    <3>1. PICK m \in 1..Len(q) : q2[a] = q[m]
      BY <1>1
    <3> QED
      BY <3>1 DEF Orderly, QueueIsNewest
  <2> QED
    BY <2>1, <2>2 DEF QueueIsNewest
<1> QED
  BY <1>2 DEF Orderly

\* The next record is newer than all.
LEMMA OrderlyOffer ==
    ASSUME NEW rg \in Rings, NEW box \in Boxes, NEW q \in Frame, NEW o \in Nat,
           Orderly(rg, box, q, o), o + 1 \in Number
    PROVE  Append(q, o + 1) \in Frame /\ Orderly(rg, box, Append(q, o + 1), o + 1)
<1> DEFINE r == Append(q, o + 1)
<1>1. /\ r \in Frame /\ Len(r) = Len(q) + 1 /\ r[Len(q) + 1] = o + 1
      /\ \A a \in 1..Len(q) : r[a] = q[a]
  BY AppendProperties DEF Frame, Number
<1>2. Len(q) \in Nat /\ \A a \in 1..Len(q) : q[a] \in Int /\ q[a] <= o
  BY QueueFacts DEF Orderly, QueueIsNewest
<1>3. \A a \in 1..Len(r) : \/ a \in 1..Len(q) /\ r[a] = q[a]
                           \/ a = Len(q) + 1 /\ r[a] = o + 1
  BY <1>1, <1>2
<1> HIDE DEF r
<1>4. SentWasCaptured(rg, box, o + 1)
  <2>1. ASSUME NEW k \in Line, NEW i \in 1..Len(box[k]), NEW b \in 1..Len(box[k][i])
        PROVE  box[k][i][b] <= o + 1
    <3>1. box[k][i][b] \in Int /\ box[k][i][b] <= o
      BY FrameFacts DEF Orderly, SentWasCaptured
    <3> QED
      BY <3>1
  <2>3. \A i \in 1..Len(rg) : rg[i][2] <= o + 1
    BY RingFacts DEF Orderly, SentWasCaptured
  <2> QED
    BY <2>1, <2>3 DEF SentWasCaptured
<1>5. QueueIsNewest(rg, box, r, o + 1)
  <2>1. \A a, b \in 1..Len(r) : a < b => r[a] < r[b]
    BY <1>1, <1>2, <1>3 DEF Orderly, QueueIsNewest
  <2>2. ASSUME NEW a \in 1..Len(r), NEW i \in 1..Len(rg) PROVE rg[i][2] < r[a]
    <3>1. rg[i][2] \in Int /\ rg[i][2] <= o
      BY RingFacts DEF Orderly, SentWasCaptured
    <3>2. a \in 1..Len(q) => rg[i][2] < q[a]
      BY DEF Orderly, QueueIsNewest
    <3> QED
      BY <1>3, <3>1, <3>2
  <2>3. ASSUME NEW a \in 1..Len(r), NEW k \in Line, NEW i \in 1..Len(box[k]),
               NEW b \in 1..Len(box[k][i])
        PROVE  box[k][i][b] < r[a]
    <3>1. box[k][i][b] \in Int /\ box[k][i][b] <= o
      BY FrameFacts DEF Orderly, SentWasCaptured
    <3>2. a \in 1..Len(q) => box[k][i][b] < q[a]
      BY DEF Orderly, QueueIsNewest
    <3> QED
      BY <1>3, <3>1, <3>2
  <2>4. \A a \in 1..Len(r) : r[a] <= o + 1
    BY <1>2, <1>3
  <2> QED
    BY <2>1, <2>2, <2>3, <2>4 DEF QueueIsNewest
<1> QED
  BY <1>1, <1>4, <1>5 DEF Orderly, r

\* The oldest records of the queue go to the end of an inbox.
LEMMA OrderlySends ==
    ASSUME NEW rg \in Rings, NEW box \in Boxes, NEW q \in Frame, NEW o \in Nat,
           Orderly(rg, box, q, o),
           NEW k \in Line, NEW f \in Frame, Len(f) <= Len(q),
           \A a \in 1..Len(f) : f[a] = q[a],
           NEW q2 \in Frame, Len(q2) + Len(f) <= Len(q),
           \A a \in 1..Len(q2) : q2[a] = q[a + Len(f)]
    PROVE  /\ [box EXCEPT ![k] = Append(@, f)] \in Boxes
           /\ Orderly(rg, [box EXCEPT ![k] = Append(@, f)], q2, o)
<1> DEFINE box2 == [box EXCEPT ![k] = Append(@, f)]
<1>1. /\ Append(box[k], f) \in Seq(Frame) /\ Len(Append(box[k], f)) = Len(box[k]) + 1
      /\ \A i \in 1..Len(box[k]) : Append(box[k], f)[i] = box[k][i]
      /\ Append(box[k], f)[Len(box[k]) + 1] = f
  BY FrameFacts, AppendProperties
<1>2. box2 \in Boxes
  BY <1>1 DEF Boxes
<1>3. /\ box2[k] = Append(box[k], f)
      /\ \A l \in Line : l # k => box2[l] = box[l]
  BY DEF Boxes
<1> HIDE DEF box2
<1>4. ASSUME NEW l \in Line, NEW i \in 1..Len(box2[l])
      PROVE  \/ i \in 1..Len(box[l]) /\ box2[l][i] = box[l][i]
             \/ l = k /\ i = Len(box[k]) + 1 /\ box2[l][i] = f
  <2>1. CASE l = k
    <3>1. Len(box[k]) \in Nat /\ i \in 1..(Len(box[k]) + 1) /\ box2[l] = Append(box[k], f)
      BY <1>1, <1>3, <2>1, FrameFacts
    <3>2. i \in 1..Len(box[k]) \/ i = Len(box[k]) + 1
      BY <3>1
    <3> QED
      BY <1>1, <2>1, <3>1, <3>2
  <2>2. CASE l # k
    BY <1>3, <2>2
  <2> QED
    BY <2>1, <2>2
<1>5. /\ Len(f) \in Nat
      /\ \A a \in 1..Len(f) : a \in 1..Len(q) /\ f[a] = q[a] /\ f[a] \in Int
  BY QueueFacts
<1>6. QueueIsNewest(rg, box, q, o) /\ SentWasCaptured(rg, box, o)
      /\ WaitingInOrder(box) /\ ReceivedFirst(rg, box) /\ ReceivedOnce(rg)
  BY DEF Orderly
<1>7. QueueIsNewest(rg, box, q2, o)
  BY <1>5, OrderlyDrops DEF Orderly
<1>8. QueueIsNewest(rg, box2, q2, o)
  <2>1. ASSUME NEW a \in 1..Len(q2), NEW l \in Line, NEW i \in 1..Len(box2[l]),
               NEW b \in 1..Len(box2[l][i])
        PROVE  box2[l][i][b] < q2[a]
    <3>1. CASE i \in 1..Len(box[l]) /\ box2[l][i] = box[l][i]
      BY <1>7, <3>1 DEF QueueIsNewest
    <3>2. CASE box2[l][i] = f
      <4>1. b \in 1..Len(q) /\ a + Len(f) \in 1..Len(q) /\ b < a + Len(f)
        BY <1>5, <3>2, QueueFacts
      <4>2. q[b] < q[a + Len(f)]
        BY <1>6, <4>1 DEF QueueIsNewest
      <4> QED
        BY <1>5, <3>2, <4>2
    <3> QED
      BY <1>4, <3>1, <3>2
  <2> QED
    BY <1>7, <2>1 DEF QueueIsNewest
<1>9. SentWasCaptured(rg, box2, o)
  <2>1. ASSUME NEW l \in Line, NEW i \in 1..Len(box2[l]), NEW b \in 1..Len(box2[l][i])
        PROVE  box2[l][i][b] <= o
    <3>1. CASE i \in 1..Len(box[l]) /\ box2[l][i] = box[l][i]
      BY <1>6, <3>1 DEF SentWasCaptured
    <3>2. CASE box2[l][i] = f
      BY <1>5, <1>6, <3>2 DEF QueueIsNewest
    <3> QED
      BY <1>4, <3>1, <3>2
  <2> QED
    BY <1>6, <2>1 DEF SentWasCaptured
<1>10. WaitingInOrder(box2)
  <2> SUFFICES ASSUME NEW l \in Line, NEW m \in Line,
                      NEW i \in 1..Len(box2[l]), NEW j \in 1..Len(box2[m]),
                      NEW a \in 1..Len(box2[l][i]), NEW b \in 1..Len(box2[m][j])
               PROVE  /\ l # m => box2[l][i][a] # box2[m][j][b]
                      /\ l = m /\ (i < j \/ (i = j /\ a < b)) => box2[l][i][a] < box2[m][j][b]
    BY DEF WaitingInOrder
  <2> DEFINE Old(n, h) == h \in 1..Len(box[n]) /\ box2[n][h] = box[n][h]
             Fresh(n, h) == n = k /\ h = Len(box[k]) + 1 /\ box2[n][h] = f
  <2>1. (Old(l, i) \/ Fresh(l, i)) /\ (Old(m, j) \/ Fresh(m, j))
    BY <1>4
  <2>2. CASE Old(l, i) /\ Old(m, j)
    <3>1. a \in 1..Len(box[l][i]) /\ b \in 1..Len(box[m][j])
      BY <2>2
    <3>2. /\ l # m => box[l][i][a] # box[m][j][b]
          /\ l = m /\ (i < j \/ (i = j /\ a < b)) => box[l][i][a] < box[m][j][b]
      BY <1>6, <2>2, <3>1 DEF WaitingInOrder
    <3> QED
      BY <2>2, <3>2
  <2>3. CASE Old(l, i) /\ Fresh(m, j)
    <3>1. box[l][i][a] < q[b] /\ box[l][i][a] \in Int /\ q[b] = box2[m][j][b] /\ q[b] \in Int
      BY <1>5, <1>6, <2>3, FrameFacts DEF QueueIsNewest
    <3> QED
      BY <2>3, <3>1
  <2>4. CASE Fresh(l, i) /\ Old(m, j)
    <3>1. box[m][j][b] < q[a] /\ box[m][j][b] \in Int /\ q[a] = box2[l][i][a] /\ q[a] \in Int
      <4>1. box2[l][i] = f /\ a \in 1..Len(f)
        BY <2>4
      <4>2. a \in 1..Len(q) /\ f[a] = q[a] /\ q[a] \in Int
        BY <1>5, <4>1
      <4>3. j \in 1..Len(box[m]) /\ b \in 1..Len(box[m][j])
        BY <2>4
      <4>4. box[m][j][b] < q[a]
        BY <1>6, <4>2, <4>3 DEF QueueIsNewest
      <4>5. box[m][j][b] \in Int
        BY <4>3, FrameFacts
      <4> QED
        BY <4>1, <4>2, <4>4, <4>5
    <3>2. l = m => ~(i < j) /\ i # j
      <4>1. Len(box[k]) \in Nat
        BY FrameFacts
      <4>2. l = k /\ i = Len(box[k]) + 1 /\ j \in 1..Len(box[m])
        BY <2>4
      <4> QED
        BY <4>1, <4>2
    <3> QED
      BY <2>4, <3>1, <3>2
  <2>5. CASE Fresh(l, i) /\ Fresh(m, j)
    <3>1. a < b => q[a] < q[b]
      BY <1>5, <1>6, <2>5 DEF QueueIsNewest
    <3> QED
      BY <1>5, <2>5, <3>1
  <2> QED
    BY <2>1, <2>2, <2>3, <2>4, <2>5
<1>11. ReceivedFirst(rg, box2)
  <2> SUFFICES ASSUME NEW i \in 1..Len(rg), NEW l \in Line, NEW j \in 1..Len(box2[l]),
                      NEW a \in 1..Len(box2[l][j])
               PROVE  /\ rg[i][2] # box2[l][j][a]
                      /\ rg[i][1] = l => rg[i][2] < box2[l][j][a]
    BY DEF ReceivedFirst
  <2>1. CASE j \in 1..Len(box[l]) /\ box2[l][j] = box[l][j]
    <3>1. /\ rg[i][2] # box[l][j][a]
          /\ rg[i][1] = l => rg[i][2] < box[l][j][a]
      BY <1>6, <2>1 DEF ReceivedFirst
    <3> QED
      BY <2>1, <3>1
  <2>2. CASE box2[l][j] = f
    <3>1. rg[i][2] < q[a] /\ rg[i][2] \in Int /\ q[a] \in Int /\ box2[l][j][a] = q[a]
      BY <1>5, <1>6, <2>2, RingFacts DEF QueueIsNewest
    <3> QED
      BY <3>1
  <2> QED
    BY <1>4, <2>1, <2>2
<1> QED
  BY <1>2, <1>6, <1>8, <1>9, <1>10, <1>11 DEF Orderly, box2


\* A record of the first frame of one inbox, and one of any other frame.
LEMMA HeadAndRest ==
    ASSUME NEW box, WaitingInOrder(box), NEW k \in Line, NEW l \in Line,
           1 \in 1..Len(box[k]), NEW m \in 1..Len(box[l]),
           NEW b \in 1..Len(box[k][1]), NEW a \in 1..Len(box[l][m])
    PROVE  /\ k # l => box[k][1][b] # box[l][m][a]
           /\ k = l /\ 1 < m => box[k][1][b] < box[l][m][a]
  BY DEF WaitingInOrder

LEMMA RestLength ==
    ASSUME NEW n \in Nat, NEW d \in Nat
    PROVE  /\ (IF n + 1 <= n + d THEN (n + d) - (n + 1) + 1 ELSE 0) = d
           /\ (n + d) - (n + 1) + 1 = d
           /\ \A a \in 1..d : (n + 1) + a - 1 = a + n
  OBVIOUS

\* What is left of a sequence when n have gone.
LEMMA RestOfSeq ==
    ASSUME NEW S, NEW q \in Seq(S), NEW n \in Nat, NEW d \in Nat, Len(q) = n + d
    PROVE  /\ SubSeq(q, n + 1, n + d) \in Seq(S) /\ Len(SubSeq(q, n + 1, n + d)) = d
           /\ \A a \in 1..d : SubSeq(q, n + 1, n + d)[a] = q[a + n]
<1>1. n + 1 \in Int /\ n + d \in Int /\ \A i \in (n + 1)..(n + d) : q[i] \in S
  OBVIOUS
<1>2. /\ SubSeq(q, n + 1, n + d) \in Seq(S)
      /\ Len(SubSeq(q, n + 1, n + d)) = IF n + 1 <= n + d THEN (n + d) - (n + 1) + 1 ELSE 0
      /\ \A i \in 1..((n + d) - (n + 1) + 1) :
            SubSeq(q, n + 1, n + d)[i] = q[(n + 1) + i - 1]
  BY <1>1, SubSeqProperties
<1>3. Len(SubSeq(q, n + 1, n + d)) = d
  BY <1>2, RestLength
<1>4. ASSUME NEW a \in 1..d PROVE SubSeq(q, n + 1, n + d)[a] = q[a + n]
  BY <1>2, RestLength
<1> QED
  BY <1>2, <1>3, <1>4

LEMMA SecondPart ==
    ASSUME NEW n \in Nat, NEW m \in Nat, NEW i \in 1..(n + m), ~(i <= n)
    PROVE  \E a \in 1..m : i = n + a /\ i - n = a
<1>1. i - n \in 1..m /\ i = n + (i - n)
  OBVIOUS
<1> QED
  BY <1>1

\* The inboxes without the head of one, and the ring with a frame of one.
BoxAfter(box, k) == [box EXCEPT ![k] = Tail(@)]

RingAfter(rg, k, f) == rg \o [i \in 1..Len(f) |-> <<k, f[i]>>]

\* What the inboxes keep when the head of one goes, and what the ring gains.
HeadLeaves(box, box2, k) ==
    \A l \in Line : \A j \in 1..Len(box2[l]) :
        \E m \in 1..Len(box[l]) : box2[l][j] = box[l][m] /\ (l = k => 1 < m)

Joins(rg, rg2, k, f) ==
    \A i \in 1..Len(rg2) :
        \/ i \in 1..Len(rg) /\ rg2[i] = rg[i]
        \/ \E a \in 1..Len(f) : i = Len(rg) + a /\ rg2[i][1] = k /\ rg2[i][2] = f[a]

\* What the head of an inbox leaves behind.
LEMMA BoxPops ==
    ASSUME NEW rg \in Rings, NEW box \in Boxes, NEW q \in Frame, NEW o \in Nat,
           Orderly(rg, box, q, o),
           NEW k \in Line, box[k] # <<>>
    PROVE  /\ BoxAfter(box, k) \in Boxes /\ Orderly(rg, BoxAfter(box, k), q, o)
           /\ 1 \in 1..Len(box[k]) /\ Head(box[k]) = box[k][1] /\ box[k][1] \in Frame
           /\ HeadLeaves(box, BoxAfter(box, k), k)
<1> DEFINE box2 == BoxAfter(box, k)
           gone == [l \in Line |-> IF l = k THEN 1 ELSE 0]
<1>1. box[k] \in Seq(Frame) /\ Len(box[k]) \in Nat \ {0} /\ Head(box[k]) = box[k][1]
  BY FrameFacts
<1>2. /\ Tail(box[k]) \in Seq(Frame) /\ Len(Tail(box[k])) = Len(box[k]) - 1
      /\ \A i \in 1..Len(Tail(box[k])) : Tail(box[k])[i] = box[k][i + 1]
  BY <1>1, HeadTailProperties
<1>3. box2 \in Boxes /\ box2[k] = Tail(box[k]) /\ \A l \in Line : l # k => box2[l] = box[l]
  BY <1>2 DEF Boxes, BoxAfter
<1> HIDE DEF box2
<1>4. gone \in [Line -> Nat] /\ \A l \in Line : gone[l] = IF l = k THEN 1 ELSE 0
  OBVIOUS
<1> HIDE DEF gone
<1>5. ASSUME NEW l \in Line
      PROVE  /\ Len(box2[l]) + gone[l] <= Len(box[l])
             /\ \A i \in 1..Len(box2[l]) : box2[l][i] = box[l][i + gone[l]]
  <2>1. CASE l = k
    <3>1. box2[l] = Tail(box[k]) /\ gone[l] = 1 /\ box[l] = box[k]
      BY <1>3, <1>4, <2>1
    <3>2. Len(box2[l]) + gone[l] <= Len(box[l])
      BY <1>1, <1>2, <3>1
    <3>3. \A i \in 1..Len(box2[l]) : box2[l][i] = box[l][i + gone[l]]
      BY <1>2, <3>1
    <3> QED
      BY <3>2, <3>3
  <2>2. CASE l # k
    BY <1>3, <1>4, <2>2, FrameFacts
  <2> QED
    BY <2>1, <2>2
<1>6. \A l \in Line : /\ Len(box2[l]) + gone[l] <= Len(box[l])
                      /\ \A i \in 1..Len(box2[l]) : box2[l][i] = box[l][i + gone[l]]
  BY <1>5
<1>7. Orderly(rg, box2, q, o)
  BY <1>3, <1>4, <1>6, OrderlyShrinks
<1>8. ASSUME NEW l \in Line, NEW j \in 1..Len(box2[l])
      PROVE  \E m \in 1..Len(box[l]) : box2[l][j] = box[l][m] /\ (l = k => 1 < m)
  <2>1. Len(box2[l]) \in Nat /\ Len(box[l]) \in Nat
    BY <1>3, FrameFacts
  <2>2. j + gone[l] \in 1..Len(box[l]) /\ box2[l][j] = box[l][j + gone[l]]
        /\ (l = k => 1 < j + gone[l])
    BY <1>4, <1>6, <2>1
  <2> QED
    BY <2>2
<1> QED
  <2>1. HeadLeaves(box, box2, k)
    BY <1>8 DEF HeadLeaves
  <2> QED
    BY <1>1, <1>3, <1>7, <2>1 DEF box2

\* What a frame adds to the ring.
LEMMA RingGrows ==
    ASSUME NEW rg \in Rings, NEW k \in Line, NEW f \in Frame
    PROVE  /\ RingAfter(rg, k, f) \in Rings
           /\ Joins(rg, RingAfter(rg, k, f), k, f)
<1> DEFINE new == [i \in 1..Len(f) |-> <<k, f[i]>>]
           rg2 == RingAfter(rg, k, f)
<1>1. f \in Seq(Number) /\ Len(f) \in Nat /\ rg \in Seq(Line \X Number) /\ Len(rg) \in Nat
  BY DEF Frame, Number, Rings
<1>2. \A a \in 1..Len(f) : f[a] \in Number
  BY <1>1
<1>3. new \in Seq(Line \X Number) /\ Len(new) = Len(f)
  BY <1>1, <1>2
<1>4. \A a \in 1..Len(f) : new[a][1] = k /\ new[a][2] = f[a]
  OBVIOUS
<1>0. rg2 = rg \o new
  BY DEF RingAfter
<1> HIDE DEF new, rg2
<1>5. /\ rg2 \in Seq(Line \X Number) /\ Len(rg2) = Len(rg) + Len(new)
      /\ \A i \in 1..(Len(rg) + Len(new)) :
            rg2[i] = IF i <= Len(rg) THEN rg[i] ELSE new[i - Len(rg)]
  <2>1. /\ rg \o new \in Seq(Line \X Number) /\ Len(rg \o new) = Len(rg) + Len(new)
        /\ \A i \in 1..(Len(rg) + Len(new)) :
              (rg \o new)[i] = IF i <= Len(rg) THEN rg[i] ELSE new[i - Len(rg)]
    BY <1>1, <1>3, ConcatProperties
  <2> QED
    BY <1>0, <2>1
<1>6. ASSUME NEW i \in 1..Len(rg2)
      PROVE  \/ i \in 1..Len(rg) /\ rg2[i] = rg[i]
             \/ \E a \in 1..Len(f) : i = Len(rg) + a /\ rg2[i][1] = k /\ rg2[i][2] = f[a]
  <2>1. i \in 1..(Len(rg) + Len(f)) /\ i \in Int
    BY <1>1, <1>3, <1>5
  <2>2. CASE i <= Len(rg)
    BY <1>1, <1>3, <1>5, <2>1, <2>2
  <2>3. CASE ~(i <= Len(rg))
    <3>1. PICK a \in 1..Len(f) : i = Len(rg) + a /\ i - Len(rg) = a
      BY <1>1, <2>1, <2>3, SecondPart
    <3>2. rg2[i] = new[i - Len(rg)]
      BY <1>3, <1>5, <2>1, <2>3
    <3> QED
      BY <1>4, <3>1, <3>2
  <2> QED
    BY <2>2, <2>3
<1>7. rg2 \in Rings
  BY <1>5 DEF Rings
<1>8. Joins(rg, rg2, k, f)
  BY <1>6 DEF Joins
<1> QED
  BY <1>7, <1>8 DEF rg2

\* The frame at the head of an inbox is taken into the ring.
LEMMA OrderlyReceives ==
    ASSUME NEW rg \in Rings, NEW box \in Boxes, NEW q \in Frame, NEW o \in Nat,
           Orderly(rg, box, q, o),
           NEW k \in Line, 1 \in 1..Len(box[k]), NEW f \in Frame, f = box[k][1],
           NEW box2 \in Boxes, Orderly(rg, box2, q, o),
           HeadLeaves(box, box2, k),
           NEW rg2 \in Rings, Joins(rg, rg2, k, f)
    PROVE  Orderly(rg2, box2, q, o)
<1>10. \A i \in 1..Len(rg2) :
         \/ i \in 1..Len(rg) /\ rg2[i] = rg[i]
         \/ \E a \in 1..Len(f) : i = Len(rg) + a /\ rg2[i][1] = k /\ rg2[i][2] = f[a]
  BY DEF Joins
<1>1. QueueIsNewest(rg, box2, q, o) /\ SentWasCaptured(rg, box2, o)
      /\ WaitingInOrder(box2) /\ ReceivedFirst(rg, box2) /\ ReceivedOnce(rg)
  BY DEF Orderly
<1>2. QueueIsNewest(rg, box, q, o) /\ SentWasCaptured(rg, box, o)
      /\ WaitingInOrder(box) /\ ReceivedFirst(rg, box)
  BY DEF Orderly
<1>3. /\ Len(rg) \in Nat /\ Len(f) \in Nat
      /\ \A a \in 1..Len(f) : f[a] \in Int /\ f[a] = box[k][1][a] /\ a \in 1..Len(box[k][1])
  BY RingFacts, QueueFacts
<1>4. \A a \in 1..Len(f) : f[a] <= o /\ \A b \in 1..Len(q) : f[a] < q[b]
  BY <1>2, <1>3 DEF QueueIsNewest, SentWasCaptured
<1>5. \A a, b \in 1..Len(f) : a < b => f[a] < f[b]
  BY <1>2, <1>3 DEF WaitingInOrder
<1>6. QueueIsNewest(rg2, box2, q, o)
  <2>1. ASSUME NEW a \in 1..Len(q), NEW i \in 1..Len(rg2) PROVE rg2[i][2] < q[a]
    <3>1. CASE i \in 1..Len(rg) /\ rg2[i] = rg[i]
      BY <1>1, <3>1 DEF QueueIsNewest
    <3>2. ASSUME NEW b \in 1..Len(f), rg2[i][2] = f[b] PROVE rg2[i][2] < q[a]
      BY <1>4, <3>2
    <3> QED
      BY <1>10, <3>1, <3>2
  <2> QED
    BY <1>1, <2>1 DEF QueueIsNewest
<1>7. SentWasCaptured(rg2, box2, o)
  <2>1. ASSUME NEW i \in 1..Len(rg2) PROVE rg2[i][2] <= o
    <3>1. CASE i \in 1..Len(rg) /\ rg2[i] = rg[i]
      BY <1>1, <3>1 DEF SentWasCaptured
    <3>2. ASSUME NEW b \in 1..Len(f), rg2[i][2] = f[b] PROVE rg2[i][2] <= o
      BY <1>4, <3>2
    <3> QED
      BY <1>10, <3>1, <3>2
  <2> QED
    BY <1>1, <2>1 DEF SentWasCaptured
<1>8. ReceivedFirst(rg2, box2)
  <2> SUFFICES ASSUME NEW i \in 1..Len(rg2), NEW l \in Line, NEW j \in 1..Len(box2[l]),
                      NEW a \in 1..Len(box2[l][j])
               PROVE  /\ rg2[i][2] # box2[l][j][a]
                      /\ rg2[i][1] = l => rg2[i][2] < box2[l][j][a]
    BY DEF ReceivedFirst
  <2>1. CASE i \in 1..Len(rg) /\ rg2[i] = rg[i]
    <3>1. /\ rg[i][2] # box2[l][j][a]
          /\ rg[i][1] = l => rg[i][2] < box2[l][j][a]
      BY <1>1, <2>1 DEF ReceivedFirst
    <3> QED
      BY <2>1, <3>1
  <2>2. ASSUME NEW b \in 1..Len(f), rg2[i][1] = k, rg2[i][2] = f[b]
        PROVE  /\ rg2[i][2] # box2[l][j][a]
               /\ rg2[i][1] = l => rg2[i][2] < box2[l][j][a]
    <3>1. PICK m \in 1..Len(box[l]) : box2[l][j] = box[l][m] /\ (l = k => 1 < m)
      BY DEF HeadLeaves
    <3>2. a \in 1..Len(box[l][m]) /\ b \in 1..Len(box[k][1])
      BY <1>3, <3>1
    <3>3. /\ k # l => box[k][1][b] # box[l][m][a]
          /\ k = l /\ 1 < m => box[k][1][b] < box[l][m][a]
      BY <1>2, <3>2, HeadAndRest
    <3>4. f[b] = box[k][1][b] /\ f[b] \in Int /\ box[l][m][a] \in Int
      BY <1>3, <3>2, FrameFacts
    <3>5. CASE k = l
      <4>1. f[b] < box[l][m][a]
        BY <3>1, <3>3, <3>4, <3>5
      <4> QED
        BY <2>2, <3>1, <3>4, <4>1
    <3>6. CASE k # l
      <4>1. f[b] # box[l][m][a]
        BY <3>3, <3>4, <3>6
      <4> QED
        BY <2>2, <3>1, <3>6, <4>1
    <3> QED
      BY <3>5, <3>6
  <2> QED
    BY <1>10, <2>1, <2>2
<1>9. ReceivedOnce(rg2)
  <2> SUFFICES ASSUME NEW i \in 1..Len(rg2), NEW j \in 1..Len(rg2), i < j
               PROVE  /\ rg2[i][2] # rg2[j][2]
                      /\ rg2[i][1] = rg2[j][1] => rg2[i][2] < rg2[j][2]
    BY DEF ReceivedOnce
  <2>1. CASE j \in 1..Len(rg) /\ rg2[j] = rg[j]
    <3>1. i \in 1..Len(rg) /\ rg2[i] = rg[i]
      BY <1>3, <1>10, <2>1
    <3> QED
      BY <1>1, <2>1, <3>1 DEF ReceivedOnce
  <2>2. ASSUME NEW b \in 1..Len(f), j = Len(rg) + b, rg2[j][1] = k, rg2[j][2] = f[b]
        PROVE  /\ rg2[i][2] # rg2[j][2]
               /\ rg2[i][1] = rg2[j][1] => rg2[i][2] < rg2[j][2]
    <3>1. CASE i \in 1..Len(rg) /\ rg2[i] = rg[i]
      <4>1. /\ rg[i][2] # box[k][1][b]
            /\ rg[i][1] = k => rg[i][2] < box[k][1][b]
        <5>1. b \in 1..Len(box[k][1]) /\ ReceivedFirst(rg, box)
          BY <1>2, <1>3
        <5> QED
          BY <3>1, <5>1 DEF ReceivedFirst
      <4> QED
        BY <1>3, <2>2, <3>1, <4>1
    <3>2. ASSUME NEW a \in 1..Len(f), i = Len(rg) + a, rg2[i][2] = f[a]
          PROVE  rg2[i][2] # rg2[j][2] /\ rg2[i][2] < rg2[j][2]
      <4>1. a < b
        BY <1>3, <2>2, <3>2
      <4>2. f[a] < f[b] /\ f[a] \in Int /\ f[b] \in Int
        BY <1>3, <1>5, <4>1
      <4> QED
        BY <2>2, <3>2, <4>2
    <3> QED
      BY <1>10, <3>1, <3>2
  <2> QED
    BY <1>10, <2>1, <2>2
<1> QED
  BY <1>1, <1>6, <1>7, <1>8, <1>9 DEF Orderly

\* The head of an inbox is received.
LEMMA OrderlyHandled ==
    ASSUME NEW rg \in Rings, NEW box \in Boxes, NEW q \in Frame, NEW o \in Nat,
           Orderly(rg, box, q, o),
           NEW k \in Line, box[k] # <<>>, NEW f \in Frame, f = box[k][1]
    PROVE  RingAfter(rg, k, f) \in Rings /\ Orderly(RingAfter(rg, k, f), BoxAfter(box, k), q, o)
<1>1. /\ BoxAfter(box, k) \in Boxes /\ Orderly(rg, BoxAfter(box, k), q, o)
      /\ 1 \in 1..Len(box[k]) /\ HeadLeaves(box, BoxAfter(box, k), k)
  BY BoxPops
<1>2. RingAfter(rg, k, f) \in Rings /\ Joins(rg, RingAfter(rg, k, f), k, f)
  BY RingGrows
<1> QED
  BY <1>1, <1>2, OrderlyReceives

----------------------------------------------------------------------------
(* The session of each connection.                                         *)

Inbox(k) == session[k].inbox

Box == [k \in Line |-> Inbox(k)]

SessionRecord == [at : {"none", "open", "refused", "closed"},
                  member : {"unknown", "resolving", "known"}, inbox : Seq(Frame)]

Unsent(k) == session[k].at = "open" => session[k].member = "unknown" /\ Inbox(k) = <<>>

\* A hello waits at the head of a session whose hello was not looked at, and
\* nowhere else.
HelloFirst(k) ==
    session[k].at = "open" =>
        \A i \in 1..Len(Inbox(k)) : Inbox(k)[i] = Hello <=> session[k].member = "unknown" /\ i = 1

\* The connection in use was told, though helloSent may have still to say so.
Told == greeted \/ step = "greeted"

\* A pump sends what helloSent called for, and nothing opens in the meantime.
PumpIsOrderly ==
    /\ Sends => ~opening
    /\ step \in {"hello", "greeted"} => ~greeted
    /\ step = "batch" => greeted

\* Unless a connection opened between a pump's look at helloSent and its end,
\* the connection in use has had its hello when it was told, and only then.
HelloIsTold ==
    /\ ws # 0 => line[ws] = "up"
    /\ step = "batch" => queued # <<>>
    /\ ~torn =>
          /\ PumpIsOrderly
          /\ \A k \in Line : line[k] = "answered" => Unsent(k)
          /\ ws # 0 /\ (opening \/ ~Told) => Unsent(ws)
          /\ ws # 0 /\ ~opening /\ Told /\ session[ws].at = "open" =>
                session[ws].member # "unknown" \/ Inbox(ws) # <<>>
          /\ \A k \in Line : HelloFirst(k)

IngestTyped == IngestTypeOK /\ session \in [Line -> SessionRecord]

IngestInv == IngestTyped /\ Orderly(ring, Box, queued, offers) /\ HelloIsTold /\ LinkedIsHeard

LEMMA IngestTypes ==
    ASSUME IngestTyped
    PROVE  /\ Box \in Boxes /\ ring \in Rings /\ queued \in Frame /\ Len(queued) \in Nat
           /\ offers \in Nat /\ offers <= MaxOffers /\ Len(queued) <= QueueLimit
           /\ session \in [Line -> SessionRecord] /\ \A k \in Line : session[k] \in SessionRecord
           /\ \A k \in Line : Box[k] = Inbox(k) /\ Inbox(k) \in Seq(Frame)
           /\ ws \in {0} \cup Line
<1>1. \A k \in Line : session[k] \in SessionRecord
  BY DEF IngestTyped
<1>2. \A k \in Line : Inbox(k) \in Seq(Frame)
  BY <1>1 DEF Inbox, SessionRecord
<1>3. Box \in Boxes /\ \A k \in Line : Box[k] = Inbox(k)
  BY <1>2 DEF Box, Boxes
<1>4. queued \in Frame /\ Len(queued) <= QueueLimit /\ offers \in 0..MaxOffers
      /\ ring \in Seq(Line \X (1..MaxOffers)) /\ ws \in {0} \cup Line
  BY DEF IngestTyped, IngestTypeOK
<1>5. Len(queued) \in Nat
  BY <1>4, QueueFacts
<1> QED
  BY <1>1, <1>2, <1>3, <1>4, <1>5, IngestAssumption DEF Rings, Number, IngestTyped

LEMMA IngestInitInv == IngestInit => IngestInv
<1> SUFFICES ASSUME IngestInit PROVE IngestInv
  OBVIOUS
<1>1. <<>> \in Seq(Frame) /\ <<>> \in Frame /\ <<>> \in Seq(Line \X (1..MaxOffers)) /\ Len(<<>>) = 0
  BY EmptySeq DEF Frame
<1>2. Session("none", "unknown", <<>>) \in SessionRecord
      /\ Session("none", "unknown", <<>>).at = "none"
      /\ Session("none", "unknown", <<>>).member = "unknown"
      /\ Session("none", "unknown", <<>>).inbox = <<>>
  BY <1>1 DEF Session, SessionRecord
<1>3. session \in [Line -> SessionRecord]
      /\ \A k \in Line : /\ session[k].at = "none" /\ session[k].member = "unknown"
                         /\ session[k].inbox = <<>>
  BY <1>2 DEF IngestInit
<1>4. line \in [Line -> {"none", "dialing", "answered", "up", "gone"}]
      /\ \A k \in Line : line[k] = "none"
  BY DEF IngestInit
<1>5. IngestTypeOK
  <2>1. /\ gate \in BOOLEAN /\ greeted \in BOOLEAN /\ opening \in BOOLEAN /\ torn \in BOOLEAN
        /\ phase \in {"idle", "connecting", "open", "closed"} /\ ws \in {0} \cup Line
        /\ step \in {"none", "late", "dial", "open", "hello", "greeted", "batch"}
    BY DEF IngestInit
  <2>2. /\ queued \in Frame /\ Len(queued) <= QueueLimit
        /\ offers \in 0..MaxOffers /\ ring \in Seq(Line \X (1..MaxOffers))
    BY <1>1, IngestAssumption DEF IngestInit
  <2>3. \A k \in Line : /\ session[k].at \in {"none", "open", "refused", "closed"}
                        /\ session[k].member \in {"unknown", "resolving", "known"}
                        /\ session[k].inbox \in Seq(Frame)
    BY <1>1, <1>3
  <2> QED
    BY <1>4, <2>1, <2>2, <2>3 DEF IngestTypeOK
<1>6. \A k \in Line : Len(Box[k]) = 0
  BY <1>1, <1>3 DEF Box, Inbox
<1>7. Len(ring) = 0 /\ Len(queued) = 0
  BY <1>1 DEF IngestInit
<1>8. Orderly(ring, Box, queued, offers)
  BY <1>6, <1>7 DEF Orderly, QueueIsNewest, SentWasCaptured, WaitingInOrder, ReceivedFirst,
                    ReceivedOnce
<1>9. HelloIsTold /\ LinkedIsHeard
  BY <1>3, <1>4 DEF IngestInit, HelloIsTold, PumpIsOrderly, Sends, LinkedIsHeard, Unsent, HelloFirst,
                    Inbox
<1> QED
  BY <1>3, <1>5, <1>8, <1>9 DEF IngestInv, IngestTyped

\* A session moves by itself.
LEMMA SessionMoves ==
    ASSUME IngestTyped, NEW k \in Line, NEW new \in SessionRecord,
           session' = [session EXCEPT ![k] = new]
    PROVE  /\ session' \in [Line -> SessionRecord]
           /\ \A l \in Line : /\ session'[l].at \in {"none", "open", "refused", "closed"}
                              /\ session'[l].member \in {"unknown", "resolving", "known"}
                              /\ session'[l].inbox \in Seq(Frame)
           /\ session'[k] = new /\ \A l \in Line : l # k => session'[l] = session[l]
           /\ Box' = [Box EXCEPT ![k] = new.inbox]
<1>1. session' \in [Line -> SessionRecord]
  BY DEF IngestTyped
<1>2. session'[k] = new /\ \A l \in Line : l # k => session'[l] = session[l]
  BY DEF IngestTyped
<1>3. Box' = [l \in Line |-> session'[l].inbox]
  BY DEF Box, Inbox
<1>4. Box' = [Box EXCEPT ![k] = new.inbox]
  <2>1. Box = [l \in Line |-> session[l].inbox]
    BY DEF Box, Inbox
  <2> QED
    BY <1>2, <1>3, <2>1
<1>5. \A l \in Line : session'[l] \in SessionRecord
  BY <1>1
<1>6. \A l \in Line : /\ session'[l].at \in {"none", "open", "refused", "closed"}
                      /\ session'[l].member \in {"unknown", "resolving", "known"}
                      /\ session'[l].inbox \in Seq(Frame)
  BY <1>5 DEF SessionRecord
<1> QED
  BY <1>1, <1>2, <1>4, <1>6

\* An inbox that is dropped leaves the rest in order.
LEMMA BoxEmptied ==
    ASSUME IngestTyped, Orderly(ring, Box, queued, offers), NEW k \in Line
    PROVE  [Box EXCEPT ![k] = <<>>] \in Boxes
           /\ Orderly(ring, [Box EXCEPT ![k] = <<>>], queued, offers)
<1> DEFINE box2 == [Box EXCEPT ![k] = <<>>]
           gone == [l \in Line |-> 0]
<1>1. Box \in Boxes /\ ring \in Rings /\ queued \in Frame /\ offers \in Nat
  BY IngestTypes
<1>2. <<>> \in Seq(Frame) /\ Len(<<>>) = 0
  BY EmptySeq
<1>3. box2 \in Boxes /\ box2[k] = <<>> /\ \A l \in Line : l # k => box2[l] = Box[l]
  BY <1>1, <1>2 DEF Boxes
<1> HIDE DEF box2
<1>4. gone \in [Line -> Nat] /\ \A l \in Line : gone[l] = 0
  OBVIOUS
<1> HIDE DEF gone
<1>5. ASSUME NEW l \in Line
      PROVE  /\ Len(box2[l]) + gone[l] <= Len(Box[l])
             /\ \A i \in 1..Len(box2[l]) : box2[l][i] = Box[l][i + gone[l]]
  BY <1>1, <1>2, <1>3, <1>4, FrameFacts
<1>6. \A l \in Line : /\ Len(box2[l]) + gone[l] <= Len(Box[l])
                      /\ \A i \in 1..Len(box2[l]) : box2[l][i] = Box[l][i + gone[l]]
  BY <1>5
<1>7. Orderly(ring, box2, queued, offers)
  BY <1>1, <1>3, <1>4, <1>6, OrderlyShrinks
<1> QED
  BY <1>3, <1>7 DEF box2

\* The steps that leave the sessions and the ring alone, but for Offer.
LEMMA ModStep ==
    ASSUME IngestInv,
           \/ Start \/ Stop \/ PumpBegins \/ ConnectTimesOut \/ PumpReads \/ HelloIsNoted
           \/ SendThrows \/ OnOpenEnds
           \/ \E k \in Line : Connect(k) \/ OnOpen(k) \/ OnLost(k) \/ DialFails(k)
    PROVE  IngestInv'
<1>1. /\ session' = session /\ ring' = ring /\ offers' = offers
      /\ (queued' = queued \/ queued' = <<>>)
  BY DEF Start, Stop, PumpBegins, ConnectTimesOut, PumpReads, HelloIsNoted, SendThrows, OnOpenEnds,
         Connect, OnOpen, OnLost, DialFails
<1>2. Box' = Box
  BY <1>1 DEF Box, Inbox
<1>3. <<>> \in Frame /\ Len(<<>>) = 0
  BY EmptySeq DEF Frame
<1>4. queued' \in Frame /\ Len(queued') <= QueueLimit
  BY <1>1, <1>3, IngestTypes, IngestAssumption DEF IngestInv
<1>5. Orderly(ring', Box', queued', offers')
  <2>1. CASE queued' = queued
    BY <1>1, <1>2, <2>1 DEF IngestInv
  <2>2. CASE queued' = <<>>
    <3>1. /\ 0 \in Nat /\ Len(queued') + 0 <= Len(queued)
          /\ \A a \in 1..Len(queued') : queued'[a] = queued[a + 0]
      BY <1>3, <2>2, IngestTypes DEF IngestInv
    <3> QED
      BY <1>1, <1>2, <1>4, <3>1, IngestTypes, OrderlyDrops DEF IngestInv
  <2> QED
    BY <1>1, <2>1, <2>2
<1>6. line \in [Line -> {"none", "dialing", "answered", "up", "gone"}] /\ ws \in {0} \cup Line
      /\ gate \in BOOLEAN /\ greeted \in BOOLEAN /\ opening \in BOOLEAN
      /\ phase \in {"idle", "connecting", "open", "closed"} /\ torn \in BOOLEAN
      /\ step \in {"none", "late", "dial", "open", "hello", "greeted", "batch"}
  BY DEF IngestInv, IngestTyped, IngestTypeOK
<1>7. /\ line' \in [Line -> {"none", "dialing", "answered", "up", "gone"}] /\ ws' \in {0} \cup Line
      /\ gate' \in BOOLEAN /\ greeted' \in BOOLEAN /\ opening' \in BOOLEAN
      /\ phase' \in {"idle", "connecting", "open", "closed"}
      /\ step' \in {"none", "late", "dial", "open", "hello", "greeted", "batch"}
  <2>1. CASE Start \/ Stop \/ PumpBegins \/ ConnectTimesOut \/ HelloIsNoted \/ SendThrows
    BY <1>6, <2>1 DEF Start, Stop, PumpBegins, ConnectTimesOut, HelloIsNoted, SendThrows
  <2>2. CASE PumpReads
    BY <1>6, <2>2 DEF PumpReads
  <2>3. CASE OnOpenEnds
    BY <1>6, <2>3 DEF OnOpenEnds
  <2>4. ASSUME NEW k \in Line, Connect(k) \/ OnOpen(k) \/ OnLost(k) \/ DialFails(k)
        PROVE  <1>7!:
    BY <1>6, <2>4 DEF Connect, OnOpen, OnLost, DialFails, LineGoes
  <2> QED
    BY <2>1, <2>2, <2>3, <2>4
<1>12. torn' \in BOOLEAN /\ (~torn' => ~torn)
  <2>1. CASE torn' = torn
    BY <1>6, <2>1, Zenon
  <2>2. CASE PumpReads
    BY <1>6, <2>2, Zenon DEF PumpReads
  <2>3. ASSUME NEW k \in Line, OnOpen(k) PROVE torn' \in BOOLEAN /\ (~torn' => ~torn)
    BY <1>6, <2>3, Zenon DEF OnOpen
  <2> QED
    BY <2>1, <2>2, <2>3 DEF Start, Stop, PumpBegins, ConnectTimesOut, HelloIsNoted, SendThrows,
       OnOpenEnds, Connect, OnLost, DialFails
<1>8. IngestTyped'
  BY <1>1, <1>4, <1>7, <1>12 DEF IngestInv, IngestTyped, IngestTypeOK
<1>9. LinkedIsHeard'
  BY <1>1, <1>12 DEF IngestInv, LinkedIsHeard
<1>10. \A k \in Line : (Unsent(k) => Unsent(k)') /\ (HelloFirst(k) => HelloFirst(k)')
  BY <1>1 DEF Unsent, HelloFirst, Inbox
<1>11. HelloIsTold'
  <2>1. CASE Start \/ PumpBegins \/ ConnectTimesOut
    BY <1>1, <1>6, <1>10, <2>1 DEF IngestInv, HelloIsTold, PumpIsOrderly, Told, Sends, Start,
       PumpBegins, ConnectTimesOut, Inbox
  <2>2. CASE Stop \/ SendThrows
    BY <1>1, <1>6, <1>10, <2>2 DEF IngestInv, HelloIsTold, PumpIsOrderly, Told, Sends, Stop,
       SendThrows
  <2>3. CASE OnOpenEnds
    BY <1>1, <1>6, <1>10, <2>3 DEF IngestInv, HelloIsTold, PumpIsOrderly, Told, Sends, OnOpenEnds
  <2>4. ASSUME NEW k \in Line, Connect(k) PROVE HelloIsTold'
    BY <1>1, <1>6, <1>10, <2>4 DEF IngestInv, HelloIsTold, PumpIsOrderly, Told, Sends, Connect,
       NextLine, LineGoes, Inbox
  <2>5. ASSUME NEW k \in Line, DialFails(k) PROVE HelloIsTold'
    BY <1>1, <1>6, <1>10, <2>5 DEF IngestInv, HelloIsTold, PumpIsOrderly, Told, Sends, DialFails,
       LineGoes, Inbox
  <2>6. ASSUME NEW k \in Line, OnLost(k) PROVE HelloIsTold'
    BY <1>1, <1>6, <1>10, <2>6 DEF IngestInv, HelloIsTold, PumpIsOrderly, Told, Sends, OnLost,
       LineGoes
  <2>7. ASSUME NEW k \in Line, OnOpen(k) PROVE HelloIsTold'
    <3>1. ws' = k /\ opening' = TRUE /\ line'[k] = "up" /\ step' = step /\ queued' = queued
          /\ greeted' = greeted
          /\ \A l \in Line : line'[l] = "answered" => line[l] = "answered"
      BY <1>6, <2>7 DEF OnOpen, LineGoes
    <3>2. ~torn => Unsent(k)
      BY <2>7 DEF IngestInv, HelloIsTold, OnOpen
    <3>3. opening'
      BY <3>1
    <3>4. ~torn' => ~torn /\ ~Sends
      BY <2>7, Zenon DEF OnOpen
    <3>5. ~torn' => PumpIsOrderly'
      BY <3>1, <3>4 DEF PumpIsOrderly, Sends
    <3> QED
      BY <1>1, <1>10, <3>1, <3>2, <3>3, <3>4, <3>5 DEF IngestInv, HelloIsTold
  <2>8. CASE PumpReads
    <3>1. /\ step = "open" /\ (greeted \/ step' \in {"hello"})
          /\ step' \in {"none", "hello", "batch"} /\ (step' = "hello" => ~greeted)
          /\ (step' = "batch" => greeted /\ queued # <<>>)
      BY <2>8 DEF PumpReads
    <3>2. UNCHANGED <<gate, phase, ws, greeted, opening, queued, offers, line, session, ring>>
      BY <2>8 DEF PumpReads
    <3>3. ~torn' => ~torn /\ (step' = "none" \/ ~opening)
      BY <2>8, Zenon DEF PumpReads
    <3>4. ~torn' => PumpIsOrderly'
      BY <3>1, <3>2, <3>3 DEF PumpIsOrderly, Sends
    <3>5. Told' <=> Told
      BY <3>1, <3>2 DEF Told
    <3> QED
      BY <1>6, <1>10, <3>1, <3>2, <3>3, <3>4, <3>5 DEF IngestInv, HelloIsTold, Inbox
  <2>9. CASE HelloIsNoted
    <3>1. /\ step = "greeted" /\ step' = "none" /\ greeted' = TRUE /\ torn' = torn
          /\ UNCHANGED <<gate, phase, ws, opening, queued, offers, line, session, ring>>
      BY <2>9 DEF HelloIsNoted
    <3>2. Told' /\ Told /\ PumpIsOrderly'
      BY <3>1 DEF Told, PumpIsOrderly, Sends
    <3> QED
      BY <1>6, <1>10, <3>1, <3>2 DEF IngestInv, HelloIsTold, Inbox
  <2> QED
    BY <2>1, <2>2, <2>3, <2>4, <2>5, <2>6, <2>7, <2>8, <2>9
<1> QED
  BY <1>5, <1>8, <1>9, <1>11 DEF IngestInv

LEMMA OfferStep == ASSUME IngestInv, Offer PROVE IngestInv'
<1> DEFINE grown == Append(queued, offers + 1)
<1>1. /\ Box \in Boxes /\ ring \in Rings /\ queued \in Frame /\ Len(queued) \in Nat
      /\ offers \in Nat /\ Len(queued) <= QueueLimit /\ QueueLimit \in Nat \ {0}
      /\ Orderly(ring, Box, queued, offers)
  BY IngestTypes, IngestAssumption DEF IngestInv
<1>2. /\ offers + 1 \in Number /\ offers' = offers + 1 /\ offers' \in Nat
      /\ offers' \in 0..MaxOffers /\ queued' = Newest(grown)
      /\ UNCHANGED <<gate, phase, ws, greeted, opening, step, line, session, ring, torn>> /\ step = "none"
  BY <1>1, IngestAssumption DEF Offer, Number
<1>3. grown \in Frame /\ Orderly(ring, Box, grown, offers + 1)
  BY <1>1, <1>2, OrderlyOffer
<1>4. Len(grown) = Len(queued) + 1
  BY <1>1, <1>2, AppendProperties DEF Frame, Number
<1> HIDE DEF grown
<1>5. queued' \in Frame /\ Len(queued') <= QueueLimit /\ Orderly(ring, Box, queued', offers')
  <2>1. CASE Len(grown) <= QueueLimit
    <3>1. queued' = grown
      BY <1>1, <1>2, <1>4, <2>1 DEF Newest
    <3> QED
      BY <1>2, <1>3, <2>1, <3>1
  <2>2. CASE Len(grown) > QueueLimit
    <3>1. Len(grown) = QueueLimit + 1
      BY <1>1, <1>4, <2>2
    <3>2. queued' = SubSeq(grown, 2, QueueLimit + 1)
      BY <1>1, <1>2, <2>2, <3>1 DEF Newest
    <3>3. \A i \in 2..(QueueLimit + 1) : grown[i] \in Number
      <4>1. grown \in Seq(Number)
        BY <1>3 DEF Frame, Number
      <4> QED
        BY <1>1, <3>1, <4>1
    <3>4. /\ SubSeq(grown, 2, QueueLimit + 1) \in Seq(Number)
          /\ Len(SubSeq(grown, 2, QueueLimit + 1)) = QueueLimit
          /\ \A i \in 1..QueueLimit : SubSeq(grown, 2, QueueLimit + 1)[i] = grown[i + 1]
      <4>1. 2 \in Int /\ QueueLimit + 1 \in Int /\ 2 <= QueueLimit + 1
            /\ (QueueLimit + 1) - 2 + 1 = QueueLimit
        BY <1>1
      <4>2. /\ SubSeq(grown, 2, QueueLimit + 1) \in Seq(Number)
            /\ Len(SubSeq(grown, 2, QueueLimit + 1)) = QueueLimit
            /\ \A i \in 1..QueueLimit : SubSeq(grown, 2, QueueLimit + 1)[i] = grown[2 + i - 1]
        BY <3>3, <4>1, SubSeqProperties
      <4>3. \A i \in 1..QueueLimit : 2 + i - 1 = i + 1
        OBVIOUS
      <4> QED
        BY <4>2, <4>3
    <3>5. queued' \in Frame /\ Len(queued') = QueueLimit
          /\ \A i \in 1..Len(queued') : queued'[i] = grown[i + 1]
      BY <3>2, <3>4 DEF Frame, Number
    <3>6. 1 \in Nat /\ Len(queued') + 1 <= Len(grown)
      BY <1>1, <3>1, <3>5
    <3>7. Orderly(ring, Box, queued', offers + 1)
      BY <1>1, <1>2, <1>3, <3>5, <3>6, OrderlyDrops
    <3> QED
      BY <1>1, <1>2, <3>5, <3>7
  <2> QED
    BY <1>1, <1>4, <2>1, <2>2
<1>6. Box' = Box
  BY <1>2 DEF Box, Inbox
<1>7. IngestTyped'
  BY <1>2, <1>5 DEF IngestInv, IngestTyped, IngestTypeOK
<1>8. HelloIsTold' /\ LinkedIsHeard'
  <2>1. /\ \A k \in Line : Unsent(k)' = Unsent(k) /\ HelloFirst(k)' = HelloFirst(k)
        /\ Told' = Told /\ PumpIsOrderly' = PumpIsOrderly
    BY <1>2 DEF Unsent, HelloFirst, Inbox, Told, PumpIsOrderly, Sends
  <2> QED
    BY <1>2, <2>1 DEF IngestInv, HelloIsTold, LinkedIsHeard, Unsent, HelloFirst, Inbox
<1> QED
  BY <1>2, <1>5, <1>6, <1>7, <1>8 DEF IngestInv

\* A frame goes to the connection in use: a hello to one that was sent
\* nothing, and records to one that had its hello.
LEMMA SendStep ==
    ASSUME IngestInv, NEW f \in Frame, ws # 0, Travels(ws, f),
           Len(f) <= Len(queued), \A a \in 1..Len(f) : f[a] = queued[a],
           queued' \in Frame, Len(queued') + Len(f) <= Len(queued),
           \A a \in 1..Len(queued') : queued'[a] = queued[a + Len(f)],
           step \in {"hello", "batch"}, f = Hello <=> step = "hello",
           step' = IF step = "hello" THEN "greeted" ELSE "none",
           UNCHANGED <<gate, phase, ws, greeted, opening, offers, line, ring, torn>>
    PROVE  IngestInv'
<1>1. /\ Box \in Boxes /\ ring \in Rings /\ queued \in Frame /\ Len(queued) \in Nat
      /\ offers \in Nat /\ Len(queued) <= QueueLimit /\ ws \in Line
      /\ session \in [Line -> SessionRecord] /\ session[ws] \in SessionRecord
      /\ Box[ws] = Inbox(ws) /\ Inbox(ws) \in Seq(Frame) /\ Len(Inbox(ws)) \in Nat
      /\ Len(f) \in Nat /\ Len(queued') \in Nat /\ QueueLimit \in Nat
      /\ Orderly(ring, Box, queued, offers)
  BY IngestTypes, IngestAssumption, QueueFacts DEF IngestInv
<1>2. gate \in BOOLEAN /\ greeted \in BOOLEAN /\ opening \in BOOLEAN /\ torn \in BOOLEAN
  BY DEF IngestInv, IngestTyped, IngestTypeOK
<1>3. /\ greeted' \in BOOLEAN /\ torn' \in BOOLEAN /\ torn' = torn /\ opening' = opening
      /\ step' \in {"greeted", "none"} /\ ws' = ws /\ line' = line /\ greeted' = greeted
  BY <1>2
<1>7. ~torn => /\ ~opening /\ (step = "hello" => ~Told) /\ (step = "batch" => Told)
               /\ Told' /\ PumpIsOrderly'
  BY <1>2, <1>3 DEF IngestInv, HelloIsTold, PumpIsOrderly, Told, Sends
<1>4. Len(queued') <= QueueLimit
  BY <1>1
<1>5. CASE session[ws].at # "open"
  <2>1. session' = session
    BY <1>5 DEF Travels
  <2>2. Box' = Box
    BY <2>1 DEF Box, Inbox
  <2>3. Orderly(ring, Box, queued', offers)
    BY <1>1, OrderlyDrops
  <2>4. IngestTyped'
    BY <1>3, <1>4, <2>1 DEF IngestInv, IngestTyped, IngestTypeOK
  <2>5. LinkedIsHeard'
    BY <1>3, <2>1 DEF IngestInv, LinkedIsHeard
  <2>6. HelloIsTold'
    <3>1. \A l \in Line : Unsent(l)' = Unsent(l) /\ HelloFirst(l)' = HelloFirst(l)
      BY <2>1 DEF Unsent, HelloFirst, Inbox
    <3>2. session'[ws'].at # "open" /\ Unsent(ws)
      BY <1>3, <1>5, <2>1 DEF Unsent
    <3>3. Unsent(ws)'
      BY <3>2 DEF Unsent
    <3> QED
      BY <1>1, <1>3, <1>7, <3>1, <3>2, <3>3 DEF IngestInv, HelloIsTold
  <2> QED
    BY <2>2, <2>3, <2>4, <2>5, <2>6 DEF IngestInv
<1>6. CASE session[ws].at = "open"
  <2> DEFINE new == [session[ws] EXCEPT !.inbox = Append(@, f)]
  <2>1. /\ Append(Inbox(ws), f) \in Seq(Frame)
        /\ Len(Append(Inbox(ws), f)) = Len(Inbox(ws)) + 1
        /\ \A i \in 1..Len(Inbox(ws)) : Append(Inbox(ws), f)[i] = Inbox(ws)[i]
        /\ Append(Inbox(ws), f)[Len(Inbox(ws)) + 1] = f
    BY <1>1, AppendProperties
  <2>2. new \in SessionRecord /\ new.at = "open" /\ new.member = session[ws].member
        /\ new.inbox = Append(Inbox(ws), f)
    BY <1>1, <1>6, <2>1 DEF SessionRecord, Inbox
  <2>3. session' = [session EXCEPT ![ws] = new]
    BY <1>6 DEF Travels
  <2> HIDE DEF new
  <2>4. PICK k \in Line : k = ws
    BY <1>1
  <2>5. /\ session' \in [Line -> SessionRecord]
        /\ \A l \in Line : /\ session'[l].at \in {"none", "open", "refused", "closed"}
                           /\ session'[l].member \in {"unknown", "resolving", "known"}
                           /\ session'[l].inbox \in Seq(Frame)
        /\ session'[k] = new /\ \A l \in Line : l # k => session'[l] = session[l]
        /\ Box' = [Box EXCEPT ![k] = new.inbox]
    <3>1. session' = [session EXCEPT ![k] = new] /\ new \in SessionRecord /\ IngestTyped
      BY <2>2, <2>3, <2>4 DEF IngestInv
    <3> QED
      BY <3>1, SessionMoves
  <2>6. Orderly(ring, Box', queued', offers)
    <3>1. new.inbox = Append(Box[k], f)
      BY <1>1, <2>2, <2>4
    <3>2. Box' = [Box EXCEPT ![k] = Append(@, f)]
      BY <2>5, <3>1
    <3> QED
      BY <1>1, <3>2, OrderlySends
  <2>7. IngestTyped'
    BY <1>3, <1>4, <2>5 DEF IngestInv, IngestTyped, IngestTypeOK
  <2>8. LinkedIsHeard'
    BY <1>3, <2>2, <2>5 DEF IngestInv, LinkedIsHeard
  <2>9. HelloIsTold'
    <3>1. ws' = k /\ line' = line /\ line[k] = "up" /\ opening' = opening
      BY <2>4 DEF IngestInv, HelloIsTold
    <3> SUFFICES ASSUME ~torn'
                 PROVE  /\ \A l \in Line : line[l] = "answered" => Unsent(l)'
                        /\ session'[k].member # "unknown" \/ session'[k].inbox # <<>>
                        /\ \A l \in Line : HelloFirst(l)'
      BY <1>3, <1>7, <3>1 DEF HelloIsTold, Inbox
    <3>2. ~torn /\ ~opening
      BY <1>3, <1>7
    <3>3. \A l \in Line : l # k => (Unsent(l) => Unsent(l)') /\ (HelloFirst(l) => HelloFirst(l)')
      BY <2>5 DEF Unsent, HelloFirst, Inbox
    <3>4. /\ \A l \in Line : line[l] = "answered" => Unsent(l)
          /\ step = "hello" => Unsent(k)
          /\ step = "batch" => session[k].member # "unknown" \/ Inbox(k) # <<>>
          /\ \A l \in Line : HelloFirst(l)
      BY <1>2, <1>6, <1>7, <2>4, <3>2 DEF IngestInv, HelloIsTold
    <3>5. Len(session'[k].inbox) = Len(Inbox(k)) + 1 /\ Len(Inbox(k)) \in Nat
      BY <1>1, <2>1, <2>2, <2>4, <2>5
    <3>6. HelloFirst(k)'
      <4> SUFFICES ASSUME NEW i \in 1..Len(session'[k].inbox)
                   PROVE  session'[k].inbox[i] = Hello <=> session'[k].member = "unknown" /\ i = 1
        BY DEF HelloFirst, Inbox
      <4>1. session'[k].member = session[k].member /\ session[k].at = "open"
        BY <1>6, <2>2, <2>4, <2>5
      <4>2. CASE i \in 1..Len(Inbox(k))
        <5>1. session'[k].inbox[i] = Inbox(k)[i]
          BY <2>1, <2>2, <2>4, <2>5, <4>2
        <5> QED
          BY <3>4, <4>1, <4>2, <5>1 DEF HelloFirst
      <4>3. CASE i = Len(Inbox(k)) + 1
        <5>1. session'[k].inbox[i] = f
          BY <2>1, <2>2, <2>4, <2>5, <4>3
        <5>2. CASE step = "batch"
          <6>1. session[k].member # "unknown" \/ Len(Inbox(k)) # 0
            BY <1>1, <2>4, <3>4, <5>2
          <6> QED
            BY <3>5, <4>1, <4>3, <5>1, <5>2, <6>1
        <5>3. CASE step = "hello"
          <6>1. session[k].member = "unknown" /\ Len(Inbox(k)) = 0
            BY <3>4, <4>1, <5>3 DEF Unsent
          <6> QED
            BY <4>1, <4>3, <5>1, <5>3, <6>1
        <5> QED
          BY <5>2, <5>3
      <4> QED
        BY <3>5, <4>2, <4>3
    <3>7. session'[k].inbox # <<>>
      BY <3>5
    <3> QED
      BY <3>1, <3>2, <3>3, <3>4, <3>6, <3>7
  <2> QED
    BY <2>6, <2>7, <2>8, <2>9 DEF IngestInv
<1> QED
  BY <1>5, <1>6

LEMMA SendHelloStep == ASSUME IngestInv, SendHello PROVE IngestInv'
<1>1. /\ Hello \in Frame /\ Len(Hello) = 0 /\ queued \in Frame /\ Len(queued) \in Nat
  BY EmptySeq, IngestTypes DEF Hello, Frame, IngestInv
<1>2. /\ ws # 0 /\ Travels(ws, Hello) /\ queued' = queued /\ step = "hello" /\ step' = "greeted"
      /\ UNCHANGED <<gate, phase, ws, greeted, opening, offers, line, ring, torn>>
  BY DEF SendHello
<1>3. /\ Len(Hello) <= Len(queued) /\ Len(queued') + Len(Hello) <= Len(queued)
      /\ \A a \in 1..Len(Hello) : Hello[a] = queued[a]
      /\ \A a \in 1..Len(queued') : queued'[a] = queued[a + Len(Hello)]
  BY <1>1, <1>2
<1> QED
  BY <1>1, <1>2, <1>3, SendStep

LEMMA SendBatchStep == ASSUME IngestInv, SendBatch PROVE IngestInv'
<1>1. /\ queued \in Frame /\ queued \in Seq(Number) /\ Len(queued) \in Nat \ {0}
      /\ MaxBatch \in Nat \ {0}
  <2>1. queued \in Frame /\ queued # <<>>
    BY IngestTypes DEF IngestInv, HelloIsTold, SendBatch
  <2> QED
    BY <2>1, IngestAssumption DEF Frame, Number
<1> DEFINE n == IF Len(queued) > MaxBatch THEN MaxBatch ELSE Len(queued)
           f == SubSeq(queued, 1, n)
<1>2. n \in 1..Len(queued)
  BY <1>1
<1>3. /\ ws # 0 /\ Travels(ws, f) /\ queued' = SubSeq(queued, n + 1, Len(queued))
      /\ step = "batch" /\ step' = "none"
      /\ UNCHANGED <<gate, phase, ws, greeted, opening, offers, line, ring, torn>>
  BY DEF SendBatch, Left
<1> HIDE DEF n
<1>4. \A i \in 1..Len(queued) : queued[i] \in Number
  BY <1>1
<1>5. f \in Seq(Number) /\ Len(f) = n /\ \A a \in 1..n : f[a] = queued[a]
  <2>1. 1 \in Int /\ n \in Int /\ 1 <= n /\ n - 1 + 1 = n
    BY <1>1, <1>2
  <2>2. \A i \in 1..n : queued[i] \in Number
    BY <1>1, <1>2, <1>4
  <2>3. f \in Seq(Number) /\ Len(f) = n /\ \A a \in 1..n : f[a] = queued[1 + a - 1]
    BY <2>1, <2>2, SubSeqProperties
  <2>4. \A a \in 1..n : 1 + a - 1 = a
    OBVIOUS
  <2> QED
    BY <2>3, <2>4
<1> HIDE DEF f
<1>6. queued' \in Seq(Number) /\ Len(queued') + n <= Len(queued)
      /\ \A a \in 1..Len(queued') : queued'[a] = queued[a + n]
  <2>1. PICK d \in Nat : Len(queued) = n + d
    <3>1. Len(queued) - n \in Nat /\ Len(queued) = n + (Len(queued) - n)
      BY <1>1, <1>2
    <3> QED
      BY <3>1
  <2>2. n \in Nat
    BY <1>2
  <2>3. /\ queued' \in Seq(Number) /\ Len(queued') = d
        /\ \A a \in 1..d : queued'[a] = queued[a + n]
    BY <1>1, <1>3, <2>1, <2>2, RestOfSeq
  <2> QED
    BY <2>1, <2>2, <2>3
<1>7. f \in Frame /\ queued' \in Frame /\ f # Hello /\ n <= Len(queued)
  BY <1>1, <1>2, <1>5, <1>6 DEF Frame, Number, Hello
<1> QED
  BY <1>3, <1>5, <1>6, <1>7, SendStep

\* The mod hears nothing yet of the session that is opened for it.
LEMMA AcceptStep == ASSUME IngestInv, NEW k \in Line, AcceptUpgrade(k) PROVE IngestInv'
<1> DEFINE new == Session("open", "unknown", <<>>)
<1>1. new \in SessionRecord /\ new.at = "open" /\ new.member = "unknown" /\ new.inbox = <<>>
      /\ Len(<<>>) = 0 /\ <<>> \in Seq(Frame)
  BY EmptySeq DEF Session, SessionRecord
<1>2. session' = [session EXCEPT ![k] = new] /\ line[k] = "dialing"
      /\ line' = [line EXCEPT ![k] = "answered"]
      /\ UNCHANGED <<gate, phase, ws, greeted, opening, step, queued, offers, ring, torn>>
  BY DEF AcceptUpgrade, SessionGoes, LineGoes
<1> HIDE DEF new
<1>3. /\ session' \in [Line -> SessionRecord]
      /\ \A l \in Line : /\ session'[l].at \in {"none", "open", "refused", "closed"}
                         /\ session'[l].member \in {"unknown", "resolving", "known"}
                         /\ session'[l].inbox \in Seq(Frame)
      /\ session'[k] = new /\ \A l \in Line : l # k => session'[l] = session[l]
      /\ Box' = [Box EXCEPT ![k] = new.inbox]
  BY <1>1, <1>2, SessionMoves DEF IngestInv
<1>4. Orderly(ring, Box', queued, offers)
  BY <1>1, <1>3, BoxEmptied DEF IngestInv
<1>5. line \in [Line -> {"none", "dialing", "answered", "up", "gone"}] /\ ws \in {0} \cup Line
  BY DEF IngestInv, IngestTyped, IngestTypeOK
<1>6. line' \in [Line -> {"none", "dialing", "answered", "up", "gone"}]
      /\ line'[k] = "answered" /\ \A l \in Line : l # k => line'[l] = line[l]
  BY <1>2, <1>5
<1>7. IngestTyped'
  BY <1>2, <1>3, <1>6 DEF IngestInv, IngestTyped, IngestTypeOK
<1>8. LinkedIsHeard'
  BY <1>1, <1>2, <1>3 DEF IngestInv, LinkedIsHeard
<1>9. HelloIsTold'
  <2>1. ws # 0 => ws \in Line /\ ws # k /\ line'[ws] = "up"
    BY <1>2, <1>5, <1>6 DEF IngestInv, HelloIsTold
  <2>2. \A l \in Line : l # k => (Unsent(l) => Unsent(l)') /\ (HelloFirst(l) => HelloFirst(l)')
    BY <1>3 DEF Unsent, HelloFirst, Inbox
  <2>3. Unsent(k)' /\ HelloFirst(k)'
    BY <1>1, <1>3 DEF Unsent, HelloFirst, Inbox
  <2>4. ws # 0 => session'[ws] = session[ws]
    BY <1>3, <2>1
  <2>5. gate \in BOOLEAN /\ greeted \in BOOLEAN /\ opening \in BOOLEAN /\ torn \in BOOLEAN
        /\ greeted' = greeted /\ opening' = opening /\ torn' = torn /\ ws' = ws
        /\ queued' = queued /\ step' = step /\ Told' = Told /\ PumpIsOrderly' = PumpIsOrderly
    BY <1>2 DEF IngestInv, IngestTyped, IngestTypeOK, Told, PumpIsOrderly, Sends
  <2> SUFFICES ASSUME ~torn
               PROVE  /\ \A l \in Line : line'[l] = "answered" => Unsent(l)'
                      /\ ws # 0 /\ (opening \/ ~Told) => Unsent(ws)'
                      /\ ws # 0 /\ ~opening /\ Told /\ session'[ws].at = "open" =>
                            session'[ws].member # "unknown" \/ session'[ws].inbox # <<>>
                      /\ \A l \in Line : HelloFirst(l)'
    BY <2>1, <2>5 DEF IngestInv, HelloIsTold, Unsent, Inbox
  <2>6. /\ \A l \in Line : line[l] = "answered" => Unsent(l)
        /\ ws # 0 /\ (opening \/ ~Told) => Unsent(ws)
        /\ ws # 0 /\ ~opening /\ Told /\ session[ws].at = "open" =>
              session[ws].member # "unknown" \/ session[ws].inbox # <<>>
        /\ \A l \in Line : HelloFirst(l)
    BY DEF IngestInv, HelloIsTold, Inbox
  <2>7. \A l \in Line : line'[l] = "answered" => Unsent(l)'
    BY <1>6, <2>2, <2>3, <2>6
  <2>8. \A l \in Line : HelloFirst(l)'
    BY <2>2, <2>3, <2>6
  <2>9. ws # 0 /\ (opening \/ ~Told) => Unsent(ws)'
    BY <2>1, <2>4, <2>5, <2>6 DEF Unsent, Inbox
  <2> QED
    BY <2>4, <2>6, <2>7, <2>8, <2>9
<1> QED
  BY <1>2, <1>4, <1>7, <1>8, <1>9 DEF IngestInv

\* The server goes on with a session.
LEMMA ServerStep ==
    ASSUME IngestInv, NEW k \in Line, NEW new \in SessionRecord,
           session' = [session EXCEPT ![k] = new], UNCHANGED <<streamVars, torn>>,
           ring' \in Rings, Orderly(ring', [Box EXCEPT ![k] = new.inbox], queued, offers),
           Unsent(k) => new.at # "open", new.at = "open" => new.member # "unknown",
           ~torn => /\ new.at # "refused"
                    /\ new.at = "open" => \A i \in 1..Len(new.inbox) : new.inbox[i] # Hello
    PROVE  IngestInv'
<1>1. /\ session' \in [Line -> SessionRecord]
      /\ \A l \in Line : /\ session'[l].at \in {"none", "open", "refused", "closed"}
                         /\ session'[l].member \in {"unknown", "resolving", "known"}
                         /\ session'[l].inbox \in Seq(Frame)
      /\ session'[k] = new /\ \A l \in Line : l # k => session'[l] = session[l]
      /\ Box' = [Box EXCEPT ![k] = new.inbox]
  BY SessionMoves DEF IngestInv
<1>2. UNCHANGED <<gate, phase, ws, greeted, opening, step, queued, offers, line, torn>>
  BY DEF streamVars
<1>3. Orderly(ring', Box', queued', offers')
  BY <1>1, <1>2
<1>4. ring' \in Seq(Line \X (1..MaxOffers))
  BY DEF Rings, Number
<1>5. IngestTyped'
  BY <1>1, <1>2, <1>4 DEF IngestInv, IngestTyped, IngestTypeOK
<1>6. LinkedIsHeard'
  BY <1>1, <1>2 DEF IngestInv, LinkedIsHeard
<1>7. \A l \in Line : l # k => (Unsent(l) => Unsent(l)') /\ (HelloFirst(l) => HelloFirst(l)')
  BY <1>1 DEF Unsent, HelloFirst, Inbox
<1>8. (Unsent(k) => Unsent(k)') /\ (~torn => HelloFirst(k)')
  BY <1>1 DEF Unsent, HelloFirst, Inbox
<1>9. /\ gate \in BOOLEAN /\ greeted \in BOOLEAN /\ opening \in BOOLEAN /\ torn \in BOOLEAN
      /\ ws \in {0} \cup Line
  BY DEF IngestInv, IngestTyped, IngestTypeOK
<1>10. HelloIsTold'
  <2>1. Told' = Told /\ PumpIsOrderly' = PumpIsOrderly
    BY <1>2 DEF Told, PumpIsOrderly, Sends
  <2> QED
    BY <1>1, <1>2, <1>7, <1>8, <1>9, <2>1 DEF IngestInv, HelloIsTold, Inbox
<1> QED
  BY <1>3, <1>5, <1>6, <1>10 DEF IngestInv

\* What Handles takes from an inbox.
LEMMA HandlesFacts ==
    ASSUME IngestInv, NEW k \in Line, Handles(k)
    PROVE  /\ Box[k] = Inbox(k) /\ Inbox(k) \in Seq(Frame) /\ Inbox(k) # <<>>
           /\ Len(Inbox(k)) \in Nat \ {0}
           /\ FirstFrame(k) = Inbox(k)[1] /\ FirstFrame(k) = Head(Box[k])
           /\ ~Unsent(k) /\ (~torn => HelloFirst(k))
           /\ session[k].at = "open" /\ session[k].member \in {"unknown", "known"}
<1>1. /\ Box[k] = Inbox(k) /\ Inbox(k) \in Seq(Frame) /\ session[k] \in SessionRecord
  BY IngestTypes DEF IngestInv
<1>2. Inbox(k) # <<>> /\ session[k].at = "open" /\ session[k].member # "resolving"
  BY DEF Handles, Drains, Inbox
<1>3. Len(Inbox(k)) \in Nat \ {0} /\ Head(Inbox(k)) = Inbox(k)[1]
  BY <1>1, <1>2
<1>4. session[k].member \in {"unknown", "known"}
  BY <1>1, <1>2 DEF SessionRecord
<1> QED
  BY <1>1, <1>2, <1>3, <1>4 DEF FirstFrame, Inbox, Unsent, IngestInv, HelloIsTold

\* What is left of the inbox, where it begins with its only hello or with none.
LEMMA PoppedFacts ==
    ASSUME IngestInv, NEW k \in Line, Handles(k), NEW member \in {"resolving", "known"}
    PROVE  /\ Popped(k, member) \in SessionRecord
           /\ Popped(k, member).at = "open" /\ Popped(k, member).member = member
           /\ Popped(k, member).inbox = Tail(Box[k])
           /\ ~torn => \A i \in 1..Len(Popped(k, member).inbox) :
                          Popped(k, member).inbox[i] # Hello
<1>1. /\ Tail(Inbox(k)) \in Seq(Frame) /\ Len(Tail(Inbox(k))) = Len(Inbox(k)) - 1
      /\ \A i \in 1..Len(Tail(Inbox(k))) : Tail(Inbox(k))[i] = Inbox(k)[i + 1]
  BY HandlesFacts, HeadTailProperties
<1>2. /\ Popped(k, member) \in SessionRecord /\ Popped(k, member).at = "open"
      /\ Popped(k, member).member = member /\ Popped(k, member).inbox = Tail(Inbox(k))
  BY <1>1 DEF Popped, Session, SessionRecord, Inbox
<1>3. ASSUME ~torn, NEW i \in 1..Len(Tail(Inbox(k))) PROVE Tail(Inbox(k))[i] # Hello
  <2>1. i + 1 \in 1..Len(Inbox(k)) /\ i + 1 # 1
    BY <1>1, HandlesFacts
  <2>2. Inbox(k)[i + 1] # Hello
    BY <1>3, <2>1, HandlesFacts DEF HelloFirst
  <2> QED
    BY <1>1, <2>2
<1> QED
  BY <1>2, <1>3, HandlesFacts

LEMMA HandleStep ==
    ASSUME IngestInv, NEW k \in Line, HandleHello(k) \/ HandleEvents(k)
    PROVE  IngestInv'
<1>1. /\ Box \in Boxes /\ ring \in Rings /\ queued \in Frame /\ offers \in Nat
      /\ Orderly(ring, Box, queued, offers)
  BY IngestTypes DEF IngestInv
<1>2. Handles(k)
  BY DEF HandleHello, HandleEvents
<1> DEFINE box2 == BoxAfter(Box, k)
<1>3. Box[k] # <<>> /\ FirstFrame(k) = Head(Box[k]) /\ ~Unsent(k)
  BY <1>2, HandlesFacts
<1>4. /\ box2 \in Boxes /\ Orderly(ring, box2, queued, offers)
      /\ 1 \in 1..Len(Box[k]) /\ Head(Box[k]) = Box[k][1] /\ Box[k][1] \in Frame
  BY <1>1, <1>3, BoxPops
<1>5. CASE HandleHello(k)
  <2> DEFINE new == Popped(k, "resolving")
  <2>1. /\ new \in SessionRecord /\ new.at = "open" /\ new.member = "resolving"
        /\ new.inbox = Tail(Box[k])
        /\ ~torn => \A i \in 1..Len(new.inbox) : new.inbox[i] # Hello
    BY <1>2, PoppedFacts
  <2>2. session' = [session EXCEPT ![k] = new] /\ UNCHANGED <<streamVars, ring, torn>>
    BY <1>5 DEF HandleHello, SessionGoes
  <2> HIDE DEF new
  <2>3. Orderly(ring', [Box EXCEPT ![k] = new.inbox], queued, offers) /\ ring' \in Rings
    BY <1>1, <1>4, <2>1, <2>2 DEF BoxAfter
  <2> QED
    BY <1>3, <2>1, <2>2, <2>3, ServerStep
<1>6. CASE HandleEvents(k)
  <2> DEFINE new == Popped(k, "known")
             f == Box[k][1]
  <2>1. /\ new \in SessionRecord /\ new.at = "open" /\ new.member = "known"
        /\ new.inbox = Tail(Box[k])
        /\ ~torn => \A i \in 1..Len(new.inbox) : new.inbox[i] # Hello
    BY <1>2, PoppedFacts
  <2>2. session' = [session EXCEPT ![k] = new] /\ UNCHANGED <<streamVars, torn>>
        /\ ring' = RingAfter(ring, k, f)
    BY <1>3, <1>4, <1>6 DEF HandleEvents, SessionGoes, RingAfter
  <2> HIDE DEF new, f
  <2>3. f \in Frame /\ f = Box[k][1]
    BY <1>4 DEF f
  <2>4. ring' \in Rings /\ Orderly(ring', box2, queued, offers)
    <3>1. /\ RingAfter(ring, k, f) \in Rings
          /\ Orderly(RingAfter(ring, k, f), BoxAfter(Box, k), queued, offers)
      BY <1>1, <1>3, <2>3, OrderlyHandled
    <3>2. ring' = RingAfter(ring, k, f)
      BY <2>2
    <3> QED
      BY <3>1, <3>2
  <2>6. Orderly(ring', [Box EXCEPT ![k] = new.inbox], queued, offers)
    BY <2>1, <2>4 DEF BoxAfter
  <2> QED
    BY <1>3, <2>1, <2>2, <2>4, <2>6, ServerStep
<1> QED
  BY <1>5, <1>6

\* The lookup ends, the server turns the session away, or the session closes.
LEMMA EndStep ==
    ASSUME IngestInv, NEW k \in Line, Resolve(k) \/ RefuseSession(k) \/ CloseSession(k)
    PROVE  IngestInv'
<1>1. /\ ring \in Rings /\ Box \in Boxes /\ session[k] \in SessionRecord
      /\ Box[k] = Inbox(k)
  BY IngestTypes DEF IngestInv
<1>2. Orderly(ring, Box, queued, offers)
      /\ Orderly(ring, [Box EXCEPT ![k] = <<>>], queued, offers)
  BY BoxEmptied DEF IngestInv
<1>3. CASE Resolve(k)
  <2> DEFINE new == [session[k] EXCEPT !.member = "known"]
  <2>1. new \in SessionRecord /\ new.at = "open" /\ new.member = "known" /\ new.inbox = Box[k]
    BY <1>1, <1>3 DEF SessionRecord, Resolve, Inbox
  <2>2. session' = [session EXCEPT ![k] = new] /\ UNCHANGED <<streamVars, ring, torn>>
        /\ session[k].at = "open" /\ session[k].member = "resolving"
    BY <1>3 DEF Resolve, SessionGoes
  <2> HIDE DEF new
  <2>3. [Box EXCEPT ![k] = new.inbox] = Box
    BY <1>1, <2>1 DEF Boxes
  <2>4. ~Unsent(k) /\ ring' \in Rings
    BY <1>1, <2>2 DEF Unsent
  <2>5. ~torn => \A i \in 1..Len(new.inbox) : new.inbox[i] # Hello
    BY <1>1, <2>1, <2>2 DEF IngestInv, HelloIsTold, HelloFirst
  <2>6. Orderly(ring', [Box EXCEPT ![k] = new.inbox], queued, offers)
    BY <1>2, <2>2, <2>3
  <2> QED
    BY <2>1, <2>2, <2>4, <2>5, <2>6, ServerStep
<1>4. CASE RefuseSession(k) \/ CloseSession(k)
  <2> DEFINE new(at) == Session(at, "unknown", <<>>)
  <2>1. PICK at \in {"refused", "closed"} :
           /\ session' = [session EXCEPT ![k] = new(at)]
           /\ at = "refused" => RefuseSession(k)
    BY <1>4 DEF RefuseSession, CloseSession, SessionGoes
  <2>2. new(at) \in SessionRecord /\ new(at).at = at /\ new(at).inbox = <<>>
    BY EmptySeq DEF Session, SessionRecord
  <2>3. UNCHANGED <<streamVars, ring, torn>>
    BY <1>4 DEF RefuseSession, CloseSession
  <2>4. ~torn => at # "refused"
    <3> SUFFICES ASSUME ~torn, RefuseSession(k) PROVE FALSE
      BY <2>1
    <3>1. Handles(k) /\ (session[k].member = "known" <=> FirstFrame(k) = Hello)
      BY DEF RefuseSession, Identified
    <3>2. FirstFrame(k) = Inbox(k)[1] /\ HelloFirst(k) /\ Len(Inbox(k)) \in Nat \ {0}
          /\ session[k].at = "open" /\ session[k].member \in {"unknown", "known"}
      BY <3>1, HandlesFacts
    <3>3. Inbox(k)[1] = Hello <=> session[k].member = "unknown"
      BY <3>2 DEF HelloFirst
    <3> QED
      BY <3>1, <3>2, <3>3
  <2> HIDE DEF new
  <2>5. new(at).at # "open" /\ (~torn => new(at).at # "refused") /\ ring' \in Rings
        /\ Orderly(ring', [Box EXCEPT ![k] = new(at).inbox], queued, offers)
    BY <1>1, <1>2, <2>2, <2>3, <2>4
  <2> QED
    BY <2>1, <2>2, <2>3, <2>5, ServerStep
<1> QED
  BY <1>3, <1>4

LEMMA IngestInductive == IngestInv /\ [IngestNext]_ingestVars => IngestInv'
<1> SUFFICES ASSUME IngestInv, [IngestNext]_ingestVars PROVE IngestInv'
  OBVIOUS
<1>1. CASE UNCHANGED ingestVars
  <2>1. UNCHANGED <<gate, phase, ws, greeted, opening, step, queued, offers, line, session, ring,
                    torn>>
    BY <1>1 DEF ingestVars, streamVars
  <2> QED
    BY <2>1 DEF IngestInv, IngestTyped, IngestTypeOK, HelloIsTold, PumpIsOrderly, Told, Sends,
                LinkedIsHeard, Unsent, HelloFirst, Inbox, Box
<1>2. CASE IngestNext
  BY <1>2, ModStep, OfferStep, SendHelloStep, SendBatchStep, AcceptStep, HandleStep, EndStep
  DEF IngestNext
<1> QED
  BY <1>1, <1>2

\* The mod's queue keeps its limit and the server's sessions their shape,
\* whatever the listeners write between two pumps.
THEOREM IngestTypeCorrectness == IngestSpec => []IngestTypeOK
<1>1. IngestInv => IngestTypeOK
  BY DEF IngestInv, IngestTyped
<1> QED
  BY IngestInitInv, IngestInductive, <1>1, PTL DEF IngestSpec

\* No record is received twice, and those of a connection in the order in
\* which they were captured, however often the mod reconnects and however many
\* connections it has forgotten (queue.js, session.ts): what was sent is older
\* than what is queued, and waits in one inbox.
THEOREM RecordedOnceAlways == IngestSpec => []RecordedOnce
<1>1. IngestInv => RecordedOnce
  BY DEF IngestInv, Orderly, ReceivedOnce, RecordedOnce
<1> QED
  BY IngestInitInv, IngestInductive, <1>1, PTL DEF IngestSpec

\* A linked player's session is refused only when a connection opened while a
\* pump was between its look at helloSent and its end (socket.js): otherwise a
\* connection begins with its hello, is sent no other, and what follows waits
\* while the hello is looked up.
THEOREM LinkedIsHeardAlways == IngestSpec => []LinkedIsHeard
<1>1. IngestInv => LinkedIsHeard
  BY DEF IngestInv
<1> QED
  BY IngestInitInv, IngestInductive, <1>1, PTL DEF IngestSpec

----------------------------------------------------------------------------
(* TicketNumbers                                                           *)

CreateState == [at : {"idle", "read", "insert", "done", "exhausted", "failed"},
                attempt : 0..Tries, number : Nat]

\* Every attempt but the running one was lost to another ticket; so is the
\* running one once its number is taken.
TriesWereLost ==
    \A o \in Opener :
        /\ create[o].at \in {"read", "insert"} => outrun[o] + 1 >= create[o].attempt /\ create[o].attempt >= 1
        /\ (create[o].at = "insert" /\ ~FreeNumber(create[o].number)) => outrun[o] >= create[o].attempt

NumbersInv == NumbersTypeOK /\ TriesWereLost /\ ExhaustedWasOutrun

LEMMA NumbersInitially == NumbersInit => NumbersInv
  BY NumbersAssumption
  DEF NumbersInit, NumbersInv, NumbersTypeOK, TriesWereLost, ExhaustedWasOutrun, CreateAt, FreeNumber, Numbers

\* A step of one call that writes no ticket.
LEMMA OwnStep ==
    ASSUME NumbersInv, NEW o \in Opener, NEW new \in CreateState,
           create' = [create EXCEPT ![o] = new], UNCHANGED <<numbers, outrun>>,
           new.at \in {"read", "insert"} => outrun[o] + 1 >= new.attempt /\ new.attempt >= 1,
           (new.at = "insert" /\ ~FreeNumber(new.number)) => outrun[o] >= new.attempt,
           new.at = "exhausted" => outrun[o] >= Tries
    PROVE  NumbersInv'
<1>1. /\ create \in [Opener -> CreateState]
      /\ numbers \in [Opener -> Nat] /\ outrun \in [Opener -> Nat]
  BY DEF NumbersInv, NumbersTypeOK, CreateState
<1>2. create'[o] = new /\ \A p \in Opener \ {o} : create'[p] = create[p]
  BY <1>1
<1>3. NumbersTypeOK'
  BY <1>1 DEF NumbersTypeOK, CreateState
<1>4. \A n : FreeNumber(n)' <=> FreeNumber(n)
  BY DEF FreeNumber, Numbers
<1>5. TriesWereLost'
  BY <1>2, <1>4 DEF NumbersInv, TriesWereLost
<1>6. ExhaustedWasOutrun'
  BY <1>2 DEF NumbersInv, ExhaustedWasOutrun
<1> QED
  BY <1>3, <1>5, <1>6 DEF NumbersInv

LEMMA InsertKeepsInv ==
    ASSUME NumbersInv, NEW o \in Opener, Insert(o)
    PROVE  NumbersInv'
<1>1. /\ create \in [Opener -> CreateState]
      /\ numbers \in [Opener -> Nat] /\ outrun \in [Opener -> Nat]
  BY DEF NumbersInv, NumbersTypeOK, CreateState
<1>2. CreateAt("done", 0, 0) \in CreateState /\ CreateAt("done", 0, 0).at = "done"
  BY NumbersAssumption DEF CreateState, CreateAt
<1>3. create' = [create EXCEPT ![o] = CreateAt("done", 0, 0)]
  BY DEF Insert, Creates
<1>4. create'[o].at = "done" /\ \A p \in Opener \ {o} : create'[p] = create[p]
  BY <1>1, <1>2, <1>3
<1>5. /\ numbers' = [numbers EXCEPT ![o] = create[o].number]
      /\ outrun' = [p \in Opener |-> IF p = o \/ create[p].at \notin {"read", "insert"} THEN outrun[p] ELSE outrun[p] + 1]
  BY DEF Insert
<1>6. outrun' \in [Opener -> Nat] /\ numbers' \in [Opener -> Nat]
  BY <1>1, <1>5 DEF CreateState
<1>7. NumbersTypeOK'
  BY <1>1, <1>2, <1>3, <1>6 DEF NumbersTypeOK, CreateState
<1>8. ASSUME NEW n, FreeNumber(n), n # create[o].number
      PROVE  FreeNumber(n)'
  BY <1>1, <1>5, <1>8 DEF FreeNumber, Numbers
<1>9. ASSUME NEW p \in Opener
      PROVE  /\ create'[p].at \in {"read", "insert"} => outrun'[p] + 1 >= create'[p].attempt /\ create'[p].attempt >= 1
             /\ (create'[p].at = "insert" /\ ~FreeNumber(create[p].number)') => outrun'[p] >= create'[p].attempt
             /\ create'[p].at = "exhausted" => outrun'[p] >= Tries
  <2>1. CASE p = o
    BY <2>1, <1>4
  <2>2. CASE p # o /\ create[p].at \in {"read", "insert"}
    <3>1. create'[p] = create[p] /\ outrun'[p] = outrun[p] + 1
      BY <2>2, <1>4, <1>5
    <3>2. outrun[p] + 1 >= create[p].attempt /\ create[p].attempt >= 1
      BY <2>2 DEF NumbersInv, TriesWereLost
    <3>3. create[p].attempt \in Nat /\ outrun[p] \in Nat
      BY <1>1, NumbersAssumption DEF CreateState
    <3> QED
      BY <2>2, <3>1, <3>2, <3>3
  <2>3. CASE p # o /\ create[p].at \notin {"read", "insert"}
    <3>1. create'[p] = create[p] /\ outrun'[p] = outrun[p]
      BY <2>3, <1>4, <1>5
    <3> QED
      BY <2>3, <3>1 DEF NumbersInv, ExhaustedWasOutrun
  <2> QED
    BY <2>1, <2>2, <2>3
<1>10. TriesWereLost'
  BY <1>9 DEF TriesWereLost
<1>11. ExhaustedWasOutrun'
  BY <1>9 DEF ExhaustedWasOutrun
<1> QED
  BY <1>7, <1>10, <1>11 DEF NumbersInv

LEMMA NumbersStep ==
    ASSUME NumbersInv, [NumbersNext]_ticketNumberVars
    PROVE  NumbersInv'
<1>1. /\ create \in [Opener -> CreateState]
      /\ numbers \in [Opener -> Nat] /\ outrun \in [Opener -> Nat]
      /\ Tries \in Nat /\ Tries >= 1
  BY NumbersAssumption DEF NumbersInv, NumbersTypeOK, CreateState
<1>2. CASE UNCHANGED ticketNumberVars
  BY <1>2 DEF ticketNumberVars, NumbersInv, NumbersTypeOK, TriesWereLost, ExhaustedWasOutrun, FreeNumber, Numbers
<1>3. ASSUME NEW at \in {"idle", "read", "insert", "done", "exhausted", "failed"},
             NEW attempt \in 0..Tries, NEW number \in Nat
      PROVE  /\ CreateAt(at, attempt, number) \in CreateState
             /\ CreateAt(at, attempt, number).at = at
             /\ CreateAt(at, attempt, number).attempt = attempt
             /\ CreateAt(at, attempt, number).number = number
  BY DEF CreateAt, CreateState
<1>4. ASSUME NEW o \in Opener, OpenTicket(o)
      PROVE  NumbersInv'
  <2>1. create' = [create EXCEPT ![o] = CreateAt("read", 1, 0)] /\ UNCHANGED <<numbers, outrun>>
    BY <1>4 DEF OpenTicket, Creates
  <2>2. 1 \in 0..Tries
    BY <1>1
  <2> DEFINE new == CreateAt("read", 1, 0)
  <2>3. new \in CreateState /\ new.at = "read" /\ new.attempt = 1
    BY <1>3, <2>2
  <2>4. create' = [create EXCEPT ![o] = new]
    BY <2>1
  <2>5. outrun[o] + 1 >= new.attempt /\ new.attempt >= 1
    BY <1>1, <2>3
  <2>6. UNCHANGED <<numbers, outrun>>
    BY <2>1
  <2> HIDE DEF new
  <2> QED
    BY <2>3, <2>4, <2>5, <2>6, OwnStep
<1>5. ASSUME NEW o \in Opener, ReadHighest(o)
      PROVE  NumbersInv'
  <2>1. PICK n \in Numbers \cup {0} : IsHighest(n) /\ create' = [create EXCEPT ![o] = CreateAt("insert", create[o].attempt, n + 1)]
    BY <1>5 DEF ReadHighest, Creates
  <2>2. n \in Nat
    BY <1>1 DEF Numbers
  <2>3. FreeNumber(n + 1)
    BY <1>1, <2>1, <2>2 DEF IsHighest, FreeNumber, Numbers
  <2>4. outrun[o] + 1 >= create[o].attempt /\ create[o].attempt >= 1 /\ create[o].attempt \in 0..Tries
    BY <1>1, <1>5 DEF ReadHighest, NumbersInv, TriesWereLost, CreateState
  <2>5. UNCHANGED <<numbers, outrun>> /\ n + 1 \in Nat
    BY <1>5, <2>2 DEF ReadHighest
  <2> DEFINE new == CreateAt("insert", create[o].attempt, n + 1)
  <2>6. new \in CreateState /\ new.at = "insert" /\ new.attempt = create[o].attempt /\ new.number = n + 1
    BY <1>3, <2>4, <2>5
  <2>7. create' = [create EXCEPT ![o] = new]
    BY <2>1
  <2>8. FreeNumber(new.number)
    BY <2>3, <2>6
  <2> HIDE DEF new
  <2> QED
    BY <2>4, <2>5, <2>6, <2>7, <2>8, OwnStep
<1>6. ASSUME NEW o \in Opener, Collide(o)
      PROVE  NumbersInv'
  <2>1. create[o].at = "insert" /\ ~FreeNumber(create[o].number) /\ UNCHANGED <<numbers, outrun>>
    BY <1>6 DEF Collide
  <2>2. outrun[o] >= create[o].attempt /\ create[o].attempt >= 1 /\ create[o].attempt \in 0..Tries
        /\ create[o].number \in Nat /\ outrun[o] \in Nat
    BY <1>1, <2>1 DEF NumbersInv, TriesWereLost, CreateState
  <2>3. CASE create[o].attempt < Tries
    <3>1. create' = [create EXCEPT ![o] = CreateAt("read", create[o].attempt + 1, create[o].number)]
      BY <1>6, <2>3 DEF Collide, Creates, RetryFrom
    <3>2. create[o].attempt + 1 \in 0..Tries /\ create[o].attempt + 1 >= 1 /\ outrun[o] + 1 >= create[o].attempt + 1
      BY <1>1, <2>2, <2>3
    <3> DEFINE new == CreateAt("read", create[o].attempt + 1, create[o].number)
    <3>3. new \in CreateState /\ new.at = "read" /\ new.attempt = create[o].attempt + 1
      BY <1>3, <2>2, <3>2
    <3>4. create' = [create EXCEPT ![o] = new]
      BY <3>1
    <3> HIDE DEF new
    <3> QED
      BY <2>1, <3>2, <3>3, <3>4, OwnStep
  <2>4. CASE ~(create[o].attempt < Tries)
    <3>1. create' = [create EXCEPT ![o] = CreateAt("exhausted", 0, 0)]
      BY <1>6, <2>4 DEF Collide, Creates
    <3>2. outrun[o] >= Tries /\ 0 \in 0..Tries
      BY <1>1, <2>2, <2>4
    <3> QED
      BY <1>3, <2>1, <3>1, <3>2, OwnStep
  <2> QED
    BY <2>3, <2>4
<1>7. ASSUME NEW o \in Opener, CreateFails(o)
      PROVE  NumbersInv'
  <2>1. create' = [create EXCEPT ![o] = CreateAt("failed", 0, 0)] /\ UNCHANGED <<numbers, outrun>>
    BY <1>7 DEF CreateFails, Creates
  <2>2. 0 \in 0..Tries
    BY <1>1
  <2> QED
    BY <1>3, <2>1, <2>2, OwnStep
<1> QED
  BY <1>2, <1>4, <1>5, <1>6, <1>7, InsertKeepsInv DEF NumbersNext

\* Every variable has its type, in every behaviour of create.
THEOREM NumbersTypeCorrectness == NumbersSpec => []NumbersTypeOK
<1>1. NumbersInv => NumbersTypeOK
  BY DEF NumbersInv
<1> QED
  BY <1>1, NumbersInitially, NumbersStep, PTL DEF NumbersSpec

\* However many press at once and in whatever order they read and insert, a
\* caller that runs out of tries lost every one of them to another's ticket
\* (create in packages/db/src/repositories/tickets.ts).
THEOREM ExhaustedWasOutrunAlways == NumbersSpec => []ExhaustedWasOutrun
<1>1. NumbersInv => ExhaustedWasOutrun
  BY DEF NumbersInv
<1> QED
  BY <1>1, NumbersInitially, NumbersStep, PTL DEF NumbersSpec

----------------------------------------------------------------------------
(* Tickets                                                                 *)

ActStates == [at : {"idle", "check", "patch", "transcript", "dispose"},
              how : TicketHow \cup {"none", "sweep"}, room : BOOLEAN]

\* Who is past the patch has closed the ticket, who is past the transcript has
\* sent it, and nobody acts on a ticket that is not there.
StageInv ==
    /\ opened = "new" => status = "none"
    /\ \A who \in Actor :
          /\ acting[who].at # "idle" => status # "none"
          /\ acting[who].at \in {"transcript", "dispose"} => status = "CLOSED"
          /\ acting[who].at = "dispose" => informed
          /\ acting[who].how = "claim" => who \in TicketStaff

\* What the sweep saw still holds, unless somebody wrote or asked since.
SweepIsRight ==
    /\ acting[Janitor].how \in {"none", "sweep"}
    /\ acting[Janitor].at \in {"check", "patch"} /\ ~changed
          => silence >= CloseAfter \/ (asked >= CloseAfter /\ talked < ResumeCount)

TicketInv == TicketsTypeOK /\ StageInv /\ GoneWasClosed /\ SweepIsRight

LEMMA ActorFacts ==
    /\ Janitor \in Actor /\ CloseAfter \in Nat /\ CloseAfter >= 1
    /\ ResumeCount \in Nat /\ ResumeCount >= 1 /\ StaleAfter \in Nat
    /\ Idle \in ActStates /\ Idle.at = "idle" /\ Idle.how = "none"
  BY TicketsAssumption DEF Actor, Idle, ActStates

LEMMA TicketsInitially == TicketsInit => TicketInv
<1> SUFFICES ASSUME TicketsInit PROVE TicketInv
  OBVIOUS
<1>1. \A who \in Actor : acting[who] = Idle
  BY DEF TicketsInit
<1>2. TicketsTypeOK
  <2>1. acting \in [Actor -> ActStates]
    BY ActorFacts DEF TicketsInit
  <2>2. silence \in 0..CloseAfter /\ talked \in 0..ResumeCount /\ asked = NotAsked
    BY ActorFacts DEF TicketsInit
  <2> QED
    BY <2>1, <2>2 DEF TicketsInit, TicketsTypeOK, ActStates
<1>3. StageInv /\ SweepIsRight
  BY <1>1, ActorFacts DEF TicketsInit, StageInv, SweepIsRight
<1> QED
  BY <1>2, <1>3 DEF TicketInv, TicketsInit, GoneWasClosed

\* A step in which nobody acts, and that leaves what the invariant is about.
LEMMA QuietStep ==
    ASSUME TicketInv, TicketsTypeOK', UNCHANGED <<acting, status, informed>>,
           opened' = "new" => opened = "new", room' = "gone" => room = "gone",
           changed' \/ (changed' = changed /\ silence' >= silence /\ asked' >= asked /\ talked' = talked)
    PROVE  TicketInv'
<1>1. StageInv'
  BY DEF TicketInv, StageInv
<1>2. GoneWasClosed'
  BY DEF TicketInv, GoneWasClosed
<1>3. silence \in Int /\ asked \in Int /\ talked \in Int /\ silence' \in Int /\ asked' \in Int /\ CloseAfter \in Int
  BY ActorFacts DEF TicketInv, TicketsTypeOK, NotAsked
<1>4. SweepIsRight'
  BY <1>3 DEF TicketInv, SweepIsRight
<1> QED
  BY <1>1, <1>2, <1>4 DEF TicketInv

\* A step of one actor that changes no clock of the row.
LEMMA ActStep ==
    ASSUME TicketInv, NEW who \in Actor, NEW new \in ActStates,
           acting' = [acting EXCEPT ![who] = new],
           status \in {"OPEN", "CLOSED"} \/ (new.at = "idle" /\ status' = status),
           status' = status \/ status' = "CLOSED",
           new.at \in {"transcript", "dispose"} => status' = "CLOSED",
           new.at = "dispose" => informed',
           new.how = "claim" => who \in TicketStaff,
           informed => informed', informed' \in BOOLEAN,
           opened' = opened, UNCHANGED <<asked, silence, talked>>, changed' = changed,
           claimant' \in {{s} : s \in TicketStaff} \cup {Nobody},
           bound' = bound, warned' \in BOOLEAN,
           room' = room \/ (room' = "gone" /\ status' = "CLOSED" /\ informed'),
           who = Janitor => (new.how \in {"none", "sweep"} /\ (new.at \in {"check", "patch"} => acting[who].at \in {"check", "patch"}))
    PROVE  TicketInv'
<1>1. acting \in [Actor -> ActStates] /\ Janitor \in Actor
  BY ActorFacts DEF TicketInv, TicketsTypeOK, ActStates
<1>2. acting'[who] = new /\ \A a \in Actor \ {who} : acting'[a] = acting[a]
  BY <1>1
<1>3. TicketsTypeOK'
  <2>1. acting' \in [Actor -> ActStates]
    BY <1>1
  <2>2. status' \in {"none", "OPEN", "CLOSED"} /\ room' \in {"none", "open", "gone"}
    BY DEF TicketInv, TicketsTypeOK
  <2> QED
    BY <2>1, <2>2 DEF TicketInv, TicketsTypeOK, ActStates
<1>4. StageInv'
  <2>1. opened' = "new" => status' = "none"
    BY DEF TicketInv, StageInv
  <2>2. ASSUME NEW a \in Actor
        PROVE  /\ acting'[a].at # "idle" => status' # "none"
               /\ acting'[a].at \in {"transcript", "dispose"} => status' = "CLOSED"
               /\ acting'[a].at = "dispose" => informed'
               /\ acting'[a].how = "claim" => a \in TicketStaff
    <3>1. CASE a = who
      BY <1>2, <3>1
    <3>2. CASE a # who
      BY <1>2, <3>2 DEF TicketInv, StageInv
    <3> QED
      BY <3>1, <3>2
  <2> QED
    BY <2>1, <2>2 DEF StageInv
<1>5. GoneWasClosed'
  BY DEF TicketInv, GoneWasClosed
<1>6. SweepIsRight'
  <2>1. CASE who = Janitor
    BY <1>2, <2>1 DEF TicketInv, SweepIsRight
  <2>2. CASE who # Janitor
    BY <1>1, <1>2, <2>2 DEF TicketInv, SweepIsRight
  <2> QED
    BY <2>1, <2>2
<1> QED
  BY <1>3, <1>4, <1>5, <1>6 DEF TicketInv

\* What every action of one actor needs to know.
LEMMA TypeFacts ==
    ASSUME TicketInv
    PROVE  /\ acting \in [Actor -> ActStates] /\ status \in {"none", "OPEN", "CLOSED"}
           /\ informed \in BOOLEAN /\ warned \in BOOLEAN /\ bound \in BOOLEAN /\ changed \in BOOLEAN
           /\ claimant \in {{s} : s \in TicketStaff} \cup {Nobody}
           /\ asked \in {NotAsked} \cup 0..CloseAfter /\ silence \in 0..CloseAfter
           /\ talked \in 0..ResumeCount
           /\ room \in {"none", "open", "gone"} /\ opened \in {"new", "row", "made", "done"}
  BY DEF TicketInv, TicketsTypeOK, ActStates

LEMMA OpenTicketKeepsInv ==
    ASSUME TicketInv, OpenRow \/ MakeChannel \/ NoChannel \/ BindChannel
    PROVE  TicketInv'
<1>1. CASE OpenRow
  <2>1. /\ \A who \in Actor : acting[who].at = "idle"
        /\ room # "gone"
    BY <1>1, TypeFacts DEF OpenRow, TicketInv, StageInv, GoneWasClosed, ActStates
  <2>2. TicketsTypeOK'
    BY <1>1 DEF OpenRow, TicketInv, TicketsTypeOK
  <2>3. StageInv' /\ GoneWasClosed'
    BY <1>1, <2>1 DEF OpenRow, TicketInv, StageInv, GoneWasClosed
  <2>4. SweepIsRight'
    BY <1>1 DEF OpenRow, TicketInv, SweepIsRight
  <2> QED
    BY <2>2, <2>3, <2>4 DEF TicketInv
<1>2. CASE MakeChannel
  <2>1. TicketsTypeOK'
    BY <1>2 DEF MakeChannel, ticketRowVars, TicketInv, TicketsTypeOK
  <2>2. silence' >= silence /\ asked' >= asked
    BY <1>2, TypeFacts, ActorFacts DEF MakeChannel, ticketRowVars, NotAsked
  <2> QED
    BY <1>2, <2>1, <2>2, QuietStep DEF MakeChannel, ticketRowVars
<1>3. CASE NoChannel
  <2>1. TicketsTypeOK'
    BY <1>3 DEF NoChannel, ticketRowVars, TicketInv, TicketsTypeOK
  <2>2. silence' >= silence /\ asked' >= asked
    BY <1>3, TypeFacts, ActorFacts DEF NoChannel, ticketRowVars, NotAsked
  <2> QED
    BY <1>3, <2>1, <2>2, QuietStep DEF NoChannel, ticketRowVars
<1>4. CASE BindChannel
  <2>1. TicketsTypeOK'
    BY <1>4 DEF BindChannel, TicketInv, TicketsTypeOK
  <2>2. silence' >= silence /\ asked' >= asked
    BY <1>4, TypeFacts, ActorFacts DEF BindChannel, NotAsked
  <2> QED
    BY <1>4, <2>1, <2>2, QuietStep DEF BindChannel
<1> QED
  BY <1>1, <1>2, <1>3, <1>4

LEMMA WorldKeepsInv ==
    ASSUME TicketInv, SweepWarns \/ SweepPassesOver \/ WarningForgotten \/ Message \/ TicketTick
    PROVE  TicketInv'
<1>1. CASE SweepWarns \/ SweepPassesOver \/ WarningForgotten
  <2>1. UNCHANGED <<ticketRowVars, room, informed, opened, acting, changed>> /\ warned' \in BOOLEAN
    BY <1>1 DEF SweepWarns, SweepPassesOver, WarningForgotten
  <2>2. TicketsTypeOK'
    BY <2>1 DEF ticketRowVars, TicketInv, TicketsTypeOK
  <2>3. silence' >= silence /\ asked' >= asked
    BY <2>1, TypeFacts, ActorFacts DEF ticketRowVars, NotAsked
  <2> QED
    BY <2>1, <2>2, <2>3, QuietStep DEF ticketRowVars
<1>2. CASE Message
  <2>1. talked' \in 0..ResumeCount /\ silence' \in 0..CloseAfter
    BY <1>2, TypeFacts, ActorFacts DEF Message
  <2>2. TicketsTypeOK'
    BY <1>2, <2>1 DEF Message, TicketInv, TicketsTypeOK
  <2> QED
    BY <1>2, <2>2, QuietStep DEF Message
<1>3. CASE TicketTick
  <2>1. silence' \in 0..CloseAfter /\ silence' >= silence
    BY <1>3, TypeFacts, ActorFacts DEF TicketTick, Later
  <2>2. asked' \in {NotAsked} \cup 0..CloseAfter /\ asked' >= asked
    BY <1>3, TypeFacts, ActorFacts DEF TicketTick, Later, NotAsked
  <2>3. TicketsTypeOK'
    BY <1>3, <2>1, <2>2 DEF TicketTick, TicketInv, TicketsTypeOK
  <2> QED
    BY <1>3, <2>1, <2>2, <2>3, QuietStep DEF TicketTick
<1> QED
  BY <1>1, <1>2, <1>3

LEMMA RestartKeepsInv ==
    ASSUME TicketInv, BridgeRestarts
    PROVE  TicketInv'
<1>1. \A who \in Actor : acting'[who] = acting[who] \/ acting'[who] = Idle
  BY DEF BridgeRestarts
<1>2. acting' \in [Actor -> ActStates]
  BY TypeFacts, ActorFacts DEF BridgeRestarts
<1>3. /\ opened' = opened \/ opened' = "done"
      /\ UNCHANGED <<status, claimant, asked, silence, talked, bound, room, informed, warned, changed>>
  BY DEF BridgeRestarts, ticketRowVars
<1>4. TicketsTypeOK'
  BY <1>2, <1>3 DEF TicketInv, TicketsTypeOK, ActStates
<1>5. StageInv'
  BY <1>1, <1>3, ActorFacts DEF TicketInv, StageInv
<1>6. GoneWasClosed' /\ SweepIsRight'
  BY <1>1, <1>3, ActorFacts DEF TicketInv, GoneWasClosed, SweepIsRight
<1> QED
  BY <1>4, <1>5, <1>6 DEF TicketInv

\* One field of an act changes.
LEMMA ActEdited ==
    ASSUME NEW act \in ActStates, NEW at
    PROVE  [act EXCEPT !.at = at] = [at |-> at, how |-> act.how, room |-> act.room]
  BY DEF ActStates

\* Somebody stops, and the row may change its claim.
LEMMA EndsKeepsInv ==
    ASSUME TicketInv, NEW who \in Actor, EndsAct(who),
           UNCHANGED <<status, asked, silence, talked, bound, room, informed, opened, warned, changed>>,
           claimant' \in {{s} : s \in TicketStaff} \cup {Nobody}
    PROVE  TicketInv'
<1> DEFINE new == Idle
<1>1. new \in ActStates /\ new.at = "idle" /\ new.how = "none" /\ acting' = [acting EXCEPT ![who] = new]
  BY ActorFacts DEF EndsAct
<1>2. informed' \in BOOLEAN /\ warned' \in BOOLEAN
  BY TypeFacts
<1> HIDE DEF new
<1> QED
  BY <1>1, <1>2, ActStep

LEMMA ReadTicketKeepsInv ==
    ASSUME TicketInv, NEW who \in Actor, NEW how \in TicketHow, ReadTicket(who, how)
    PROVE  TicketInv'
<1> DEFINE new == [at |-> "patch", how |-> how, room |-> how = "close"]
<1>1. new \in ActStates /\ new.at = "patch" /\ acting' = [acting EXCEPT ![who] = new]
  BY DEF ReadTicket, ActStates
<1>2. status = "OPEN" /\ who # Janitor
  BY DEF ReadTicket, Allowed
<1>6. new.how = "claim" => who \in TicketStaff
  BY <1>2 DEF ReadTicket, Allowed, IsStaff
<1>3. UNCHANGED <<ticketRowVars, room, informed, opened, warned, changed>>
  BY DEF ReadTicket
<1>4. /\ informed' \in BOOLEAN /\ warned' \in BOOLEAN
      /\ claimant' \in {{s} : s \in TicketStaff} \cup {Nobody}
  BY <1>3, TypeFacts DEF ticketRowVars
<1>5. UNCHANGED <<status, asked, silence, talked, bound>>
  BY <1>3 DEF ticketRowVars
<1> HIDE DEF new
<1> QED
  BY <1>1, <1>2, <1>3, <1>4, <1>5, <1>6, ActStep

LEMMA PatchKeepsInv ==
    ASSUME TicketInv, NEW who \in Actor, PatchClaim(who) \/ PatchRequest(who) \/ PatchFails(who)
    PROVE  TicketInv'
<1>1. CASE PatchClaim(who)
  <2>1. acting[who].how = "claim" => who \in TicketStaff
    BY DEF TicketInv, StageInv
  <2>2. claimant' \in {{s} : s \in TicketStaff} \cup {Nobody}
    BY <1>1, <2>1 DEF PatchClaim
  <2>3. EndsAct(who) /\ UNCHANGED <<status, asked, silence, talked, bound, room, informed, opened, warned, changed>>
    BY <1>1 DEF PatchClaim
  <2> QED
    BY <2>2, <2>3, EndsKeepsInv
<1>2. CASE PatchRequest(who)
  <2>1. acting' = [acting EXCEPT ![who] = Idle] /\ changed' = TRUE /\ asked' = 0 /\ talked' = 0
        /\ UNCHANGED <<status, claimant, silence, bound, room, informed, opened, warned>>
    BY <1>2 DEF PatchRequest, EndsAct
  <2>2. acting' \in [Actor -> ActStates] /\ \A a \in Actor : acting'[a] = Idle \/ acting'[a] = acting[a]
    BY <2>1, TypeFacts, ActorFacts
  <2>3. TicketsTypeOK'
    BY <2>1, <2>2, TypeFacts, ActorFacts DEF TicketsTypeOK, ActStates
  <2>4. StageInv' /\ GoneWasClosed'
    BY <2>1, <2>2, ActorFacts DEF TicketInv, StageInv, GoneWasClosed
  <2>5. SweepIsRight'
    BY <2>1, <2>2, ActorFacts DEF TicketInv, SweepIsRight
  <2> QED
    BY <2>3, <2>4, <2>5 DEF TicketInv
<1>3. CASE PatchFails(who)
  <2>1. EndsAct(who) /\ UNCHANGED <<status, claimant, asked, silence, talked, bound, room, informed, opened, warned, changed>>
    BY <1>3 DEF PatchFails, AfterFailure, ticketRowVars
  <2> QED
    BY <2>1, TypeFacts, EndsKeepsInv
<1> QED
  BY <1>1, <1>2, <1>3

LEMMA CloseKeepsInv ==
    ASSUME TicketInv, NEW who \in Actor, PatchClose(who)
    PROVE  TicketInv'
<1>1. /\ acting[who].at = "patch" /\ status' = "CLOSED" /\ AfterPatch(who)
      /\ UNCHANGED <<claimant, asked, silence, talked, bound, room, informed, opened, warned, changed>>
  BY DEF PatchClose
<1>2. status \in {"OPEN", "CLOSED"}
  BY <1>1, TypeFacts DEF TicketInv, StageInv
<1>3. CASE acting[who].how = "closeOnPanel"
  <2> DEFINE new == Idle
  <2>1. new \in ActStates /\ new.at = "idle" /\ new.how = "none" /\ acting' = [acting EXCEPT ![who] = new]
    BY <1>1, <1>3, ActorFacts DEF AfterPatch, EndsAct
  <2> HIDE DEF new
  <2> QED
    BY <1>1, <1>2, <2>1, TypeFacts, ActStep
<1>4. CASE acting[who].how # "closeOnPanel"
  <2> DEFINE new == [at |-> "transcript", how |-> acting[who].how, room |-> acting[who].room \/ bound]
  <2>1. acting' = [acting EXCEPT ![who] = [at |-> "transcript", how |-> @.how, room |-> @.room \/ bound]]
    BY <1>1, <1>4 DEF AfterPatch
  <2>2. acting \in [Actor -> ActStates]
    BY TypeFacts
  <2>3. (acting[who].room \/ bound) \in BOOLEAN
    BY Zenon
  <2>4. new \in ActStates /\ new.at = "transcript" /\ new.how = acting[who].how
    BY <2>2, <2>3 DEF ActStates
  <2>5. acting' = [acting EXCEPT ![who] = new]
    BY <2>1, <2>2
  <2>6. /\ who = Janitor => new.how \in {"none", "sweep"}
        /\ new.how = "claim" => who \in TicketStaff
    BY <2>4 DEF TicketInv, SweepIsRight, StageInv
  <2> HIDE DEF new
  <2> QED
    BY <1>1, <1>2, <2>4, <2>5, <2>6, TypeFacts, ActStep
<1> QED
  BY <1>3, <1>4

LEMMA FarewellKeepsInv ==
    ASSUME TicketInv, NEW who \in Actor, DeliverTranscript(who) \/ DisposeChannel(who)
    PROVE  TicketInv'
<1>1. CASE DeliverTranscript(who)
  <2> DEFINE new == [at |-> "dispose", how |-> acting[who].how, room |-> acting[who].room]
  <2>1. /\ acting[who].at = "transcript" /\ informed' = TRUE
        /\ acting' = [acting EXCEPT ![who].at = "dispose"]
        /\ UNCHANGED <<status, claimant, asked, silence, talked, bound, room, opened, warned, changed>>
    BY <1>1 DEF DeliverTranscript, Acts, ticketRowVars
  <2>2. acting \in [Actor -> ActStates]
    BY TypeFacts
  <2>5. new \in ActStates /\ new.at = "dispose" /\ new.how = acting[who].how
    BY <2>2 DEF ActStates
  <2>6. [acting[who] EXCEPT !.at = "dispose"] = new
    BY <2>2, ActEdited
  <2>3. acting' = [acting EXCEPT ![who] = new]
    BY <2>1, <2>6
  <2>4. /\ status = "CLOSED" /\ (who = Janitor => new.how \in {"none", "sweep"})
        /\ new.how = "claim" => who \in TicketStaff
    BY <2>1, <2>5 DEF TicketInv, StageInv, SweepIsRight
  <2> HIDE DEF new
  <2> QED
    BY <2>1, <2>3, <2>4, <2>5, TypeFacts, ActStep
<1>2. CASE DisposeChannel(who)
  <2> DEFINE new == Idle
  <2>1. /\ acting[who].at = "dispose"
        /\ room' = room \/ room' = "gone"
        /\ UNCHANGED <<status, claimant, asked, silence, talked, bound, informed, opened, warned, changed>>
    BY <1>2 DEF DisposeChannel, ticketRowVars
  <2>2. new \in ActStates /\ new.at = "idle" /\ new.how = "none" /\ acting' = [acting EXCEPT ![who] = new]
    BY <1>2, ActorFacts DEF DisposeChannel, EndsAct
  <2>3. status = "CLOSED" /\ informed
    BY <2>1 DEF TicketInv, StageInv
  <2> HIDE DEF new
  <2> QED
    BY <2>1, <2>2, <2>3, TypeFacts, ActStep
<1> QED
  BY <1>1, <1>2

LEMMA SweepKeepsInv ==
    ASSUME TicketInv, SweepDecides \/ SweepChecks
    PROVE  TicketInv'
<1>1. CASE SweepDecides
  <2>1. silence >= CloseAfter \/ (asked >= CloseAfter /\ talked < ResumeCount)
    BY <1>1 DEF SweepDecides, SweepAction, Stands
  <2>2. /\ status = "OPEN" /\ changed' = FALSE
        /\ acting' = [acting EXCEPT ![Janitor] = [at |-> "check", how |-> "sweep", room |-> TRUE]]
        /\ UNCHANGED <<status, claimant, asked, silence, talked, bound, room, informed, opened, warned>>
    BY <1>1 DEF SweepDecides, ticketRowVars
  <2>3. /\ acting' \in [Actor -> ActStates] /\ acting'[Janitor].at = "check" /\ acting'[Janitor].how = "sweep"
        /\ \A a \in Actor \ {Janitor} : acting'[a] = acting[a]
    BY <2>2, TypeFacts, ActorFacts DEF ActStates
  <2>4. TicketsTypeOK'
    BY <2>2, <2>3, TypeFacts DEF TicketsTypeOK, ActStates
  <2>5. StageInv' /\ GoneWasClosed'
    BY <2>2, <2>3, ActorFacts DEF TicketInv, StageInv, GoneWasClosed
  <2>6. SweepIsRight'
    BY <2>1, <2>2, <2>3 DEF SweepIsRight
  <2> QED
    BY <2>4, <2>5, <2>6 DEF TicketInv
<1>2. CASE SweepChecks
  <2>1. /\ acting[Janitor].at = "check" /\ warned' \in {warned, FALSE}
        /\ UNCHANGED <<status, claimant, asked, silence, talked, bound, room, informed, opened, changed>>
    BY <1>2 DEF SweepChecks, ticketRowVars
  <2>2. status \in {"OPEN", "CLOSED"} /\ warned' \in BOOLEAN
    BY <2>1, TypeFacts, ActorFacts DEF TicketInv, StageInv
  <2>3. CASE Allowed(Janitor, "close")
    <3> DEFINE new == [at |-> "patch", how |-> acting[Janitor].how, room |-> acting[Janitor].room]
    <3>1. acting' = [acting EXCEPT ![Janitor].at = "patch"]
      BY <1>2, <2>3 DEF SweepChecks, Acts
    <3>2. new \in ActStates /\ new.at = "patch" /\ new.how = acting[Janitor].how
      BY TypeFacts, ActorFacts DEF ActStates
    <3>4. [acting[Janitor] EXCEPT !.at = "patch"] = new
      BY TypeFacts, ActorFacts, ActEdited
    <3>5. acting' = [acting EXCEPT ![Janitor] = new]
      BY <3>1, <3>4
    <3>3. new.how \in {"none", "sweep"}
      BY <3>2 DEF TicketInv, SweepIsRight
    <3> HIDE DEF new
    <3> QED
      BY <2>1, <2>2, <3>2, <3>3, <3>5, TypeFacts, ActorFacts, ActStep
  <2>4. CASE ~Allowed(Janitor, "close")
    <3> DEFINE new == Idle
    <3>1. new \in ActStates /\ new.at = "idle" /\ new.how = "none" /\ acting' = [acting EXCEPT ![Janitor] = new]
      BY <1>2, <2>4, ActorFacts DEF SweepChecks, EndsAct
    <3> HIDE DEF new
    <3> QED
      BY <2>1, <2>2, <3>1, TypeFacts, ActorFacts, ActStep
  <2> QED
    BY <2>3, <2>4
<1> QED
  BY <1>1, <1>2

LEMMA TicketStep ==
    ASSUME TicketInv, [TicketsNext]_ticketVars
    PROVE  TicketInv'
<1>1. CASE UNCHANGED ticketVars
  BY <1>1 DEF ticketVars, ticketRowVars, TicketInv, TicketsTypeOK, StageInv, GoneWasClosed, SweepIsRight
<1>2. ASSUME NEW who \in Actor, ActsOnTicket(who)
      PROVE  TicketInv'
  BY <1>2, ReadTicketKeepsInv, PatchKeepsInv, CloseKeepsInv, FarewellKeepsInv DEF ActsOnTicket
<1> QED
  BY <1>1, <1>2, OpenTicketKeepsInv, WorldKeepsInv, RestartKeepsInv, SweepKeepsInv DEF TicketsNext

\* Every variable has its type, in every behaviour of a ticket.
THEOREM TicketsTypeCorrectness == TicketsSpec => []TicketsTypeOK
<1>1. TicketInv => TicketsTypeOK
  BY DEF TicketInv
<1> QED
  BY <1>1, TicketsInitially, TicketStep, PTL DEF TicketsSpec

\* For any number of staff: a channel is disposed of only after its ticket was
\* closed and the transcript sent (afterClose in apps/bridge-bot/src/tickets.ts).
THEOREM GoneWasClosedAlways == TicketsSpec => []GoneWasClosed
<1>1. TicketInv => GoneWasClosed
  BY DEF TicketInv
<1> QED
  BY <1>1, TicketsInitially, TicketStep, PTL DEF TicketsSpec

\* For any limits: the sweep closes what was due when it looked, unless
\* somebody wrote or asked in between (sweepOne).
THEOREM AutoCloseIsDueAlways == TicketsSpec => AutoCloseIsDue
<1> DEFINE Due == (status = "OPEN" /\ status' = "CLOSED" /\ acting[Janitor].at = "patch" /\ acting'[Janitor].at = "transcript")
                     => \/ changed
                        \/ silence >= CloseAfter
                        \/ asked >= CloseAfter /\ talked < ResumeCount
<1>1. TicketInv => Due
  BY DEF TicketInv, SweepIsRight
<1>2. TicketInv /\ [TicketsNext]_ticketVars => [Due]_ticketVars
  BY <1>1
<1>3. TicketsSpec => []TicketInv
  BY TicketsInitially, TicketStep, PTL DEF TicketsSpec
<1> QED
  BY <1>2, <1>3, PTL DEF TicketsSpec, AutoCloseIsDue

----------------------------------------------------------------------------
(* XpLedger                                                                *)

RunStates == [at : {"new", "record", "ledger", "save", "climb", "done"},
              seen : Nat, was : Levels \cup {NoBalance}]

NewAdjustments == {r \in Adjustment : rebuilds[r].at = "new"}

\* The ledger has nothing that did not happen, and each call adds at most one.
LedgerInv ==
    /\ derived <= counter /\ counter <= MaxActivity
    /\ reward <= 1
    /\ manual + Cardinality(NewAdjustments) <= Cardinality(Adjustment)
    /\ counter + reward + manual <= earned

RunsInv ==
    \A r \in Rebuild :
        /\ rebuilds[r].at = "record" => rebuilds[r].seen <= counter
        /\ rebuilds[r].at \in {"save", "climb"} => rebuilds[r].seen \in Levels /\ rebuilds[r].seen <= LevelOf(earned)

NewsInv ==
    /\ \A l \in Levels : climbs[l] # "none" => l <= LevelOf(earned)
    /\ \A l \in posted \cup spared : l <= LevelOf(earned)
    /\ \A l \in Levels : climbs[l] = "announced" => l \in posted \cup spared
    /\ round \subseteq posted \cup spared

XpInv == XpTypeOK /\ LedgerInv /\ RunsInv /\ NewsInv

----------------------------------------------------------------------------
(* Levels.                                                                 *)

LEMMA Quotient ==
    ASSUME NEW d \in Nat \ {0}, NEW x \in Nat
    PROVE  (x \div d) \in Nat /\ d * (x \div d) <= x /\ x < d * (x \div d) + d
  OBVIOUS

LEMMA QuotientIsMonotone ==
    ASSUME NEW d \in Nat \ {0}, NEW x \in Nat, NEW y \in Nat, x <= y
    PROVE  x \div d <= y \div d
<1>1. ASSUME NEW p \in Nat, NEW q \in Nat, p > q
      PROVE  d * p >= d * q + d
  <2>1. PICK k \in Nat : p = q + 1 + k
    <3>1. p - q - 1 \in Nat /\ p = q + 1 + (p - q - 1)
      BY <1>1
    <3> QED
      BY <3>1
  <2>2. d * p = d * q + d + d * k
    BY <2>1
  <2>3. d * p \in Nat /\ d * q \in Nat /\ d * k \in Nat
    OBVIOUS
  <2> QED
    BY <2>2, <2>3
<1>2. (x \div d) \in Nat /\ d * (x \div d) <= x
  BY Quotient
<1>3. (y \div d) \in Nat /\ y < d * (y \div d) + d
  BY Quotient
<1>4. d * (x \div d) \in Nat /\ d * (y \div d) \in Nat
  BY <1>2, <1>3
<1> QED
  BY <1>1, <1>2, <1>3, <1>4

LEMMA QuotientIsSmall ==
    ASSUME NEW d \in Nat \ {0}, NEW x \in Nat
    PROVE  x \div d <= x
<1>1. (x \div d) \in Nat /\ d * (x \div d) <= x
  BY Quotient
<1>2. ASSUME NEW q \in Nat
      PROVE  q <= d * q
  <2>1. PICK e \in Nat : d = e + 1
    <3>1. d - 1 \in Nat /\ d = (d - 1) + 1
      OBVIOUS
    <3> QED
      BY <3>1
  <2>2. d * q = e * q + q /\ e * q \in Nat
    BY <2>1
  <2> QED
    BY <2>2
<1>3. d * (x \div d) \in Nat
  BY <1>1
<1> QED
  BY <1>1, <1>2, <1>3

LEMMA LevelIsMonotone ==
    ASSUME NEW x \in Int, NEW y \in Int, x <= y
    PROVE  LevelOf(x) \in Nat /\ LevelOf(y) \in Nat /\ LevelOf(x) <= LevelOf(y)
<1>1. LevelSpan \in Nat \ {0}
  BY XpAssumption
<1>2. PICK a \in Nat, b \in Nat : a = (IF x > 0 THEN x ELSE 0) /\ b = (IF y > 0 THEN y ELSE 0) /\ a <= b
  <2>1. (IF x > 0 THEN x ELSE 0) \in Nat /\ (IF y > 0 THEN y ELSE 0) \in Nat
    OBVIOUS
  <2>2. (IF x > 0 THEN x ELSE 0) <= (IF y > 0 THEN y ELSE 0)
    OBVIOUS
  <2> QED
    BY <2>1, <2>2
<1>3. LevelOf(x) = a \div LevelSpan /\ LevelOf(y) = b \div LevelSpan
  BY <1>2 DEF LevelOf
<1> QED
  BY <1>1, <1>2, <1>3, Quotient, QuotientIsMonotone

LEMMA LevelIsSmall ==
    ASSUME NEW x \in Int, NEW top \in Nat, x <= top
    PROVE  LevelOf(x) \in 0..top
<1>1. LevelSpan \in Nat \ {0}
  BY XpAssumption
<1>2. LevelOf(x) \in Nat /\ LevelOf(x) <= LevelOf(top)
  BY LevelIsMonotone
<1>3. LevelOf(top) = top \div LevelSpan
  BY DEF LevelOf
<1>4. top \div LevelSpan <= top /\ (top \div LevelSpan) \in Nat
  BY <1>1, Quotient, QuotientIsSmall
<1> QED
  BY <1>2, <1>3, <1>4

----------------------------------------------------------------------------

LEMMA XpTypes ==
    ASSUME XpTypeOK
    PROVE  /\ counter \in Nat /\ derived \in Nat /\ reward \in Nat /\ earned \in Nat /\ manual \in Int
           /\ level \in Levels \cup {NoBalance} /\ climbs \in [Levels -> {"none", "pending", "announced"}]
           /\ rebuilds \in [Rebuild -> RunStates]
           /\ round \subseteq Levels /\ posted \subseteq Levels /\ spared \subseteq Levels
  BY DEF XpTypeOK, RunStates

LEMMA XpConstants ==
    /\ LevelSpan \in Nat \ {0} /\ MaxActivity \in Nat
    /\ IsFiniteSet(Adjustment) /\ Cardinality(Adjustment) \in Nat
    /\ Levels = 0..(MaxActivity + Cardinality(Adjustment) + 1) /\ Levels \subseteq Nat /\ 0 \in Levels
    /\ Adjustment \subseteq Rebuild /\ Aggregation \subseteq Rebuild /\ Award \subseteq Rebuild
<1>1. IsFiniteSet(Adjustment) /\ Cardinality(Adjustment) \in Nat
  BY XpAssumption, FS_CardinalityType
<1> QED
  BY <1>1, XpAssumption DEF Levels, Rebuild

LEMMA CallsAreCounted ==
    /\ IsFiniteSet(NewAdjustments) /\ Cardinality(NewAdjustments) \in Nat
    /\ Cardinality(NewAdjustments) <= Cardinality(Adjustment)
<1>1. NewAdjustments \subseteq Adjustment
  BY DEF NewAdjustments
<1> QED
  BY <1>1, XpConstants, FS_Subset, FS_CardinalityType

LEMMA RunMade ==
    ASSUME NEW at \in {"new", "record", "ledger", "save", "climb", "done"}, NEW seen \in Nat,
           NEW was \in Levels \cup {NoBalance}
    PROVE  /\ RebuildAt(at, seen, was) \in RunStates
           /\ RebuildAt(at, seen, was).at = at /\ RebuildAt(at, seen, was).seen = seen
           /\ RebuildAt(at, seen, was).was = was
  BY DEF RebuildAt, RunStates

\* A run goes on.
LEMMA RunMoved ==
    ASSUME XpInv, NEW r \in Rebuild, NEW new \in RunStates, new.at # "new",
           rebuilds' = [rebuilds EXCEPT ![r] = new]
    PROVE  /\ rebuilds' \in [Rebuild -> RunStates] /\ rebuilds'[r] = new
           /\ \A q \in Rebuild \ {r} : rebuilds'[q] = rebuilds[q]
           /\ Cardinality(NewAdjustments') \in Nat
           /\ Cardinality(NewAdjustments') <= Cardinality(NewAdjustments)
           /\ r \in NewAdjustments => Cardinality(NewAdjustments') = Cardinality(NewAdjustments) - 1
<1>1. rebuilds \in [Rebuild -> RunStates]
  BY XpTypes DEF XpInv
<1>2. /\ rebuilds' \in [Rebuild -> RunStates] /\ rebuilds'[r] = new
      /\ \A q \in Rebuild \ {r} : rebuilds'[q] = rebuilds[q]
  BY <1>1
<1>3. NewAdjustments' = NewAdjustments \ {r}
  BY <1>2, XpConstants DEF NewAdjustments
<1>4. /\ IsFiniteSet(NewAdjustments \ {r})
      /\ Cardinality(NewAdjustments \ {r})
           = IF r \in NewAdjustments THEN Cardinality(NewAdjustments) - 1 ELSE Cardinality(NewAdjustments)
  BY CallsAreCounted, FS_RemoveElement
<1>5. Cardinality(NewAdjustments \ {r}) \in Nat
  BY <1>4, FS_CardinalityType
<1> QED
  BY <1>2, <1>3, <1>4, <1>5, CallsAreCounted

\* A step of a run that leaves the news alone, whatever it adds to the ledger.
LEMMA RunStep ==
    ASSUME XpInv, NEW r \in Rebuild, NEW new \in RunStates, new.at # "new",
           rebuilds' = [rebuilds EXCEPT ![r] = new],
           UNCHANGED <<counter, climbs, newsVars>>,
           derived' \in Nat, derived' <= counter, reward' \in Nat, reward' <= 1, manual' \in Int,
           \/ manual' = manual
           \/ r \in NewAdjustments /\ manual' <= manual + 1,
           earned' \in Nat, earned <= earned', counter + reward' + manual' <= earned',
           level' \in Levels \cup {NoBalance},
           new.at = "record" => new.seen <= counter,
           new.at \in {"save", "climb"} => new.seen \in Levels /\ new.seen <= LevelOf(earned')
    PROVE  XpInv'
<1>1. /\ rebuilds' \in [Rebuild -> RunStates] /\ rebuilds'[r] = new
      /\ \A q \in Rebuild \ {r} : rebuilds'[q] = rebuilds[q]
      /\ Cardinality(NewAdjustments') \in Nat
      /\ Cardinality(NewAdjustments') <= Cardinality(NewAdjustments)
      /\ r \in NewAdjustments => Cardinality(NewAdjustments') = Cardinality(NewAdjustments) - 1
  BY RunMoved
<1>2. /\ counter \in Nat /\ earned \in Nat /\ manual \in Int
      /\ climbs \in [Levels -> {"none", "pending", "announced"}]
      /\ round \subseteq Levels /\ posted \subseteq Levels /\ spared \subseteq Levels
  BY XpTypes DEF XpInv
<1>3. LevelOf(earned) \in Nat /\ LevelOf(earned') \in Nat /\ LevelOf(earned) <= LevelOf(earned')
  BY <1>2, LevelIsMonotone
<1>4. XpTypeOK'
  BY <1>1, <1>2 DEF XpTypeOK, RunStates, newsVars
<1>5. LedgerInv'
  <2>1. manual + Cardinality(NewAdjustments) <= Cardinality(Adjustment) /\ counter <= MaxActivity
    BY DEF XpInv, LedgerInv
  <2>2. manual' + Cardinality(NewAdjustments') <= Cardinality(Adjustment)
    <3>1. /\ Cardinality(NewAdjustments) \in Nat /\ Cardinality(Adjustment) \in Nat
          /\ Cardinality(NewAdjustments') \in Nat /\ manual \in Int /\ manual' \in Int
      BY <1>1, <1>2, CallsAreCounted, XpConstants
    <3>2. CASE manual' = manual
      BY <1>1, <2>1, <3>1, <3>2
    <3>3. CASE r \in NewAdjustments /\ manual' <= manual + 1
      BY <1>1, <2>1, <3>1, <3>3
    <3> QED
      BY <3>2, <3>3
  <2> QED
    BY <2>1, <2>2 DEF LedgerInv
<1>6. RunsInv'
  <2>1. ASSUME NEW q \in Rebuild
        PROVE  /\ rebuilds'[q].at = "record" => rebuilds'[q].seen <= counter'
               /\ rebuilds'[q].at \in {"save", "climb"} => rebuilds'[q].seen \in Levels /\ rebuilds'[q].seen <= LevelOf(earned')
    <3>1. CASE q = r
      BY <1>1, <3>1
    <3>2. CASE q # r
      <4>1. rebuilds'[q] = rebuilds[q] /\ rebuilds[q].seen \in Nat
        BY <1>1, <3>2, XpTypes DEF XpInv, RunStates
      <4>2. /\ rebuilds[q].at = "record" => rebuilds[q].seen <= counter
            /\ rebuilds[q].at \in {"save", "climb"} => rebuilds[q].seen \in Levels /\ rebuilds[q].seen <= LevelOf(earned)
        BY DEF XpInv, RunsInv
      <4> QED
        BY <1>3, <4>1, <4>2
    <3> QED
      BY <3>1, <3>2
  <2>2. (\A q \in Rebuild :
           /\ rebuilds[q].at = "record" => rebuilds[q].seen <= counter
           /\ rebuilds[q].at \in {"save", "climb"} => rebuilds[q].seen \in Levels /\ rebuilds[q].seen <= LevelOf(earned))'
    BY <2>1 DEF Levels, LevelOf
  <2> QED
    BY <2>2 DEF RunsInv
<1>7. NewsInv'
  <2>1. \A l \in Levels : l <= LevelOf(earned) => l <= LevelOf(earned')
    BY <1>3, XpConstants
  <2>2. /\ \A l \in Levels : climbs[l] # "none" => l <= LevelOf(earned')
        /\ \A l \in posted \cup spared : l <= LevelOf(earned')
    BY <1>2, <2>1 DEF XpInv, NewsInv
  <2>3. (/\ \A l \in Levels : climbs[l] # "none" => l <= LevelOf(earned)
         /\ \A l \in posted \cup spared : l <= LevelOf(earned))'
    BY <2>2 DEF LevelOf, Levels, newsVars
  <2>4. (/\ \A l \in Levels : climbs[l] = "announced" => l \in posted \cup spared
         /\ round \subseteq posted \cup spared)'
    BY DEF XpInv, NewsInv, newsVars
  <2> QED
    BY <2>3, <2>4 DEF NewsInv
<1> QED
  BY <1>4, <1>5, <1>6, <1>7 DEF XpInv

----------------------------------------------------------------------------
(* The actions.                                                            *)

LEMMA BumpKeepsInv ==
    ASSUME XpInv, Bump
    PROVE  XpInv'
<1>1. /\ counter \in Nat /\ derived \in Nat /\ reward \in Nat /\ earned \in Nat /\ manual \in Int
      /\ climbs \in [Levels -> {"none", "pending", "announced"}]
      /\ rebuilds \in [Rebuild -> RunStates]
      /\ round \subseteq Levels /\ posted \subseteq Levels /\ spared \subseteq Levels
  BY XpTypes DEF XpInv
<1>2. /\ counter' = counter + 1 /\ counter < MaxActivity /\ MaxActivity \in Nat
      /\ earned' = Highest(earned, counter' + reward + manual)
      /\ UNCHANGED <<derived, reward, manual, level, climbs, rebuilds, round, posted, spared>>
  BY XpConstants DEF Bump, newsVars
<1>3. /\ earned' \in Nat /\ earned <= earned' /\ counter' + reward + manual <= earned' /\ counter' \in Nat
  BY <1>1, <1>2 DEF Highest
<1>4. LevelOf(earned) \in Nat /\ LevelOf(earned') \in Nat /\ LevelOf(earned) <= LevelOf(earned')
  BY <1>1, <1>3, LevelIsMonotone
<1>5. XpTypeOK'
  BY <1>2, <1>3 DEF XpInv, XpTypeOK
<1>6. LedgerInv'
  BY <1>1, <1>2, <1>3 DEF XpInv, LedgerInv, NewAdjustments
<1>7. RunsInv'
  <2>1. ASSUME NEW q \in Rebuild
        PROVE  /\ rebuilds[q].at = "record" => rebuilds[q].seen <= counter'
               /\ rebuilds[q].at \in {"save", "climb"} => rebuilds[q].seen \in Levels /\ rebuilds[q].seen <= LevelOf(earned')
    <3>1. rebuilds[q].seen \in Nat
      BY <1>1 DEF RunStates
    <3>2. /\ rebuilds[q].at = "record" => rebuilds[q].seen <= counter
          /\ rebuilds[q].at \in {"save", "climb"} => rebuilds[q].seen \in Levels /\ rebuilds[q].seen <= LevelOf(earned)
      BY DEF XpInv, RunsInv
    <3> QED
      BY <1>1, <1>2, <1>4, <3>1, <3>2
  <2>2. (\A q \in Rebuild :
           /\ rebuilds[q].at = "record" => rebuilds[q].seen <= counter
           /\ rebuilds[q].at \in {"save", "climb"} => rebuilds[q].seen \in Levels /\ rebuilds[q].seen <= LevelOf(earned))'
    BY <1>2, <2>1 DEF Levels, LevelOf
  <2> QED
    BY <2>2 DEF RunsInv
<1>8. NewsInv'
  <2>1. \A l \in Levels : l <= LevelOf(earned) => l <= LevelOf(earned')
    BY <1>4, XpConstants
  <2>2. /\ \A l \in Levels : climbs[l] # "none" => l <= LevelOf(earned')
        /\ \A l \in posted \cup spared : l <= LevelOf(earned')
    BY <1>1, <2>1 DEF XpInv, NewsInv
  <2>3. (/\ \A l \in Levels : climbs[l] # "none" => l <= LevelOf(earned)
         /\ \A l \in posted \cup spared : l <= LevelOf(earned))'
    BY <1>2, <2>2 DEF LevelOf, Levels
  <2>4. (/\ \A l \in Levels : climbs[l] = "announced" => l \in posted \cup spared
         /\ round \subseteq posted \cup spared)'
    BY <1>2 DEF XpInv, NewsInv
  <2> QED
    BY <2>3, <2>4 DEF NewsInv
<1> QED
  BY <1>5, <1>6, <1>7, <1>8 DEF XpInv

\* A step of a run that adds nothing to the ledger.
LEMMA QuietRunStep ==
    ASSUME XpInv, NEW r \in Rebuild, NEW new \in RunStates, new.at # "new",
           rebuilds' = [rebuilds EXCEPT ![r] = new],
           UNCHANGED <<ledgerVars, climbs, newsVars>>,
           level' \in Levels \cup {NoBalance},
           new.at = "record" => new.seen <= counter,
           new.at \in {"save", "climb"} => new.seen \in Levels /\ new.seen <= LevelOf(earned)
    PROVE  XpInv'
<1>1. /\ counter \in Nat /\ derived \in Nat /\ reward \in Nat /\ earned \in Nat /\ manual \in Int
      /\ derived <= counter /\ reward <= 1 /\ counter + reward + manual <= earned
  BY XpTypes DEF XpInv, LedgerInv
<1>2. UNCHANGED <<counter, derived, reward, manual, earned, climbs, newsVars>>
  BY DEF ledgerVars
<1>3. /\ derived' \in Nat /\ derived' <= counter /\ reward' \in Nat /\ reward' <= 1 /\ manual' \in Int
      /\ earned' \in Nat /\ earned <= earned' /\ counter + reward' + manual' <= earned' /\ manual' = manual
  BY <1>1, <1>2
<1>4. new.at \in {"save", "climb"} => new.seen \in Levels /\ new.seen <= LevelOf(earned')
  BY <1>2
<1> QED
  BY <1>2, <1>3, <1>4, RunStep

LEMMA LedgerRunKeepsInv ==
    ASSUME XpInv, NEW r \in Rebuild, ReadCounters(r) \/ RecordDay(r) \/ RecordAdjustment(r) \/ RecordReward(r)
    PROVE  XpInv'
<1>1. /\ counter \in Nat /\ derived \in Nat /\ reward \in Nat /\ earned \in Nat /\ manual \in Int
      /\ level \in Levels \cup {NoBalance} /\ rebuilds[r] \in RunStates
      /\ derived <= counter /\ reward <= 1 /\ counter + reward + manual <= earned
  BY XpTypes DEF XpInv, LedgerInv
<1>2. NoBalance \in Levels \cup {NoBalance} /\ 0 \in Nat
  OBVIOUS
<1> DEFINE ledger == RebuildAt("ledger", 0, NoBalance)
<1>3. ledger \in RunStates /\ ledger.at = "ledger"
  BY RunMade
<1> HIDE DEF ledger
<1>4. CASE ReadCounters(r)
  <2> DEFINE new == RebuildAt(IF counter > 0 THEN "record" ELSE "ledger", counter, NoBalance)
  <2>1. new \in RunStates /\ new.at \in {"record", "ledger"} /\ new.seen = counter
    BY <1>1, <1>2, RunMade
  <2>2. rebuilds' = [rebuilds EXCEPT ![r] = new] /\ UNCHANGED <<ledgerVars, level, climbs, newsVars>>
    BY <1>4 DEF ReadCounters, RebuildsTo
  <2> HIDE DEF new
  <2>3. new.seen <= counter
    BY <1>1, <2>1
  <2> QED
    BY <1>1, <2>1, <2>2, <2>3, QuietRunStep
<1>5. CASE RecordDay(r)
  <2>1. /\ rebuilds' = [rebuilds EXCEPT ![r] = ledger] /\ rebuilds[r].at = "record"
        /\ derived' = rebuilds[r].seen /\ UNCHANGED <<counter, reward, manual, earned, level, climbs, newsVars>>
    BY <1>5 DEF RecordDay, RebuildsTo, Upserted, ledger
  <2>2. derived' \in Nat /\ derived' <= counter
    BY <1>1, <2>1 DEF XpInv, RunsInv, RunStates
  <2>3. /\ reward' \in Nat /\ reward' <= 1 /\ manual' \in Int /\ manual' = manual
        /\ earned' \in Nat /\ earned <= earned' /\ counter + reward' + manual' <= earned'
    BY <1>1, <2>1
  <2> QED
    BY <1>1, <1>3, <2>1, <2>2, <2>3, RunStep
<1>6. CASE RecordAdjustment(r)
  <2>1. PICK amount \in {-1, 1} : manual' = manual + amount
    BY <1>6 DEF RecordAdjustment
  <2>2. /\ rebuilds' = [rebuilds EXCEPT ![r] = ledger] /\ r \in NewAdjustments
        /\ earned' = Highest(earned, counter + reward + manual')
        /\ UNCHANGED <<counter, derived, reward, level, climbs, newsVars>>
    BY <1>6 DEF RecordAdjustment, RebuildsTo, ledger, NewAdjustments
  <2>3. manual' \in Int /\ manual' <= manual + 1
    BY <1>1, <2>1
  <2>4. /\ earned' \in Nat /\ earned <= earned' /\ counter + reward' + manual' <= earned'
        /\ derived' \in Nat /\ derived' <= counter /\ reward' \in Nat /\ reward' <= 1
    <3>1. PICK had \in Int : had = counter + reward + manual'
      <4>1. manual' \in Int
        BY <2>3
      <4>2. counter + reward + manual' \in Int
        BY <1>1, <4>1
      <4> QED
        BY <4>2, Zenon
    <3>2. earned' = IF earned > had THEN earned ELSE had
      BY <2>2, <3>1 DEF Highest
    <3> QED
      BY <1>1, <2>2, <3>1, <3>2
  <2> QED
    BY <1>1, <1>3, <2>2, <2>3, <2>4, RunStep
<1>7. CASE RecordReward(r)
  <2>1. /\ rebuilds' = [rebuilds EXCEPT ![r] = ledger] /\ reward' = 1
        /\ earned' = Highest(earned, counter + 1 + manual)
        /\ UNCHANGED <<counter, derived, manual, level, climbs, newsVars>>
    BY <1>7 DEF RecordReward, RebuildsTo, Upserted, ledger
  <2>2. /\ earned' \in Nat /\ earned <= earned' /\ counter + reward' + manual' <= earned'
        /\ derived' \in Nat /\ derived' <= counter /\ reward' \in Nat /\ reward' <= 1
        /\ manual' \in Int /\ manual' = manual
    BY <1>1, <2>1 DEF Highest
  <2> QED
    BY <1>1, <1>3, <2>1, <2>2, RunStep
<1> QED
  BY <1>4, <1>5, <1>6, <1>7

LEMMA BalanceRunKeepsInv ==
    ASSUME XpInv, NEW r \in Rebuild, ReadLedger(r) \/ SaveBalance(r) \/ RebuildThrows(r)
    PROVE  XpInv'
<1>1. /\ counter \in Nat /\ derived \in Nat /\ reward \in Nat /\ earned \in Nat /\ manual \in Int
      /\ level \in Levels \cup {NoBalance} /\ rebuilds[r] \in RunStates
      /\ derived <= counter /\ counter <= MaxActivity /\ reward <= 1 /\ counter + reward + manual <= earned
      /\ manual + Cardinality(NewAdjustments) <= Cardinality(Adjustment)
  BY XpTypes DEF XpInv, LedgerInv
<1>2. CASE ReadLedger(r)
  <2> DEFINE total == derived + reward + manual
             new == RebuildAt("save", LevelOf(total), level)
  <2>1. total \in Int /\ total <= earned
    BY <1>1
  <2>2. total <= MaxActivity + Cardinality(Adjustment) + 1
    BY <1>1, CallsAreCounted, XpConstants
  <2>3. rebuilds' = [rebuilds EXCEPT ![r] = new] /\ UNCHANGED <<ledgerVars, level, climbs, newsVars>>
    BY <1>2 DEF ReadLedger, RebuildsTo
  <2> HIDE DEF total
  <2>4. LevelOf(total) \in Levels
    <3>1. MaxActivity + Cardinality(Adjustment) + 1 \in Nat
      BY XpConstants
    <3> QED
      BY <2>1, <2>2, <3>1, LevelIsSmall, XpConstants
  <2>5. LevelOf(total) <= LevelOf(earned) /\ LevelOf(total) \in Nat
    BY <1>1, <2>1, LevelIsMonotone
  <2>6. new \in RunStates /\ new.at = "save" /\ new.seen = LevelOf(total)
    BY <1>1, <2>5, RunMade
  <2> HIDE DEF new
  <2> QED
    BY <1>1, <2>3, <2>4, <2>5, <2>6, QuietRunStep
<1>3. CASE SaveBalance(r)
  <2> DEFINE new == RebuildAt("climb", rebuilds[r].seen, rebuilds[r].was)
  <2>1. /\ rebuilds[r].seen \in Levels /\ rebuilds[r].seen <= LevelOf(earned)
        /\ rebuilds[r].seen \in Nat /\ rebuilds[r].was \in Levels \cup {NoBalance}
    BY <1>1, <1>3 DEF SaveBalance, XpInv, RunsInv, RunStates
  <2>2. new \in RunStates /\ new.at = "climb" /\ new.seen = rebuilds[r].seen
    BY <2>1, RunMade
  <2>3. /\ rebuilds' = [rebuilds EXCEPT ![r] = new] /\ UNCHANGED <<ledgerVars, climbs, newsVars>>
        /\ level' = rebuilds[r].seen
    BY <1>3 DEF SaveBalance, RebuildsTo
  <2> HIDE DEF new
  <2> QED
    BY <2>1, <2>2, <2>3, QuietRunStep
<1>4. CASE RebuildThrows(r)
  <2> DEFINE new == RebuildAt("done", 0, NoBalance)
  <2>1. new \in RunStates /\ new.at = "done"
    BY RunMade
  <2>2. rebuilds' = [rebuilds EXCEPT ![r] = new] /\ UNCHANGED <<ledgerVars, level, climbs, newsVars>>
    BY <1>4 DEF RebuildThrows, RebuildsTo
  <2> HIDE DEF new
  <2> QED
    BY <1>1, <2>1, <2>2, QuietRunStep
<1> QED
  BY <1>2, <1>3, <1>4

\* What the news say when the ledger and the balance stay.
LEMMA NewsStep ==
    ASSUME XpInv, UNCHANGED <<ledgerVars, level>>,
           rebuilds' \in [Rebuild -> RunStates], NewAdjustments' = NewAdjustments,
           \A r \in Rebuild : rebuilds'[r] = rebuilds[r] \/ rebuilds'[r].at = "done",
           climbs' \in [Levels -> {"none", "pending", "announced"}],
           round' \subseteq Levels, posted' \subseteq Levels, spared' \subseteq Levels,
           \A l \in Levels : climbs'[l] # "none" => l <= LevelOf(earned),
           \A l \in posted' \cup spared' : l <= LevelOf(earned),
           \A l \in Levels : climbs'[l] = "announced" => l \in posted' \cup spared',
           round' \subseteq posted' \cup spared'
    PROVE  XpInv'
<1>1. UNCHANGED <<counter, derived, reward, manual, earned, level>>
  BY DEF ledgerVars
<1>2. XpTypeOK'
  BY <1>1 DEF XpInv, XpTypeOK, RunStates
<1>3. LedgerInv'
  BY <1>1 DEF XpInv, LedgerInv
<1>4. RunsInv'
  BY <1>1 DEF XpInv, RunsInv, LevelOf
<1>5. NewsInv'
  BY <1>1 DEF NewsInv, LevelOf
<1> QED
  BY <1>2, <1>3, <1>4, <1>5 DEF XpInv

LEMMA ClimbKeepsInv ==
    ASSUME XpInv, NEW r \in Rebuild, RecordClimb(r)
    PROVE  XpInv'
<1> DEFINE new == RebuildAt("done", 0, NoBalance)
<1>1. /\ climbs \in [Levels -> {"none", "pending", "announced"}] /\ rebuilds \in [Rebuild -> RunStates]
      /\ round \subseteq Levels /\ posted \subseteq Levels /\ spared \subseteq Levels
  BY XpTypes DEF XpInv
<1>2. new \in RunStates /\ new.at = "done"
  BY RunMade
<1>3. /\ rebuilds' = [rebuilds EXCEPT ![r] = new] /\ rebuilds[r].at = "climb"
      /\ climbs' = IF HasClimbed(rebuilds[r].was, rebuilds[r].seen) /\ climbs[rebuilds[r].seen] = "none"
                    THEN [climbs EXCEPT ![rebuilds[r].seen] = "pending"] ELSE climbs
      /\ UNCHANGED <<ledgerVars, level>> /\ UNCHANGED <<round, posted, spared>>
  BY DEF RecordClimb, RebuildsTo, newsVars
<1> HIDE DEF new
<1>4. /\ rebuilds' \in [Rebuild -> RunStates] /\ rebuilds'[r] = new
      /\ \A q \in Rebuild \ {r} : rebuilds'[q] = rebuilds[q]
  BY <1>1, <1>2, <1>3
<1>5. NewAdjustments' = NewAdjustments
  BY <1>2, <1>3, <1>4, XpConstants DEF NewAdjustments
<1>6. rebuilds[r].seen \in Levels /\ rebuilds[r].seen <= LevelOf(earned)
  BY <1>3 DEF XpInv, RunsInv
<1>7. /\ climbs' \in [Levels -> {"none", "pending", "announced"}]
      /\ \A l \in Levels : climbs'[l] = climbs[l] \/ (l = rebuilds[r].seen /\ climbs'[l] = "pending")
  BY <1>1, <1>3, <1>6
<1>8. \A l \in Levels : climbs'[l] # "none" => l <= LevelOf(earned)
  BY <1>6, <1>7 DEF XpInv, NewsInv
<1>9. /\ \A l \in posted' \cup spared' : l <= LevelOf(earned)
      /\ \A l \in Levels : climbs'[l] = "announced" => l \in posted' \cup spared'
      /\ round' \subseteq posted' \cup spared'
  BY <1>3, <1>7 DEF XpInv, NewsInv
<1> QED
  BY <1>1, <1>2, <1>3, <1>4, <1>5, <1>7, <1>8, <1>9, NewsStep

LEMMA AnnouncerKeepsInv ==
    ASSUME XpInv, Announcer
    PROVE  XpInv'
<1>1. /\ climbs \in [Levels -> {"none", "pending", "announced"}] /\ rebuilds \in [Rebuild -> RunStates]
      /\ round \subseteq Levels /\ posted \subseteq Levels /\ spared \subseteq Levels
  BY XpTypes DEF XpInv
<1>2. UNCHANGED <<ledgerVars, level>> /\ rebuilds' = rebuilds
  BY DEF Announcer, PostLevelUp, SpareLevelUp, MarkAnnounced, RoundLost
<1>3. NewAdjustments' = NewAdjustments
  BY <1>2 DEF NewAdjustments
<1>4. /\ \A l \in Levels : climbs[l] # "none" => l <= LevelOf(earned)
      /\ \A l \in posted \cup spared : l <= LevelOf(earned)
      /\ \A l \in Levels : climbs[l] = "announced" => l \in posted \cup spared
      /\ round \subseteq posted \cup spared
  BY DEF XpInv, NewsInv
<1>5. ASSUME NEW l \in Levels, PostLevelUp(l)
      PROVE  XpInv'
  <2>1. /\ climbs[l] = "pending" /\ posted' = posted \cup {l} /\ round' = round \cup {l}
        /\ climbs' = climbs /\ spared' = spared
    BY <1>5 DEF PostLevelUp, Waiting
  <2>2. /\ round' \subseteq Levels /\ posted' \subseteq Levels /\ spared' \subseteq Levels
        /\ \A k \in posted' \cup spared' : k <= LevelOf(earned)
        /\ \A k \in Levels : climbs'[k] = "announced" => k \in posted' \cup spared'
        /\ round' \subseteq posted' \cup spared'
    BY <1>1, <1>4, <2>1
  <2> QED
    BY <1>1, <1>2, <1>3, <1>4, <2>1, <2>2, NewsStep
<1>6. ASSUME NEW l \in Levels, SpareLevelUp(l)
      PROVE  XpInv'
  <2>1. /\ climbs[l] = "pending" /\ spared' = spared \cup {l} /\ round' = round \cup {l}
        /\ climbs' = climbs /\ posted' = posted
    BY <1>6 DEF SpareLevelUp, Waiting
  <2>2. /\ round' \subseteq Levels /\ posted' \subseteq Levels /\ spared' \subseteq Levels
        /\ \A k \in posted' \cup spared' : k <= LevelOf(earned)
        /\ \A k \in Levels : climbs'[k] = "announced" => k \in posted' \cup spared'
        /\ round' \subseteq posted' \cup spared'
    BY <1>1, <1>4, <2>1
  <2> QED
    BY <1>1, <1>2, <1>3, <1>4, <2>1, <2>2, NewsStep
<1>7. CASE MarkAnnounced
  <2>1. /\ climbs' = [l \in Levels |-> IF l \in round THEN "announced" ELSE climbs[l]]
        /\ round' = {} /\ posted' = posted /\ spared' = spared
    BY <1>7 DEF MarkAnnounced
  <2>2. \A l \in round : l <= LevelOf(earned)
    BY <1>4
  <2> QED
    BY <1>1, <1>2, <1>3, <1>4, <2>1, <2>2, NewsStep
<1>8. CASE RoundLost
  <2>1. round' = {} /\ posted' = posted /\ spared' = spared /\ climbs' = climbs
    BY <1>8 DEF RoundLost
  <2> QED
    BY <1>1, <1>2, <1>3, <1>4, <2>1, NewsStep
<1> QED
  BY <1>5, <1>6, <1>7, <1>8 DEF Announcer

LEMMA XpInitHolds ==
    ASSUME XpInit
    PROVE  XpInv
<1>1. XpTypeOK
  <2>1. RebuildAt("new", 0, NoBalance) \in RunStates
    BY RunMade
  <2> QED
    BY <2>1, XpConstants DEF XpInit, XpTypeOK, RunStates
<1>2. LedgerInv
  BY CallsAreCounted, XpConstants DEF XpInit, LedgerInv
<1>3. RunsInv /\ NewsInv
  BY DEF XpInit, RunsInv, NewsInv, RebuildAt
<1> QED
  BY <1>1, <1>2, <1>3 DEF XpInv

LEMMA XpStep ==
    ASSUME XpInv, [XpNext]_xpVars
    PROVE  XpInv'
<1>1. CASE UNCHANGED xpVars
  BY <1>1 DEF xpVars, ledgerVars, newsVars, XpInv, XpTypeOK, LedgerInv, RunsInv, NewsInv, NewAdjustments, LevelOf
<1>2. ASSUME NEW r \in Rebuild, RebuildStep(r)
      PROVE  XpInv'
  BY <1>2, LedgerRunKeepsInv, BalanceRunKeepsInv, ClimbKeepsInv DEF RebuildStep
<1> QED
  BY <1>1, <1>2, BumpKeepsInv, AnnouncerKeepsInv DEF XpNext

----------------------------------------------------------------------------

\* Every variable of a member's XP has its type.
THEOREM XpTypeCorrectness == XpSpec => []XpTypeOK
<1>1. XpInv => XpTypeOK
  BY DEF XpInv
<1> QED
  BY <1>1, XpInitHolds, XpStep, PTL DEF XpSpec

\* The server is told only of levels the member really had the XP for, and no
\* level-up is cleared that was neither posted nor declined.
THEOREM LevelUpsAreTrueAlways == XpSpec => []LevelUpsAreTrue
<1>1. XpInv => LevelUpsAreTrue
  BY DEF XpInv, NewsInv, LevelUpsAreTrue
<1> QED
  BY <1>1, XpInitHolds, XpStep, PTL DEF XpSpec
=============================================================================
