-------------------------- MODULE ModerationProofs --------------------------
(***************************************************************************)
(* Proofs about GuildCommand, for any requests, staff commands, notices    *)
(* and limits of the queue; about SafetyLockdown, for any channels, staff  *)
(* and number of calls; about Screening, for any number of join requests   *)
(* and presses; and about the three side by side.                          *)
(***************************************************************************)
EXTENDS MCModeration, SequenceTheorems, TLAPS

-----------------------------------------------------------------------------
(* GuildCommand                                                            *)

Fates == {"new", "refused", "waiting", "sent", "discarded"}

\* The command of r is not typed and cannot be any more: the queue gave it up,
\* or the message that brought it was dropped and r has only the one.
NeverTyped(r) ==
    \/ fate[r] \in {"refused", "discarded"}
    \/ fate[r] = "new" /\ r \notin outbox /\ pc[r] \notin {"idle", "publish"}

\* What an outcome claims about the command of r.
IsSo(r, outcome) ==
    /\ outcome = "CONFIRMED_INGAME" => fate[r] = "sent" /\ r \in noticed
    /\ outcome \in {"TYPED", "UNCONFIRMED"} => fate[r] = "sent"
    /\ outcome \in {"REFUSED_BACKLOG", "EXPIRED"} => NeverTyped(r)

\* Whatever is on its way back, remembered by a waiter or returned, is so.
AnswersInv ==
    /\ \A ack \in acks : IsSo(ack.call, ack.outcome)
    /\ \A r \in Request : IsSo(r, verdict[r]) /\ (r \in heardTyped => fate[r] = "sent")

\* A message leaves once, and the queue does not know its command before.
OutboxInv ==
    \A r \in Request :
        /\ pc[r] \in {"idle", "publish"} => fate[r] = "new" /\ r \notin outbox
        /\ r \in outbox => fate[r] = "new"

\* The echo watches, and Hypixel is given, only what was typed.
WatchInv ==
    /\ \A i \in 1..Len(watches) : fate[watches[i]] = "sent"
    /\ \A k \in 1..Len(typed) : fate[typed[k]] = "sent"

\* A send that has not left has no waiter.
WaiterInv == WaiterIsOwed /\ \A r \in Request : pc[r] = "idle" => r \notin waiting

\* The watches are in the order of the commands they are for.
InStep(ws, ts) ==
    \A i, j \in 1..Len(ws), k, l \in 1..Len(ts) :
        i < j /\ ts[k] = ws[i] /\ ts[l] = ws[j] => k < l

TypedOnce(ts) == \A k, l \in 1..Len(ts) : ts[k] = ts[l] => k = l

OrderInv == InStep(watches, typed) /\ TypedOnce(typed)

GuildInv ==
    GuildTypeOK /\ OutboxInv /\ AnswersInv /\ WatchInv /\ WaiterInv /\ OrderInv

-----------------------------------------------------------------------------
(* The queue, taken at its word.                                           *)

LEMMA GuildQueue ==
    ASSUME fate \in [Command -> Fates]
    PROVE  /\ \A c \in Command : Queue!Accept(c) =>
                 fate[c] = "new" /\ fate' = [fate EXCEPT ![c] = "waiting"]
           /\ \A c \in Command : Queue!Refuse(c) =>
                 fate[c] = "new" /\ fate' = [fate EXCEPT ![c] = "refused"]
           /\ \A c \in Command : Queue!Send(c) =>
                 fate[c] = "waiting" /\ fate' = [fate EXCEPT ![c] = "sent"]
           /\ \A c \in Command : Queue!Abandon(c) =>
                 fate[c] = "waiting" /\ fate' = [fate EXCEPT ![c] = "discarded"]
           /\ \A c, v \in Command : Queue!AcceptInstead(c, v) =>
                 /\ fate[c] = "new" /\ fate[v] = "waiting"
                 /\ fate' = [fate EXCEPT ![c] = "waiting", ![v] = "discarded"]
           /\ Queue!Tick => fate' = fate
<1>1. \A c \in Command : Queue!Accept(c) =>
         fate[c] = "new" /\ fate' = [fate EXCEPT ![c] = "waiting"]
  BY DEF Queue!Accept
<1>2. \A c \in Command : Queue!Refuse(c) =>
         fate[c] = "new" /\ fate' = [fate EXCEPT ![c] = "refused"]
  BY DEF Queue!Refuse
<1>3. \A c \in Command : Queue!Send(c) =>
         fate[c] = "waiting" /\ fate' = [fate EXCEPT ![c] = "sent"]
  BY DEF Queue!Send, Queue!IsFirst, Queue!Waiting
<1>4. \A c \in Command : Queue!Abandon(c) =>
         fate[c] = "waiting" /\ fate' = [fate EXCEPT ![c] = "discarded"]
  BY DEF Queue!Abandon, Queue!Waiting
<1>5. \A c, v \in Command : Queue!AcceptInstead(c, v) =>
         /\ fate[c] = "new" /\ fate[v] = "waiting"
         /\ fate' = [fate EXCEPT ![c] = "waiting", ![v] = "discarded"]
  BY DEF Queue!AcceptInstead, Queue!Waiting
<1>6. Queue!Tick => fate' = fate
  BY DEF Queue!Tick
<1> QED
  BY <1>1, <1>2, <1>3, <1>4, <1>5, <1>6

-----------------------------------------------------------------------------
(* What every step respects, and what follows from it.                     *)

\* A command takes its way through the queue; only a message brings it there.
FateMoves ==
    /\ \A c \in Command :
          \/ fate'[c] = fate[c]
          \/ fate[c] = "new" /\ fate'[c] \in {"waiting", "refused"}
          \/ fate[c] = "waiting" /\ fate'[c] \in {"sent", "discarded"}
    /\ \A r \in Request : fate[r] = "new" /\ fate'[r] # "new" => r \in outbox /\ r \notin outbox'

\* What has left does not leave again.
Leaves ==
    \A r \in Request :
        /\ pc[r] \notin {"idle", "publish"} => pc'[r] \notin {"idle", "publish"}
        /\ r \in outbox' /\ r \notin outbox =>
              pc[r] \in {"idle", "publish"} /\ pc'[r] \notin {"idle", "publish"}

Moves == FateMoves /\ Leaves /\ noticed \subseteq noticed'

\* The new answers are so.
NewsIsSo ==
    /\ \A ack \in acks' : ack \in acks \/ IsSo(ack.call, ack.outcome)'
    /\ \A r \in Request : verdict'[r] = verdict[r] \/ IsSo(r, verdict[r])'
    /\ \A r \in heardTyped' : r \in heardTyped \/ fate'[r] = "sent"

LEMMA RequestIsCommand == Request \subseteq Command /\ Staff \subseteq Command /\ Request \cap Staff = {}
  BY GuildAssumption DEF Command

\* What is so stays so.
LEMMA IsSoStays ==
    ASSUME GuildTypeOK, OutboxInv, Moves
    PROVE  \A r \in Request :
              /\ fate[r] = "sent" => fate'[r] = "sent"
              /\ r \in noticed => r \in noticed'
              /\ NeverTyped(r) => NeverTyped(r)'
<1> SUFFICES ASSUME NEW r \in Request
             PROVE  /\ fate[r] = "sent" => fate'[r] = "sent"
                    /\ r \in noticed => r \in noticed'
                    /\ NeverTyped(r) => NeverTyped(r)'
  OBVIOUS
<1>1. fate[r] = "sent" => fate'[r] = "sent"
  BY RequestIsCommand DEF Moves, FateMoves
<1>2. NeverTyped(r) => NeverTyped(r)'
  BY RequestIsCommand DEF Moves, FateMoves, Leaves, NeverTyped
<1> QED
  BY <1>1, <1>2 DEF Moves

LEMMA AnswersStay ==
    ASSUME GuildTypeOK, OutboxInv, AnswersInv, Moves, NewsIsSo
    PROVE  OutboxInv' /\ AnswersInv'
<1>1. OutboxInv'
  BY RequestIsCommand DEF OutboxInv, Moves, FateMoves, Leaves
<1>2. \A ack \in acks' : IsSo(ack.call, ack.outcome)'
  <2> SUFFICES ASSUME NEW ack \in acks' PROVE IsSo(ack.call, ack.outcome)'
    OBVIOUS
  <2>1. CASE ack \in acks
    <3>1. ack.call \in Request /\ IsSo(ack.call, ack.outcome)
      BY <2>1 DEF AnswersInv, GuildTypeOK
    <3> QED
      BY <3>1, IsSoStays DEF IsSo
  <2> QED
    BY <2>1 DEF NewsIsSo
<1>3. ASSUME NEW r \in Request PROVE IsSo(r, verdict[r])' /\ (r \in heardTyped' => fate'[r] = "sent")
  <2>1. IsSo(r, verdict[r])'
    <3>1. CASE verdict'[r] = verdict[r]
      BY <3>1, IsSoStays DEF AnswersInv, IsSo
    <3>2. CASE verdict'[r] # verdict[r]
      BY <3>2 DEF NewsIsSo
    <3> QED
      BY <3>1, <3>2
  <2>2. r \in heardTyped' => fate'[r] = "sent"
    BY IsSoStays DEF AnswersInv, NewsIsSo
  <2> QED
    BY <2>1, <2>2
<1> QED
  BY <1>1, <1>2, <1>3 DEF AnswersInv

LEMMA WatchesStay ==
    ASSUME GuildTypeOK, WatchInv, Moves, UNCHANGED <<watches, typed>>
    PROVE  WatchInv'
<1>1. (\A i \in 1..Len(watches) : watches[i] \in Command) /\ \A k \in 1..Len(typed) : typed[k] \in Command
  BY RequestIsCommand, ElementOfSeq DEF GuildTypeOK
<1> QED
  BY <1>1 DEF WatchInv, Moves, FateMoves

-----------------------------------------------------------------------------
(* The asking process: it touches neither the queue nor the guild.         *)

LEMMA CallerKeeps ==
    ASSUME GuildInv, UNCHANGED <<queueVars, watches, guildVars>>,
           GuildTypeOK', WaiterInv', Leaves, NewsIsSo
    PROVE  GuildInv'
<1>1. Moves
  BY DEF Moves, FateMoves, queueVars, guildVars
<1>2. WatchInv' /\ OutboxInv' /\ AnswersInv'
  BY <1>1, WatchesStay, AnswersStay DEF GuildInv, guildVars
<1> QED
  BY <1>2 DEF GuildInv, OrderInv, InStep, TypedOnce, guildVars

LEMMA SettleFacts ==
    ASSUME GuildInv, NEW r \in Request, NEW outcome \in Verdict, Settle(r, outcome), IsSo(r, outcome),
           UNCHANGED <<listening, outbox, queueVars, watches, guildVars>>
    PROVE  GuildInv'
<1> USE DEF GuildInv, Settle, Unheard
<1>1. GuildTypeOK'
  BY DEF GuildTypeOK, queueVars, guildVars
<1>2. WaiterInv'
  BY DEF GuildTypeOK, WaiterInv, WaiterIsOwed
<1>3. Leaves
  BY DEF GuildTypeOK, Leaves
<1>4. Moves
  BY <1>3 DEF Moves, FateMoves, queueVars, guildVars
<1>5. NewsIsSo
  <2>1. \A c \in Request : verdict'[c] = IF c = r THEN outcome ELSE verdict[c]
    BY DEF GuildTypeOK
  <2>2. IsSo(r, verdict[r])'
    BY <1>4, <2>1, IsSoStays DEF IsSo
  <2> QED
    BY <2>1, <2>2 DEF NewsIsSo
<1> QED
  BY <1>1, <1>2, <1>3, <1>5, CallerKeeps

LEMMA SenderKeeps ==
    ASSUME GuildInv, NEW r \in Request, Sender(r)
    PROVE  GuildInv'
<1> USE DEF GuildInv, Goes, Returns, Unheard
<1>1. CASE SendNoSession(r) \/ Send(r) \/ SendDeaf(r)
  <2>1. GuildTypeOK'
    BY <1>1 DEF SendNoSession, Send, SendDeaf, GuildTypeOK, Verdict, busVars, queueVars, guildVars
  <2>2. WaiterInv'
    BY <1>1 DEF SendNoSession, Send, SendDeaf, GuildTypeOK, WaiterInv, WaiterIsOwed
  <2>3. Leaves
    BY <1>1 DEF SendNoSession, Send, SendDeaf, GuildTypeOK, Leaves, busVars
  <2>4. NewsIsSo
    BY <1>1 DEF SendNoSession, Send, SendDeaf, GuildTypeOK, NewsIsSo, IsSo, busVars
  <2> QED
    BY <1>1, <2>1, <2>2, <2>3, <2>4, CallerKeeps DEF SendNoSession, Send, SendDeaf
<1>2. CASE Publish(r)
  <2>1. acks' \subseteq acks \cup {Ack(r, "WRONG_GUILD")}
    BY <1>2 DEF Publish, Acks
  <2>2. GuildTypeOK'
    BY <1>2, <2>1 DEF Publish, Ack, Terminal, GuildTypeOK, queueVars, guildVars
  <2>3. WaiterInv'
    BY <1>2 DEF Publish, GuildTypeOK, WaiterInv, WaiterIsOwed
  <2>4. Leaves
    BY <1>2 DEF Publish, GuildTypeOK, Leaves
  <2>5. NewsIsSo
    BY <1>2, <2>1 DEF Publish, GuildTypeOK, NewsIsSo, IsSo, Ack
  <2> QED
    BY <1>2, <2>2, <2>3, <2>4, <2>5, CallerKeeps DEF Publish
<1>3. CASE PublishFails(r) \/ PublishReturns(r)
  <2>1. GuildTypeOK'
    BY <1>3 DEF PublishFails, PublishReturns, ForgetWaiter, GuildTypeOK, Verdict, busVars, queueVars, guildVars
  <2>2. WaiterInv'
    BY <1>3 DEF PublishFails, PublishReturns, Deaf, ForgetWaiter, GuildTypeOK, WaiterInv, WaiterIsOwed
  <2>3. Leaves
    BY <1>3 DEF PublishFails, PublishReturns, GuildTypeOK, Leaves, busVars
  <2>4. NewsIsSo
    BY <1>3 DEF PublishFails, PublishReturns, GuildTypeOK, NewsIsSo, IsSo, busVars
  <2> QED
    BY <1>3, <2>1, <2>2, <2>3, <2>4, CallerKeeps DEF PublishFails, PublishReturns
<1>4. CASE TimesOut(r)
  <2> DEFINE outcome == IF WasTyped(r) THEN "UNCONFIRMED" ELSE "TIMED_OUT"
  <2>1. outcome \in Verdict /\ IsSo(r, outcome)
    BY DEF WasTyped, Verdict, IsSo, AnswersInv
  <2>2. Settle(r, outcome) /\ UNCHANGED <<listening, outbox, queueVars, watches, guildVars>>
    BY <1>4 DEF TimesOut
  <2> QED
    BY <2>1, <2>2, SettleFacts
<1> QED
  BY <1>1, <1>2, <1>3, <1>4 DEF Sender, Advance

LEMMA HearAckKeeps ==
    ASSUME GuildInv, NEW ack \in acks, HearAck(ack)
    PROVE  GuildInv'
<1>1. ack.call \in Request /\ ack.outcome \in Terminal \cup {"TYPED"} /\ IsSo(ack.call, ack.outcome)
  BY DEF GuildInv, GuildTypeOK, AnswersInv
<1>2. UNCHANGED <<listening, outbox, queueVars, watches, guildVars>>
  BY DEF HearAck
<1>3. CASE ack.outcome \in Terminal
  <2>1. Settle(ack.call, ack.outcome)
    BY <1>3 DEF HearAck, Answered, Settles
  <2>2. ack.outcome \in Verdict
    BY <1>3 DEF Verdict
  <2> QED
    BY <1>1, <1>2, <2>1, <2>2, SettleFacts
<1>4. CASE ack.outcome \notin Terminal
  <2>1. /\ heardTyped' = heardTyped \cup {ack.call} /\ acks' = acks \ {ack}
        /\ UNCHANGED <<pc, waiting, verdict>>
    BY <1>4 DEF HearAck, Answered, Settles
  <2>2. fate[ack.call] = "sent"
    BY <1>1, <1>4 DEF IsSo
  <2>3. GuildTypeOK'
    BY <1>1, <1>2, <2>1 DEF GuildInv, GuildTypeOK, queueVars, guildVars
  <2>4. WaiterInv' /\ Leaves
    BY <1>2, <2>1 DEF GuildInv, WaiterInv, WaiterIsOwed, Leaves
  <2>5. NewsIsSo
    BY <1>2, <2>1, <2>2 DEF NewsIsSo, queueVars
  <2> QED
    BY <1>2, <2>3, <2>4, <2>5, CallerKeeps
<1> QED
  BY <1>3, <1>4

-----------------------------------------------------------------------------
(* The two orders: of the commands typed, and of the watches.              *)

\* vs is ws without one of its elements, the order kept.
Without(vs, ws) ==
    /\ Len(vs) \in Nat /\ Len(ws) \in Nat /\ Len(vs) = Len(ws) - 1
    /\ \E p \in 1..Len(ws) :
          \A i \in 1..Len(vs) : vs[i] = IF i < p THEN ws[i] ELSE ws[i + 1]

LEMMA OneRemoved ==
    ASSUME NEW S, NEW q \in Seq(S), NEW p \in 1..Len(q)
    PROVE  /\ RemoveAt(q, p) \in Seq(S)
           /\ Len(RemoveAt(q, p)) = Len(q) - 1
           /\ \A i \in 1..(Len(q) - 1) :
                 RemoveAt(q, p)[i] = IF i < p THEN q[i] ELSE q[i + 1]
<1> DEFINE n == Len(q)
           front == SubSeq(q, 1, p - 1)
           back == SubSeq(q, p + 1, n)
<1>0. n \in Nat /\ p \in 1..n
  OBVIOUS
<1>1. /\ front \in Seq(S) /\ Len(front) = p - 1
      /\ \A i \in 1..(p - 1) : front[i] = q[i]
  BY SubSeqProperties
<1>2. /\ back \in Seq(S) /\ Len(back) = Len(q) - p
      /\ \A i \in 1..(Len(q) - p) : back[i] = q[p + i]
  <2>1. p + 1 \in Int /\ n \in Int /\ \A i \in (p + 1)..n : q[i] \in S
    OBVIOUS
  <2>2. /\ back \in Seq(S)
        /\ Len(back) = IF p + 1 <= n THEN n - (p + 1) + 1 ELSE 0
        /\ \A i \in 1..(n - (p + 1) + 1) : back[i] = q[(p + 1) + i - 1]
    BY <2>1, SubSeqProperties
  <2> HIDE DEF n, back
  <2>3. Len(back) = n - p
    BY <1>0, <2>2
  <2>4. \A i \in 1..(n - p) : back[i] = q[p + i]
    <3>1. SUFFICES ASSUME NEW i \in 1..(n - p) PROVE back[i] = q[p + i]
      OBVIOUS
    <3>2. i \in 1..(n - (p + 1) + 1) /\ (p + 1) + i - 1 = p + i
      BY <1>0
    <3> QED
      BY <2>2, <3>2
  <2> QED
    BY <2>2, <2>3, <2>4 DEF n
<1>3. RemoveAt(q, p) = front \o back
  BY DEF RemoveAt
<1> HIDE DEF front, back
<1>4. /\ front \o back \in Seq(S) /\ Len(front \o back) = Len(front) + Len(back)
      /\ \A i \in 1..(Len(front) + Len(back)) :
            (front \o back)[i] = IF i <= Len(front) THEN front[i] ELSE back[i - Len(front)]
  BY <1>1, <1>2, ConcatProperties
<1>5. \A i \in 1..(p - 1) : (front \o back)[i] = q[i]
  BY <1>1, <1>2, <1>4
<1>6. ASSUME NEW i \in 1..(Len(q) - 1), i >= p
      PROVE  (front \o back)[i] = q[i + 1]
  <2>1. i - (p - 1) \in 1..(Len(q) - p) /\ p + (i - (p - 1)) = i + 1
    BY <1>6
  <2>2. back[i - (p - 1)] = q[p + (i - (p - 1))]
    BY <1>2, <2>1
  <2>3. (front \o back)[i] = back[i - (p - 1)]
    BY <1>1, <1>2, <1>4, <1>6
  <2> QED
    BY <2>1, <2>2, <2>3
<1>7. Len(front) + Len(back) = Len(q) - 1
  BY <1>1, <1>2
<1> QED
  BY <1>3, <1>4, <1>5, <1>6, <1>7

LEMMA RemovedIsWithout ==
    ASSUME NEW S, NEW q \in Seq(S), NEW p \in 1..Len(q)
    PROVE  RemoveAt(q, p) \in Seq(S) /\ Without(RemoveAt(q, p), q)
<1> DEFINE r == RemoveAt(q, p)
<1>1. /\ r \in Seq(S) /\ Len(r) = Len(q) - 1
      /\ \A i \in 1..(Len(q) - 1) : r[i] = IF i < p THEN q[i] ELSE q[i + 1]
  BY OneRemoved
<1>2. Len(q) \in Nat /\ Len(r) \in Nat
  BY <1>1, LenProperties
<1> HIDE DEF r
<1>3. Without(r, q)
  BY <1>1, <1>2 DEF Without
<1> QED
  BY <1>1, <1>3 DEF r

LEMMA TailIsWithout ==
    ASSUME NEW S, NEW q \in Seq(S), q # <<>>
    PROVE  /\ Tail(q) \in Seq(S) /\ Without(Tail(q), q)
           /\ 1 \in 1..Len(q) /\ Head(q) = q[1]
           /\ \A i \in 1..Len(Tail(q)) : i + 1 \in 1..Len(q) /\ Tail(q)[i] = q[i + 1]
<1>1. /\ Tail(q) \in Seq(S) /\ Len(Tail(q)) = Len(q) - 1
      /\ \A i \in 1..Len(Tail(q)) : Tail(q)[i] = q[i + 1]
  BY HeadTailProperties
<1>2. Len(q) \in Nat \ {0} /\ Head(q) = q[1]
  BY EmptySeq
<1>3. Without(Tail(q), q)
  <2>1. \A i \in 1..Len(Tail(q)) : Tail(q)[i] = IF i < 1 THEN q[i] ELSE q[i + 1]
    BY <1>1
  <2> QED
    BY <1>1, <1>2, <2>1 DEF Without
<1>4. \A i \in 1..Len(Tail(q)) : i + 1 \in 1..Len(q)
  BY <1>1, <1>2
<1> QED
  BY <1>1, <1>2, <1>3, <1>4

\* What is left stands in the order it had, at places of the whole.
LEMMA WithoutKeepsOrder ==
    ASSUME NEW vs, NEW ws, Without(vs, ws)
    PROVE  \E at \in [1..Len(vs) -> 1..Len(ws)] :
              /\ \A i \in 1..Len(vs) : vs[i] = ws[at[i]]
              /\ \A i, j \in 1..Len(vs) : i < j <=> at[i] < at[j]
<1>1. PICK p \in 1..Len(ws) :
         \A i \in 1..Len(vs) : vs[i] = IF i < p THEN ws[i] ELSE ws[i + 1]
  BY DEF Without
<1>2. Len(vs) \in Nat /\ Len(ws) \in Nat /\ Len(vs) = Len(ws) - 1
  BY DEF Without
<1> DEFINE at == [i \in 1..Len(vs) |-> IF i < p THEN i ELSE i + 1]
<1>3. \A i \in 1..Len(vs) : at[i] = IF i < p THEN i ELSE i + 1
  OBVIOUS
<1>4. at \in [1..Len(vs) -> 1..Len(ws)]
  BY <1>2
<1> HIDE DEF at
<1>5. \A i \in 1..Len(vs) : vs[i] = ws[at[i]]
  BY <1>1, <1>3
<1>6. \A i, j \in 1..Len(vs) : i < j <=> at[i] < at[j]
  BY <1>2, <1>3
<1> QED
  BY <1>4, <1>5, <1>6

LEMMA InStepWithout ==
    ASSUME NEW ws, NEW ts, NEW vs, NEW us, InStep(ws, ts), TypedOnce(ts),
           vs = ws \/ Without(vs, ws), us = ts \/ Without(us, ts)
    PROVE  InStep(vs, us) /\ TypedOnce(us)
<1>1. InStep(vs, ts)
  <2>1. CASE vs = ws
    BY <2>1
  <2>2. CASE Without(vs, ws)
    <3>1. PICK at \in [1..Len(vs) -> 1..Len(ws)] :
             /\ \A i \in 1..Len(vs) : vs[i] = ws[at[i]]
             /\ \A i, j \in 1..Len(vs) : i < j <=> at[i] < at[j]
      BY <2>2, WithoutKeepsOrder
    <3> SUFFICES ASSUME NEW i \in 1..Len(vs), NEW j \in 1..Len(vs),
                        NEW k \in 1..Len(ts), NEW l \in 1..Len(ts),
                        i < j, ts[k] = vs[i], ts[l] = vs[j]
                 PROVE  k < l
      BY DEF InStep
    <3>2. at[i] < at[j] /\ at[i] \in 1..Len(ws) /\ at[j] \in 1..Len(ws)
          /\ ts[k] = ws[at[i]] /\ ts[l] = ws[at[j]]
      BY <3>1
    <3> QED
      BY <3>2 DEF InStep
  <2> QED
    BY <2>1, <2>2
<1>2. CASE us = ts
  BY <1>1, <1>2
<1>3. CASE Without(us, ts)
  <2>1. PICK at \in [1..Len(us) -> 1..Len(ts)] :
           /\ \A i \in 1..Len(us) : us[i] = ts[at[i]]
           /\ \A i, j \in 1..Len(us) : i < j <=> at[i] < at[j]
    BY <1>3, WithoutKeepsOrder
  <2>2. InStep(vs, us)
    <3> SUFFICES ASSUME NEW i \in 1..Len(vs), NEW j \in 1..Len(vs),
                        NEW k \in 1..Len(us), NEW l \in 1..Len(us),
                        i < j, us[k] = vs[i], us[l] = vs[j]
                 PROVE  k < l
      BY DEF InStep
    <3>1. at[k] \in 1..Len(ts) /\ at[l] \in 1..Len(ts) /\ ts[at[k]] = vs[i] /\ ts[at[l]] = vs[j]
      BY <2>1
    <3>2. at[k] < at[l]
      BY <1>1, <3>1 DEF InStep
    <3> QED
      BY <2>1, <3>2
  <2>3. TypedOnce(us)
    <3> SUFFICES ASSUME NEW k \in 1..Len(us), NEW l \in 1..Len(us), us[k] = us[l] PROVE k = l
      BY DEF TypedOnce
    <3>1. at[k] \in 1..Len(ts) /\ at[l] \in 1..Len(ts) /\ ts[at[k]] = ts[at[l]]
      BY <2>1
    <3>2. at[k] = at[l]
      BY <3>1 DEF TypedOnce
    <3>3. ~(k < l) /\ ~(l < k)
      BY <2>1, <3>1, <3>2
    <3> QED
      BY <3>3
  <2> QED
    BY <2>2, <2>3
<1> QED
  BY <1>2, <1>3

-----------------------------------------------------------------------------
(* The bridge and the guild: they touch nothing of the asking process.     *)

LEMMA AckAdded ==
    ASSUME NEW r, NEW outcome, Acks(r, outcome)
    PROVE  \A ack \in acks' : ack \in acks \/ (ack = Ack(r, outcome) /\ r \in waiting)
  BY DEF Acks

LEMMA OutsideKeeps ==
    ASSUME GuildInv, UNCHANGED callVars, GuildTypeOK', FateMoves, outbox' \subseteq outbox,
           noticed \subseteq noticed', \A ack \in acks' : ack \in acks \/ IsSo(ack.call, ack.outcome)',
           WatchInv', OrderInv'
    PROVE  GuildInv'
<1>1. Moves
  BY DEF Moves, Leaves, callVars
<1>2. \A r \in Request : verdict'[r] = verdict[r]
  BY DEF callVars
<1>3. heardTyped' = heardTyped
  BY DEF callVars
<1>4. NewsIsSo
  BY <1>2, <1>3 DEF NewsIsSo
<1>5. OutboxInv' /\ AnswersInv'
  BY <1>1, <1>4, AnswersStay DEF GuildInv
<1>6. WaiterInv'
  BY DEF GuildInv, WaiterInv, WaiterIsOwed, callVars
<1> QED
  BY <1>5, <1>6 DEF GuildInv

\* Steps of the queue that type nothing.
LEMMA QuietBridgeKeeps ==
    ASSUME GuildInv, UNCHANGED <<callVars, watches, guildVars>>, outbox' \subseteq outbox,
           fate' \in [Command -> Fates], FateMoves,
           acks' \subseteq acks \cup [call : Request, outcome : Terminal],
           \A ack \in acks' : ack \in acks \/ IsSo(ack.call, ack.outcome)'
    PROVE  GuildInv'
<1>1. GuildTypeOK'
  BY DEF GuildInv, GuildTypeOK, callVars, guildVars, Fates
<1>2. WatchInv'
  <2>1. \A c \in Command : fate[c] = "sent" => fate'[c] = "sent"
    BY DEF FateMoves
  <2>2. (\A i \in 1..Len(watches) : watches[i] \in Command) /\ \A k \in 1..Len(typed) : typed[k] \in Command
    BY RequestIsCommand, ElementOfSeq DEF GuildInv, GuildTypeOK
  <2> QED
    BY <2>1, <2>2 DEF GuildInv, WatchInv, guildVars
<1>3. OrderInv'
  BY DEF GuildInv, OrderInv, InStep, TypedOnce, guildVars
<1> QED
  BY <1>1, <1>2, <1>3, OutsideKeeps DEF guildVars

LEMMA ArrivalKeeps ==
    ASSUME GuildInv, NEW r \in Request,
           ArriveWithoutSink(r) \/ ArriveUnresolved(r) \/ ArriveQueued(r) \/ ArriveRefused(r)
    PROVE  GuildInv'
<1>1. fate \in [Command -> Fates] /\ r \in Command
  BY RequestIsCommand DEF GuildInv, GuildTypeOK, Fates
<1>2. /\ r \in outbox /\ outbox' = outbox \ {r} /\ fate[r] = "new" /\ pc[r] \notin {"idle", "publish"}
  BY DEF GuildInv, OutboxInv, Arrives, ArriveWithoutSink, ArriveUnresolved, ArriveQueued, ArriveRefused
<1>3. UNCHANGED <<callVars, watches, guildVars>>
  BY DEF ArriveWithoutSink, ArriveUnresolved, ArriveQueued, ArriveRefused
<1>4. CASE ArriveWithoutSink(r)
  <2>1. fate' = fate /\ FateMoves
    BY <1>4 DEF ArriveWithoutSink, queueVars, FateMoves
  <2>2. \A ack \in acks' : ack \in acks \/ ack = Ack(r, "EXPIRED")
    BY <1>4, AckAdded DEF ArriveWithoutSink
  <2>3. IsSo(r, "EXPIRED")'
    BY <1>2, <1>3, <2>1 DEF IsSo, NeverTyped, callVars
  <2>4. Ack(r, "EXPIRED") \in [call : Request, outcome : Terminal]
        /\ Ack(r, "EXPIRED").call = r /\ Ack(r, "EXPIRED").outcome = "EXPIRED"
    BY DEF Ack, Terminal
  <2>5. \A ack \in acks' : ack \in acks \/ IsSo(ack.call, ack.outcome)'
    BY <2>2, <2>3, <2>4
  <2> QED
    BY <1>1, <1>2, <1>3, <2>1, <2>2, <2>4, <2>5, QuietBridgeKeeps
<1>5. CASE ArriveUnresolved(r)
  <2>1. fate' = fate /\ FateMoves
    BY <1>5 DEF ArriveUnresolved, queueVars, FateMoves
  <2>2. \A ack \in acks' : ack \in acks \/ ack = Ack(r, "WRONG_GUILD")
    BY <1>5, AckAdded DEF ArriveUnresolved
  <2>4. Ack(r, "WRONG_GUILD") \in [call : Request, outcome : Terminal]
        /\ Ack(r, "WRONG_GUILD").call = r /\ Ack(r, "WRONG_GUILD").outcome = "WRONG_GUILD"
    BY DEF Ack, Terminal
  <2>5. \A ack \in acks' : ack \in acks \/ IsSo(ack.call, ack.outcome)'
    BY <2>2, <2>4 DEF IsSo
  <2> QED
    BY <1>1, <1>2, <1>3, <2>1, <2>2, <2>4, <2>5, QuietBridgeKeeps
<1>6. CASE ArriveQueued(r)
  <2>1. fate' = [fate EXCEPT ![r] = "waiting"] /\ acks' = acks
    BY <1>1, <1>6, GuildQueue DEF ArriveQueued
  <2>2. fate' \in [Command -> Fates] /\ FateMoves
    BY <1>1, <1>2, <2>1, RequestIsCommand DEF FateMoves, Fates
  <2> QED
    BY <1>2, <1>3, <2>1, <2>2, QuietBridgeKeeps
<1>7. CASE ArriveRefused(r)
  <2>1. fate' = [fate EXCEPT ![r] = "refused"]
    BY <1>1, <1>7, GuildQueue DEF ArriveRefused
  <2>2. fate' \in [Command -> Fates] /\ FateMoves
    BY <1>1, <1>2, <2>1, RequestIsCommand DEF FateMoves, Fates
  <2>3. \A ack \in acks' : ack \in acks \/ ack = Ack(r, "REFUSED_BACKLOG")
    BY <1>7, AckAdded DEF ArriveRefused
  <2>4. Ack(r, "REFUSED_BACKLOG") \in [call : Request, outcome : Terminal]
        /\ Ack(r, "REFUSED_BACKLOG").call = r /\ Ack(r, "REFUSED_BACKLOG").outcome = "REFUSED_BACKLOG"
    BY DEF Ack, Terminal
  <2>5. IsSo(r, "REFUSED_BACKLOG")'
    BY <1>1, <2>1 DEF IsSo, NeverTyped
  <2>6. \A ack \in acks' : ack \in acks \/ IsSo(ack.call, ack.outcome)'
    BY <2>3, <2>4, <2>5
  <2> QED
    BY <1>2, <1>3, <2>2, <2>3, <2>4, <2>6, QuietBridgeKeeps
<1> QED
  BY <1>4, <1>5, <1>6, <1>7

LEMMA GivenUp ==
    ASSUME NEW c \in Command, Expired(c), fate'[c] = "discarded"
    PROVE  /\ acks' \subseteq acks \cup [call : Request, outcome : Terminal]
           /\ \A ack \in acks' : ack \in acks \/ IsSo(ack.call, ack.outcome)'
<1>1. CASE c \in Request
  <2>1. \A ack \in acks' : ack \in acks \/ ack = Ack(c, "EXPIRED")
    BY <1>1, AckAdded DEF Expired
  <2>2. Ack(c, "EXPIRED") \in [call : Request, outcome : Terminal]
        /\ Ack(c, "EXPIRED").call = c /\ Ack(c, "EXPIRED").outcome = "EXPIRED"
    BY <1>1 DEF Ack, Terminal
  <2>3. IsSo(c, "EXPIRED")'
    BY DEF IsSo, NeverTyped
  <2> QED
    BY <2>1, <2>2, <2>3
<1>2. CASE c \notin Request
  BY <1>2 DEF Expired
<1> QED
  BY <1>1, <1>2

LEMMA QueueingKeeps ==
    ASSUME GuildInv,
           (\E c \in Staff : StaffCommand(c)) \/ (\E c \in Command : Discard(c)) \/ QueueTick
    PROVE  GuildInv'
<1>1. fate \in [Command -> Fates]
  BY DEF GuildInv, GuildTypeOK, Fates
<1>2. ASSUME NEW c \in Staff, StaffCommand(c)
      PROVE  GuildInv'
  <2>1. UNCHANGED <<callVars, outbox, watches, guildVars>> /\ c \in Command /\ c \notin Request
    BY <1>2, RequestIsCommand DEF StaffCommand
  <2>2. CASE (Queue!Accept(c) \/ Queue!Refuse(c)) /\ UNCHANGED acks
    <3>1. fate[c] = "new" /\ \E f \in {"waiting", "refused"} : fate' = [fate EXCEPT ![c] = f]
      BY <1>1, <2>1, <2>2, GuildQueue
    <3>2. fate' \in [Command -> Fates] /\ FateMoves
      BY <1>1, <2>1, <3>1, RequestIsCommand DEF FateMoves, Fates
    <3> QED
      BY <2>1, <2>2, <3>2, QuietBridgeKeeps
  <2>3. ASSUME NEW v \in Command, Queue!AcceptInstead(c, v), Expired(v)
        PROVE  GuildInv'
    <3>1. /\ fate[c] = "new" /\ fate[v] = "waiting"
          /\ fate' = [fate EXCEPT ![c] = "waiting", ![v] = "discarded"]
      BY <1>1, <2>1, <2>3, GuildQueue
    <3>2. fate' \in [Command -> Fates] /\ FateMoves /\ fate'[v] = "discarded"
      BY <1>1, <2>1, <3>1, RequestIsCommand DEF FateMoves, Fates
    <3> QED
      BY <2>1, <2>3, <3>2, GivenUp, QuietBridgeKeeps
  <2> QED
    BY <1>2, <2>2, <2>3 DEF StaffCommand
<1>3. ASSUME NEW c \in Command, Discard(c)
      PROVE  GuildInv'
  <2>1. UNCHANGED <<callVars, outbox, watches, guildVars>> /\ Expired(c)
    BY <1>3 DEF Discard
  <2>2. fate[c] = "waiting" /\ fate' = [fate EXCEPT ![c] = "discarded"]
    BY <1>1, <1>3, GuildQueue DEF Discard
  <2>3. fate' \in [Command -> Fates] /\ FateMoves /\ fate'[c] = "discarded"
    BY <1>1, <2>2, RequestIsCommand DEF FateMoves, Fates
  <2> QED
    BY <2>1, <2>3, GivenUp, QuietBridgeKeeps
<1>4. CASE QueueTick
  <2>1. UNCHANGED <<callVars, busVars, watches, guildVars>> /\ fate' = fate
    BY <1>1, <1>4, GuildQueue DEF QueueTick
  <2> QED
    BY <1>1, <2>1, QuietBridgeKeeps DEF FateMoves, busVars
<1> QED
  BY <1>2, <1>3, <1>4

LEMMA TypingKeeps ==
    ASSUME GuildInv, NEW c \in Command,
           \/ c \in Request /\ TypeRequest(c)
           \/ c \in Staff /\ TypeStaff(c)
    PROVE  GuildInv'
<1>1. fate \in [Command -> Fates] /\ typed \in Seq(Command) /\ watches \in Seq(Request)
  BY DEF GuildInv, GuildTypeOK, Fates
<1>2. /\ UNCHANGED <<callVars, outbox, noticed>>
      /\ fate[c] = "waiting" /\ fate' = [fate EXCEPT ![c] = "sent"] /\ typed' = Append(typed, c)
  BY <1>1, GuildQueue DEF TypeRequest, TypeStaff, busVars
<1>3. \/ c \in Request /\ watches' = Append(watches, c)
      \/ c \notin Request /\ watches' = watches
  <2>1. CASE c \in Request /\ TypeRequest(c)
    BY <2>1 DEF TypeRequest
  <2>2. CASE c \in Staff /\ TypeStaff(c)
    BY <2>2, RequestIsCommand DEF TypeStaff
  <2> QED
    BY <2>1, <2>2
<1>4. fate' \in [Command -> Fates] /\ FateMoves
  BY <1>1, <1>2, RequestIsCommand DEF FateMoves, Fates
<1>5. /\ typed' \in Seq(Command) /\ Len(typed') = Len(typed) + 1 /\ typed'[Len(typed) + 1] = c
      /\ Len(typed) \in Nat /\ Len(watches) \in Nat
      /\ \A k \in 1..Len(typed) : typed'[k] = typed[k] /\ typed[k] \in Command
      /\ \A i \in 1..Len(watches) : watches[i] \in Command
  BY <1>1, <1>2, AppendProperties, LenProperties, ElementOfSeq, RequestIsCommand
<1>6. /\ watches' \in Seq(Request) /\ Len(watches') \in {Len(watches), Len(watches) + 1}
      /\ \A i \in 1..Len(watches) : watches'[i] = watches[i]
      /\ Len(watches') = Len(watches) + 1 => watches'[Len(watches) + 1] = c
  <2>1. CASE c \in Request /\ watches' = Append(watches, c)
    BY <1>1, <2>1, AppendProperties
  <2>2. CASE c \notin Request /\ watches' = watches
    BY <1>1, <1>5, <2>2
  <2> QED
    BY <1>3, <2>1, <2>2
<1>7. \A ack \in acks' : ack \in acks \/ (c \in Request /\ ack = Ack(c, "TYPED"))
  BY AckAdded DEF TypeRequest, TypeStaff, busVars
<1>8. c \in Request => /\ Ack(c, "TYPED") \in [call : Request, outcome : Terminal \cup {"TYPED"}]
                       /\ Ack(c, "TYPED").call = c /\ Ack(c, "TYPED").outcome = "TYPED"
  BY DEF Ack
<1>9. IsSo(c, "TYPED")'
  BY <1>1, <1>2 DEF IsSo
<1>10. \A ack \in acks' : ack \in acks \/ IsSo(ack.call, ack.outcome)'
  BY <1>7, <1>8, <1>9
<1>11. GuildTypeOK'
  BY <1>2, <1>4, <1>5, <1>6, <1>7, <1>8 DEF GuildInv, GuildTypeOK, callVars, Fates
<1>12. WatchInv'
  <2>1. \A d \in Command : fate'[d] = IF d = c THEN "sent" ELSE fate[d]
    BY <1>1, <1>2
  <2>2. \A i \in 1..Len(watches') : fate'[watches'[i]] = "sent"
    <3> SUFFICES ASSUME NEW i \in 1..Len(watches') PROVE fate'[watches'[i]] = "sent"
      OBVIOUS
    <3>1. CASE i \in 1..Len(watches)
      BY <1>5, <1>6, <2>1, <3>1 DEF GuildInv, WatchInv
    <3>2. CASE i \notin 1..Len(watches)
      BY <1>5, <1>6, <2>1, <3>2
    <3> QED
      BY <3>1, <3>2
  <2>3. \A k \in 1..Len(typed') : fate'[typed'[k]] = "sent"
    <3> SUFFICES ASSUME NEW k \in 1..Len(typed') PROVE fate'[typed'[k]] = "sent"
      OBVIOUS
    <3>1. CASE k \in 1..Len(typed)
      BY <1>5, <2>1, <3>1 DEF GuildInv, WatchInv
    <3>2. CASE k \notin 1..Len(typed)
      BY <1>5, <2>1, <3>2
    <3> QED
      BY <3>1, <3>2
  <2> QED
    BY <2>2, <2>3 DEF WatchInv
<1>13. \A k \in 1..Len(typed) : typed[k] # c
  BY <1>2 DEF GuildInv, WatchInv
<1>14. \A i \in 1..Len(watches) : watches[i] # c
  BY <1>2 DEF GuildInv, WatchInv
<1>15. InStep(watches', typed')
  <2> SUFFICES ASSUME NEW i \in 1..Len(watches'), NEW j \in 1..Len(watches'),
                      NEW k \in 1..Len(typed'), NEW l \in 1..Len(typed'),
                      i < j, typed'[k] = watches'[i], typed'[l] = watches'[j]
               PROVE  k < l
    BY DEF InStep
  <2>1. i \in 1..Len(watches) /\ watches'[i] = watches[i] /\ k \in 1..Len(typed) /\ typed'[k] = typed[k]
    BY <1>5, <1>6, <1>14
  <2>2. CASE l \in 1..Len(typed)
    <3>1. j \in 1..Len(watches) /\ watches'[j] = watches[j] /\ typed'[l] = typed[l]
      BY <1>5, <1>6, <1>13, <2>2
    <3> QED
      BY <2>1, <2>2, <3>1 DEF GuildInv, OrderInv, InStep
  <2>3. CASE l \notin 1..Len(typed)
    BY <1>5, <2>1, <2>3
  <2> QED
    BY <2>2, <2>3
<1>16. TypedOnce(typed')
  <2> SUFFICES ASSUME NEW k \in 1..Len(typed'), NEW l \in 1..Len(typed'), typed'[k] = typed'[l]
               PROVE  k = l
    BY DEF TypedOnce
  <2>1. CASE k \in 1..Len(typed) /\ l \in 1..Len(typed)
    BY <1>5, <2>1 DEF GuildInv, OrderInv, TypedOnce
  <2>2. CASE ~(k \in 1..Len(typed) /\ l \in 1..Len(typed))
    BY <1>5, <1>13, <2>2
  <2> QED
    BY <2>1, <2>2
<1> QED
  BY <1>2, <1>4, <1>10, <1>11, <1>12, <1>15, <1>16, OutsideKeeps DEF OrderInv

LEMMA ReadingKeeps ==
    ASSUME GuildInv, UNCHANGED <<callVars, outbox, queueVars>>,
           watches' \in Seq(Request), watches' = watches \/ Without(watches', watches),
           typed' \in Seq(Command), typed' = typed \/ Without(typed', typed),
           noticed \subseteq noticed', noticed' \subseteq Request,
           acks' \subseteq acks \cup [call : Request, outcome : Terminal],
           \A ack \in acks' : ack \in acks \/ IsSo(ack.call, ack.outcome)'
    PROVE  GuildInv'
<1>1. GuildTypeOK' /\ FateMoves
  BY DEF GuildInv, GuildTypeOK, FateMoves, callVars, queueVars
<1>2. OrderInv'
  BY InStepWithout DEF GuildInv, OrderInv
<1>3. WatchInv'
  <2>1. \A i \in 1..Len(watches') : fate'[watches'[i]] = "sent"
    <3>1. CASE Without(watches', watches)
      BY <3>1, WithoutKeepsOrder DEF GuildInv, WatchInv, queueVars
    <3> QED
      BY <3>1 DEF GuildInv, WatchInv, queueVars
  <2>2. \A k \in 1..Len(typed') : fate'[typed'[k]] = "sent"
    <3>1. CASE Without(typed', typed)
      BY <3>1, WithoutKeepsOrder DEF GuildInv, WatchInv, queueVars
    <3> QED
      BY <3>1 DEF GuildInv, WatchInv, queueVars
  <2> QED
    BY <2>1, <2>2 DEF WatchInv
<1> QED
  BY <1>1, <1>2, <1>3, OutsideKeeps

\* A notice is claimed by a command typed for it, and noticed with it.
LEMMA NoticeFacts ==
    ASSUME GuildInv, NEW notice \in Notice, ClaimNotice(notice) \/ Unclaimed(notice),
           noticed' = noticed \cup TypedFor(notice), fate' = fate
    PROVE  /\ watches' \in Seq(Request) /\ (watches' = watches \/ Without(watches', watches))
           /\ acks' \subseteq acks \cup [call : Request, outcome : Terminal]
           /\ \A ack \in acks' : ack \in acks \/ (ack.outcome = "CONFIRMED_INGAME" /\ IsSo(ack.call, ack.outcome)')
<1>1. watches \in Seq(Request)
  BY DEF GuildInv, GuildTypeOK
<1>2. CASE Unclaimed(notice)
  BY <1>1, <1>2 DEF Unclaimed
<1>3. CASE ClaimNotice(notice)
  <2>1. PICK i \in 1..Len(watches) :
           /\ Intent[watches[i]] = notice
           /\ Acks(watches[i], "CONFIRMED_INGAME")
           /\ watches' = RemoveAt(watches, i)
    BY <1>3 DEF ClaimNotice, IsFor
  <2>2. PICK r \in Request : r = watches[i] /\ fate[r] = "sent"
    BY <1>1, ElementOfSeq DEF GuildInv, WatchInv
  <2>3. fate'[r] = "sent" /\ r \in noticed'
    BY <2>1, <2>2 DEF TypedFor
  <2>4. watches' \in Seq(Request) /\ Without(watches', watches)
    BY <1>1, <2>1, RemovedIsWithout
  <2>5. \A ack \in acks' : ack \in acks \/ ack = Ack(r, "CONFIRMED_INGAME")
    BY <2>1, <2>2, AckAdded
  <2>6. Ack(r, "CONFIRMED_INGAME") \in [call : Request, outcome : Terminal]
        /\ Ack(r, "CONFIRMED_INGAME").call = r /\ Ack(r, "CONFIRMED_INGAME").outcome = "CONFIRMED_INGAME"
    BY <2>2 DEF Ack, Terminal
  <2>7. IsSo(r, "CONFIRMED_INGAME")'
    BY <2>3 DEF IsSo
  <2> QED
    BY <2>4, <2>5, <2>6, <2>7
<1> QED
  BY <1>2, <1>3

\* A refusal goes to the oldest watch.
LEMMA RefusedFacts ==
    ASSUME GuildInv, Refused
    PROVE  /\ watches' \in Seq(Request) /\ (watches' = watches \/ Without(watches', watches))
           /\ acks' \subseteq acks \cup [call : Request, outcome : Terminal]
           /\ \A ack \in acks' : \/ ack \in acks
                                 \/ /\ watches # <<>> /\ ack = Ack(watches[1], "REFUSED_INGAME")
                                    /\ 1 \in 1..Len(watches)
                                    /\ ack.outcome = "REFUSED_INGAME"
<1>1. watches \in Seq(Request)
  BY DEF GuildInv, GuildTypeOK
<1>2. CASE watches = <<>>
  BY <1>1, <1>2 DEF Refused
<1>3. CASE watches # <<>>
  <2>1. /\ Tail(watches) \in Seq(Request) /\ Without(Tail(watches), watches)
        /\ 1 \in 1..Len(watches) /\ Head(watches) = watches[1] /\ watches[1] \in Request
    BY <1>1, <1>3, TailIsWithout, ElementOfSeq
  <2>2. watches' = Tail(watches) /\ Acks(watches[1], "REFUSED_INGAME")
    BY <1>3, <2>1 DEF Refused
  <2>3. \A ack \in acks' : ack \in acks \/ ack = Ack(watches[1], "REFUSED_INGAME")
    BY <2>2, AckAdded
  <2>4. Ack(watches[1], "REFUSED_INGAME") \in [call : Request, outcome : Terminal]
        /\ Ack(watches[1], "REFUSED_INGAME").outcome = "REFUSED_INGAME"
    BY <2>1 DEF Ack, Terminal
  <2> QED
    BY <1>3, <2>1, <2>2, <2>3, <2>4
<1> QED
  BY <1>2, <1>3

LEMMA TypedGoes ==
    ASSUME GuildInv, typed # <<>>
    PROVE  /\ Tail(typed) \in Seq(Command) /\ Without(Tail(typed), typed)
           /\ 1 \in 1..Len(typed) /\ Head(typed) = typed[1]
           /\ \A i \in 1..Len(Tail(typed)) : i + 1 \in 1..Len(typed) /\ Tail(typed)[i] = typed[i + 1]
  BY TailIsWithout DEF GuildInv, GuildTypeOK

LEMMA GuildKeeps ==
    ASSUME GuildInv, Guild
    PROVE  GuildInv'
<1>1. watches \in Seq(Request) /\ typed \in Seq(Command) /\ noticed \subseteq Request
  BY DEF GuildInv, GuildTypeOK
<1>2. CASE GuildAnswers
  <2>1. UNCHANGED <<callVars, outbox, queueVars>> /\ typed # <<>> /\ typed' = Tail(typed)
    BY <1>2 DEF GuildAnswers
  <2>2. typed' \in Seq(Command) /\ Without(typed', typed)
    BY <2>1, TypedGoes
  <2>3. CASE Head(typed) \in Request /\ Announced(Head(typed))
    <3>1. Intent[Head(typed)] \in Notice
      BY <2>3, GuildAssumption
    <3>2. /\ watches' \in Seq(Request) /\ (watches' = watches \/ Without(watches', watches))
          /\ acks' \subseteq acks \cup [call : Request, outcome : Terminal]
          /\ \A ack \in acks' : ack \in acks \/ IsSo(ack.call, ack.outcome)'
      BY <2>1, <2>3, <3>1, NoticeFacts DEF Announced, queueVars
    <3>3. noticed \subseteq noticed' /\ noticed' \subseteq Request
      BY <1>1, <2>3 DEF Announced, TypedFor
    <3> QED
      BY <2>1, <2>2, <3>2, <3>3, ReadingKeeps
  <2>4. CASE Refused
    <3>1. /\ watches' \in Seq(Request) /\ (watches' = watches \/ Without(watches', watches))
          /\ acks' \subseteq acks \cup [call : Request, outcome : Terminal]
          /\ \A ack \in acks' : ack \in acks \/ ack.outcome = "REFUSED_INGAME"
      BY <2>4, RefusedFacts
    <3>2. \A ack \in acks' : ack \in acks \/ IsSo(ack.call, ack.outcome)'
      BY <3>1 DEF IsSo
    <3>3. noticed' = noticed
      BY <2>4 DEF Refused
    <3> QED
      BY <1>1, <2>1, <2>2, <3>1, <3>2, <3>3, ReadingKeeps
  <2>5. CASE Unrecognised
    <3>1. UNCHANGED <<acks, watches, noticed>>
      BY <2>5 DEF Unrecognised
    <3> QED
      BY <1>1, <2>1, <2>2, <3>1, ReadingKeeps
  <2> QED
    BY <1>2, <2>3, <2>4, <2>5 DEF GuildAnswers
<1>3. ASSUME NEW notice \in Notice, StafferActs(notice)
      PROVE  GuildInv'
  <2>1. /\ UNCHANGED <<callVars, outbox, queueVars, typed>>
        /\ noticed' = noticed \cup TypedFor(notice)
        /\ ClaimNotice(notice) \/ Unclaimed(notice)
    BY <1>3 DEF StafferActs
  <2>2. /\ watches' \in Seq(Request) /\ (watches' = watches \/ Without(watches', watches))
        /\ acks' \subseteq acks \cup [call : Request, outcome : Terminal]
        /\ \A ack \in acks' : ack \in acks \/ IsSo(ack.call, ack.outcome)'
    BY <2>1, NoticeFacts DEF queueVars
  <2>3. noticed' \subseteq Request
    BY <1>1, <2>1 DEF TypedFor
  <2> QED
    BY <1>1, <2>1, <2>2, <2>3, ReadingKeeps
<1> QED
  BY <1>2, <1>3 DEF Guild

LEMMA LapseKeeps ==
    ASSUME GuildInv, WatchLapses
    PROVE  GuildInv'
<1>1. watches \in Seq(Request) /\ typed \in Seq(Command) /\ noticed \subseteq Request
  BY DEF GuildInv, GuildTypeOK
<1>2. /\ UNCHANGED <<callVars, busVars, queueVars, guildVars>>
      /\ watches # <<>> /\ watches' = Tail(watches)
  BY DEF WatchLapses
<1>3. watches' \in Seq(Request) /\ Without(watches', watches)
  BY <1>1, <1>2, TailIsWithout
<1> QED
  BY <1>1, <1>2, <1>3, ReadingKeeps DEF busVars, guildVars

-----------------------------------------------------------------------------

LEMMA GuildInitially == GuildInit => GuildInv
<1> SUFFICES ASSUME GuildInit PROVE GuildInv
  OBVIOUS
<1>1. fate = [c \in Command |-> "new"]
  BY DEF GuildInit, Queue!Init
<1>2. watches = <<>> /\ typed = <<>> /\ Len(watches) = 0 /\ Len(typed) = 0
  BY DEF GuildInit
<1>3. GuildTypeOK
  BY <1>1, <1>2, EmptySeq DEF GuildInit, GuildTypeOK, Verdict
<1>4. OutboxInv /\ AnswersInv /\ WaiterInv
  BY <1>1, RequestIsCommand
     DEF GuildInit, OutboxInv, AnswersInv, IsSo, WaiterInv, WaiterIsOwed
<1>5. WatchInv /\ OrderInv
  BY <1>2 DEF WatchInv, OrderInv, InStep, TypedOnce
<1> QED
  BY <1>3, <1>4, <1>5 DEF GuildInv

LEMMA GuildStep ==
    ASSUME GuildInv, [GuildNext]_guildCommandVars
    PROVE  GuildInv'
<1>1. CASE UNCHANGED guildCommandVars
  <2>1. UNCHANGED <<callVars, busVars, queueVars, watches, guildVars>>
    BY <1>1 DEF guildCommandVars
  <2> QED
    BY <2>1
    DEF GuildInv, GuildTypeOK, OutboxInv, AnswersInv, IsSo, NeverTyped, WatchInv, WaiterInv,
        WaiterIsOwed, OrderInv, callVars, busVars, queueVars, guildVars
<1>2. CASE GuildNext
  <2>1. ASSUME NEW r \in Request, TypeRequest(r) PROVE GuildInv'
    BY <2>1, RequestIsCommand, TypingKeeps
  <2>2. ASSUME NEW c \in Staff, TypeStaff(c) PROVE GuildInv'
    BY <2>2, RequestIsCommand, TypingKeeps
  <2>3. ASSUME Bridge PROVE GuildInv'
    BY <2>1, <2>2, <2>3, ArrivalKeeps, QueueingKeeps, LapseKeeps DEF Bridge
  <2> QED
    BY <1>2, <2>3, SenderKeeps, HearAckKeeps, GuildKeeps DEF GuildNext
<1> QED
  BY <1>1, <1>2

\* Every variable of a guild command's way has its type, for any requests,
\* staff commands, notices and limits of the queue.
THEOREM GuildTypeCorrectness == GuildSpec => []GuildTypeOK
<1>1. GuildInv => GuildTypeOK
  BY DEF GuildInv
<1> QED
  BY <1>1, GuildInitially, GuildStep, PTL DEF GuildSpec

\* A case called confirmed was announced by the guild after its command was
\* typed: watches hold typed requests only, and a confirmation on the bus is as
\* true as a verdict.
THEOREM ConfirmedIsTrueAlways == GuildSpec => []ConfirmedIsTrue
<1>1. GuildInv => ConfirmedIsTrue
  BY DEF GuildInv, AnswersInv, IsSo, ConfirmedIsTrue
<1> QED
  BY <1>1, GuildInitially, GuildStep, PTL DEF GuildSpec

\* A command reported refused or expired is not typed, then or later, and one
\* reported as typed was.
THEOREM TypedIsTrueAlways == GuildSpec => []TypedIsTrue
<1>1. GuildInv => TypedIsTrue
  BY DEF GuildInv, AnswersInv, IsSo, NeverTyped, TypedIsTrue
<1> QED
  BY <1>1, GuildInitially, GuildStep, PTL DEF GuildSpec

\* A send that waits has its waiter, and one that returned has none.
THEOREM WaiterIsOwedAlways == GuildSpec => []WaiterIsOwed
<1>1. GuildInv => WaiterIsOwed
  BY DEF GuildInv, WaiterInv
<1> QED
  BY <1>1, GuildInitially, GuildStep, PTL DEF GuildSpec

\* Nobody but the guild refuses in game: every other answer is another one.
LEMMA RefusedByGuild ==
    ASSUME GuildInv, GuildNext, NEW r \in Request, Ack(r, "REFUSED_INGAME") \in acks' \ acks
    PROVE  GuildAnswers /\ Refused
<1>1. \A q, outcome : Acks(q, outcome) => outcome = "REFUSED_INGAME"
  BY AckAdded DEF Ack
<1>2. ~ \E q \in Request : Sender(q)
  BY <1>1 DEF Sender, Advance, SendNoSession, Send, SendDeaf, Publish, PublishFails, PublishReturns,
              TimesOut, Settle, Unheard, busVars
<1>3. ~ \E ack \in acks : HearAck(ack)
  BY DEF HearAck, Settle, Unheard
<1>4. ~Bridge
  BY <1>1 DEF Bridge, ArriveWithoutSink, ArriveUnresolved, ArriveQueued, ArriveRefused, TypeRequest,
              StaffCommand, TypeStaff, Discard, Expired, QueueTick, WatchLapses, busVars
<1>5. \A notice : ~ClaimNotice(notice) /\ ~Unclaimed(notice)
  BY <1>1 DEF ClaimNotice, Unclaimed
<1> QED
  BY <1>2, <1>3, <1>4, <1>5
  DEF GuildNext, Guild, GuildAnswers, StafferActs, Announced, Unrecognised

\* The oldest watch is for the command Hypixel deals with, if any watch is, or
\* for none it has yet to deal with.
LEMMA RefusalStep ==
    ASSUME GuildInv, [GuildNext]_guildCommandVars
    PROVE  \A r \in Request :
              /\ Ack(r, "REFUSED_INGAME") \in acks' \ acks
              /\ \E i \in 1..Len(typed') : typed'[i] = r
              => \A i \in 1..Len(watches) : watches[i] # Head(typed)
<1> SUFFICES ASSUME NEW r \in Request, Ack(r, "REFUSED_INGAME") \in acks' \ acks,
                    NEW k \in 1..Len(typed'), typed'[k] = r,
                    NEW i \in 1..Len(watches), watches[i] = Head(typed)
             PROVE  FALSE
  OBVIOUS
<1>1. GuildAnswers /\ Refused
  BY RefusedByGuild DEF guildCommandVars, busVars
<1>2. 1 \in 1..Len(watches) /\ watches[1] = r
  BY <1>1, RefusedFacts DEF Ack
<1>3. /\ 1 \in 1..Len(typed) /\ k + 1 \in 1..Len(typed) /\ typed[k + 1] = r
      /\ watches[i] = typed[1] /\ k \in Nat \ {0}
  BY <1>1, TypedGoes DEF GuildAnswers
<1>4. CASE i = 1
  BY <1>2, <1>3, <1>4 DEF GuildInv, OrderInv, TypedOnce
<1>5. CASE i # 1
  <2>1. 1 < i
    BY <1>5
  <2>2. k + 1 < 1
    BY <1>2, <1>3, <2>1 DEF GuildInv, OrderInv, InStep
  <2> QED
    BY <1>3, <2>2
<1> QED
  BY <1>4, <1>5

\* A refusal falls on a command not dealt with only if nobody watches for the
\* one it was meant for: watches and commands stand in one order, each typed
\* once, and only the guild's own refusal says so.
THEOREM RefusalIsNotEarlyAlways == GuildSpec => RefusalIsNotEarly
<1> QED
  BY GuildInitially, GuildStep, RefusalStep, PTL DEF GuildSpec, RefusalIsNotEarly

-----------------------------------------------------------------------------
(* SafetyLockdown                                                          *)

Calls == [at : {"free", "lock", "unlock"}, scope : Scope, todo : SUBSET Channel, listed : SUBSET Channel]

\* Only the bot's own doing is on a list: what staff shut by hand is neither
\* recorded, nor about to be, nor about to be opened.
HandsOff ==
    \A c \in Channel :
        shut[c] = "hand" =>
            /\ c \notin posture.channels
            /\ \A a \in Task : c \notin task[a].listed /\ (task[a].at = "unlock" => c \notin task[a].todo)

\* No lockdown is no list, a call that is not locking lists nothing, and one
\* that is has a scope.
ListInv ==
    /\ posture.scope = "NONE" => posture = NoLockdown
    /\ \A a \in Task : task[a].at = "free" => task[a] = Free
    /\ \A a \in Task : task[a].at # "lock" => task[a].listed = {}
    /\ \A a \in Task : task[a].at = "lock" => task[a].scope # "NONE"

\* One call at a time; a lockdown lists at least what the record does, and a
\* lift has still to open all that the record names and the bot holds shut.
OneAtATime ==
    /\ \A a, b \in Task : task[a] # Free /\ task[b] # Free => a = b
    /\ \A a \in Task : task[a].at = "lock" => posture.channels \subseteq task[a].listed
    /\ \A a \in Task : task[a].at = "unlock" =>
          \A c \in Channel : shut[c] = "bot" => c \in task[a].todo

SafetyInv ==
    /\ SafetyTypeOK /\ HandsOff /\ ListInv
    /\ mishaps = {} => OneAtATime
    /\ EveryShutIsListed

LEMMA TypeFacts ==
    ASSUME SafetyTypeOK
    PROVE  /\ shut \in [Channel -> {"open", "bot", "hand"}]
           /\ task \in [Task -> Calls]
           /\ posture.scope \in Scope /\ posture.elapsed \in BOOLEAN /\ posture.channels \subseteq Channel
           /\ mishaps \subseteq Mishap
           /\ begun \in 0..MaxCalls
  BY DEF SafetyTypeOK, Calls

LEMMA FreeFacts ==
    /\ Free \in Calls /\ Free.at = "free" /\ Free.listed = {} /\ Free.todo = {}
    /\ NoLockdown.channels = {} /\ NoLockdown.scope = "NONE"
    /\ NoLockdown \in [scope : Scope, elapsed : BOOLEAN, channels : SUBSET Channel]
  BY DEF Free, Doing, Calls, NoLockdown, Scope

LEMMA SafetyInitially == SafetyInit => SafetyInv
<1> SUFFICES ASSUME SafetyInit PROVE SafetyInv
  OBVIOUS
<1>1. \A a \in Task : task[a] = Free
  BY DEF SafetyInit
<1>2. SafetyTypeOK
  <2>1. task \in [Task -> Calls]
    BY FreeFacts DEF SafetyInit
  <2> QED
    BY <2>1, FreeFacts, SafetyAssumption DEF SafetyInit, SafetyTypeOK, Calls
<1>3. HandsOff /\ EveryShutIsListed
  BY DEF SafetyInit, HandsOff, EveryShutIsListed
<1>4. ListInv /\ OneAtATime
  BY <1>1, FreeFacts DEF SafetyInit, ListInv, OneAtATime
<1> QED
  BY <1>2, <1>3, <1>4 DEF SafetyInv

\* A call that has begun, or goes on.
LEMMA CallStep ==
    ASSUME SafetyInv, NEW a \in Task, NEW new \in Calls,
           Becomes(a, new)
    PROVE  /\ task' \in [Task -> Calls] /\ task'[a] = new
           /\ \A b \in Task \ {a} : task'[b] = task[b]
  BY TypeFacts DEF SafetyInv, Becomes

LEMMA LockKeepsInv ==
    ASSUME SafetyInv, NEW a \in Task, NEW scope \in {"CHANNEL", "SERVER"}, NEW targets \in SUBSET Channel,
           Lock(a, scope, targets)
    PROVE  SafetyInv'
<1> DEFINE new == Doing("lock", scope, targets, Inherited(scope))
<1>1. /\ task[a] = Free /\ begun < MaxCalls /\ begun' = begun + 1
      /\ ~Live \/ Escalates(scope)
      /\ Becomes(a, new)
      /\ mishaps' = mishaps \cup ({m \in {"overlap"} : Overlaps} \cup {m \in {"replaced"} : posture.elapsed})
      /\ UNCHANGED <<shut, posture>>
  BY DEF Lock, Begins, Suffers
<1>2. SafetyTypeOK /\ HandsOff /\ ListInv
  BY DEF SafetyInv
<1>3. new \in Calls /\ new.at = "lock" /\ new.scope = scope /\ new.listed = Inherited(scope) /\ new.todo = targets
  BY <1>2, TypeFacts DEF Doing, Calls, Scope, Inherited
<1> HIDE DEF new
<1>4. /\ task' \in [Task -> Calls] /\ task'[a] = new
      /\ \A b \in Task \ {a} : task'[b] = task[b]
  BY <1>1, <1>3, CallStep
<1>5. SafetyTypeOK'
  <2>1. begun' \in 0..MaxCalls /\ mishaps' \subseteq Mishap
    BY <1>1, <1>2, TypeFacts, SafetyAssumption DEF Mishap
  <2> QED
    BY <1>1, <1>2, <1>4, <2>1 DEF SafetyTypeOK, Calls
<1>6. Inherited(scope) \subseteq posture.channels
  BY DEF Inherited
<1>7. HandsOff'
  BY <1>1, <1>2, <1>3, <1>4, <1>6 DEF HandsOff
<1>8. ListInv'
  BY <1>1, <1>2, <1>3, <1>4 DEF ListInv
<1>9. ASSUME mishaps' = {}
      PROVE  OneAtATime' /\ mishaps = {}
  <2>1. mishaps = {} /\ ~Overlaps /\ ~posture.elapsed
    BY <1>1, <1>9
  <2>2. \A b \in Task : task[b] = Free
    BY <2>1 DEF Overlaps
  <2>3. posture.channels \subseteq Inherited(scope)
    <3>1. CASE ~Live
      <4>1. posture = NoLockdown
        BY <1>2, <2>1, <3>1 DEF Live, ListInv
      <4> QED
        BY <4>1, FreeFacts
    <3>2. CASE Escalates(scope)
      BY <3>2 DEF Inherited
    <3> QED
      BY <1>1, <3>1, <3>2
  <2> QED
    BY <1>1, <1>3, <1>4, <2>1, <2>2, <2>3, FreeFacts DEF OneAtATime
<1>10. EveryShutIsListed'
  <2>1. \A b \in Task : task[b].listed \subseteq task'[b].listed
    BY <1>1, <1>4, FreeFacts
  <2> QED
    BY <1>1, <1>9, <2>1 DEF SafetyInv, EveryShutIsListed
<1> QED
  BY <1>5, <1>7, <1>8, <1>9, <1>10 DEF SafetyInv

LEMMA LockChannelKeepsInv ==
    ASSUME SafetyInv, NEW a \in Task, NEW c \in Channel, LockChannel(a, c) \/ LockChannelFails(a, c)
    PROVE  SafetyInv'
<1> DEFINE listed == IF LockChannel(a, c) THEN ListedIfChanged(a, c) ELSE task[a].listed
           new == Doing("lock", task[a].scope, task[a].todo \ {c}, listed)
<1>1. SafetyTypeOK /\ HandsOff /\ ListInv
  BY DEF SafetyInv
<1>2. /\ task[a].at = "lock" /\ task[a] \in Calls
      /\ UNCHANGED <<posture, begun, mishaps>>
  BY <1>1, TypeFacts DEF LockChannel, LockChannelFails
<1>3. Becomes(a, new)
  <2>1. CASE LockChannel(a, c)
    BY <1>2, <2>1 DEF LockChannel, Becomes, Doing, Calls
  <2>2. CASE ~LockChannel(a, c)
    BY <1>2, <2>2 DEF LockChannelFails, Becomes, Doing, Calls
  <2> QED
    BY <2>1, <2>2
<1>4. /\ task[a].listed \subseteq listed /\ listed \subseteq task[a].listed \cup {c}
      /\ c \in listed \ task[a].listed => shut[c] = "open" /\ shut'[c] = "bot"
      /\ shut'[c] = "bot" => shut[c] = "bot" \/ c \in listed
      /\ shut'[c] = "hand" <=> shut[c] = "hand"
      /\ \A d \in Channel \ {c} : shut'[d] = shut[d]
      /\ shut' \in [Channel -> {"open", "bot", "hand"}]
  BY <1>1, TypeFacts DEF LockChannel, LockChannelFails, ListedIfChanged
<1>5. new \in Calls /\ new.at = "lock" /\ new.listed = listed /\ new.scope = task[a].scope
  BY <1>2, <1>4 DEF Doing, Calls
<1> HIDE DEF new, listed
<1>6. /\ task' \in [Task -> Calls] /\ task'[a] = new
      /\ \A b \in Task \ {a} : task'[b] = task[b]
  BY <1>3, <1>5, CallStep
<1>7. SafetyTypeOK'
  BY <1>1, <1>2, <1>4, <1>6 DEF SafetyTypeOK, Calls
<1>8. HandsOff'
  BY <1>1, <1>2, <1>4, <1>5, <1>6 DEF HandsOff
<1>9. ListInv'
  BY <1>1, <1>2, <1>5, <1>6 DEF ListInv
<1>10. ASSUME mishaps = {}
       PROVE  OneAtATime'
  <2>1. \A b \in Task : task[b] # Free => a = b
    BY <1>2, <1>10, FreeFacts DEF SafetyInv, OneAtATime
  <2> QED
    BY <1>1, <1>2, <1>4, <1>5, <1>6, <1>10, <2>1, FreeFacts DEF SafetyInv, OneAtATime
<1>11. EveryShutIsListed'
  BY <1>2, <1>4, <1>5, <1>6 DEF SafetyInv, EveryShutIsListed
<1> QED
  BY <1>2, <1>7, <1>8, <1>9, <1>10, <1>11 DEF SafetyInv

LEMMA EndKeepsInv ==
    ASSUME SafetyInv, NEW a \in Task, Record(a) \/ RecordFails(a) \/ Clear(a)
    PROVE  SafetyInv'
<1>1. SafetyTypeOK /\ HandsOff /\ ListInv
  BY DEF SafetyInv
<1>2. /\ Becomes(a, Free) /\ UNCHANGED <<shut, begun>>
      /\ task[a] \in Calls /\ task[a].at \in {"lock", "unlock"} /\ task[a].todo = {}
      /\ mishaps' = mishaps \/ (mishaps' = mishaps \cup {"record"} /\ posture' = posture)
  BY <1>1, TypeFacts DEF Record, RecordFails, Clear, Locked, Unlocked, Suffers
<1>3. /\ task' \in [Task -> Calls] /\ task'[a] = Free
      /\ \A b \in Task \ {a} : task'[b] = task[b]
  BY <1>2, FreeFacts, CallStep
<1>4. \/ /\ task[a].at = "lock" /\ posture' = Lockdown(task[a].scope, task[a].listed)
      \/ posture' = posture /\ mishaps' # {}
      \/ task[a].at = "unlock" /\ posture' = NoLockdown
  BY DEF Record, RecordFails, Clear, Locked, Unlocked, Suffers
<1>5. /\ posture'.channels \subseteq task[a].listed \cup posture.channels
      /\ task[a].at = "lock" /\ posture' # posture => posture'.channels = task[a].listed
  BY <1>2, <1>4, FreeFacts DEF Lockdown
<1>6. SafetyTypeOK'
  <2>1. posture' \in [scope : Scope, elapsed : BOOLEAN, channels : SUBSET Channel]
    <3>1. Lockdown(task[a].scope, task[a].listed) \in [scope : Scope, elapsed : BOOLEAN, channels : SUBSET Channel]
      BY <1>2 DEF Lockdown, Calls
    <3>2. posture \in [scope : Scope, elapsed : BOOLEAN, channels : SUBSET Channel]
      BY <1>1 DEF SafetyTypeOK
    <3> QED
      BY <1>4, <3>1, <3>2, FreeFacts
  <2>2. mishaps' \subseteq Mishap
    BY <1>1, <1>2, TypeFacts DEF Mishap
  <2> QED
    BY <1>1, <1>2, <1>3, <2>1, <2>2 DEF SafetyTypeOK, Calls
<1>7. HandsOff'
  BY <1>1, <1>2, <1>3, <1>5, FreeFacts DEF HandsOff
<1>8. ListInv'
  <2>1. posture'.scope = "NONE" => posture' = NoLockdown
    <3>1. CASE posture' = posture \/ posture' = NoLockdown
      BY <1>1, <3>1 DEF ListInv
    <3>2. CASE task[a].at = "lock" /\ posture' = Lockdown(task[a].scope, task[a].listed)
      BY <1>1, <3>2 DEF Lockdown, ListInv
    <3> QED
      BY <1>4, <3>1, <3>2
  <2> QED
    BY <1>1, <1>3, <2>1, FreeFacts DEF ListInv
<1>9. ASSUME mishaps' = {}
      PROVE  mishaps = {} /\ OneAtATime'
  BY <1>2, <1>3, <1>9, FreeFacts DEF SafetyInv, OneAtATime
<1>10. ASSUME mishaps' = {}, NEW c \in Channel, shut[c] = "bot"
       PROVE  c \in posture'.channels
  <2>1. mishaps = {} /\ OneAtATime /\ (\A b \in Task \ {a} : task[b] = Free)
    BY <1>2, <1>9, <1>10, FreeFacts DEF SafetyInv, OneAtATime
  <2>2. c \in posture.channels \/ c \in task[a].listed
    BY <1>10, <2>1, FreeFacts DEF SafetyInv, EveryShutIsListed
  <2>3. CASE task[a].at = "lock" /\ posture' = Lockdown(task[a].scope, task[a].listed)
    BY <2>1, <2>2, <2>3 DEF OneAtATime, Lockdown
  <2>4. CASE task[a].at = "unlock"
    BY <1>2, <1>10, <2>1, <2>4 DEF OneAtATime
  <2> QED
    BY <1>4, <1>10, <2>3, <2>4
<1>11. EveryShutIsListed'
  BY <1>2, <1>10 DEF EveryShutIsListed
<1> QED
  BY <1>6, <1>7, <1>8, <1>9, <1>11 DEF SafetyInv

LEMMA LiftKeepsInv ==
    ASSUME SafetyInv, NEW a \in Task, Lift(a)
    PROVE  SafetyInv'
<1> DEFINE new == Doing("unlock", posture.scope, posture.channels, {})
<1>1. /\ task[a] = Free /\ begun < MaxCalls /\ begun' = begun + 1
      /\ Becomes(a, new)
      /\ mishaps' = mishaps \cup {m \in {"overlap"} : Overlaps}
      /\ UNCHANGED <<shut, posture>>
  BY DEF Lift, Begins, Suffers
<1>2. SafetyTypeOK /\ HandsOff /\ ListInv
  BY DEF SafetyInv
<1>3. new \in Calls /\ new.at = "unlock" /\ new.listed = {} /\ new.todo = posture.channels
  BY <1>2, TypeFacts DEF Doing, Calls
<1> HIDE DEF new
<1>4. /\ task' \in [Task -> Calls] /\ task'[a] = new
      /\ \A b \in Task \ {a} : task'[b] = task[b]
  BY <1>1, <1>3, CallStep
<1>5. SafetyTypeOK'
  <2>1. begun' \in 0..MaxCalls /\ mishaps' \subseteq Mishap
    BY <1>1, <1>2, TypeFacts, SafetyAssumption DEF Mishap
  <2> QED
    BY <1>1, <1>2, <1>4, <2>1 DEF SafetyTypeOK, Calls
<1>6. HandsOff'
  BY <1>1, <1>2, <1>3, <1>4 DEF HandsOff
<1>7. ListInv'
  BY <1>1, <1>2, <1>3, <1>4 DEF ListInv
<1>8. ASSUME mishaps' = {}
      PROVE  /\ OneAtATime' /\ mishaps = {}
             /\ \A c \in Channel : shut[c] = "bot" => c \in posture.channels
  <2>1. mishaps = {} /\ ~Overlaps
    BY <1>1, <1>8
  <2>2. \A b \in Task : task[b] = Free
    BY <2>1 DEF Overlaps
  <2>3. \A c \in Channel : shut[c] = "bot" => c \in posture.channels
    BY <2>1, <2>2, FreeFacts DEF SafetyInv, EveryShutIsListed
  <2> QED
    BY <1>1, <1>3, <1>4, <2>1, <2>2, <2>3, FreeFacts DEF OneAtATime
<1>9. EveryShutIsListed'
  BY <1>1, <1>8 DEF EveryShutIsListed
<1> QED
  BY <1>5, <1>6, <1>7, <1>8, <1>9 DEF SafetyInv

LEMMA UnlockKeepsInv ==
    ASSUME SafetyInv, NEW a \in Task, NEW c \in Channel, UnlockChannel(a, c) \/ UnlockChannelFails(a, c)
    PROVE  SafetyInv'
<1> DEFINE new == Doing("unlock", task[a].scope, task[a].todo \ {c}, task[a].listed)
<1>1. SafetyTypeOK /\ HandsOff /\ ListInv
  BY DEF SafetyInv
<1>2. /\ task[a].at = "unlock" /\ task[a] \in Calls /\ c \in task[a].todo
      /\ UNCHANGED <<posture, begun>>
  BY <1>1, TypeFacts DEF UnlockChannel, UnlockChannelFails
<1>3. Becomes(a, new)
  BY <1>2 DEF UnlockChannel, UnlockChannelFails, Becomes, Doing, Calls
<1>4. /\ shut' \in [Channel -> {"open", "bot", "hand"}]
      /\ \A d \in Channel \ {c} : shut'[d] = shut[d]
      /\ \/ shut'[c] = "open" /\ mishaps' = mishaps
         \/ shut' = shut /\ mishaps' = mishaps \cup {"unlock"}
  BY <1>1, TypeFacts DEF UnlockChannel, UnlockChannelFails, Suffers
<1>5. new \in Calls /\ new.at = "unlock" /\ new.listed = task[a].listed /\ new.todo = task[a].todo \ {c}
  BY <1>2 DEF Doing, Calls
<1> HIDE DEF new
<1>6. /\ task' \in [Task -> Calls] /\ task'[a] = new
      /\ \A b \in Task \ {a} : task'[b] = task[b]
  BY <1>3, <1>5, CallStep
<1>7. SafetyTypeOK'
  <2>1. mishaps' \subseteq Mishap
    BY <1>1, <1>4, TypeFacts DEF Mishap
  <2> QED
    BY <1>1, <1>2, <1>4, <1>6, <2>1 DEF SafetyTypeOK, Calls
<1>8. HandsOff'
  BY <1>1, <1>2, <1>4, <1>5, <1>6 DEF HandsOff
<1>9. ListInv'
  BY <1>1, <1>2, <1>5, <1>6 DEF ListInv
<1>10. ASSUME mishaps' = {}
       PROVE  mishaps = {} /\ shut'[c] = "open" /\ OneAtATime'
  <2>1. mishaps = {} /\ shut'[c] = "open" /\ OneAtATime
    BY <1>4, <1>10 DEF SafetyInv
  <2>2. \A b \in Task : b # a => task'[b] = Free
    BY <1>2, <1>6, <2>1, FreeFacts DEF OneAtATime
  <2> QED
    BY <1>2, <1>4, <1>5, <1>6, <2>1, <2>2, FreeFacts DEF OneAtATime
<1>11. EveryShutIsListed'
  BY <1>2, <1>4, <1>5, <1>6, <1>10 DEF SafetyInv, EveryShutIsListed
<1> QED
  BY <1>7, <1>8, <1>9, <1>10, <1>11 DEF SafetyInv

LEMMA AbortKeepsInv ==
    ASSUME SafetyInv, NEW a \in Task, NEW c \in Channel, UnlockAborts(a, c)
    PROVE  SafetyInv'
<1>1. SafetyTypeOK /\ HandsOff /\ ListInv
  BY DEF SafetyInv
<1>2. /\ task[a].at = "unlock" /\ Becomes(a, Free) /\ UNCHANGED <<shut, posture, begun, mishaps>>
      /\ task[a].listed = {}
  BY <1>1 DEF UnlockAborts, ListInv
<1>3. /\ task' \in [Task -> Calls] /\ task'[a] = Free
      /\ \A b \in Task \ {a} : task'[b] = task[b]
  BY <1>2, FreeFacts, CallStep
<1>4. SafetyTypeOK' /\ HandsOff' /\ ListInv'
  <2>1. SafetyTypeOK'
    BY <1>1, <1>2, <1>3 DEF SafetyTypeOK, Calls
  <2>2. HandsOff'
    BY <1>1, <1>2, <1>3, FreeFacts DEF HandsOff
  <2>3. ListInv'
    BY <1>1, <1>2, <1>3, FreeFacts DEF ListInv
  <2> QED
    BY <2>1, <2>2, <2>3
<1>5. ASSUME mishaps = {}
      PROVE  OneAtATime'
  <2>1. OneAtATime
    BY <1>5 DEF SafetyInv
  <2>2. \A b \in Task : task'[b] # Free => task'[b] = task[b]
    BY <1>3
  <2> QED
    BY <1>2, <1>3, <2>1, <2>2, FreeFacts DEF OneAtATime
<1>6. EveryShutIsListed'
  BY <1>2, <1>3 DEF SafetyInv, EveryShutIsListed
<1> QED
  BY <1>2, <1>4, <1>5, <1>6 DEF SafetyInv

LEMMA WorldKeepsInv ==
    ASSUME SafetyInv, Elapses \/ (\E c \in Channel : HandShuts(c) \/ HandOpens(c))
    PROVE  SafetyInv'
<1>1. SafetyTypeOK /\ HandsOff /\ ListInv
  BY DEF SafetyInv
<1>2. CASE Elapses
  <2>1. /\ posture' = [posture EXCEPT !.elapsed = TRUE] /\ UNCHANGED <<shut, task, begun, mishaps>>
        /\ posture.scope # "NONE"
    BY <1>2 DEF Elapses, Live
  <2>2. /\ posture'.channels = posture.channels /\ posture'.scope = posture.scope
        /\ posture' \in [scope : Scope, elapsed : BOOLEAN, channels : SUBSET Channel]
    BY <1>1, <2>1 DEF SafetyTypeOK
  <2>3. SafetyTypeOK' /\ HandsOff' /\ ListInv'
    BY <1>1, <2>1, <2>2 DEF SafetyTypeOK, HandsOff, ListInv
  <2> QED
    BY <2>1, <2>2, <2>3 DEF SafetyInv, OneAtATime, EveryShutIsListed
<1>3. ASSUME NEW c \in Channel, HandShuts(c)
      PROVE  SafetyInv'
  <2>1. /\ shut' \in [Channel -> {"open", "bot", "hand"}] /\ shut'[c] = "hand"
        /\ \A d \in Channel \ {c} : shut'[d] = shut[d]
        /\ posture = NoLockdown /\ (\A a \in Task : task[a] = Free)
        /\ UNCHANGED <<posture, task, begun, mishaps>>
    BY <1>1, <1>3, TypeFacts DEF HandShuts
  <2>2. SafetyTypeOK' /\ ListInv'
    BY <1>1, <2>1 DEF SafetyTypeOK, ListInv
  <2>3. HandsOff'
    BY <2>1, FreeFacts DEF HandsOff
  <2>4. (mishaps = {} => OneAtATime') /\ EveryShutIsListed'
    BY <2>1, FreeFacts DEF SafetyInv, OneAtATime, EveryShutIsListed
  <2> QED
    BY <2>1, <2>2, <2>3, <2>4 DEF SafetyInv
<1>4. ASSUME NEW c \in Channel, HandOpens(c)
      PROVE  SafetyInv'
  <2>1. /\ shut' \in [Channel -> {"open", "bot", "hand"}] /\ shut'[c] = "open"
        /\ \A d \in Channel \ {c} : shut'[d] = shut[d]
        /\ UNCHANGED <<posture, task, begun, mishaps>>
    BY <1>1, <1>4, TypeFacts DEF HandOpens
  <2>2. SafetyTypeOK' /\ ListInv' /\ HandsOff'
    BY <1>1, <2>1 DEF SafetyTypeOK, ListInv, HandsOff
  <2>3. (mishaps = {} => OneAtATime') /\ EveryShutIsListed'
    BY <2>1 DEF SafetyInv, OneAtATime, EveryShutIsListed
  <2> QED
    BY <2>1, <2>2, <2>3 DEF SafetyInv
<1> QED
  BY <1>2, <1>3, <1>4

LEMMA SafetyStep ==
    ASSUME SafetyInv, [SafetyNext]_safetyVars
    PROVE  SafetyInv'
<1>1. CASE UNCHANGED safetyVars
  BY <1>1 DEF safetyVars, SafetyInv, SafetyTypeOK, HandsOff, ListInv, OneAtATime, EveryShutIsListed
<1>2. ASSUME NEW a \in Officer, LockStep(a)
      PROVE  SafetyInv'
  <2>1. a \in Task
    BY DEF Task
  <2>2. CASE Lock(a, "SERVER", Channel) \/ (\E c \in Channel : Lock(a, "CHANNEL", {c}))
    BY <2>1, <2>2, LockKeepsInv
  <2>3. CASE \E c \in Channel : LockChannel(a, c) \/ LockChannelFails(a, c)
    BY <2>1, <2>3, LockChannelKeepsInv
  <2>4. CASE Record(a) \/ RecordFails(a)
    BY <2>1, <2>4, EndKeepsInv
  <2> QED
    BY <1>2, <2>2, <2>3, <2>4 DEF LockStep
<1>3. ASSUME NEW a \in Task, LiftStep(a)
      PROVE  SafetyInv'
  BY <1>3, LiftKeepsInv, UnlockKeepsInv, AbortKeepsInv, EndKeepsInv DEF LiftStep
<1> QED
  BY <1>1, <1>2, <1>3, WorldKeepsInv DEF SafetyNext

\* Every variable has its type.
THEOREM SafetyTypeCorrectness == SafetySpec => []SafetyTypeOK
<1>1. SafetyInv => SafetyTypeOK
  BY DEF SafetyInv
<1> QED
  BY <1>1, SafetyInitially, SafetyStep, PTL DEF SafetySpec

\* For any number of channels and staff: calls made one at a time, of which
\* none meets a mishap the code does not repair, leave every channel the bot
\* shut on a list that will open it (lockdown and liftLockdown in
\* packages/moderation/src/safety.ts).
THEOREM EveryShutIsListedAlways == SafetySpec => []EveryShutIsListed
<1>1. SafetyInv => EveryShutIsListed
  BY DEF SafetyInv
<1> QED
  BY <1>1, SafetyInitially, SafetyStep, PTL DEF SafetySpec

\* No step opens what staff shut by hand.
LEMMA HandsAreRespected ==
    ASSUME SafetyInv, [SafetyNext]_safetyVars, NEW c \in Channel, shut[c] = "hand"
    PROVE  shut'[c] = "hand"
<1>1. shut \in [Channel -> {"open", "bot", "hand"}]
  BY TypeFacts DEF SafetyInv
<1>2. ASSUME NEW a \in Task, NEW d \in Channel, UnlockChannel(a, d)
      PROVE  shut'[c] = "hand"
  BY <1>1, <1>2 DEF UnlockChannel, SafetyInv, HandsOff
<1>3. ASSUME NEW a \in Task, NEW d \in Channel, LockChannel(a, d)
      PROVE  shut'[c] = "hand"
  BY <1>1, <1>3 DEF LockChannel
<1>4. ASSUME NEW d \in Channel, HandShuts(d) \/ HandOpens(d)
      PROVE  shut'[c] = "hand"
  BY <1>1, <1>4 DEF HandShuts, HandOpens
<1>5. ASSUME NEW a \in Officer, LockStep(a)
      PROVE  shut'[c] = "hand"
  BY <1>3, <1>5 DEF LockStep, Task, Lock, LockChannelFails, Record, RecordFails
<1>6. ASSUME NEW a \in Task, LiftStep(a)
      PROVE  shut'[c] = "hand"
  BY <1>2, <1>6 DEF LiftStep, Lift, UnlockChannelFails, UnlockAborts, Clear
<1> QED
  BY <1>4, <1>5, <1>6 DEF SafetyNext, safetyVars, Elapses

\* Whatever overlaps and whatever fails: a channel staff shut by hand is not
\* opened by a lift.
THEOREM HandShutStaysShutAlways == SafetySpec => HandShutStaysShut
<1>1. SafetyInv /\ [SafetyNext]_safetyVars
         => [\A c \in Channel : shut[c] = "hand" => shut'[c] = "hand"]_safetyVars
  BY HandsAreRespected
<1>2. SafetySpec => []SafetyInv
  BY SafetyInitially, SafetyStep, PTL DEF SafetySpec
<1> QED
  BY <1>1, <1>2, PTL DEF SafetySpec, HandShutStaysShut

-----------------------------------------------------------------------------
(* Screening                                                               *)

\* What the handler of a join event knows when it comes to answer and to mark:
\* no row is there before it has made one, and its verdict is one to act on.
ScreensInv ==
    \A e \in JoinEvent :
        /\ screens[e].at \in {"new", "screening"} => requests[e] = "none"
        /\ screens[e].at = "answer" => screens[e].verdict \in {"ACCEPT", "DENY"}
        /\ screens[e].at = "mark" => screens[e].verdict \in {"ACCEPT", "DENY", "JOINED"}

\* What a press holds on to: a row that was not decided when it began, and a
\* verb that answers a request once it looks for the row.
PressesInv ==
    \A p \in Press :
        /\ before[p] \subseteq Decided
        /\ presses[p].at = "send" => presses[p].verb \in {"ACCEPT", "DENY", "INVITE"}
        /\ presses[p].at \in {"retire", "decide"} => presses[p].row \in JoinEvent \ before[p]
        /\ presses[p].at \in {"find", "decide"} => presses[p].verb \in {"ACCEPT", "DENY"}

\* Where a handler, or a press, can be.
Handler ==
    [at : {"new", "screening", "answer", "mark", "notify", "done"},
     verdict : {"none", "ACCEPT", "DENY", "REVIEW", "JOINED"}]

Pressing ==
    [at : {"new", "look", "retire", "send", "find", "decide", "done"},
     verb : {"none", "ACCEPT", "DENY", "INVITE"}, row : JoinEvent \cup {0}]

\* The commands: those typed and those given up are apart, and were taken.
Commands == (JoinEvent \cup Press) \X {"ACCEPT", "DENY", "INVITE"}

CommandsInv == handed \subseteq Commands /\ heard \subseteq handed /\ unheard \subseteq handed \ heard

LEMMA CommandsAreTyped == ScreeningTypeOK => CommandsInv
  BY DEF ScreeningTypeOK, CommandsInv, Commands

ScreeningInv == ScreeningTypeOK /\ ScreensInv /\ PressesInv

-----------------------------------------------------------------------------

\* A decision writes one row, and only one that was made.
LEMMA Decision ==
    ASSUME ScreeningTypeOK, NEW e \in JoinEvent, NEW outcome \in Outcomes \ {"PENDING"},
           NEW who \in SUBSET (JoinEvent \cup Press), Decide(e, outcome, who)
    PROVE  /\ requests' \in [JoinEvent -> Outcomes \cup {"none"}]
           /\ decider' \in [JoinEvent -> SUBSET (JoinEvent \cup Press)]
           /\ \A d \in JoinEvent :
                 \/ requests'[d] = requests[d] /\ decider'[d] = decider[d]
                 \/ d = e /\ requests[d] # "none" /\ requests'[d] = outcome /\ decider'[d] = who
<1>1. /\ requests \in [JoinEvent -> Outcomes \cup {"none"}]
      /\ decider \in [JoinEvent -> SUBSET (JoinEvent \cup Press)]
  BY DEF ScreeningTypeOK
<1>2. CASE UNCHANGED rowVars
  BY <1>1, <1>2 DEF rowVars
<1>3. CASE /\ requests[e] # "none"
           /\ requests' = [requests EXCEPT ![e] = outcome]
           /\ decider' = [decider EXCEPT ![e] = who]
  <2>1. requests' \in [JoinEvent -> Outcomes \cup {"none"}]
    BY <1>1, <1>3
  <2>2. decider' \in [JoinEvent -> SUBSET (JoinEvent \cup Press)]
    BY <1>1, <1>3
  <2>3. \A d \in JoinEvent : d # e => requests'[d] = requests[d] /\ decider'[d] = decider[d]
    BY <1>1, <1>3
  <2>4. requests'[e] = outcome /\ decider'[e] = who
    BY <1>1, <1>3
  <2> QED
    BY <1>3, <2>1, <2>2, <2>3, <2>4
<1> QED
  BY <1>2, <1>3 DEF Decide

\* What was decided stays decided.
LEMMA DecidedStays ==
    ASSUME \A d \in JoinEvent : requests'[d] = requests[d] \/ requests'[d] \notin {"none", "PENDING"}
    PROVE  Decided \subseteq Decided'
  BY DEF Decided

\* The handler's own moves that write no row.
LEMMA HandlerKeeps ==
    ASSUME ScreeningInv, NEW e \in JoinEvent,
           NotScreened(e) \/ ScreenBegins(e) \/ Answer(e) \/ Notify(e)
    PROVE  ScreeningInv'
<1> USE DEF ScreeningInv, NotScreened, ScreenBegins, Answer, Notify, NextAfterAnswer, HandsOver,
            Screens, rowVars
<1>1. ScreeningTypeOK'
  <2>1. screens' \in [JoinEvent -> Handler]
    <3>1. \E to \in {"screening", "mark", "notify", "done"} : screens' = [screens EXCEPT ![e].at = to]
      OBVIOUS
    <3>2. screens \in [JoinEvent -> Handler]
      BY DEF ScreeningTypeOK, Handler
    <3> QED
      BY <3>1, <3>2 DEF Handler
  <2>2. CommandsInv'
    <3>1. CASE UNCHANGED commandVars
      BY <3>1, CommandsAreTyped DEF commandVars, CommandsInv
    <3>2. CASE \E verb \in {"ACCEPT", "DENY"} : HandsOver(e, verb)
      BY <3>2, CommandsAreTyped DEF CommandsInv, Commands
    <3> QED
      BY <3>1, <3>2 DEF ScreensInv
  <2> QED
    BY <2>1, <2>2 DEF ScreeningTypeOK, Handler, CommandsInv, Commands
<1>2. ScreensInv'
  <2>1. CASE NotScreened(e) \/ ScreenBegins(e) \/ Notify(e)
    BY <2>1 DEF ScreeningTypeOK, ScreensInv
  <2>2. CASE Answer(e)
    BY <2>2 DEF ScreeningTypeOK, ScreensInv
  <2> QED
    BY <2>1, <2>2
<1>3. PressesInv'
  BY DEF PressesInv, Decided
<1> QED
  BY <1>1, <1>2, <1>3

LEMMA ScreenKeeps ==
    ASSUME ScreeningInv, NEW e \in JoinEvent, Screen(e)
    PROVE  ScreeningInv'
<1>1. UNCHANGED <<decider, elapsed, presses, commandVars, before>> /\ screens[e].at = "screening"
  BY DEF Screen
<1>2. /\ requests \in [JoinEvent -> Outcomes \cup {"none"}] /\ requests[e] = "none"
      /\ requests' \in [JoinEvent -> Outcomes \cup {"none"}]
      /\ \A d \in JoinEvent : requests'[d] = requests[d] \/ (d = e /\ requests'[d] = "PENDING")
  BY <1>1 DEF Screen, ScreeningInv, ScreeningTypeOK, ScreensInv, Outcomes
<1>3. PICK ruling \in {"ACCEPT", "DENY", "REVIEW", "JOINED"} :
         screens' = [screens EXCEPT ![e] =
              [at |-> CASE ruling = "JOINED" -> "mark"
                        [] ruling = "REVIEW" -> "notify"
                        [] OTHER -> "answer",
               verdict |-> ruling]]
  BY DEF Screen
<1>4. ScreeningTypeOK'
  BY <1>1, <1>2, <1>3 DEF ScreeningInv, ScreeningTypeOK, commandVars
<1>5. ScreensInv'
  BY <1>1, <1>2, <1>3 DEF ScreeningInv, ScreeningTypeOK, ScreensInv
<1>6. PressesInv'
  BY <1>1, <1>2 DEF ScreeningInv, PressesInv, Decided
<1> QED
  BY <1>4, <1>5, <1>6 DEF ScreeningInv

LEMMA MarkKeeps ==
    ASSUME ScreeningInv, NEW e \in JoinEvent, Mark(e)
    PROVE  ScreeningInv'
<1> DEFINE outcome == OutcomeOf(screens[e].verdict)
<1>1. /\ screens[e].at = "mark" /\ Decide(e, outcome, {e})
      /\ screens' = [screens EXCEPT ![e].at = "notify"]
      /\ UNCHANGED <<elapsed, presses, commandVars, before>>
  BY DEF Mark, Screens
<1>2. outcome \in Outcomes \ {"PENDING"}
  BY <1>1 DEF ScreeningInv, ScreensInv, OutcomeOf, Outcomes
<1> HIDE DEF outcome
<1>3. /\ requests' \in [JoinEvent -> Outcomes \cup {"none"}]
      /\ decider' \in [JoinEvent -> SUBSET (JoinEvent \cup Press)]
      /\ \A d \in JoinEvent :
            \/ requests'[d] = requests[d] /\ decider'[d] = decider[d]
            \/ d = e /\ requests[d] # "none" /\ requests'[d] = outcome /\ decider'[d] = {e}
  BY <1>1, <1>2, Decision DEF ScreeningInv
<1>4. ScreeningTypeOK'
  <2>1. screens' \in [JoinEvent -> Handler]
    BY <1>1 DEF ScreeningInv, ScreeningTypeOK, Handler
  <2> QED
    BY <1>1, <1>3, <2>1 DEF ScreeningInv, ScreeningTypeOK, Handler, commandVars
<1>5. ScreensInv'
  BY <1>1, <1>3 DEF ScreeningInv, ScreeningTypeOK, ScreensInv
<1>6. PressesInv'
  <2>1. Decided \subseteq Decided'
    BY <1>2, <1>3, DecidedStays DEF Outcomes
  <2> QED
    BY <1>1, <2>1 DEF ScreeningInv, PressesInv
<1> QED
  BY <1>4, <1>5, <1>6 DEF ScreeningInv

-----------------------------------------------------------------------------

\* A press moves, no row is written, and it knows what it has to.
LEMMA PressMoves ==
    ASSUME ScreeningInv, NEW p \in Press, NEW after \in Pressing,
           presses' = [presses EXCEPT ![p] = after], UNCHANGED <<rowVars, elapsed, screens>>,
           CommandsInv',
           before' = before \/ before' = [before EXCEPT ![p] = Decided],
           after.at = "send" => after.verb \in {"ACCEPT", "DENY", "INVITE"},
           after.at \in {"retire", "decide"} => after.row \in JoinEvent \ before'[p],
           after.at \in {"find", "decide"} => after.verb \in {"ACCEPT", "DENY"}
    PROVE  ScreeningInv'
<1>1. /\ presses \in [Press -> Pressing] /\ before \in [Press -> SUBSET JoinEvent]
      /\ Decided \subseteq JoinEvent /\ Decided' = Decided
  BY DEF ScreeningInv, ScreeningTypeOK, Pressing, Decided, rowVars
<1>2. presses' \in [Press -> Pressing] /\ before' \in [Press -> SUBSET JoinEvent]
  BY <1>1
<1>3. ScreeningTypeOK'
  BY <1>2 DEF ScreeningInv, ScreeningTypeOK, Pressing, rowVars, CommandsInv, Commands
<1>4. ScreensInv'
  BY DEF ScreeningInv, ScreensInv, rowVars
<1>5. PressesInv'
  <2>1. \A q \in Press : presses'[q] = IF q = p THEN after ELSE presses[q]
    BY <1>1
  <2>2. \A q \in Press : q # p => before'[q] = before[q]
    BY <1>1
  <2>3. before'[p] \subseteq Decided
    BY <1>1 DEF ScreeningInv, PressesInv
  <2> QED
    BY <1>1, <2>1, <2>2, <2>3 DEF ScreeningInv, PressesInv
<1> QED
  BY <1>3, <1>4, <1>5 DEF ScreeningInv

\* The moves of a press that write no row.
LEMMA PressKeeps ==
    ASSUME ScreeningInv, NEW p \in Press,
           \/ Admit(p) \/ DenyRequest(p) \/ LookAndAccept(p) \/ LookAndInvite(p)
           \/ SendPress(p) \/ NotSent(p) \/ FindPending(p)
    PROVE  ScreeningInv'
<1>1. UNCHANGED <<rowVars, elapsed, screens>>
  BY DEF Admit, DenyRequest, LookAndAccept, LookAndInvite, SendPress, NotSent, FindPending
<1>2. presses \in [Press -> Pressing] /\ presses[p] \in Pressing /\ CommandsInv
  BY CommandsAreTyped DEF ScreeningInv, ScreeningTypeOK, Pressing
<1>c. UNCHANGED commandVars => CommandsInv'
  BY <1>2 DEF CommandsInv, commandVars
<1>3. \A to \in {"look", "find", "done"} :
         /\ [presses[p] EXCEPT !.at = to] \in Pressing
         /\ [presses[p] EXCEPT !.at = to].at = to
         /\ [presses[p] EXCEPT !.at = to].verb = presses[p].verb
  BY <1>2 DEF Pressing
<1>4. \A verb \in {"ACCEPT", "DENY", "INVITE"} :
         /\ [at |-> "send", verb |-> verb, row |-> 0] \in Pressing
         /\ [at |-> "send", verb |-> verb, row |-> 0].at = "send"
         /\ [at |-> "send", verb |-> verb, row |-> 0].verb = verb
  BY DEF Pressing
<1>5. CASE Admit(p)
  <2>1. presses' = [presses EXCEPT ![p] = [presses[p] EXCEPT !.at = "look"]]
    BY <1>2, <1>5 DEF Admit, PressGoes
  <2>2. UNCHANGED commandVars /\ before' = [before EXCEPT ![p] = Decided]
    BY <1>5 DEF Admit
  <2> QED
    BY <1>1, <1>2, <1>c, <1>3, <2>1, <2>2, PressMoves
<1>6. CASE DenyRequest(p) \/ LookAndAccept(p)
  <2>1. /\ \E verb \in {"ACCEPT", "DENY"} :
              presses' = [presses EXCEPT ![p] = [at |-> "send", verb |-> verb, row |-> 0]]
        /\ before' = before \/ before' = [before EXCEPT ![p] = Decided]
    BY <1>6 DEF DenyRequest, LookAndAccept, ActsWith
  <2>2. UNCHANGED commandVars
    BY <1>6 DEF DenyRequest, LookAndAccept
  <2> QED
    BY <1>1, <1>2, <1>c, <1>4, <2>1, <2>2, PressMoves
<1>7. CASE LookAndInvite(p)
  <2>1. PICK e \in JoinEvent :
           IF Pending(e)
           THEN presses' = [presses EXCEPT ![p] = [at |-> "retire", verb |-> "none", row |-> e]]
           ELSE ActsWith(p, "INVITE")
    BY <1>7 DEF LookAndInvite
  <2>2. UNCHANGED commandVars /\ before' = before
    BY <1>7 DEF LookAndInvite
  <2>3. CASE Pending(e)
    <3> DEFINE after == [at |-> "retire", verb |-> "none", row |-> e]
    <3>1. after \in Pressing /\ after.at = "retire" /\ after.row = e
      BY DEF Pressing
    <3>2. e \notin before[p]
      BY <2>3 DEF ScreeningInv, PressesInv, Pending, Decided
    <3> QED
      BY <1>1, <1>2, <1>c, <2>1, <2>2, <2>3, <3>1, <3>2, PressMoves
  <2>4. CASE ~Pending(e)
    BY <1>1, <1>2, <1>c, <1>4, <2>1, <2>2, <2>4, PressMoves DEF ActsWith
  <2> QED
    BY <2>3, <2>4
<1>8. CASE SendPress(p)
  <2>1. presses[p].verb \in {"ACCEPT", "DENY", "INVITE"}
    BY <1>8 DEF SendPress, ScreeningInv, PressesInv
  <2>2. HandsOver(p, presses[p].verb) /\ before' = before
    BY <1>8 DEF SendPress
  <2>3. PICK to \in {"find", "done"} :
           /\ presses' = [presses EXCEPT ![p] = [presses[p] EXCEPT !.at = to]]
           /\ to = "find" => presses[p].verb # "INVITE"
    BY <1>2, <1>8 DEF SendPress, PressGoes
  <2>4. CommandsInv'
    BY <1>2, <2>1, <2>2 DEF CommandsInv, Commands, HandsOver
  <2>5. PICK after \in Pressing : after = [presses[p] EXCEPT !.at = to]
                                 /\ after.at = to /\ after.verb = presses[p].verb
    BY <1>3
  <2>6. to = "find" => after.verb \in {"ACCEPT", "DENY"}
    BY <2>1, <2>2, <2>3, <2>5
  <2>7. presses' = [presses EXCEPT ![p] = after]
    BY <2>2, <2>3, <2>5
  <2> QED
    BY <1>1, <2>2, <2>4, <2>5, <2>6, <2>7, PressMoves
<1>9. CASE NotSent(p)
  <2>1. presses' = [presses EXCEPT ![p] = [presses[p] EXCEPT !.at = "done"]]
    BY <1>2, <1>9 DEF NotSent, PressGoes
  <2>2. UNCHANGED commandVars /\ before' = before
    BY <1>9 DEF NotSent
  <2> QED
    BY <1>1, <1>2, <1>c, <1>3, <2>1, <2>2, PressMoves
<1>10. CASE FindPending(p)
  <2>1. /\ UNCHANGED commandVars /\ before' = before
        /\ presses[p].verb \in {"ACCEPT", "DENY"}
    BY <1>10 DEF FindPending, ScreeningInv, PressesInv
  <2>2. ASSUME NEW e \in Answerable, presses' = [presses EXCEPT ![p].at = "decide", ![p].row = e]
        PROVE  ScreeningInv'
    <3>1. e \in JoinEvent /\ e \notin before[p]
      BY DEF Answerable, ScreeningInv, PressesInv, Pending, Decided
    <3> DEFINE after == [presses[p] EXCEPT !.at = "decide", !.row = e]
    <3>2. after \in Pressing /\ after.at = "decide" /\ after.verb = presses[p].verb /\ after.row = e
      BY <1>2, <3>1 DEF Pressing
    <3>3. presses' = [presses EXCEPT ![p] = after]
      BY <1>2, <2>2
    <3> HIDE DEF after
    <3> QED
      BY <1>1, <1>2, <1>c, <2>1, <3>1, <3>2, <3>3, PressMoves
  <2>3. CASE PressGoes(p, "done")
    <3>1. presses' = [presses EXCEPT ![p] = [presses[p] EXCEPT !.at = "done"]]
      BY <1>2, <2>3 DEF PressGoes
    <3> QED
      BY <1>1, <1>2, <1>c, <1>3, <2>1, <3>1, PressMoves
  <2> QED
    BY <1>10, <2>2, <2>3 DEF FindPending, IsNewest
<1> QED
  BY <1>5, <1>6, <1>7, <1>8, <1>9, <1>10

\* The moves of a press that write its row.
LEMMA PressWrites ==
    ASSUME ScreeningInv, NEW p \in Press, Retire(p) \/ DecidePress(p)
    PROVE  /\ ScreeningInv'
           /\ \A e \in JoinEvent : decider'[e] = decider[e] \/ e \notin before[p]
           /\ \A e \in JoinEvent : decider'[e] = decider[e] \/ decider'[e] = {p}
<1>1. PICK outcome \in Outcomes \ {"PENDING"} : Decide(presses[p].row, outcome, {p})
  <2>1. CASE Retire(p)
    BY <2>1 DEF Retire, Outcomes
  <2>2. CASE DecidePress(p)
    <3>1. /\ Decide(presses[p].row, OutcomeOf(presses[p].verb), {p})
          /\ presses[p].verb \in {"ACCEPT", "DENY"}
      BY <2>2 DEF DecidePress, ScreeningInv, PressesInv
    <3>2. OutcomeOf(presses[p].verb) \in Outcomes \ {"PENDING"}
      BY <3>1 DEF OutcomeOf, Outcomes
    <3> QED
      BY <3>1, <3>2
  <2> QED
    BY <2>1, <2>2
<1>2. PICK row \in JoinEvent : row = presses[p].row /\ row \notin before[p]
  BY DEF Retire, DecidePress, ScreeningInv, PressesInv
<1>3. UNCHANGED <<elapsed, screens, commandVars, before>>
  BY DEF Retire, DecidePress
<1>4. /\ requests' \in [JoinEvent -> Outcomes \cup {"none"}]
      /\ decider' \in [JoinEvent -> SUBSET (JoinEvent \cup Press)]
      /\ \A d \in JoinEvent :
            \/ requests'[d] = requests[d] /\ decider'[d] = decider[d]
            \/ d = row /\ requests[d] # "none" /\ requests'[d] = outcome /\ decider'[d] = {p}
  BY <1>1, <1>2, Decision DEF ScreeningInv
<1>5. PICK after \in [at : {"send", "done"}, verb : {"INVITE", "none"}, row : {0}] :
         /\ presses' = [presses EXCEPT ![p] = after]
         /\ after.at = "send" => after.verb = "INVITE"
  BY DEF Retire, DecidePress, ActsWith, NewPress
<1>6. ScreeningTypeOK'
  BY <1>3, <1>4, <1>5 DEF ScreeningInv, ScreeningTypeOK, commandVars
<1>7. ScreensInv'
  BY <1>3, <1>4 DEF ScreeningInv, ScreensInv
<1>8. PressesInv'
  <2>1. Decided \subseteq Decided'
    BY <1>4, DecidedStays DEF Outcomes
  <2> QED
    BY <1>3, <1>5, <2>1 DEF ScreeningInv, ScreeningTypeOK, PressesInv
<1> QED
  BY <1>2, <1>4, <1>6, <1>7, <1>8 DEF ScreeningInv

-----------------------------------------------------------------------------

LEMMA ScreeningInitially == ScreeningInit => ScreeningInv
  BY DEF ScreeningInit, ScreeningInv, ScreeningTypeOK, ScreensInv, PressesInv,
         NewScreen, NewPress, Decided

\* Time passes, and what has lapsed is expired; no press and no handler moves.
LEMMA ClockKeeps ==
    ASSUME ScreeningInv, (\E e \in JoinEvent : WindowCloses(e)) \/ ExpireStale
    PROVE  ScreeningInv' /\ \A e \in JoinEvent : decider'[e] \in {decider[e], {}}
<1>1. UNCHANGED <<screens, presses, commandVars, before>>
  BY DEF WindowCloses, ExpireStale
<1>2. /\ requests' \in [JoinEvent -> Outcomes \cup {"none"}]
      /\ decider' \in [JoinEvent -> SUBSET (JoinEvent \cup Press)]
      /\ elapsed' \subseteq JoinEvent
      /\ \A d \in JoinEvent :
            \/ requests'[d] = requests[d] /\ decider'[d] = decider[d]
            \/ requests[d] # "none" /\ requests'[d] = "EXPIRED" /\ decider'[d] = {}
  BY DEF WindowCloses, ExpireStale, Pending, rowVars, ScreeningInv, ScreeningTypeOK, Outcomes
<1>3. ScreeningTypeOK'
  BY <1>1, <1>2 DEF ScreeningInv, ScreeningTypeOK, commandVars
<1>4. ScreensInv'
  BY <1>1, <1>2 DEF ScreeningInv, ScreensInv
<1>5. PressesInv'
  <2>1. Decided \subseteq Decided'
    BY <1>2, DecidedStays
  <2> QED
    BY <1>1, <2>1 DEF ScreeningInv, PressesInv
<1> QED
  BY <1>2, <1>3, <1>4, <1>5 DEF ScreeningInv

\* A command is typed or given up, and no row and no process knows.
LEMMA CommandKeeps ==
    ASSUME ScreeningInv, NEW c \in Untyped, TypedInGame(c) \/ GivenUpUntyped(c)
    PROVE  ScreeningInv' /\ decider' = decider
<1>1. /\ UNCHANGED <<rowVars, elapsed, screens, presses, handed, before>>
      /\ c \in handed \ (heard \cup unheard)
      /\ \/ heard' = heard \cup {c} /\ unheard' = unheard
         \/ heard' = heard /\ unheard' = unheard \cup {c}
  BY DEF TypedInGame, GivenUpUntyped, Untyped
<1>2. ScreeningTypeOK'
  BY <1>1 DEF ScreeningInv, ScreeningTypeOK, rowVars
<1>3. ScreensInv' /\ PressesInv'
  BY <1>1 DEF ScreeningInv, ScreensInv, PressesInv, Decided, rowVars
<1> QED
  BY <1>1, <1>2, <1>3 DEF ScreeningInv, rowVars

LEMMA ScreeningStep ==
    ASSUME ScreeningInv, [ScreeningNext]_screeningVars
    PROVE  ScreeningInv'
<1>1. CASE UNCHANGED screeningVars
  BY <1>1 DEF screeningVars, commandVars, rowVars, ScreeningInv, ScreeningTypeOK, ScreensInv, PressesInv,
              Decided
<1>2. CASE ScreeningNext
  BY <1>2, HandlerKeeps, ScreenKeeps, MarkKeeps, PressKeeps, PressWrites, ClockKeeps,
     CommandKeeps
  DEF ScreeningNext, HandleJoin, StaffPress
<1> QED
  BY <1>1, <1>2

\* A press leaves its name on no row that was decided when it began.
LEMMA SettledStep ==
    ASSUME ScreeningInv, [ScreeningNext]_screeningVars
    PROVE  \A p \in Press : \A e \in before[p] : decider'[e] = {p} => decider[e] = {p}
<1> SUFFICES ASSUME NEW p \in Press, NEW e \in before[p], decider'[e] = {p}
             PROVE  decider[e] = {p}
  OBVIOUS
<1>1. e \in JoinEvent /\ p \notin JoinEvent
  BY ScreeningAssumption DEF ScreeningInv, ScreeningTypeOK
<1>2. CASE decider' = decider
  BY <1>2
<1>3. ASSUME NEW d \in JoinEvent, Mark(d)
      PROVE  decider[e] = {p}
  <2>1. decider'[e] \in {decider[e], {d}}
    BY <1>1, <1>3 DEF Mark, Decide, rowVars, ScreeningInv, ScreeningTypeOK
  <2> QED
    BY <1>1, <2>1
<1>4. ASSUME NEW q \in Press, Retire(q) \/ DecidePress(q)
      PROVE  decider[e] = {p}
  <2>1. (decider'[e] = decider[e] \/ e \notin before[q]) /\ decider'[e] \in {decider[e], {q}}
    BY <1>1, <1>4, PressWrites
  <2> QED
    BY <2>1
<1>5. CASE ExpireStale
  BY <1>1, <1>5, ClockKeeps
<1>6. CASE UNCHANGED screeningVars
  BY <1>2, <1>6 DEF screeningVars, rowVars
<1>7. ASSUME NEW d \in JoinEvent, HandleJoin(d) \/ WindowCloses(d)
      PROVE  decider[e] = {p}
  BY <1>2, <1>3, <1>7
  DEF HandleJoin, WindowCloses, NotScreened, ScreenBegins, Screen, Answer, Notify, rowVars
<1>8. ASSUME NEW q \in Press, StaffPress(q)
      PROVE  decider[e] = {p}
  BY <1>2, <1>4, <1>8
  DEF StaffPress, Admit, DenyRequest, LookAndAccept, LookAndInvite, SendPress, NotSent, FindPending, rowVars
<1>9. CASE \E c \in Untyped : TypedInGame(c) \/ GivenUpUntyped(c)
  BY <1>2, <1>9, CommandKeeps
<1> QED
  BY <1>5, <1>6, <1>7, <1>8, <1>9 DEF ScreeningNext

\* Every variable of the screening of an applicant has its type, for any number
\* of join events and presses.
THEOREM ScreeningTypeCorrectness == ScreeningSpec => []ScreeningTypeOK
<1>1. ScreeningInv => ScreeningTypeOK
  BY DEF ScreeningInv
<1> QED
  BY <1>1, ScreeningInitially, ScreeningStep, PTL DEF ScreeningSpec

\* A press does not decide what was decided when it began: the row it holds on
\* to still waited when it was found, so it waited then.
THEOREM SettledIsKeptAlways == ScreeningSpec => SettledIsKept
<1> QED
  BY ScreeningInitially, ScreeningStep, SettledStep, PTL DEF ScreeningSpec, SettledIsKept

-----------------------------------------------------------------------------
(* The three side by side.                                                 *)

LEMMA ModerationStep ==
    ASSUME GuildInv, SafetyInv, ScreeningInv,
           [ModerationNext]_<<part, guildCommandVars, safetyVars, screeningVars>>
    PROVE  GuildInv' /\ SafetyInv' /\ ScreeningInv'
<1>1. [GuildNext]_guildCommandVars /\ [SafetyNext]_safetyVars /\ [ScreeningNext]_screeningVars
  BY DEF ModerationNext
<1> QED
  BY <1>1, GuildStep, SafetyStep, ScreeningStep

\* Every variable of a guild command, a lockdown and a screening has its type,
\* whichever of the three moves.
THEOREM ModerationTypeCorrectness == ModerationSpec => []ModerationTypeOK
<1>1. ModerationInit => GuildInv /\ SafetyInv /\ ScreeningInv
  BY GuildInitially, SafetyInitially, ScreeningInitially DEF ModerationInit
<1>2. GuildInv /\ SafetyInv /\ ScreeningInv => ModerationTypeOK
  BY DEF GuildInv, SafetyInv, ScreeningInv, ModerationTypeOK
<1> QED
  BY <1>1, <1>2, ModerationStep, PTL DEF ModerationSpec
=============================================================================
