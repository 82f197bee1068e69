---------------------------- MODULE GuildCommand ----------------------------
(***************************************************************************)
(* A punishment's guild command from the call of send to the guild's       *)
(* answer: the relay of the asking process                                 *)
(* (packages/moderation/src/game-relay.ts), the moderation bus over Redis  *)
(* pub/sub, the bridge, its outbound queue, and the echo that reads        *)
(* Hypixel's answer out of guild chat (apps/bridge-bot/src/transport.ts,   *)
(* command-echo.ts).  The queue is taken at its word: it appears as        *)
(* PacedDelivery, which CommandQueue is proved to implement.               *)
(*                                                                         *)
(* Abstractions.  A timer (the relay's 15 s, the echo's 10 s) may run out  *)
(* whenever it is set.  Messages on the bus arrive in any order, and one   *)
(* that is lost never does.  A notice is the kind and the player it names. *)
(***************************************************************************)
EXTENDS Integers, Sequences, FiniteSets, SequencesExt

CONSTANTS
    Request,     \* calls of send
    Staff,       \* answers to join requests: typed, and watched by nobody
    Notice,      \* what guild chat can announce: a kind and a player
    Intent,      \* the notice each request is meant to bring about
    CommandAge, CommandGap, Backlog,   \* the queue's limits
    OtherBridge  \* whether another guild's bridge is on the bus

Command == Request \cup Staff

ASSUME GuildAssumption ==
    /\ Request \cap Staff = {}
    /\ IsFiniteSet(Request \cup Staff)
    /\ Intent \in [Request -> Notice]
    /\ CommandAge \in Nat
    /\ CommandGap \in Nat \ {0}
    /\ Backlog \in Nat \ {0}
    /\ OtherBridge \in BOOLEAN

VARIABLES
    \* the asking process
    pc,         \* where each call of send is
    listening,  \* the subscription to the answers stands
    waiting,    \* the keys of the map of waiters
    heardTyped, \* the waiters that heard TYPED
    verdict,    \* what each call of send comes to
    \* the bus
    outbox,     \* requests on their way to this guild's bridge
    acks,       \* answers on their way back
    \* the bridge
    fate, arrival, accepted, age, gap,   \* the queue
    watches,    \* the requests the echo watches for, oldest first
    \* the guild, and what is known of it
    typed,      \* commands typed that Hypixel has not dealt with
    noticed     \* requests whose notice was read after they were typed

callVars   == <<pc, listening, waiting, heardTyped, verdict>>
busVars    == <<outbox, acks>>
queueVars  == <<fate, arrival, accepted, age, gap>>
guildVars  == <<typed, noticed>>
guildCommandVars == <<callVars, busVars, queueVars, watches, guildVars>>

Queue == INSTANCE PacedDelivery WITH
    Command <- Command, Urgent <- Staff, MaxAge <- [c \in Command |-> CommandAge],
    Spacing <- CommandGap, MaxBacklog <- Backlog,
    fate <- fate, arrival <- arrival, accepted <- accepted, age <- age, gap <- gap

Ack(r, outcome) == [call |-> r, outcome |-> outcome]

\* Every process hears every answer, and drops those none of its waiters are
\* for: only the others are kept here.
Acks(r, outcome) == acks' = IF r \in waiting THEN acks \cup {Ack(r, outcome)} ELSE acks

Unheard(r) == acks' = {ack \in acks : ack.call # r}

----------------------------------------------------------------------------
(* send, in the process that punishes.                                     *)

Terminal == {"CONFIRMED_INGAME", "REFUSED_INGAME", "WRONG_GUILD", "REFUSED_BACKLOG", "EXPIRED"}

Goes(r, to) == pc' = [pc EXCEPT ![r] = to]

Returns(r, outcome) ==
    /\ Goes(r, "done")
    /\ verdict' = [verdict EXCEPT ![r] = outcome]

\* live found no bridge in game, or failed.
SendNoSession(r) ==
    /\ pc[r] = "idle"
    /\ Returns(r, "NO_SESSION")
    /\ UNCHANGED <<listening, waiting, heardTyped, busVars, queueVars, watches, guildVars>>

\* The subscription stands, or is made; the waiter is there before the
\* instruction leaves.
Send(r) ==
    /\ pc[r] = "idle"
    /\ listening' = TRUE
    /\ waiting' = waiting \cup {r}
    /\ Goes(r, "publish")
    /\ UNCHANGED <<heardTyped, verdict, busVars, queueVars, watches, guildVars>>

\* Subscribing failed: the command goes out all the same, and nobody waits.
SendDeaf(r) ==
    /\ pc[r] = "idle"
    /\ ~listening
    /\ Goes(r, "publish")
    /\ UNCHANGED <<listening, waiting, heardTyped, verdict, busVars, queueVars, watches, guildVars>>

\* Redis carries the message out; the caller has yet to hear so.  The
\* subscription is for every guild's channel, and a bridge answers for the
\* commands of the other guilds too.
Publish(r) ==
    /\ pc[r] = "publish"
    /\ Goes(r, "published")
    /\ outbox' = outbox \cup {r}
    /\ IF OtherBridge THEN Acks(r, "WRONG_GUILD") ELSE UNCHANGED acks
    /\ UNCHANGED <<listening, waiting, heardTyped, verdict, queueVars, watches, guildVars>>

\* Slip: the waiter is left to its timer.
ForgetWaiterLate(r) == waiting

ForgetWaiter(r) == waiting \ {r}

\* publish rejected, whether or not the message was carried out.
PublishFails(r) ==
    /\ pc[r] \in {"publish", "published"}
    /\ waiting' = ForgetWaiter(r)
    /\ heardTyped' = heardTyped \ {r}
    /\ Returns(r, "NO_SESSION")
    /\ Unheard(r)
    /\ UNCHANGED <<listening, outbox, queueVars, watches, guildVars>>

\* No waiter was made.  The outcome is UNCONFIRMED too, with another detail.
Deaf(r) == r \notin waiting /\ verdict[r] = "none"

\* send goes on to wait, unless its promise has resolved in the meantime.
PublishReturns(r) ==
    /\ pc[r] = "published"
    /\ IF Deaf(r)
       THEN Returns(r, "UNHEARD")
       ELSE Goes(r, IF r \in waiting THEN "await" ELSE "done") /\ UNCHANGED verdict
    /\ UNCHANGED <<listening, waiting, heardTyped, busVars, queueVars, watches, guildVars>>

\* The waiter goes, its timer is cancelled and its promise resolves.
Settle(r, outcome) ==
    /\ waiting' = waiting \ {r}
    /\ heardTyped' = heardTyped \ {r}
    /\ verdict' = [verdict EXCEPT ![r] = outcome]
    /\ Unheard(r)
    /\ pc' = IF pc[r] = "await" THEN [pc EXCEPT ![r] = "done"] ELSE pc

WasTyped(r) == r \in heardTyped

TimesOut(r) ==
    /\ r \in waiting
    /\ Settle(r, IF WasTyped(r) THEN "UNCONFIRMED" ELSE "TIMED_OUT")
    /\ UNCHANGED <<listening, outbox, queueVars, watches, guildVars>>

\* Slip: an answer settles whoever waits.
AnsweredAny(ack) == waiting

\* The waiter an answer is for.  Acks reach every process on the bus.
Answered(ack) == {ack.call} \cap waiting

\* Slip: progress is taken for a verdict.
SettlesAny(outcome) == TRUE

Settles(outcome) == outcome \in Terminal

HearAck(ack) ==
    /\ ack \in acks
    /\ \E r \in Answered(ack) :
          IF Settles(ack.outcome)
          THEN Settle(r, ack.outcome)
          ELSE /\ heardTyped' = heardTyped \cup {r}
               /\ acks' = acks \ {ack}
               /\ UNCHANGED <<pc, waiting, verdict>>
    /\ UNCHANGED <<listening, outbox, queueVars, watches, guildVars>>

----------------------------------------------------------------------------
(* The bridge.                                                             *)

Arrives(r) == r \in outbox /\ outbox' = outbox \ {r}

\* The transport has not set its sink yet, or is being destroyed.
ArriveWithoutSink(r) ==
    /\ Arrives(r)
    /\ Acks(r, "EXPIRED")
    /\ UNCHANGED <<callVars, queueVars, watches, guildVars>>

\* The guild id could not be looked up.
ArriveUnresolved(r) ==
    /\ Arrives(r)
    /\ Acks(r, "WRONG_GUILD")
    /\ UNCHANGED <<callVars, queueVars, watches, guildVars>>

ArriveQueued(r) ==
    /\ Arrives(r)
    /\ Queue!Accept(r)
    /\ UNCHANGED <<callVars, acks, watches, guildVars>>

ArriveRefused(r) ==
    /\ Arrives(r)
    /\ Queue!Refuse(r)
    /\ Acks(r, "REFUSED_BACKLOG")
    /\ UNCHANGED <<callVars, watches, guildVars>>

Expired(c) == IF c \in Request THEN Acks(c, "EXPIRED") ELSE UNCHANGED acks

\* A join request is answered: joinControl calls sendGameCommand itself.
StaffCommand(c) ==
    /\ \/ (Queue!Accept(c) \/ Queue!Refuse(c)) /\ UNCHANGED acks
       \/ \E victim \in Command : Queue!AcceptInstead(c, victim) /\ Expired(victim)
    /\ UNCHANGED <<callVars, outbox, watches, guildVars>>

\* onSent: the echo watches from now on.
TypeRequest(r) ==
    /\ Queue!Send(r)
    /\ typed' = Append(typed, r)
    /\ watches' = Append(watches, r)
    /\ Acks(r, "TYPED")
    /\ UNCHANGED <<callVars, outbox, noticed>>

TypeStaff(c) ==
    /\ Queue!Send(c)
    /\ typed' = Append(typed, c)
    /\ UNCHANGED <<callVars, busVars, watches, noticed>>

Discard(c) ==
    /\ Queue!Abandon(c)
    /\ Expired(c)
    /\ UNCHANGED <<callVars, outbox, watches, guildVars>>

QueueTick ==
    /\ Queue!Tick
    /\ UNCHANGED <<callVars, busVars, watches, guildVars>>

----------------------------------------------------------------------------
(* Guild chat, line by line.                                               *)

\* Slip: the player is not compared.
IsForAnyone(r, notice) == Intent[r] \in Notice

IsFor(r, notice) == Intent[r] = notice

\* observe, for a notice: the first watch for it is confirmed.
ClaimNotice(notice) ==
    \E i \in 1..Len(watches) :
        /\ IsFor(watches[i], notice)
        /\ \A j \in 1..(i - 1) : ~IsFor(watches[j], notice)
        /\ Acks(watches[i], "CONFIRMED_INGAME")
        /\ watches' = RemoveAt(watches, i)

Unclaimed(notice) ==
    /\ \A i \in 1..Len(watches) : ~IsFor(watches[i], notice)
    /\ UNCHANGED <<acks, watches>>

\* Requests typed so far that meant to bring the notice about.
TypedFor(notice) == {r \in Request : fate[r] = "sent" /\ Intent[r] = notice}

\* A command is carried out, and announced in words the bridge knows.
Announced(r) ==
    /\ noticed' = noticed \cup TypedFor(Intent[r])
    /\ ClaimNotice(Intent[r]) \/ Unclaimed(Intent[r])

\* Slip: it is charged to the newest watch.
RefusedNewest ==
    /\ IF watches = <<>>
       THEN UNCHANGED <<acks, watches>>
       ELSE /\ Acks(Last(watches), "REFUSED_INGAME")
            /\ watches' = Front(watches)
    /\ UNCHANGED noticed

\* A refusal names no player: it is charged to the oldest watch.
Refused ==
    /\ IF watches = <<>>
       THEN UNCHANGED <<acks, watches>>
       ELSE /\ Acks(Head(watches), "REFUSED_INGAME")
            /\ watches' = Tail(watches)
    /\ UNCHANGED noticed

\* Carried out or not, in words the bridge does not know, or without any.
Unrecognised == UNCHANGED <<acks, watches, noticed>>

\* Hypixel deals with commands in the order they were typed.
GuildAnswers ==
    /\ typed # <<>>
    /\ typed' = Tail(typed)
    /\ LET c == Head(typed) IN
          \/ c \in Request /\ Announced(c)
          \/ Refused
          \/ Unrecognised
    /\ UNCHANGED <<callVars, outbox, queueVars>>

\* Somebody in game does the same to the same player.
StafferActs(notice) ==
    /\ ClaimNotice(notice) \/ (Unclaimed(notice) /\ TypedFor(notice) # {})
    /\ noticed' = noticed \cup TypedFor(notice)
    /\ UNCHANGED <<callVars, outbox, queueVars, typed>>

\* expire: the oldest watch has outlived its window.
WatchLapses ==
    /\ watches # <<>>
    /\ watches' = Tail(watches)
    /\ UNCHANGED <<callVars, busVars, queueVars, guildVars>>

----------------------------------------------------------------------------

GuildInit ==
    /\ pc = [r \in Request |-> "idle"]
    /\ listening = FALSE
    /\ waiting = {}
    /\ heardTyped = {}
    /\ verdict = [r \in Request |-> "none"]
    /\ outbox = {}
    /\ acks = {}
    /\ Queue!Init
    /\ watches = <<>>
    /\ typed = <<>>
    /\ noticed = {}

\* What the event loop of the asking process runs for a call that is made.
Advance(r) == Publish(r) \/ PublishFails(r) \/ PublishReturns(r) \/ TimesOut(r)

Sender(r) == SendNoSession(r) \/ Send(r) \/ SendDeaf(r) \/ Advance(r)

Bridge ==
    \/ \E r \in Request :
          \/ ArriveWithoutSink(r) \/ ArriveUnresolved(r) \/ ArriveQueued(r) \/ ArriveRefused(r)
          \/ TypeRequest(r)
    \/ \E c \in Staff : StaffCommand(c) \/ TypeStaff(c)
    \/ \E c \in Command : Discard(c)
    \/ QueueTick \/ WatchLapses

Guild == GuildAnswers \/ \E notice \in Notice : StafferActs(notice)

GuildNext == (\E r \in Request : Sender(r)) \/ (\E ack \in acks : HearAck(ack)) \/ Bridge \/ Guild

GuildSpec == GuildInit /\ [][GuildNext]_guildCommandVars

----------------------------------------------------------------------------
(* Properties.                                                             *)

Verdict == Terminal \cup {"none", "NO_SESSION", "TIMED_OUT", "UNCONFIRMED", "UNHEARD"}

\* Every variable has its type.
GuildTypeOK ==
    /\ pc \in [Request -> {"idle", "publish", "published", "await", "done"}]
    /\ listening \in BOOLEAN
    /\ waiting \subseteq Request
    /\ heardTyped \subseteq Request
    /\ verdict \in [Request -> Verdict]
    /\ outbox \subseteq Request
    /\ acks \subseteq [call : Request, outcome : Terminal \cup {"TYPED"}]
    /\ fate \in [Command -> {"new", "refused", "waiting", "sent", "discarded"}]
    /\ watches \in Seq(Request)
    /\ typed \in Seq(Command)
    /\ noticed \subseteq Request

\* A case is called confirmed only if the guild announced that very act, to
\* that very player, after the command was typed: not on the bridge's word,
\* and not on an announcement meant for another command.
ConfirmedIsTrue ==
    \A r \in Request : verdict[r] = "CONFIRMED_INGAME" => fate[r] = "sent" /\ r \in noticed

\* What staff are told of the typing is so: a command refused or expired is not
\* typed, then or later, however the answers were delayed and whatever the
\* queue displaced; and "typed in guild chat" is said of a command that was.
TypedIsTrue ==
    \A r \in Request :
        /\ verdict[r] \in {"REFUSED_BACKLOG", "EXPIRED"} => fate[r] # "sent"
        /\ verdict[r] = "UNCONFIRMED" => fate[r] = "sent"

\* No lost wake-up and no leak: a send that waits has its waiter, and so its
\* timer, whatever came before it began to wait; a send that returned has
\* none left for a late answer to find.
WaiterIsOwed ==
    \A r \in Request :
        /\ pc[r] = "await" => r \in waiting
        /\ pc[r] = "done" => r \notin waiting

\* A refusal goes to a command Hypixel has not dealt with only when the one it
\* was meant for is watched by nobody: a staff command, or one whose watch has
\* lapsed or was settled by somebody else's act (command-echo.ts:145: "Commands
\* leave this bridge one at a time and paced, so the oldest command still
\* waiting is the one being refused").
RefusalIsNotEarly ==
    [][\A r \in Request :
          /\ Ack(r, "REFUSED_INGAME") \in acks' \ acks
          /\ \E i \in 1..Len(typed') : typed'[i] = r
          => \A i \in 1..Len(watches) : watches[i] # Head(typed)]_guildCommandVars
=============================================================================
