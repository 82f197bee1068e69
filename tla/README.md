# Verification of the SBR bot platform

TLA+ models of the SBR guild platform (a TypeScript monorepo: Discord bots, a
Mineflayer bridge into Hypixel guild chat, background workers, a web panel and a
client mod), model-checked with TLC and, for the central results, proved with
TLAPS. Paths below are relative to the repository root.

## The system

Five processes share one Postgres database and one Redis:

| Process | Role | State of its own |
|---|---|---|
| `apps/admin-bot` | staff commands, moderation, tickets, the punishment and safety sweeps (timers) | none that survives; sweep timers |
| `apps/bridge-bot` | member commands; relays chat between Discord and Hypixel guild chat through a Mineflayer session | outbound command queue, echo watches, chat queue, session |
| `apps/workers` | BullMQ jobs under a Redis lock: pricing, progression, scans, role sync, analytics, maintenance | job runs |
| `apps/web-panel` | staff web UI; calls the same services as the bots | request tasks, panel cache |
| `apps/guide-bot` | read-only guide answers | none |

Postgres is the truth (moderation rows, tickets, XP ledgers, job runs). Redis
holds what must be fast or shared: enforcement mirror keys with a TTL, locks
(`SET NX PX`, owner-checked release), cooldowns and rate gates, caches, pub/sub
buses (config, moderation, game commands, acks), dirty sets, streams.

### Components and what makes each correct

| Component | State | Operations | Hard part | Correct when |
|---|---|---|---|---|
| Moderation enforcement (`packages/moderation/src/service.ts`) | moderation rows, Redis mirror, Discord bans and timeouts | apply, adopt, retry, void, edit, set by hand; stale sweep; expiry sweep | every await is an interleaving point between staff, panel and two sweeps; either surface can fail; process death | a CONFIRMED row is true, an unanswered row is settled, an expired one is lifted, a void is undone on every surface |
| Outbound game commands (`apps/bridge-bot/src/command-queue.ts`) | bounded queue with urgent and ordinary commands, one drainer | push, displace, drain, expire | the drainer reads the head, sleeps and comes back to a queue others changed; session loss | each accepted command ends once: sent, expired or displaced; never late, never faster than Hypixel's pace; urgent first |
| Game relay (`packages/moderation/src/game-relay.ts`) | waiters by request id | send, ack, timeout | acks late, lost or from another process | a verdict is true of what was typed and announced, and no send waits without its timer |
| Command echo (`apps/bridge-bot/src/command-echo.ts`) | 10 s watches per sent command | sent, chat line, expiry | which of two watched commands a refusal is about | a success line settles the command it names, a refusal only a command that can have been meant |
| Job runner and lock (`packages/jobs/src/runner.ts`, `RedisLock`) | lock key with TTL, job runs | acquire, attempt, retry, record, release | the TTL runs out while the holder still works | no two holders by the store; a release never frees another's lock; a run is recorded once |
| Safety (`packages/moderation/src/safety.ts`) | lockdown and anti-raid records, channel overwrites | lockdown, lift, enable, sweep | a sweep acts on a list it read before a new lockdown | every channel the bot locked is in a record that will unlock it, and a lift opens no other |
| Client ingest (`packages/client-ingest`, `ctjs-module`) | session with an inbox, bounded ring per member, client socket queue | hello, events, drain, close; client pump and reconnect | no acks: a send that dies is either put back or lost; close in the middle of a drain | nothing is received twice, each connection's records come in order, a linked player is not refused |
| Screening (`packages/screening`) | claim queue of applicants, act window | admit, act, expire | two staff act on one card; act racing expiry | a late press changes no settled row; the record says of the command what became of it |
| Hypixel client (`packages/hypixel`) | response cache, key budget, in-flight requests | fetch, coalesce, back off | budget read and decrement are two steps | the key's limit is not passed |
| Redis adapters (`packages/redis`) | cooldowns, tallies, drains, version keys | set-if-absent, pop, publish | crash between read and delete | what was drained is not lost or written twice |
| Panel (`packages/panel-core`, `apps/web-panel`, `packages/guild-config`) | versioned cache, cached configuration, settings documents | read-through, invalidate, 72 mutations through one pipeline | a slow read storing after an invalidation; lost hints; two editors of one document; failure between write and audit | whoever writes and reloads sees it; an answer says what happened; nothing is lost but what was overwritten unread |
| Tickets (`packages/tickets`, `apps/bridge-bot/src/tickets.ts`) | row, channel, number | open, claim, release, transfer, ask, close, sweep | failures and restarts between row, transcript and channel; a sweep acting on an old look | a channel goes only with its ticket closed and the transcript sent; the sweep closes only what was due |
| XP (`packages/xp`, `apps/bridge-bot/src/levels.ts`) | counters, ledger, balances, level-ups | aggregate, adjust, award, rebuild, announce | overlapping and repeated runs, a bot that dies mid-post | only levels really reached are announced, none is cleared unsaid |
| Events (`packages/community`, `packages/jobs`, `apps/bridge-bot/src/event-board.ts`) | event row, RSVPs, one message in a channel, baseline and final snapshots, scores | start, complete, cancel, transition sweep; register; publish; poll | publishes and polls that overlap, a post and its binding in two systems, seats counted before they are taken | one board that ends on the result, no more than the presses at once too many going, a gain measured from one starting line |
| Roles, perms, identity, playtime, triggers, leaderboards | rows in Postgres | CRUD with guards, periodic jobs | open sessions across restarts | one open session |
| Pure libraries (`skyblock-parse`, `pricing`, `progression`, `guide`, `embed-kit`, ...) | none | functions | numeric edges | agree with a reference definition |

### How they interact

The moderation service writes the row, the Redis mirror and Discord in turn and
publishes a game command; the bridge's listener queues it, types it into the
session, watches chat for Hypixel's answer and publishes acks; the service's
relay resolves the waiter, or gives up after 15 seconds and leaves the row
PENDING for the sweep. The panel and the bridge call the same service in their
own process. The sweeps run on timers in the admin bot under a Redis lock.
Workers run under the same lock class with a 60-second default TTL.
## Modules and runs

| Module | Models | Composed with | Checked by run | Proofs |
|---|---|---|---|---|
| `Enforcement` | the moderation service | | `Enforcement*` | `EnforcementProofs` |
| `CommandQueue` | the bridge's outbound queue | implements `PacedDelivery` | `Scheduling` | `CommandQueueProofs` |
| `PacedDelivery` | what the queue promises | used by `GuildCommand` | `Scheduling` | |
| `JobRunner` | job runner and Redis lock | | `Scheduling`, `JobRunnerOverrun` | `JobRunnerProofs` |
| `GuildCommand` | relay, bus, bridge, echo | `PacedDelivery` as its queue | `Moderation` | `ModerationProofs` |
| `SafetyLockdown` | lockdown records and overwrites | | `Moderation`, `SafetyElapsed` | `ModerationProofs` |
| `Screening` | applicants | | `Moderation`, `ScreeningUnheard` | `ModerationProofs` |
| `PanelCache`, `ConfigCache`, `PanelWrites` | the panel's reads, configuration, writes | | `Community` | `PanelProofs` |
| `IngestSession` | the mod's queue and socket, the server's session | | `Community` | `MemberProofs` |
| `TicketNumbers`, `Tickets` | numbering, life of a ticket | | `Community` | `MemberProofs` |
| `XpLedger` | counters, ledger, level-ups | | `Community` | `MemberProofs` |
| `EventBoard` | an event's status and its message in the channel | | `Community`, `EventBoardTwin` | `EventProofs` |
| `EventSignup` | the answers that take an event's seats | | `Community` | `EventProofs` |
| `EventContest` | the poll that scores an event | | `Community` | `EventProofs` |

Components that share no state are checked side by side in one run: in
`MCModeration`, `MCCommunity` and `MCScheduling` a variable (`part`, `loop`) picks, in
the initial state, which one moves, and the others stay as they began. Nothing is lost by it, since
no action of one reads a variable of another, and the state space is the sum of
theirs instead of the product. `ModerationProofs` and `CommunityProofs` prove of
`MCModeration` and `MCCommunity` what the components keep alone. In `MCScheduling` the fairness of each loop is asked
only of the behaviours that are its own. Where every theorem of a module rests on
its type invariant (`Enforcement`, `CommandQueue`, `JobRunner`) the type invariant is
proved and no run spends a property on it.

Left for later, in this order: `settleExternal` and the escalation ladder in
`Enforcement`; the Hypixel key budget and the analytics drain (both are two Redis
calls with room in between, `adapters.ts:233` and `:371`); the anti-raid posture;
playtime sessions; role sync; identity links; looking-for-group posts. `Enforcement` assumes one sweeper;
`JobRunnerOverrun` shows that the lock does not grant that.

## How to run

`tlc -config <Run>.cfg <module>` for each row of `runs` in `PROJECT.json`, and
`tlapm <Module>Proofs.tla`. Every run takes three minutes or less on two
workers. Runs named as violations are disagreements between the code and what the
repository says of it; each is a row of `findings`.

## Modules

### `Enforcement` - the moderation service

State: `cases` is the `moderation_action` table for one member (type, clock for
`expiresAt`, `active`, `enforcement`, `enforcementAttempts`, `voidedAt`);
`mirror` the Redis keys; `discord` and `present` what Discord holds; `task` what
each caller (staff bot, panel, bridge) and the sweep is doing between awaits.
`later` stands for the part of `expiresAt` the clock leaves out: the rows that
expire after the `now` of the sweep that is reversing. `grounds`, `asked`,
`effort`, `raised`, `lifted`, `edited` are history variables the properties
speak about.

One action per stretch of code between two awaits: `applyAction`,
`recordDiscordAction`, `retryEnforcement`, `voidAction`, `updateAction`,
`setEnforcementManually` begin a call; `Mirror`, `Discord`, `Game`, `Stamp`,
`alertStaff` are `enforce`; `VoidLift`, `VoidMark`, `Remirror` finish a void or an
edit; `settleStalePending`, `SettleNext`, `reverseExpired`, `ReverseNext`,
`deactivateExpired` are one sweep in the order of `sweepPunishments`;
`ClockRunsOut`, `GraceElapses`, `MirrorLapses`, `TimeoutLapses`, `Rejoin` and
`Crash` are the world. A store write that the code catches may miss
(`LandsOrNot`), counted with crashes by `MaxFaults`.

Abstractions: one member and one guild (rows of different members share only the
sweep's page); rows without a Discord id are not modelled (the sweep skips
them, but none is on its page: only `recordExternalAction` opens a BAN or MUTE
without one, and writes it inactive); time is the clock of a row and the flag `quiet` (a grace period
since the last attempt). The grace of 15 minutes is sixty times the longest wait
inside an attempt, so no attempt on a case is in flight when its grace ends.

| Run | Bounds | What it shows |
|---|---|---|
| `EnforcementRetry` | one kick, two panel users and the sweep, two attempts allowed, two panel retries, one fault | types; a CONFIRMED row has grounds; counted attempts were made; the sweep adds at most the attempts left (plus one per fault); failures reach staff; no case is condemned untried |
| `EnforcementVoid` | two bans and their two reversals; void, edit, adoption | no ban of the length it was issued with leaves the active list, or is void before its time, without a reversal (page of two) |
| `EnforcementLive` | one mute, two reversals, one fault, fair sweep | unanswered cases are settled, expired ones cleared |
| `EnforcementVoidSwept` | violated: `VoidedIsLifted` | the stale sweep enforces a voided case again |
| `EnforcementExpiryPage` | violated: `ClearedWasReversed` with a page of one | expired bans beyond the page are cleared, never lifted |

Two callers and the sweep are the smallest number with a race between two manual
retries and an automatic one; two attempts tell "one too few" from "one too
many"; two bans with a page of one or two are the smallest overflow of a page
and the smallest that fits.

Fairness: a started call goes on (`EnforceStep`, `VoidStep`), the five-minute
timer keeps sweeping (`SweepStep`; `punishment-sweep.ts` re-arms after every
run), and the grace period passes. Nothing is assumed of staff, members,
clocks or Discord's answers.

#### What else the model shows

Reachable in the model with other constants, and worth a decision by the
maintainers:

* A ban shortened, while the sweep reverses, to an expiry that is past already is
  cleared by `deactivateExpired` and never lifted: it was on no page, and
  `UneditedWasReversed` is stated around it.
* A ban voided between its expiry and the sweep is lifted by neither: `voidAction`
  finds it no longer in force, `listExpiredActive` no longer active.
* A void writes the mirror key again after its reversal removed it, since the row's
  type is still MUTE or BAN (`service.ts:423`, against the comment above it).
* A reversal Discord refuses does not stop the void: `VoidedWasReversed` says
  that one was attempted, `VoidedIsLifted` is violated.
* Nothing clears `active` on the ban an UNBAN lifts, so the ban still reads in
  force and CONFIRMED; the expiry of an older ban lifts a later permanent one.
  `docs/MODERATION_AUDIT_LOG.md:100` says no such path exists.
* A PENDING ban that expired and was lifted is applied again by the stale sweep
  with its flag already cleared: nothing lifts it a second time.
* A panel retry and the sweep can stamp the same attempt number, where the
  comment at `service.ts:866` says they share one sequence.
* A kick of a member who already left is FAILED, although the comment at
  `effects.ts:38` counts 10007 on a kick as success.

### `CommandQueue` and `PacedDelivery` - the bridge's outbound queue

`PacedDelivery` states what a caller may rely on, without a queue: a command is
refused at once or ends in exactly one of `onSent` and `onExpired`; urgent before
ordinary, each in order of arrival; two sends `Spacing` apart; nothing sent after
its age limit; a full backlog gives up its newest ordinary command, and only to
an urgent one. `CommandQueue` is the code: `pending` the array, `drainer` where the
async loop is (`off` is `draining === false`; `loop` and `head` are inside a stretch
that JavaScript runs to its end, so nothing else moves; `asleep` awaits a timer),
`age` and `gap` the clock differences the code compares, up to the limits.

| Run | Bounds | What it shows |
|---|---|---|
| `Scheduling` | two ordinary, two urgent commands, backlog 2, spacing 2, limits 2 and 3 | no lost wake-up, `PacedDelivery` implemented, every accepted command ends |

A backlog of two with two of each kind gives every mixture of a full array:
ordinary only (displace the newest), mixed, entirely urgent (refuse). A spacing
of two separates "the gap has gone by" from "some time has gone by"; limits of two and
three let a command expire before, while and after another one is sent.

Fairness: due timers run (`DrainStep`) and time passes; a timer may be late by any
amount, and no session is owed to anybody. Liveness rests on finitely many
pushes: an endless stream of urgent commands could keep an ordinary one from
ever reaching the head, where alone its age is looked at.

The model shows that a command may be reported "discarded untyped: the session
never came back in time" (`transport.ts:1451`) with the session up all along: it was
displaced, or aged out behind others.

### `JobRunner` - a job under its lock

A runner is one call of `JobRunner.run` (`packages/jobs/src/runner.ts`); ticks of
the same timer, instances of the bot and workers are all runners, since a tick
does not wait for the one before. `store` is the token under the lock key; `run[r]`
is where the call is (`granted`, `working` inside the handler, `backoff` between
attempts, `record` at the job log, `release` in the finally block). `RedisLock` is
translated with what can happen to it: the answer to `SET NX PX` is lost after it
was carried out (`AcquireUnheard`), a lease runs out (`Lapse`), a release throws
(`ReleaseFails`), the process dies (`Crash`).

A lease may lapse at any moment. That is more than a clock allows a healthy
handler, and for the properties below it is the assumption the code has to
survive: nothing in `run` compares the time a handler takes with `lockTtlMs`.

| Run | Bounds | What it shows |
|---|---|---|
| `Scheduling` | two runners, one retry, three acquisitions between them, one fault | at most one unlapsed lease; a handler that returned is not run again because its log write failed; the log tells the truth; the lock always becomes free |
| `JobRunnerOverrun` (violation) | three runners, the rest the same | `SweepsAlone` fails: lapse, second grant, two handlers at work |

Three acquisitions are needed for the mistake the owner check prevents: the first
outlives its lease, the second takes over, and the first one's release must not
admit a third. A runner that is through may call again, so two of them make the
three. One retry is enough for an attempt before and after a backoff.

Fairness: Redis runs keys out (`Lapse`), and a call under way goes on. Nobody has
to start a job, so deadlock is not checked: with every acquisition used up all
is done.

**Finding.** `composition.ts:90`, `punishment-sweep.ts:14` and `safety-sweep.ts:11` of the
admin bot say that the lock keeps a second instance from sweeping at the same
time. It does so for 60 seconds (`jobs.ts:362`), while a punishment sweep goes
through up to a hundred rows, each of which may wait 15 seconds for guild chat.
After five minutes the next tick of the *same* instance is enough.

### `GuildCommand` - from `send` to the guild's answer

The asking process (`send` of `game-relay.ts`), the moderation bus, the bridge
(`transport.ts`), its queue and the echo that reads Hypixel's answer out of guild
chat (`command-echo.ts`), for several requests at once. `pc` is where each `send`
is: between its awaits it registers a waiter (`waiting`), publishes, and waits;
`acks` are answers on the bus, in no order and perhaps lost; `heardTyped` is what
`send` remembers of a `TYPED` answer, and decides between `UNCONFIRMED` and
`TIMED_OUT`. On the bridge, `fate` and `typed` are the variables of
`PacedDelivery`, instantiated as the queue: this module relies on the queue's
promise, and `CommandQueue` is proved to keep it, so nothing said here rests on
the array. `watches` is the echo's list; `noticed` records which requests the
guild has answered with the very act they asked for.

Everyone who can put a line into guild chat is there: our commands, a staffer
who acts by hand (`StafferActs`), a staff command through the same queue, answers
the bridge cannot read, and a second bridge that hears the same request
(`OtherBridge`), whose `NO_SESSION` arrives beside ours.

`Moderation` checks, with two requests about two members and one staff command
in a backlog of one: confirmed is said only of what the guild announced
(`ConfirmedIsTrue`); what is said of the typing is so (`TypedIsTrue`); no `send`
waits without a timer (`WaiterIsOwed`); and a refusal, which names no player, is
given to the wrong command only when the right one is watched by nobody
(`RefusalIsNotEarly`). The last is the most that is true: the comment the code
goes by ("the oldest command still waiting is the one being refused") fails when
the older watch has lapsed unseen, and the property names exactly those cases.
A backlog of one makes the third command refused or displacing; an age and a gap of one
let a command expire in the queue.

### `SafetyLockdown` - lockdowns and the record that undoes them

`shut[c]` says who closed a channel, the bot or a hand; `posture` is the Redis
record; `task` the calls under way, which lock or unlock channel by channel, with
others running in between. `mishaps` is a history variable: it collects what has gone wrong that the code
makes no attempt to repair (an unlock Discord refused, a record not written, two
calls overlapping, a record replaced after its time but before the sweep).

* `EveryShutIsListed` (run `Moderation`, two officers, two channels, four calls):
  as long as no mishap occurred, a channel the bot closed is in the record that
  will open it. Locks, escalations (channel to server), failures half way,
  lifts and sweeps in any sequence.
* `HandShutStaysShut`: a lift opens no channel a person had closed, because `setLocked`
  lists only what it changed. No mishap is excepted; but in the model people close and
  open channels only while no lockdown stands and no call runs. A channel closed by
  hand during a lockdown that had closed it already is not told apart, by the code
  or here.
* Run `SafetyElapsed` is violated: `lockdown` treats a record that has elapsed as
  none (`safety.ts:61`), although the sweep, once a minute at best, has not yet
  reopened its channels. The new record replaces the only list of them; the
  comment at `safety.ts:66` names this very loss as the one the check prevents.

Two overlapping calls lose a list in the same way (hazard at `safety.ts:60`);
nothing in the code claims otherwise, so it is excluded, not asserted.

### `PanelCache`, `ConfigCache`, `PanelWrites` - the panel

`PanelCache`: pages are stored under a generation number that a write increments
(`INCR`), so a page computed before a write and stored after it lands under a
number nobody reads any more. `ReloadShowsTheWrite` is the sentence of the code's
own comment: whoever writes and then reloads sees it, with two editors, two
viewers and one failure of Redis. A failed increment or a failed read of the
generation is the exception (`blunted`); a failure anywhere else is not.

`ConfigCache`: each process keeps the guild row for a time-to-live, drops it on
its own write, and on a hint over pub/sub that may be lost. `StaleIsBrief`: with
all hints lost, nothing is served that was outdated for the TTL or longer.
`ToldIsSeen`: a process that made or heard of a write does not serve from before
it, unless a read of its own was in flight at that moment (`crossed`): the code
then stores the old row over the dropped copy and serves it for a whole TTL. That
window is real (`service.ts:74`) and the property is stated around it.

`PanelWrites`: all 72 mutations of `mutations.ts` go through one pipeline (`run`:
floor, limiter, body, audit row, usage event), and differ in the shape of the body: one
statement, a document saved whole, a document or a map read, edited and written
back, several statements in a row, a statement and what the service does after it,
something done elsewhere. The operators named after the mutations say which shape each
has, on which table, what follows the first write (`after`) and how the body may end when
that fails (`miss`): it says nothing of it, it refuses, or it throws. A retry stamps the
case before it writes who asked (`moderation/src/service.ts:369`); a void lifts the
punishment by a case of its own before it writes the void (`392`), and may find the case
gone; a moderation's row stands before it is enforced; an award is on the ledger before
the balances are rebuilt.

`AnswersAreTrue` says what an answer is worth in all of this. A reported success is on the
trail, and complete but for a stamp, a switched-off word rule or a menu's post. A
refusal is not on the trail and wrote nothing, except for the seven mutations of
`RefusedHalfway`; a punishment is not among them. A request that dies wrote all or nothing,
or is of a mutation named as one that may end halfway.

What it names as halfway is where comments of the code promise more: an award that
landed may be reported as an error (`AdjustXp` is in `RefusedHalfway`;
`mutations.ts:1386` explains why it should not be). Two losses are in the model and no
property denies them, since the code has nothing against either. A settings document
whose read fails is served as an empty one (`guild-config/src/service.ts:128`), and a
rule saved over it erases the others (`ReadDocumentFails`). Two staff who flip two flags
undo one another, since the map is read, edited and written back (`bridge.ts:249`); the
same holds for every document of that shape.

Bounds: two clerks, one entry and the automod switch, two writes, one error;
with three clerks nothing new happens, since each pair already overlaps in every
way.

### `IngestSession` - the client mod's records

Both ends of one socket: the mod's bounded queue, its connection with the
listeners that the JDK runs on another thread, and the server's session, whose
inbox holds frames while the hello is looked up. `line` is the set of
connections, the ones the mod has given up included: their listeners still run
and clear the socket in use, and a dial that timed out can open after all.

`RecordedOnce`: through any of that, no record reaches the ring twice, and those
of one connection arrive in order; the mod removes a record from its queue
before the send and puts it back only when the send failed as a whole.
`LinkedIsHeard`: a linked player is never turned away, because a second frame
waits for the hello instead of being read beside it. A pump is not one step. It looks at the
phase, then at `helloSent`, sends on the socket that is there by then, and writes
`helloSent` last (`socket.js:208-264`); `onOpen` writes `phase` and the socket and
clears `helloSent` afterwards (`socket.js:80`), on another thread, so either can
land inside the other. `step` is where the pump is. `torn` records that a connection
opened between a pump's look at `helloSent` and its end, and `LinkedIsHeard` says that
nothing else gets a linked player refused. The
exception is real: `docs/CLIENT_INGEST.md:81` wants the hello first and once, and a
pump inside an `onOpen` sends it twice, or records before it. Records sent on a line that dies are lost; the protocol
has no acknowledgement. Two assignments in a row, `phase` and `ws`, are one step, as
are those of `start` and `stop`: no frame is sent from them.

Bounds: three records, a queue of two, batches of two, two connections.

### `Screening` - join requests

`requests` is the row of each join event of one applicant; `screens` the bridge's
handler, which reads the third parties, answers and then marks; `presses` the staff's
buttons and commands, each a chain of awaits. A command that was taken, by the
bridge's queue or by the bus, is in `handed`; it is `heard` once it is typed, and
`unheard` once it never will be. Nobody who marks a row looks at either: `push`
returning true means queued. Nothing in `decide` compares, so every order of two
deciders is in the model.

`SettledIsKept`: a press does not change a row that had its answer when the
button was pressed. Two presses that both find it waiting overwrite each other;
the comment of the property says so.

`ScreeningUnheard` refutes a comment of the code: the row says accepted although the
queue gave the command up (`transport.ts:2107` marks on the push, against the comment
above it). Two more disagreements are seen in the model and have no run: the queue
counts the five minutes from the push, the applicant's began with the line in chat, so
an answer can be typed too late (`TypedInGame` of an elapsed request); and the notice
says accepted, without buttons, for a command the queue refused (`transport.ts:2135`).

Two join events and one press are the smallest instance in which the newest row
is not the only one and the bridge and staff race for each.

### `TicketNumbers` and `Tickets`

`TicketNumbers` is the loop of `create`: read the highest number, insert the next,
on a collision read again, `Tries` times. `ExhaustedWasOutrun`: only a caller
under whom that many other tickets were inserted gives up. Three openers, two
tries: one can be outrun twice.

`Tickets` follows one ticket from the row to the end of its channel. `status`,
`claimant`, `asked`, `silence`, `talked`, `bound` are the row (and the count of
messages since the close request); `room` the Discord channel; `informed` that
the opener was sent the transcript; `acting` what the opener, a helper and the
worker's sweep are each doing, between the check, the patch of the row, the transcript and the
channel. Everything can fail, the bridge can restart between any two steps,
and the worker's memory of having warned is lost with its process.

`GoneWasClosed`: a channel disappears only after the row says closed and the
transcript went out. `AutoCloseIsDue`: the sweep closes on a silence or an
unanswered request that was there when it looked; what changed after the look
(`changed`) it does not see, since `closeTicket` reads the row again but not the
reason. Also reachable, and by design of the code: a ticket whose channel was
never bound is passed over by every sweep and stays open; a ticket closed from
the panel keeps its channel and sends no transcript.

A message is one step: `recordMessage` writes its row (counted in `talked`) and then the
ticket's clock (`silence`). A sweep that looks between the two sees the older clock, as
one that looked just before; `AutoCloseIsDue` is stated of what the sweep read.

Ticks stand for minutes: one tick to the warning, two to the close, two messages to
withdraw a request, so each limit can be met, just missed, and crossed in between.

### `XpLedger` - XP and level-ups

One member, one day: counters, the ledger of derived, reward and manual XP, the
balance rebuilt from it by overlapping runs (the job's lock expires), and the bot that
announces. `Upserted` is the write of the day's figure, which sets and does not
add. `earned` is a history variable, the highest total ever true.
`LevelUpsAreTrue`: no level is announced that the member never had XP for, and none is
cleared unannounced unless the member opted out, whatever is repeated and
wherever the bot dies. It may be announced twice, and a level-up whose insert
failed after the balance was saved is never announced (`service.ts:335` accepts
that); neither contradicts the property.

Two aggregations, one adjustment and one milestone are two of each kind of write that can
overlap; levels of two XP separate "below", "at" and "past" a boundary.


### `EventBoard`, `EventSignup`, `EventContest` - community events

`EventBoard`: `stage` and `hour` are the row against the clock, `boards` what was ever
posted, `redrawing[d]` where a `publish` stands. A publish reads the row once
(`ReadEvent`) and draws, edits, posts and binds by that reading; it is asked for by
the board sweep, by the panel and by every press of the button, and the comment that
"two workers cannot race" (`event-board.ts:135`) counts only the first of these.
`ResultIsShown`: `boardFinal`, which ends the redrawing for good, stands only over a
board that shows the result, whatever was refused, deleted or cut short. It is
claimed as long as publishes did not overlap and no late write moved a finished
event (`muddled`); with either the code lets an old card be the last one.

**Finding** (`EventBoardTwin`). `findBoard` (`transport.ts:903`) is there to close the
window between a post and its binding: `event-board.ts:140` calls the post path
idempotent for it, `docs/EVENT_TRACKING_AUDIT_LOG.md:299` the risk closed. It looks for
the id in the embeds of a message that is sent as components and has none, so it
recognises nothing: a bridge that dies in the window leaves a board behind and the
next publish posts another. In the model `Recognised` is the set it would accept.

`EventSignup`: `rsvp` are the rows, `press[k]` an answer between the button and the
upsert. The capacity is read, the members going are counted, the answer is written,
and nothing holds the seat meanwhile. `SeatsAreBounded` is what remains true: one more
member than the capacity for each press beyond the first that is under way. Two
presses, three members and capacities of one and two reach the bound.

`EventContest`: one participant and one metric under passes that hold a claim in
Redis which lapses by itself. `GainIsTrue`: no starting line moves, and the gain is the
distance from it. Three passes are needed, one that creates the score and two that
update it at once. The score's line is the saved baseline only while nothing was
disturbed: `event-tracking.ts:216` says that a participant whose score write fails loses
nothing, "the baseline is write-once", but the baseline that is kept is the snapshot's,
and the score begins at the first reading that reaches it, so what was gained between
is not counted.

The model also shows, without a property of its own: a transition sweep that listed
an event before it was called off sets it LIVE or COMPLETED again, while
`packages/jobs/src/events.ts:38` says a cancellation "must not be undone by a sweep";
and a member who is going and asks again, with the event full, is put on the waitlist.
Nobody is moved up from the waitlist when a seat comes free.

The bounds: two publishes with one mishap, one host, two passes with one failure.
All of it is safety; no fairness is assumed.

## What is proved

Every invariant and every action property the passing runs check is a theorem, for
every value of the constants, and so is the refinement of `PacedDelivery`. What stays
with TLC alone: the four liveness properties (`PendingIsSettled`, `ExpiredIsCleared`,
`AcceptedIsSettled`, `LockIsFreed`; fairness and ENABLED are beyond TLAPS), and the
violations, which are counterexamples on one instance. Three theorems are
conditional and say so in their names, `UneditedWasReversedWithinAPage`,
`SweepsAloneWithinTheLease` and `OneBoardUndisturbed`: each states under which
condition a property that a violation run refutes does hold.

`EnforcementProofs`, for every number of tasks, page size, attempt limit and
bound, from `EnforcementAssumption` (the answers come from the enumerated sets
and the limits are naturals):

* `TypeCorrectness`, `Invariance`: the invariant is
  `IInv == TypeOK /\ TaskInv /\ CountsInv /\ GroundsInv`.
  `TypeOK` alone is not inductive: a task that is stamping must name a row of the
  log (`TaskInv`), and a sweep's page must hold rows of a liftable type.
* `AttemptsAreRealAlways` needs `CountsInv`: the count a task carries was true when
  it was read, and attempts only grow, so a stale count undercounts and never
  invents.
* `ConfirmedHasGroundsAlways` needs `GroundsInv`: grounds are recorded when guild
  chat answers, before the stamp that rests on them.
* `CondemnedWasTriedAlways` (action property): only `SettleNext` takes the sweep to
  an alert, and the attempts of a page row bound `asked` from below.

The proof goes in two layers: every action keeps `Typed` (types and references),
then every action keeps `Sound` (the rest); steps that keep the rows and move
one task share the lemma `OrdinaryStep`.

Four invariants have layers of their own on top of `Typed`:

* `SweepEffortIsBoundedAlways` from `EffortInv`. The sweep's tries are paid for by
  attempts counted on the row or by faults (`Paid`): a try under way still owes one,
  and a row whose grace has passed owes none, which is what lets the sweep take it up
  again. The page the sweep read may be stale (`PagePaid`), but only downwards: no task
  at work on one of its rows will stamp a count below the one read.
* `FailureIsRaisedAlways`: a step that writes FAILED leaves its task at the
  alert, or is a person's own word (`setEnforcementManually`).
* `VoidedWasReversedAlways` from `VoidInv`: a task that is about to mark its case holds a
  case that is `Released` (reversed, or with its time up or moved), the reversal a void
  opened is of the right type and has been attempted by the time its enforcement ends,
  and a row is inactive only if it is released: that is what lets a second void, which
  finds the flag cleared, skip the reversal.
* `UneditedWasReversedWithinAPage`: `Spec /\ []PageHoldsOverdue => []UneditedWasReversed`.
  `reverseExpired` reverses the first page of overdue cases and then deactivates all
  that are overdue by then, so the property needs that they fit and that no edit made
  them so. The run `EnforcementExpiryPage` shows it fail when
  they do not; the theorem shows that it fails in no other way. What becomes due in the
  meantime is told apart by `later`.

`CommandQueueProofs`, for every finite set of commands and every spacing, age limit
and backlog, from `QueueAssumption`:

* `NoLostWakeUp` and `TypeCorrectness`, from `IInv`: `DrainerInv` says that the head a
  drainer slept for is still some head and its sleep long enough; `QueueInv` that
  the array holds exactly the waiting commands, sorted in the order of departure.
* `QueueKeepsPromise`: `Spec => Promise!Spec`. Sortedness gives that the head is the
  first waiting command and the last ordinary one the newest; it also makes the
  array a bijection onto the waiting commands, so the two notions of "full" agree.
  The lemmas `PlacedIsSorted`, `PlacedHolds`, `RemovedIsSorted`, `RemovedHolds` are
  about arrays alone.

`JobRunnerProofs`, for every set of runners, retries and bounds, from
`RunnerAssumption`: `LeaseIsExclusiveAlways`, `ReturnedIsNotRetriedAlways`,
`JournalIsTrueAlways` and `TypeCorrectness`, from
`JobIInv == JobTypeOK /\ LeaseInv /\ StatusInv /\ JournalIsTrue`. `LeaseInv` strengthens
exclusion to "an unlapsed lease is the token in the store and tokens are not
shared", which a release that frees somebody else's token would break.
`StatusInv` ties the status a call carries, and so the row it writes, to whether
its handler returned. `DrawKeepsInv`, `StepKeepsLease` and `StepKeepsStatus` are the
lemmas all actions share. `SweepsAloneWithinTheLease` follows from exclusion: no
crash, lost answer or failed release brings two handlers together, only one that
outlives its lease.

`ModerationProofs`, for any requests, staff commands, channels, calls, join events and
presses. The relay of game commands (`GuildCommand`), with the queue taken at
`PacedDelivery`'s word, so that the result holds of any queue that keeps it:

* `ConfirmedIsTrueAlways`, `TypedIsTrueAlways` from `AnswersInv`: every verdict *and every
  ack still on its way* is so. A claim that a command was not typed must also stay true:
  `NeverTyped` says that the queue gave it up or that its message is gone for good,
  and `OutboxInv` that a message leaves once.
* `WaiterIsOwedAlways` from `WaiterInv`: a send that has not left has no waiter.
* `RefusalIsNotEarlyAlways` (action property) from `OrderInv`: the watches stand in the
  order in which their commands were typed, and no command is typed twice. This is
  what makes "the oldest watch is the one refused" right.

The lockdown (`SafetyLockdown`):

* `HandShutStaysShutAlways` (action property) from `HandsOff`: a channel staff shut is on
  no record, on no list a lockdown is making and not among those a lift is about to
  open. Saying only that it stays shut is not inductive: the lift acts on a list
  made long before.
* `EveryShutIsListedAlways` from `ListInv` and, as long as no mishap has happened,
  `OneAtATime`: one call runs at a time, a lockdown lists at least what the record it
  will replace does, and a lift still has to do whatever the bot holds shut.

The screening of applicants (`Screening`):

* `SettledIsKeptAlways` (action property) from `PressesInv`: the row a press found was not
  decided when the press began.

`ModerationTypeCorrectness` puts the three together for `MCModeration`.

`MemberProofs`: tickets, XP and the client mod's records. Tickets, for any openers,
tries, staff and limits:

* `ExhaustedWasOutrunAlways` from `TriesWereLost`: all attempts but the running one were
  lost to another ticket, and the running one is lost as soon as its number is taken.
  The induction is over inserts of others, which no attempt sees.
* `GoneWasClosedAlways`, `AutoCloseIsDueAlways` (action property) from `StageInv` and
  `SweepIsRight`: what each closer's stage entails about the row and the transcript,
  and what the sweep had established when it looked.

XP, for any runs, length of a level and activity:
`LevelUpsAreTrueAlways` from `LedgerInv` (the ledger has nothing that did not happen),
`RunsInv` (a total computed earlier is still covered by the most the member ever had)
and `NewsInv`. It rests on `QuotientIsMonotone`, since the level is a quotient: more XP
is never a lower level. The type of the level needs a count of the adjustments that
are still to come, which is why `XpAssumption` says that there are finitely many.

The records of the client mod (`IngestSession`), for any lengths of queue and batch and
any number of connections, forgotten ones included:

* `RecordedOnceAlways` from `Orderly`, four facts about order. What is queued rises and
  is newer than whatever was sent; no record waits in two inboxes, and those of one
  inbox wait in order; what was received waits no more and came before what still
  waits of its connection; and what was received satisfies the property. Each clause
  is needed by the next when a frame moves from queue to inbox to ring. The lemmas
  `OrderlyShrinks`, `OrderlyDrops`, `OrderlyOffer`, `OrderlySends`, `OrderlyReceives` are
  about sequences alone, one for each thing that can happen to them.
* `LinkedIsHeardAlways` from `HelloIsTold`: unless a connection opened between a pump's
  look at `helloSent` and its end, the connection in use has had its hello when it was
  told (`helloSent`, or a pump about to write it) and only then; a pump in the middle of
  its send stands by what it read (`PumpIsOrderly`); and an open session has a hello in
  its inbox only as the first frame, and only while its member is unknown.

`PanelProofs`, for any editors, viewers, processes, callers and time to live:

* `ReloadShowsTheWriteAlways`. The invariant says that a history exists: some function
  `B` such that `B[g]` writes had been made when generation `g` began, everything
  reported was made by `B[generation]`, and whatever is kept, loaded or served under
  `g` holds at least `B[g]` writes (`Timeline`). A write extends it by one generation, so
  the proof exhibits the extended `B`; no variable of the model has to carry it.
  `GenerationsInv` bounds the generation by counting the writes whose invalidation is
  still to come. The history is not claimed once a failed call has left the cache
  behind (`blunted`).
* `ToldIsSeenAlways` and `StaleIsBriefAlways` (action property) from `KnownIsMade`, `KeptIsYoung` (a
  copy is at least as old as the time the row has been past it) and `KeptIsTold` (what
  is kept or being read is no older than the last write the process knows of).
* `AnswersAreTrueAlways`, for any clerks and entries, from `PanelWritesInv`: how far a job
  has come says what it has written and whether it is on the trail (`JobIsSo`), for each
  of the shapes the panel's mutations have. All the mutations are shown to be of one of
  the shapes (`Shaped`): one whose second write may be missed in silence is named in
  `DoneHalfway`, one that may then refuse in `RefusedHalfway`, one that may die in
  `ThrownHalfway`.

`EventProofs`, for any passes and figures, members, presses and capacities:

* `ContestGainIsTrue` (action property) from `RowsAreThere` and `OneAtATime`: the row a
  pass saw has the starting line the score has now, which is why the update needs no
  lock; and while nothing was disturbed, a baseline without a score is the reading of
  the one pass at work, which is why score and snapshot then begin together.
* `SignupSeatsAreBounded` from `SignupInv`: `SeatsAreBounded` says nothing of the seats
  promised and is not inductive; members going *plus* presses granted a seat and not
  written yet stay below the widest capacity plus the number of presses.
* `ResultIsShownAlways` from `BoardsAreNamed` and `DrawnInOrder`: while publishes do not
  overlap and nothing moves a finished event, a publish was drawn from the status the
  row still has, if that is a last one or the board is final, and the board it is
  about to bind shows what it drew. The property alone is not inductive: the binding
  that sets `boardFinal` comes several awaits after the draw.
* `OneBoardUndisturbed` from those and `SoleBoard`: until a first mishap, overlap or
  late write, a publish that looks for a board or posts one is right that there is
  none, one that edits or binds has it in hand, and at rest the row names it. The
  recognition of an orphan plays no part, which is why one crash is enough.

`CommunityProofs` puts the components of `MCCommunity` together: a step of the whole is a
step or a stutter of each, so each keeps the invariant it keeps alone
(`CommunityTypeCorrectness`).

Every proof rests on the named assumptions of the modules and on nothing else. They say
that limits are naturals (positive where the code divides by or waits for them), that
sets the argument counts are finite, and that the names of different kinds differ.
## Not modelled

Of community: the goals, polls, podiums and looking-for-group posts, event
reminders, attendance, and the native Discord event that mirrors an event.

Commands' parsing and wording, embeds, logs and metrics; the pure libraries; the
Mineflayer protocol; Discord's API beyond its answers; web authentication;
generated and vendored code (`guide-mirror`, Prisma client). `PROJECT.json` lists
every component with its status.
