---------------------------- MODULE IngestSession ----------------------------
(***************************************************************************)
(* What a player's game records on its way to the panel: the client mod's  *)
(* queue and socket (ctjs-module/sbr-dungeon-tracker/queue.js, socket.js)  *)
(* and the server's session for each connection (packages/client-ingest/   *)
(* src/session.ts), whose inbox waits while the hello is looked up.        *)
(*                                                                         *)
(* The JDK runs the listener of a socket on a thread of its own, with no   *)
(* lock between it and the game thread, and no listener looks whether its  *)
(* socket is still the one in use.  So a pump reads the phase, then        *)
(* helloSent, then sends on whatever socket is there by then, and writes   *)
(* helloSent last; a listener's steps may come between any two of these.   *)
(*                                                                         *)
(* Abstractions.  One player, whose account is linked.  A back-off or a    *)
(* deadline may have run out at any time; the limits on rate and size, and *)
(* frames no mod sends, are one way for the server to close.  A send that  *)
(* has not completed is a pump that does nothing.  The phase and the       *)
(* socket, assigned one after the other, are written in one step, and so   *)
(* are the assignments of start and stop.                                  *)
(***************************************************************************)
EXTENDS Integers, Sequences

CONSTANTS
    QueueLimit,   \* records the mod keeps
    MaxBatch,     \* records in a frame
    MaxOffers,    \* bound: records captured
    MaxLines      \* bound: connections made

ASSUME IngestAssumption ==
    /\ QueueLimit \in Nat \ {0}
    /\ MaxBatch \in Nat \ {0}
    /\ MaxOffers \in Nat
    /\ MaxLines \in Nat

VARIABLES
    \* the mod
    gate,      \* whether it may be connected
    phase,     \* the state of the socket, as the mod has it
    ws,        \* the connection in use, or 0
    greeted,   \* helloSent
    opening,   \* whether an onOpen has still to clear helloSent
    step,      \* where the game thread is in its pump
    queued,    \* records not sent, oldest first
    offers,    \* records captured
    line,      \* each connection, as the JDK has it
    \* the server
    session,   \* the session of each connection
    ring,      \* the connection and number of each record received, of which
               \* the server keeps the newest two hundred
    torn       \* history: an onOpen was under way between a pump's look at
               \* helloSent and its end

streamVars == <<gate, phase, ws, greeted, opening, step, queued, offers, line>>
ingestVars == <<streamVars, session, ring, torn>>

Line == 1..MaxLines

\* A frame is a hello, or the numbers of the records in a batch.
Hello == <<>>

\* inbox holds the frames that wait for their turn, and those on their way.
Session(at, member, inbox) == [at |-> at, member |-> member, inbox |-> inbox]

LineGoes(k, to) == line' = [line EXCEPT ![k] = to]

\* push: a text frame waits its turn; none is taken in once the session has
\* closed.
Travels(k, frame) ==
    session' = IF session[k].at = "open"
               THEN [session EXCEPT ![k].inbox = Append(@, frame)]
               ELSE session

----------------------------------------------------------------------------
(* The mod, on the game thread.                                            *)

\* Slip: nothing makes room.
NewestAll(records) == records

Newest(records) ==
    IF Len(records) > QueueLimit
    THEN SubSeq(records, Len(records) - QueueLimit + 1, Len(records))
    ELSE records

\* The oldest record makes room.
Offer ==
    /\ step = "none"
    /\ offers < MaxOffers
    /\ offers' = offers + 1
    /\ queued' = Newest(Append(queued, offers + 1))
    /\ UNCHANGED <<gate, phase, ws, greeted, opening, step, line, session, ring, torn>>

Start ==
    /\ step = "none"
    /\ ~gate
    /\ gate' = TRUE
    /\ phase' = IF phase = "idle" THEN "closed" ELSE phase
    /\ UNCHANGED <<ws, greeted, opening, step, queued, offers, line, session, ring, torn>>

\* The connection in use is closed, and the queue emptied; a connection that
\* is still being made is not called off.
Stop ==
    /\ step = "none"
    /\ gate
    /\ gate' = FALSE
    /\ phase' = "idle"
    /\ ws' = 0
    /\ greeted' = FALSE
    /\ queued' = <<>>
    /\ UNCHANGED <<opening, step, offers, line, session, ring, torn>>

NextLine(k) == line[k] = "none" /\ \A j \in 1..(k - 1) : line[j] # "none"

\* What a pump goes on to do in each phase: give up a dial that is late, dial,
\* or send.
PumpBegins ==
    /\ gate
    /\ step = "none"
    /\ \/ phase = "connecting" /\ step' = "late"
       \/ phase = "closed" /\ (\E k \in Line : NextLine(k)) /\ step' = "dial"
       \/ phase = "open" /\ ws # 0 /\ step' = "open"
    /\ UNCHANGED <<gate, phase, ws, greeted, opening, queued, offers, line, session, ring, torn>>

ConnectTimesOut ==
    /\ step = "late"
    /\ step' = "none"
    /\ phase' = "closed"
    /\ UNCHANGED <<gate, ws, greeted, opening, queued, offers, line, session, ring, torn>>

Connect(k) ==
    /\ step = "dial"
    /\ NextLine(k)
    /\ step' = "none"
    /\ phase' = "connecting"
    /\ LineGoes(k, "dialing")
    /\ UNCHANGED <<gate, ws, greeted, opening, queued, offers, session, ring, torn>>

PumpReads ==
    /\ step = "open"
    /\ step' = IF ~greeted THEN "hello" ELSE IF queued # <<>> THEN "batch" ELSE "none"
    /\ torn' = (torn \/ (opening /\ step' # "none"))
    /\ UNCHANGED <<gate, phase, ws, greeted, opening, queued, offers, line, session, ring>>

SendHello ==
    /\ step = "hello"
    /\ ws # 0
    /\ Travels(ws, Hello)
    /\ step' = "greeted"
    /\ UNCHANGED <<gate, phase, ws, greeted, opening, queued, offers, line, ring, torn>>

HelloIsNoted ==
    /\ step = "greeted"
    /\ step' = "none"
    /\ greeted' = TRUE
    /\ UNCHANGED <<gate, phase, ws, opening, queued, offers, line, session, ring, torn>>

\* Slip: the records that were taken stay in the queue.
LeftAll(n) == queued

Left(n) == SubSeq(queued, n + 1, Len(queued))

SendBatch ==
    /\ step = "batch"
    /\ ws # 0
    /\ LET n == IF Len(queued) > MaxBatch THEN MaxBatch ELSE Len(queued)
       IN Travels(ws, SubSeq(queued, 1, n)) /\ queued' = Left(n)
    /\ step' = "none"
    /\ UNCHANGED <<gate, phase, ws, greeted, opening, offers, line, ring, torn>>

\* sendText throws, or the socket has just been taken away: what was to go is
\* put back.
SendThrows ==
    /\ step \in {"hello", "batch"}
    /\ step' = "none"
    /\ phase' = "closed"
    /\ ws' = 0
    /\ UNCHANGED <<gate, greeted, opening, queued, offers, line, session, ring, torn>>

----------------------------------------------------------------------------
(* The listeners, on a thread of the JDK.                                  *)

Sends == step \in {"hello", "greeted", "batch"}

\* onOpen writes the phase and the socket, and then clears helloSent.
OnOpen(k) ==
    /\ line[k] = "answered"
    /\ ~opening
    /\ LineGoes(k, "up")
    /\ phase' = "open"
    /\ ws' = k
    /\ opening' = TRUE
    /\ torn' = (torn \/ Sends)
    /\ UNCHANGED <<gate, greeted, step, queued, offers, session, ring>>

OnOpenEnds ==
    /\ opening
    /\ greeted' = FALSE
    /\ opening' = FALSE
    /\ UNCHANGED <<gate, phase, ws, step, queued, offers, line, session, ring, torn>>

\* onError, onClose: whichever connection it was.
OnLost(k) ==
    /\ line[k] = "up"
    /\ LineGoes(k, "gone")
    /\ phase' = "closed"
    /\ ws' = 0
    /\ UNCHANGED <<gate, greeted, opening, step, queued, offers, session, ring, torn>>

----------------------------------------------------------------------------
(* The server.                                                             *)

SessionGoes(k, new) == session' = [session EXCEPT ![k] = new]

\* handleUpgrade: the session is there before the mod hears of it.
AcceptUpgrade(k) ==
    /\ line[k] = "dialing"
    /\ LineGoes(k, "answered")
    /\ SessionGoes(k, Session("open", "unknown", <<>>))
    /\ UNCHANGED <<gate, phase, ws, greeted, opening, step, queued, offers, ring, torn>>

\* At capacity, or out of reach: nobody looks at the future, and the mod finds
\* out by its deadline.
DialFails(k) ==
    /\ line[k] \in {"dialing", "answered"}
    /\ LineGoes(k, "gone")
    /\ UNCHANGED <<gate, phase, ws, greeted, opening, step, queued, offers, session, ring, torn>>

\* Slip: a second drain runs while the first awaits the lookup.
DrainsAlways(k) == TRUE

\* pending: one drain at a time, and it awaits the message it is at.
Drains(k) == session[k].member # "resolving"

Handles(k) == session[k].at = "open" /\ Drains(k) /\ session[k].inbox # <<>>

FirstFrame(k) == Head(session[k].inbox)

Identified(k) == session[k].member = "known"

Popped(k, member) == Session("open", member, Tail(session[k].inbox))

HandleHello(k) ==
    /\ Handles(k)
    /\ ~Identified(k)
    /\ FirstFrame(k) = Hello
    /\ SessionGoes(k, Popped(k, "resolving"))
    /\ UNCHANGED <<streamVars, ring, torn>>

Resolve(k) ==
    /\ session[k].at = "open"
    /\ session[k].member = "resolving"
    /\ SessionGoes(k, [session[k] EXCEPT !.member = "known"])
    /\ UNCHANGED <<streamVars, ring, torn>>

\* "expected a hello message", "already identified".
RefuseSession(k) ==
    /\ Handles(k)
    /\ Identified(k) <=> FirstFrame(k) = Hello
    /\ SessionGoes(k, Session("refused", "unknown", <<>>))
    /\ UNCHANGED <<streamVars, ring, torn>>

HandleEvents(k) ==
    /\ Handles(k)
    /\ Identified(k)
    /\ FirstFrame(k) # Hello
    /\ ring' = ring \o [i \in 1..Len(FirstFrame(k)) |-> <<k, FirstFrame(k)[i]>>]
    /\ SessionGoes(k, Popped(k, "known"))
    /\ UNCHANGED <<streamVars, torn>>

\* The peer went away, a limit was broken, the lookup failed, the server shuts
\* down: what waits in the inbox is dropped.
CloseSession(k) ==
    /\ session[k].at = "open"
    /\ SessionGoes(k, Session("closed", "unknown", <<>>))
    /\ UNCHANGED <<streamVars, ring, torn>>

----------------------------------------------------------------------------

IngestInit ==
    /\ gate = FALSE
    /\ phase = "idle"
    /\ ws = 0
    /\ greeted = FALSE
    /\ opening = FALSE
    /\ step = "none"
    /\ queued = <<>>
    /\ offers = 0
    /\ line = [k \in Line |-> "none"]
    /\ session = [k \in Line |-> Session("none", "unknown", <<>>)]
    /\ ring = <<>>
    /\ torn = FALSE

IngestNext ==
    \/ Offer \/ Start \/ Stop \/ PumpBegins \/ ConnectTimesOut \/ PumpReads
    \/ SendHello \/ HelloIsNoted \/ SendBatch \/ SendThrows \/ OnOpenEnds
    \/ \E k \in Line :
          \/ Connect(k) \/ OnOpen(k) \/ OnLost(k) \/ AcceptUpgrade(k) \/ DialFails(k)
          \/ HandleHello(k) \/ Resolve(k) \/ RefuseSession(k) \/ HandleEvents(k) \/ CloseSession(k)

IngestSpec == IngestInit /\ [][IngestNext]_ingestVars

----------------------------------------------------------------------------
(* Properties.                                                             *)

Frame == Seq(1..MaxOffers)

\* Every variable has its type.
IngestTypeOK ==
    /\ gate \in BOOLEAN
    /\ phase \in {"idle", "connecting", "open", "closed"}
    /\ ws \in {0} \cup Line
    /\ greeted \in BOOLEAN
    /\ opening \in BOOLEAN
    /\ step \in {"none", "late", "dial", "open", "hello", "greeted", "batch"}
    /\ queued \in Frame /\ Len(queued) <= QueueLimit
    /\ offers \in 0..MaxOffers
    /\ line \in [Line -> {"none", "dialing", "answered", "up", "gone"}]
    /\ \A k \in Line :
          /\ session[k].at \in {"none", "open", "refused", "closed"}
          /\ session[k].member \in {"unknown", "resolving", "known"}
          /\ session[k].inbox \in Seq(Frame)
    /\ ring \in Seq(Line \X (1..MaxOffers))
    /\ torn \in BOOLEAN

\* However often the mod reconnects, beside connections it has forgotten, no
\* record is received twice, and those of one connection come in the order in
\* which they were captured.
RecordedOnce ==
    \A i, j \in 1..Len(ring) :
        i < j => /\ ring[i][2] # ring[j][2]
                 /\ ring[i][1] = ring[j][1] => ring[i][2] < ring[j][2]

\* A linked player is not turned away: whatever was sent while the hello was
\* looked up waits for it, and a connection begins with its hello, once.  The
\* mod breaks this only when a connection opens while a pump is between its
\* look at helloSent and its end.
LinkedIsHeard == \A k \in Line : session[k].at = "refused" => torn
=============================================================================
