----------------------------- MODULE EventBoard -----------------------------
(***************************************************************************)
(* The one message an event has in the guild's channel, and the status it  *)
(* shows: EventBoardGateway.publish (apps/bridge-bot/src/event-board.ts)   *)
(* over Discord as transport.ts calls it, bindBoardMessage, the host's     *)
(* start, complete and cancel (packages/community/src/service.ts) and the  *)
(* event-transition sweep (packages/jobs/src/events.ts).                   *)
(*                                                                         *)
(* publish is asked for by the board sweep, by the panel after each change *)
(* and at a button, and by every press of Register; nothing keeps one      *)
(* from the other, and a caller that gives up after ten seconds leaves its *)
(* publish running.                                                        *)
(*                                                                         *)
(* Abstractions.  A card is the status it shows; a finished one has no     *)
(* buttons.  The channel is bound.  The native Discord event is left out:  *)
(* it touches a column of its own.                                         *)
(***************************************************************************)
EXTENDS Naturals, Sequences, FiniteSets

CONSTANTS
    Redraw,     \* publishes that may be under way together
    Host,       \* staff who start, finish and call off the event
    Mishap,     \* what may go wrong: crash, edit, post, bind, deleted
    MaxRedraws, \* bound: publishes
    MaxMishaps  \* bound: mishaps

ASSUME EventBoardAssumption == MaxRedraws \in Nat /\ MaxMishaps \in Nat

VARIABLES
    \* the row
    stage,       \* status
    pinned,      \* messageId, as the number of a board; 0 for null
    boardFinal,
    hour,        \* now against startsAt and endsAt
    \* Discord
    boards,      \* every board posted, and whether somebody deleted it
    \* those at work
    redrawing, hosting,
    due,         \* what the transition sweep is about to write
    redraws, mishaps,
    muddled      \* publishes overlapped, or a finished event was written again

eventRowVars == <<stage, pinned, boardFinal, hour>>
workVars == <<hosting, due>>
eventBoardVars == <<eventRowVars, boards, redrawing, workVars, redraws, mishaps, muddled>>

NoDraw == [at |-> "idle", shows |-> "SCHEDULED", board |-> 0, adopted |-> FALSE]

Over(s) == s \in {"COMPLETED", "CANCELLED"}

GoesWrong(what) == what \in Mishap /\ mishaps < MaxMishaps /\ mishaps' = mishaps + 1

----------------------------------------------------------------------------
(* The status.                                                             *)

\* Writes are unconditional: the row may have moved since it was read.
SetStatus(to) ==
    /\ stage' = to
    /\ muddled' = (muddled \/ Over(stage))
    /\ UNCHANGED <<pinned, boardFinal, boards, redrawing, redraws, mishaps>>

\* startEvent, completeEvent and cancelEvent read the row and judge it.
HostReads(h, to) ==
    /\ hosting[h] = "none"
    /\ to \in {"LIVE", "COMPLETED", "CANCELLED"}
    /\ IF to = "LIVE" THEN stage = "SCHEDULED" ELSE ~Over(stage)
    /\ hosting' = [hosting EXCEPT ![h] = to]
    /\ UNCHANGED <<eventRowVars, boards, redrawing, due, redraws, mishaps, muddled>>

\* Completion stamps endsAt as well.
HostWrites(h) ==
    /\ hosting[h] # "none"
    /\ SetStatus(hosting[h])
    /\ hour' = IF hosting[h] = "COMPLETED" THEN "over" ELSE hour
    /\ hosting' = [hosting EXCEPT ![h] = "none"]
    /\ UNCHANGED due

\* nextEventStatus, of a row that listOpenEvents gave; "none" is null.
NextEventStatus ==
    CASE Over(stage) -> "none"
      [] ~Over(stage) /\ hour = "over" -> "COMPLETED"
      [] stage = "SCHEDULED" /\ hour = "running" -> "LIVE"
      [] OTHER -> "none"

TransitionLooks ==
    /\ due = "none"
    /\ NextEventStatus # "none"
    /\ due' = NextEventStatus
    /\ UNCHANGED <<eventRowVars, boards, redrawing, hosting, redraws, mishaps, muddled>>

TransitionWrites ==
    /\ due # "none"
    /\ SetStatus(due)
    /\ due' = "none"
    /\ UNCHANGED <<hour, hosting>>

HourPasses ==
    /\ hour # "over"
    /\ hour' = IF hour = "before" THEN "running" ELSE "over"
    /\ UNCHANGED <<stage, pinned, boardFinal, boards, redrawing, workVars, redraws, mishaps, muddled>>

----------------------------------------------------------------------------
(* publish.                                                                *)

Busy(d) == redrawing[d].at # "idle"

Drawing(d, draw) == redrawing' = [redrawing EXCEPT ![d] = draw]

\* boardEvent: everything the card will say is read here.
ReadEvent(d) ==
    /\ ~Busy(d)
    /\ redraws < MaxRedraws
    /\ redraws' = redraws + 1
    /\ Drawing(d, [at |-> IF pinned = 0 THEN "find" ELSE "edit",
                   shows |-> stage, board |-> pinned, adopted |-> FALSE])
    /\ muddled' = (muddled \/ \E other \in Redraw : Busy(other))
    /\ UNCHANGED <<eventRowVars, boards, workVars, mishaps>>

EditBoard(d) ==
    LET draw == redrawing[d] IN
    /\ draw.at = "edit"
    /\ ~boards[draw.board].gone
    /\ boards' = [boards EXCEPT ![draw.board].shows = draw.shows]
    /\ Drawing(d, [draw EXCEPT !.at = "bind"])
    /\ UNCHANGED <<eventRowVars, workVars, redraws, mishaps, muddled>>

\* The message is gone, or Discord refuses.  A board that was adopted is
\* struck from the row, and a fresh one is posted.
EditFails(d) ==
    LET draw == redrawing[d] IN
    /\ draw.at = "edit"
    /\ \/ boards[draw.board].gone /\ UNCHANGED mishaps
       \/ GoesWrong("edit")
    /\ Drawing(d, [draw EXCEPT !.at = IF draw.adopted THEN "post" ELSE "find"])
    /\ pinned' = IF draw.adopted THEN 0 ELSE pinned
    /\ boardFinal' = (boardFinal /\ ~draw.adopted)
    /\ UNCHANGED <<stage, hour, boards, workVars, redraws, muddled>>

\* post sends containerMessage: components only, so message.embeds is empty.
PostedAsEmbed == FALSE

\* findBoard looks for the event's id in the footer of an embed.
Recognised ==
    {b \in DOMAIN boards : PostedAsEmbed /\ ~boards[b].gone}

FindBoard(d) ==
    LET draw == redrawing[d] IN
    /\ draw.at = "find"
    /\ \E b \in IF Recognised = {} THEN {0} ELSE Recognised :
          Drawing(d, [draw EXCEPT !.at = IF b = 0 THEN "post" ELSE "edit",
                                  !.board = b, !.adopted = b # 0])
    /\ UNCHANGED <<eventRowVars, boards, workVars, redraws, mishaps, muddled>>

PostBoard(d) ==
    LET draw == redrawing[d] IN
    /\ draw.at = "post"
    /\ boards' = Append(boards, [shows |-> draw.shows, gone |-> FALSE])
    /\ Drawing(d, [draw EXCEPT !.at = "bind", !.board = Len(boards) + 1])
    /\ UNCHANGED <<eventRowVars, workVars, redraws, mishaps, muddled>>

\* Struck from the row, so that the next pass does not edit what is not there.
PostFails(d) ==
    /\ redrawing[d].at = "post"
    /\ GoesWrong("post")
    /\ pinned' = 0
    /\ boardFinal' = FALSE
    /\ Drawing(d, NoDraw)
    /\ UNCHANGED <<stage, hour, boards, workVars, redraws, muddled>>

\* Slip: final is judged by the row as it is now.
IsFinalNow(draw) == Over(stage)

\* By the status the card was drawn from.
IsFinal(draw) == Over(draw.shows)

BindBoard(d) ==
    /\ redrawing[d].at = "bind"
    /\ pinned' = redrawing[d].board
    /\ boardFinal' = IsFinal(redrawing[d])
    /\ Drawing(d, NoDraw)
    /\ UNCHANGED <<stage, hour, boards, workVars, redraws, mishaps, muddled>>

\* The update fails and is swallowed.
BindFails(d) ==
    /\ redrawing[d].at = "bind"
    /\ GoesWrong("bind")
    /\ Drawing(d, NoDraw)
    /\ UNCHANGED <<eventRowVars, boards, workVars, redraws, muddled>>

\* The bridge dies, and every publish with it.
BridgeDies ==
    /\ \E d \in Redraw : Busy(d)
    /\ GoesWrong("crash")
    /\ redrawing' = [d \in Redraw |-> NoDraw]
    /\ UNCHANGED <<eventRowVars, boards, workVars, redraws, muddled>>

BoardDeleted(b) ==
    /\ ~boards[b].gone
    /\ GoesWrong("deleted")
    /\ boards' = [boards EXCEPT ![b].gone = TRUE]
    /\ UNCHANGED <<eventRowVars, redrawing, workVars, redraws, muddled>>

----------------------------------------------------------------------------

EventBoardInit ==
    /\ stage = "SCHEDULED" /\ hour = "before"
    /\ pinned = 0 /\ boardFinal = FALSE
    /\ boards = <<>>
    /\ redrawing = [d \in Redraw |-> NoDraw]
    /\ hosting = [h \in Host |-> "none"]
    /\ due = "none"
    /\ redraws = 0 /\ mishaps = 0 /\ muddled = FALSE

Publish(d) ==
    \/ ReadEvent(d)
    \/ EditBoard(d) \/ EditFails(d)
    \/ FindBoard(d)
    \/ PostBoard(d) \/ PostFails(d)
    \/ BindBoard(d) \/ BindFails(d)

EventBoardNext ==
    \/ \E h \in Host, to \in {"LIVE", "COMPLETED", "CANCELLED"} : HostReads(h, to)
    \/ \E h \in Host : HostWrites(h)
    \/ TransitionLooks \/ TransitionWrites
    \/ HourPasses
    \/ \E d \in Redraw : Publish(d)
    \/ BridgeDies
    \/ \E b \in DOMAIN boards : BoardDeleted(b)

EventBoardSpec == EventBoardInit /\ [][EventBoardNext]_eventBoardVars

----------------------------------------------------------------------------
(* Properties.                                                             *)

Stage == {"SCHEDULED", "LIVE", "COMPLETED", "CANCELLED"}

\* Every variable has its type; the row and a publish name boards that were
\* posted.
EventBoardTypeOK ==
    /\ stage \in Stage /\ hour \in {"before", "running", "over"}
    /\ boards \in Seq([shows : Stage, gone : BOOLEAN])
    /\ pinned \in 0..Len(boards) /\ boardFinal \in BOOLEAN
    /\ redrawing \in [Redraw -> [at : {"idle", "edit", "find", "post", "bind"}, shows : Stage,
                                 board : 0..Len(boards), adopted : BOOLEAN]]
    /\ hosting \in [Host -> Stage \cup {"none"}] /\ due \in Stage \cup {"none"}
    /\ redraws \in Nat /\ mishaps \in Nat /\ muddled \in BOOLEAN

\* boardFinal takes the event off the board sweep's list for good
\* (listBoardDue): as long as publishes did not overlap and no late write
\* moved a finished event, the board it is set for shows the result, whatever
\* was refused, lost or cut short between the read and the binding.
ResultIsShown ==
    boardFinal /\ ~muddled => pinned # 0 /\ Over(stage) /\ boards[pinned].shows = stage

\* "Adopt an orphan before posting a twin" (event-board.ts): the event never
\* has two boards in the channel.
OneBoard == Cardinality({b \in DOMAIN boards : ~boards[b].gone}) <= 1
=============================================================================
