----------------------------- MODULE PanelWrites -----------------------------
(***************************************************************************)
(* What staff change through the web panel (packages/panel-core/src/       *)
(* mutations.ts): every mutation goes through the one pipeline, run, with  *)
(* a body of its own between the checks and the audit row.  The bodies are *)
(* of few shapes: one statement on some rows, a settings document written  *)
(* whole, a document read, edited and written back, several statements     *)
(* after one another, a statement and what its service does after it,      *)
(* something done elsewhere.                                               *)
(*                                                                         *)
(* Abstractions.  One guild.  Documents and tables are sets of entries,    *)
(* and those that no body treats differently are one: "config" stands for  *)
(* the guild's columns and for each document saved whole, "flags" and      *)
(* "bindings" for the two columns that hold a map, "rows" for milestones,  *)
(* ticket set-up, the word list, XP, exceptions, cases, tickets, events,   *)
(* applications and members.  A row read back after it is written is one   *)
(* with the writing of it, unless the answer is made of it.  Validation    *)
(* and the read cache (PanelCache) are left out.                           *)
(***************************************************************************)
EXTENDS Integers, FiniteSets

CONSTANTS
    Clerk,      \* staff at the panel
    Entry,      \* rules, menus, overrides, rows
    Switch,     \* the entry that says automod is on
    Stocked,    \* tables that hold every entry at first
    MaxWrites,  \* bound: mutations begun in all
    MaxErrors   \* bound: reads and writes that fail

ASSUME PanelWritesAssumption ==
    /\ Switch \notin Entry
    /\ Stocked \subseteq {"config", "flags", "bindings", "automod", "roles", "menus", "rows"}
    /\ MaxWrites \in Nat
    /\ MaxErrors \in Nat

VARIABLES
    table,     \* what is stored
    job,       \* the mutation each clerk has under way
    begunJobs, \* mutations begun
    errors     \* reads and writes that failed

panelWritesVars == <<table, job, begunJobs, errors>>

Table == {"config", "flags", "bindings", "automod", "roles", "menus", "rows"}

\* What is kept beside an entry: where a menu was posted, that a word rule is
\* switched off, a case's stamp, the case that lifts it or that a warning led
\* to, who turned up, a member's balance.
Beside(entry) == [beside |-> entry]

AllBeside(named) == {Beside(e) : e \in named}

Stored == Entry \cup {Switch} \cup AllBeside(Entry)

----------------------------------------------------------------------------
(* The shapes of a body: how it writes, where, what it adds and drops, what *)
(* its service goes on to write, and how the body may end when it cannot:   *)
(* it says nothing of it, it refuses, or it throws.                         *)

Plan(how, on, add, drop) ==
    [how |-> how, on |-> on, add |-> add, drop |-> drop, after |-> {}, miss |-> {}]

Then(plan, after, miss) == [plan EXCEPT !.after = after, !.miss = miss]

\* One statement puts an entry in, or takes it out.
Puts(t) == {Plan("row", t, {e}, {}) : e \in Entry}

Takes(t) == {Plan("row", t, {}, {e}) : e \in Entry}

\* The whole document is sent and stored.
Documents(t) == {Plan("row", t, d, Entry \ d) : d \in SUBSET Entry}

\* The document is read, edited and written back.
Adds(t) == {Plan("edit", t, {e}, {}) : e \in Entry}

Drops(t) == {Plan("edit", t, {}, {e}) : e \in Entry}

\* Entries are written one after another.
Several(t) == {Plan("rows", t, d, {}) : d \in SUBSET Entry \ {{}}}

\* What is written is read again, for the answer.
ReadBack(plans, miss) == {Then(plan, {}, miss) : plan \in plans}

\* Nothing is stored here: a message is posted, a job asked for, a test run.
Elsewhere == {Plan("row", "rows", {}, {})}

----------------------------------------------------------------------------
(* The mutations.                                                          *)

SetChannel == Puts("config") \cup Takes("config")
SetHypixelGuild == Puts("config") \cup Takes("config")
SetSetting == Puts("config") \cup Takes("config")
SetBridgeSuspended == Puts("config") \cup Takes("config")
SetRecruitment == Puts("config") \cup Takes("config")

\* One key of a map, which the repository reads, edits and writes back.
SetFeature == Adds("flags") \cup Drops("flags")
SetRoleMapping == Adds("bindings") \cup Drops("bindings")
SetRoleBinding == Adds("bindings") \cup Drops("bindings")

SetScreeningPolicy == Documents("config")
SaveProgressionMetrics == Documents("config")
SaveLinkHelp == Documents("config")
SaveTriggers == Documents("config")
SaveTicketSettings == Documents("config")
SaveWordlistPacks == Documents("config")
SetModerationDefaults == Documents("config")
SetRelaySync == Documents("config")
SaveAntiRaid == Documents("config")
SaveAutoRoles == Documents("config")
SaveWelcome == Documents("config")
SetCooldowns == Documents("config")

SetXpSource == Puts("rows")
UpsertMilestone == Puts("rows")
RemoveMilestone == Takes("rows")
UpsertTicketCategory == Puts("rows")
RemoveTicketCategory == Takes("rows")
UpsertTicketPanel == Puts("rows")
RemoveTicketPanel == Takes("rows")
UpsertTicketTag == Puts("rows")
RemoveTicketTag == Takes("rows")
DeleteWordlistRule == Takes("rows")
SetPermissionException == Puts("rows")
RemovePermissionException == Takes("rows")
ClearRoleRefusals == {Plan("row", "rows", {}, Entry)}

\* The award is on the ledger before the balances are rebuilt from it.
AdjustXp == {Then(Plan("row", "rows", {e}, {}), {Beside(e)}, {"fail"}) : e \in Entry}

\* A new rule that is to be off is added on and then switched off: that no rule
\* was there to switch is not looked at, what wordlist.update throws is caught.
AddSwitchedOff ==
    {Then(Plan("row", "rows", {e}, {}), {Beside(e)}, {"audit", "fail"}) : e \in Entry}

UpsertWordlistRule == Puts("rows") \cup AddSwitchedOff
ImportWordlist == Several("rows")
ApplySuggestedXpPolicy == Several("rows")

UpsertAutomodRule == Adds("automod")
\* A rule that is not there any more is not written out of the document.
RemoveAutomodRule == {[p EXCEPT !.how = "remove"] : p \in Drops("automod")}
SetAutomodEnabled ==
    {Plan("edit", "automod", {Switch}, {}), Plan("edit", "automod", {}, {Switch})}
SetRankMapping == Adds("roles") \cup Drops("roles")
SetCapabilityFloor == Adds("roles") \cup Drops("roles")
SetCommandFloor == Adds("roles") \cup Drops("roles")

\* Where the menus that are gone were posted.
PostsDropped(menus) == AllBeside(Entry \ menus)

\* The menus on the page replace the list; a menu that stays keeps its post.
SaveRoleMenus ==
    {Plan("edit", "menus", d, (Entry \ d) \cup PostsDropped(d)) : d \in SUBSET Entry}

\* Its message goes up, and where it is posted is written into the document;
\* remember does not look at the result.
PublishRoleMenu ==
    {Then(Plan("publish", "menus", {}, {}), {Beside(menu)}, {"audit"}) : menu \in Entry}

\* The case is on record before it is enforced: its stamp, and the case that a
\* ladder of warnings leads to, may fail, and the call does not.
ApplyModeration == {Then(Plan("row", "rows", {e}, {}), {Beside(e)}, {"audit"}) : e \in Entry}

EditCase == ReadBack(Puts("rows"), {"throw"})
SetCaseEnforcement == ReadBack(Puts("rows"), {"throw"})

\* It is enforced again and stamped, or the stamp is lost and nobody told; and
\* then who asked for it is written.
RetryCase ==
    {Then(Plan("row", "rows", {Beside(e)}, {}), {e}, {"throw"}) : e \in Entry}
        \cup {Then(Plan("row", "rows", {}, {}), {e}, {"throw"}) : e \in Entry}

\* A case in force is lifted first, by a case of its own; then it is voided,
\* and a case that is not there by then is NO_SUCH_CASE.
LiftAndVoid == {Then(Plan("row", "rows", {Beside(e)}, {}), {e}, {"fail", "throw"}) : e \in Entry}

VoidCase == ReadBack(Puts("rows"), {"throw"}) \cup LiftAndVoid
DecideApplication == Puts("rows")
CloseTicket == Puts("rows")
ClaimTicket == Puts("rows")
TransferTicket == Puts("rows")
UpdateEvent == Puts("rows")
\* The list, and the member, as they now are; none is NOT_FOUND.
MarkAttendance == ReadBack(Documents("rows"), {"fail", "throw"})
SetMemberRole == ReadBack(Puts("rows"), {"fail", "throw"})
UnlinkMember == Takes("rows")
ArchiveMember == Takes("rows")
ArchiveDepartedMembers == {Plan("row", "rows", {}, d) : d \in SUBSET Entry}
StripMemberRoles == Puts("rows")
\* A card is redrawn too, at best.
CreateEvent == Puts("rows")
StartEvent == Puts("rows")
CancelEvent == Puts("rows")
\* Those who were scored have turned up.
CompleteEvent == {Then(Plan("row", "rows", {e}, {}), {Beside(e)}, {"throw"}) : e \in Entry}

PublishTicketPanel == Elsewhere
ResendTicketTranscript == Elsewhere
PublishEventBoard == Elsewhere
RunJob == Elsewhere
TestAutomod == Elsewhere
TestAntiRaid == Elsewhere
PreviewAutoRoles == Elsewhere

Mutation == UNION {
    SetChannel, SetHypixelGuild, SetSetting, SetRoleMapping, SetFeature, SetBridgeSuspended,
    SetRecruitment, SetRoleBinding, SetScreeningPolicy, SaveProgressionMetrics, SaveLinkHelp,
    SaveTriggers, SaveTicketSettings, SaveWordlistPacks, SetModerationDefaults, SetRelaySync,
    SaveAntiRaid, SaveAutoRoles, SaveWelcome, SetCooldowns, SetXpSource, AdjustXp,
    UpsertMilestone, RemoveMilestone, UpsertTicketCategory, RemoveTicketCategory,
    UpsertTicketPanel, RemoveTicketPanel, UpsertTicketTag, RemoveTicketTag, DeleteWordlistRule,
    SetPermissionException, RemovePermissionException, ClearRoleRefusals, UpsertWordlistRule,
    ImportWordlist, ApplySuggestedXpPolicy, UpsertAutomodRule, RemoveAutomodRule,
    SetAutomodEnabled, SetRankMapping, SetCapabilityFloor, SetCommandFloor, SaveRoleMenus,
    PublishRoleMenu, ApplyModeration, EditCase, SetCaseEnforcement, RetryCase, VoidCase,
    DecideApplication, CloseTicket, ClaimTicket, TransferTicket, UpdateEvent, MarkAttendance,
    SetMemberRole, UnlinkMember, ArchiveMember, ArchiveDepartedMembers, StripMemberRoles,
    CreateEvent, CompleteEvent, StartEvent, CancelEvent, PublishTicketPanel,
    ResendTicketTranscript, PublishEventBoard, RunJob, TestAutomod, TestAntiRaid,
    PreviewAutoRoles}

----------------------------------------------------------------------------
(* run                                                                     *)

Job(at, plan) ==
    [at |-> at, plan |-> plan, seen |-> {}, left |-> plan.add,
     wrote |-> "nothing", audited |-> FALSE, answer |-> "none"]

NoJob == Job("idle", CHOOSE plan \in Elsewhere : TRUE)

Doc(c) == job[c].plan.on

How(c) == job[c].plan.how

Edited(stored, plan) == (stored \ plan.drop) \cup plan.add

GoesOn(c, new) == job' = [job EXCEPT ![c] = new]

Answers(c, answer) ==
    GoesOn(c, [job[c] EXCEPT !.at = "answered", !.seen = {}, !.left = {}, !.answer = answer])

\* It throws, and run with it: nobody is told anything.
Throws(c) == Answers(c, "thrown")

Errs == errors < MaxErrors /\ errors' = errors + 1

\* The tier is too low, and nothing has been done.
Deny(c) ==
    /\ job[c] = NoJob
    /\ Answers(c, "refused")
    /\ UNCHANGED <<table, begunJobs, errors>>

BeginJob(c) ==
    /\ job[c] = NoJob
    /\ begunJobs < MaxWrites
    /\ begunJobs' = begunJobs + 1
    /\ \E plan \in Mutation : GoesOn(c, Job("body", plan))
    /\ UNCHANGED <<table, errors>>

\* The limiter, a value that is not valid, a part that is not wired, a record
\* that is not there: whatever is found before anything is written.
Invalid(c) ==
    /\ job[c].at \in {"body", "write"}
    /\ job[c].wrote = "nothing"
    /\ GoesOn(c, [job[c] EXCEPT !.at = "fail"])
    /\ UNCHANGED <<table, begunJobs, errors>>

\* The limiter throws, or a service before it wrote anything, or on the write.
BodyThrows(c) ==
    /\ job[c].at \in {"body", "write"}
    /\ job[c].wrote = "nothing"
    /\ Errs
    /\ Throws(c)
    /\ UNCHANGED <<table, begunJobs>>

ReadDocument(c) ==
    /\ job[c].at = "body"
    /\ How(c) \in {"edit", "remove", "publish"}
    /\ GoesOn(c, [job[c] EXCEPT !.at = "write", !.seen = table[Doc(c)]])
    /\ UNCHANGED <<table, begunJobs, errors>>

\* getSetting answers a read that failed as if nothing were stored; a map is
\* read inside of its write, which then fails.
ReadDocumentFails(c) ==
    /\ job[c].at = "body"
    /\ How(c) \in {"edit", "remove", "publish"}
    /\ Doc(c) \notin {"flags", "bindings"}
    /\ Errs
    /\ GoesOn(c, [job[c] EXCEPT !.at = "write"])
    /\ UNCHANGED <<table, begunJobs>>

----------------------------------------------------------------------------
(* The body's writes.                                                      *)

Writes(t, stored) == table' = [table EXCEPT ![t] = stored]

\* The write is made, and what is left of the body is what follows it.
Written(j) == [j EXCEPT !.at = "after", !.left = {},
                        !.wrote = IF j.plan.after = {} THEN "all" ELSE "some"]

WriteRow(c) ==
    /\ job[c].at = "body"
    /\ How(c) = "row"
    /\ Writes(Doc(c), Edited(table[Doc(c)], job[c].plan))
    /\ GoesOn(c, Written(job[c]))
    /\ UNCHANGED <<begunJobs, errors>>

\* One of those that are left; one that is there already is passed over.
WriteNext(c) ==
    /\ job[c].at = "body"
    /\ How(c) = "rows"
    /\ \E e \in job[c].left :
          /\ Writes(Doc(c), table[Doc(c)] \cup {e})
          /\ GoesOn(c, IF job[c].left = {e} THEN Written(job[c])
                       ELSE [job[c] EXCEPT !.left = @ \ {e}, !.wrote = "some"])
    /\ UNCHANGED <<begunJobs, errors>>

\* What was read, edited, replaces what is there.
WriteDocument(c) ==
    /\ job[c].at = "write"
    /\ How(c) = "edit" \/ (How(c) = "remove" /\ job[c].plan.drop \subseteq job[c].seen)
    /\ Writes(Doc(c), Edited(job[c].seen, job[c].plan))
    /\ GoesOn(c, Written(job[c]))
    /\ UNCHANGED <<begunJobs, errors>>

AlreadyGone(c) ==
    /\ job[c].at = "write"
    /\ How(c) = "remove"
    /\ job[c].plan.drop \cap job[c].seen = {}
    /\ GoesOn(c, Written(job[c]))
    /\ UNCHANGED <<table, begunJobs, errors>>

\* The message is up; a menu the bridge did not find is not posted.
PostMenu(c) ==
    /\ job[c].at = "write"
    /\ How(c) = "publish"
    /\ \E menu \in job[c].seen : Beside(menu) \in job[c].plan.after
    /\ GoesOn(c, Written(job[c]))
    /\ UNCHANGED <<table, begunJobs, errors>>

\* Slip: the result of the write is not looked at.
AfterAFailure == "after"

Failed == "fail"

WriteFails(c) ==
    /\ job[c].at = IF How(c) \in {"row", "rows"} THEN "body" ELSE "write"
    /\ Errs
    /\ GoesOn(c, [job[c] EXCEPT !.at = Failed])
    /\ UNCHANGED <<table, begunJobs>>

\* remember writes the document publish has read, the others a row.
Afterwards(c) ==
    /\ job[c].at = "after"
    /\ LET plan == job[c].plan
           from == IF How(c) = "publish" THEN job[c].seen ELSE table[Doc(c)]
       IN IF plan.after = {} THEN UNCHANGED table ELSE Writes(Doc(c), from \cup plan.after)
    /\ GoesOn(c, [job[c] EXCEPT !.at = "audit",
                                !.wrote = IF job[c].plan.after = {} THEN @ ELSE "all"])
    /\ UNCHANGED <<begunJobs, errors>>

\* What follows is not written, or what was written cannot be read again.
AfterwardsFails(c) ==
    /\ job[c].at = "after"
    /\ Errs
    /\ \E ends \in job[c].plan.miss :
          \/ ends \in {"audit", "fail"} /\ GoesOn(c, [job[c] EXCEPT !.at = ends])
          \/ ends = "throw" /\ Throws(c)
    /\ UNCHANGED <<table, begunJobs>>

----------------------------------------------------------------------------
(* The audit row, the usage event and the answer.                          *)

Audit(c) ==
    /\ job[c].at = "audit"
    /\ GoesOn(c, [job[c] EXCEPT !.at = "capture", !.audited = TRUE])
    /\ UNCHANGED <<table, begunJobs, errors>>

Capture(c) ==
    /\ job[c].at \in {"capture", "fail"}
    /\ Answers(c, IF job[c].at = "capture" THEN "ok" ELSE "refused")
    /\ UNCHANGED <<table, begunJobs, errors>>

\* The audit row or the usage event could not be written: run rejects.
ReportThrows(c) ==
    /\ job[c].at \in {"audit", "capture", "fail"}
    /\ Errs
    /\ Throws(c)
    /\ UNCHANGED <<table, begunJobs>>

LeavePage(c) ==
    /\ job[c].at = "answered"
    /\ GoesOn(c, NoJob)
    /\ UNCHANGED <<table, begunJobs, errors>>

----------------------------------------------------------------------------

\* Menus that are stored already are posted.
PanelWritesInit ==
    /\ table = [t \in Table |-> IF t \notin Stocked THEN {}
                              ELSE IF t = "menus" THEN Entry \cup AllBeside(Entry) ELSE Entry]
    /\ job = [c \in Clerk |-> NoJob]
    /\ begunJobs = 0
    /\ errors = 0

PanelWritesNext ==
    \E c \in Clerk :
        \/ Deny(c) \/ BeginJob(c) \/ Invalid(c) \/ BodyThrows(c)
        \/ ReadDocument(c) \/ ReadDocumentFails(c)
        \/ WriteRow(c) \/ WriteNext(c) \/ WriteDocument(c) \/ AlreadyGone(c) \/ PostMenu(c)
        \/ WriteFails(c) \/ Afterwards(c) \/ AfterwardsFails(c)
        \/ Audit(c) \/ Capture(c) \/ ReportThrows(c) \/ LeavePage(c)

PanelWritesSpec == PanelWritesInit /\ [][PanelWritesNext]_panelWritesVars

----------------------------------------------------------------------------
(* Properties.                                                             *)

\* Every variable has its type.
PanelWritesTypeOK ==
    /\ table \in [Table -> SUBSET Stored]
    /\ \A c \in Clerk :
          /\ job[c].at \in {"idle", "body", "write", "after", "audit", "capture", "fail", "answered"}
          /\ job[c].plan \in Mutation
          /\ job[c].seen \subseteq Stored
          /\ job[c].left \subseteq Stored
          /\ job[c].answer \in {"none", "ok", "refused", "thrown"}
    /\ begunJobs \in 0..MaxWrites
    /\ errors \in 0..MaxErrors

\* Mutations that may end halfway, and how: told as done, refused, or neither.
DoneHalfway == ApplyModeration \cup AddSwitchedOff \cup PublishRoleMenu

RefusedHalfway ==
    ImportWordlist \cup ApplySuggestedXpPolicy \cup AddSwitchedOff \cup AdjustXp
        \cup LiftAndVoid \cup MarkAttendance \cup SetMemberRole

ThrownHalfway == RetryCase \cup LiftAndVoid \cup CompleteEvent

\* What staff are told is what happened.  A success is on the audit trail and
\* written whole, but for a case's stamp, a word rule's switch or a menu's post.
\* A refusal is not on the trail and wrote nothing, so that the request can be
\* made again; of all the mutations only seven may have written some of it, and
\* a punishment is not one of them: once its case is on record, nothing that
\* fails is a refusal (moderation/src/service.ts:841-844).  A request that dies
\* wrote nothing or all of it, or is of a mutation that may end halfway.
AnswersAreTrue ==
    \A c \in Clerk :
        /\ job[c].answer = "ok" =>
              job[c].audited /\ (job[c].wrote = "all" \/ job[c].plan \in DoneHalfway)
        /\ job[c].answer = "refused" =>
              ~job[c].audited /\ (job[c].wrote = "nothing" \/ job[c].plan \in RefusedHalfway)
        /\ job[c].answer = "thrown" =>
              \/ job[c].wrote \in {"nothing", "all"}
              \/ job[c].plan \in DoneHalfway \cup RefusedHalfway \cup ThrownHalfway
=============================================================================
