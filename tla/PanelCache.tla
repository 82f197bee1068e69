----------------------------- MODULE PanelCache -----------------------------
(***************************************************************************)
(* The panel's read cache (RedisPanelCache in packages/redis/src/          *)
(* adapters.ts) between the write pipeline (PanelMutations.run) and the    *)
(* pages of packages/panel-core/src/service.ts: entries are kept under the *)
(* generation their reader found, and a write moves the guild on to the    *)
(* next one.                                                               *)
(*                                                                         *)
(* Abstractions.  One guild and one cached page; what the page shows is    *)
(* reduced to how many writes were in the tables when it was computed.  An *)
(* entry may run out at any time.                                          *)
(***************************************************************************)
EXTENDS Integers

CONSTANTS
    Editor,      \* staff who write
    Viewer,      \* staff who open the page
    MaxEdits,    \* bound: writes in all
    MaxViews,    \* bound: pages opened in all
    MaxOutages   \* bound: calls of Redis that fail

ASSUME PanelCacheAssumption == MaxEdits \in Nat /\ MaxViews \in Nat /\ MaxOutages \in Nat

VARIABLES
    edits,       \* writes in the tables
    generation,  \* the guild's panelVersion key
    entries,     \* the cached page of each generation, or NoPage
    saving,      \* what each editor's write has come to
    shown,       \* the latest write whose success has been reported
    viewing,     \* what each viewer's request has come to
    views,       \* pages opened
    outages,     \* calls of Redis that failed
    blunted      \* history: a failed call left the cache behind

panelCacheVars == <<edits, generation, entries, saving, shown, viewing, views, outages, blunted>>

NoPage == -1

Generations == 0..MaxEdits

EditorVars == <<edits, saving, shown>>

ViewerVars == <<viewing, views>>

RedisFails == outages < MaxOutages /\ outages' = outages + 1

----------------------------------------------------------------------------
(* run: the body's write, then invalidate, then the reply.                 *)

NotSaving == [at |-> "idle", mine |-> 0]

Edit(s) ==
    /\ saving[s] = NotSaving
    /\ edits < MaxEdits
    /\ edits' = edits + 1
    /\ saving' = [saving EXCEPT ![s] = [at |-> "written", mine |-> edits + 1]]
    /\ UNCHANGED <<generation, entries, shown, outages, blunted>> /\ UNCHANGED ViewerVars

\* Slip: the generation is left as it was.
RetiredNever == generation

Retired == generation + 1

Invalidate(s) ==
    /\ saving[s].at = "written"
    /\ generation' = Retired
    /\ saving' = [saving EXCEPT ![s].at = "dropped"]
    /\ UNCHANGED <<edits, entries, shown, outages, blunted>> /\ UNCHANGED ViewerVars

\* "A write must not fail because the thing that makes it visible sooner is
\* unreachable": the failure is swallowed.
InvalidateFails(s) ==
    /\ saving[s].at = "written"
    /\ RedisFails
    /\ blunted' = TRUE
    /\ saving' = [saving EXCEPT ![s].at = "dropped"]
    /\ UNCHANGED <<edits, generation, entries, shown>> /\ UNCHANGED ViewerVars

\* The audit row and the capture come between; neither touches the cache.
Saved(s) ==
    /\ saving[s].at = "dropped"
    /\ saving' = [saving EXCEPT ![s] = NotSaving]
    /\ shown' = IF saving[s].mine > shown THEN saving[s].mine ELSE shown
    /\ UNCHANGED <<edits, generation, entries, outages, blunted>> /\ UNCHANGED ViewerVars

----------------------------------------------------------------------------
(* fetch                                                                   *)

PageRequest(at, owed, under, page) == [at |-> at, owed |-> owed, under |-> under, page |-> page]

NoRequest == PageRequest("idle", 0, 0, NoPage)

RequestAt(v, at, page) == PageRequest(at, viewing[v].owed, viewing[v].under, page)

Proceeds(v, request) == viewing' = [viewing EXCEPT ![v] = request]

OpenPage(v) ==
    /\ viewing[v] = NoRequest
    /\ views < MaxViews
    /\ views' = views + 1
    /\ Proceeds(v, PageRequest("get", shown, generation, NoPage))
    /\ UNCHANGED <<generation, entries, outages, blunted>> /\ UNCHANGED EditorVars

\* "Unreadable counts as generation 0", which is some earlier one once a
\* write has been made.
OpenPageBlind(v) ==
    /\ viewing[v] = NoRequest
    /\ views < MaxViews
    /\ RedisFails
    /\ views' = views + 1
    /\ blunted' = (blunted \/ generation > 0)
    /\ Proceeds(v, PageRequest("get", shown, 0, NoPage))
    /\ UNCHANGED <<generation, entries>> /\ UNCHANGED EditorVars

Hit(v) ==
    /\ viewing[v].at = "get"
    /\ entries[viewing[v].under] # NoPage
    /\ Proceeds(v, RequestAt(v, "served", entries[viewing[v].under]))
    /\ UNCHANGED <<generation, entries, outages, blunted, views>> /\ UNCHANGED EditorVars

Miss(v) ==
    /\ viewing[v].at = "get"
    /\ entries[viewing[v].under] = NoPage
    /\ Proceeds(v, RequestAt(v, "load", NoPage))
    /\ UNCHANGED <<generation, entries, outages, blunted, views>> /\ UNCHANGED EditorVars

\* Unreachable, or not to be parsed: as if there were no entry.
MissBlind(v) ==
    /\ viewing[v].at = "get"
    /\ RedisFails
    /\ Proceeds(v, RequestAt(v, "load", NoPage))
    /\ UNCHANGED <<generation, entries, blunted, views>> /\ UNCHANGED EditorVars

Load(v) ==
    /\ viewing[v].at = "load"
    /\ Proceeds(v, RequestAt(v, "put", edits))
    /\ UNCHANGED <<generation, entries, outages, blunted, views>> /\ UNCHANGED EditorVars

\* Slip: the page goes under the generation of the moment it is stored.
UnderNow(v) == generation

Under(v) == viewing[v].under

Store(v) ==
    /\ viewing[v].at = "put"
    /\ entries' = [entries EXCEPT ![Under(v)] = viewing[v].page]
    /\ Proceeds(v, RequestAt(v, "served", viewing[v].page))
    /\ UNCHANGED <<generation, outages, blunted, views>> /\ UNCHANGED EditorVars

StoreFails(v) ==
    /\ viewing[v].at = "put"
    /\ RedisFails
    /\ Proceeds(v, RequestAt(v, "served", viewing[v].page))
    /\ UNCHANGED <<generation, entries, blunted, views>> /\ UNCHANGED EditorVars

Leave(v) ==
    /\ viewing[v].at = "served"
    /\ Proceeds(v, NoRequest)
    /\ UNCHANGED <<generation, entries, outages, blunted, views>> /\ UNCHANGED EditorVars

\* The time an entry is kept has run out.
EntryExpires(g) ==
    /\ entries[g] # NoPage
    /\ entries' = [entries EXCEPT ![g] = NoPage]
    /\ UNCHANGED <<generation, outages, blunted>> /\ UNCHANGED EditorVars /\ UNCHANGED ViewerVars

----------------------------------------------------------------------------

PanelCacheInit ==
    /\ edits = 0
    /\ generation = 0
    /\ entries = [g \in Generations |-> NoPage]
    /\ saving = [s \in Editor |-> NotSaving]
    /\ shown = 0
    /\ viewing = [v \in Viewer |-> NoRequest]
    /\ views = 0
    /\ outages = 0
    /\ blunted = FALSE

PanelCacheNext ==
    \/ \E s \in Editor : Edit(s) \/ Invalidate(s) \/ InvalidateFails(s) \/ Saved(s)
    \/ \E v \in Viewer :
          \/ OpenPage(v) \/ OpenPageBlind(v) \/ Hit(v) \/ Miss(v) \/ MissBlind(v)
          \/ Load(v) \/ Store(v) \/ StoreFails(v) \/ Leave(v)
    \/ \E g \in Generations : EntryExpires(g)

PanelCacheSpec == PanelCacheInit /\ [][PanelCacheNext]_panelCacheVars

----------------------------------------------------------------------------
(* Properties.                                                             *)

\* Every variable has its type.
PanelCacheTypeOK ==
    /\ edits \in Generations
    /\ generation \in Generations
    /\ entries \in [Generations -> {NoPage} \cup Generations]
    /\ saving \in [Editor -> [at : {"idle", "written", "dropped"}, mine : Generations]]
    /\ shown \in Generations
    /\ viewing \in [Viewer -> [at : {"idle", "get", "load", "put", "served"}, owed : Generations,
                               under : Generations, page : {NoPage} \cup Generations]]
    /\ views \in 0..MaxViews
    /\ outages \in 0..MaxOutages
    /\ blunted \in BOOLEAN

\* "A staff member who changes something and reloads the page must see what
\* they changed": a page served holds every write whose success was reported
\* before it was opened, however slowly an older one was computed and stored,
\* unless Redis failed the write's invalidation or a read of the generation.
ReloadShowsTheWrite ==
    \A v \in Viewer :
        viewing[v].at = "served" /\ ~blunted => viewing[v].page >= viewing[v].owed
=============================================================================
