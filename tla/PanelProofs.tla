---------------------------- MODULE PanelProofs ----------------------------
(***************************************************************************)
(* Proofs about PanelCache, for any editors, viewers and bounds; about     *)
(* ConfigCache, for any processes, callers and time to live; and about     *)
(* PanelWrites, for any clerks, entries and bounds.                        *)
(***************************************************************************)
EXTENDS PanelCache, ConfigCache, PanelWrites, FiniteSetTheorems, TLAPS

(* PanelCache.  The page kept under a generation was computed after the    *)
(* generation began, and so holds whatever had been written by then: for   *)
(* some B, B[g] is how much that was.                                      *)

SaveStates == [at : {"idle", "written", "dropped"}, mine : Generations]

Requests == [at : {"idle", "get", "load", "put", "served"}, owed : Generations,
             under : Generations, page : {NoPage} \cup Generations]

Unretired == {saving[s].mine : s \in {t \in Editor : saving[t].at = "written"}}

\* Every generation is the work of one write, and some are still to come.
GenerationsInv ==
    /\ \A s \in Editor : saving[s].mine <= edits
    /\ \A s \in Editor : saving[s].at = "written" => saving[s].mine >= 1
    /\ \A s, t \in Editor :
          saving[s].at = "written" /\ saving[t].at = "written" /\ saving[s].mine = saving[t].mine => s = t
    /\ shown <= edits
    /\ generation + Cardinality(Unretired) <= edits

PagesInv ==
    \A v \in Viewer :
        /\ viewing[v].at \in {"put", "served"} => viewing[v].page # NoPage
        /\ viewing[v].at \in {"get", "load"} => viewing[v].page = NoPage
        /\ viewing[v].at = "idle" => viewing[v] = NoRequest

Timeline(B) ==
    /\ shown <= B[generation]
    /\ \A s \in Editor : saving[s].at = "dropped" => saving[s].mine <= B[generation]
    /\ \A g \in 0..generation : B[g] <= edits
    /\ \A g \in Generations : entries[g] # NoPage => g <= generation /\ entries[g] >= B[g]
    /\ \A v \in Viewer :
          /\ viewing[v].at # "idle" => viewing[v].under <= generation /\ viewing[v].owed <= B[viewing[v].under]
          /\ viewing[v].page # NoPage => viewing[v].page >= B[viewing[v].under]

PagesAreYoung == \E B \in [Nat -> Nat] : Timeline(B)

PanelInv ==
    /\ PanelCacheTypeOK /\ GenerationsInv /\ PagesInv
    /\ ~blunted => PagesAreYoung

LEMMA UpTo ==
    ASSUME NEW top \in Nat, NEW n \in 0..top, NEW k \in 0..top, k <= n
    PROVE  k \in 0..n
  OBVIOUS

LEMMA PanelTypes ==
    ASSUME PanelCacheTypeOK
    PROVE  /\ edits \in 0..MaxEdits /\ generation \in 0..MaxEdits /\ shown \in 0..MaxEdits
           /\ entries \in [Generations -> {NoPage} \cup Generations]
           /\ saving \in [Editor -> SaveStates] /\ viewing \in [Viewer -> Requests]
           /\ views \in 0..MaxViews /\ outages \in 0..MaxOutages /\ blunted \in BOOLEAN
           /\ MaxEdits \in Nat /\ MaxViews \in Nat /\ MaxOutages \in Nat
           /\ NoPage = -1 /\ Generations = 0..MaxEdits
  BY PanelCacheAssumption DEF PanelCacheTypeOK, SaveStates, Requests, Generations, NoPage

LEMMA RequestFacts ==
    /\ NoRequest \in Requests /\ NoRequest.at = "idle" /\ NoRequest.page = NoPage
    /\ NotSaving \in SaveStates /\ NotSaving.at = "idle" /\ NotSaving.mine = 0
  BY PanelCacheAssumption DEF NoRequest, PageRequest, Requests, Generations, NoPage, NotSaving, SaveStates

\* A request that goes on, while nobody writes.
LEMMA ViewStep ==
    ASSUME PanelInv, NEW v \in Viewer, NEW new \in Requests,
           viewing' = [viewing EXCEPT ![v] = new],
           UNCHANGED <<edits, saving, shown, generation>>,
           views' \in 0..MaxViews, outages' \in 0..MaxOutages, blunted' \in BOOLEAN,
           ~blunted' => ~blunted,
           entries' \in [Generations -> {NoPage} \cup Generations],
           \A g \in Generations :
               entries'[g] = entries[g] \/ (viewing[v].at = "put" /\ g = viewing[v].under /\ entries'[g] = viewing[v].page),
           new.at \in {"put", "served"} => new.page # NoPage,
           new.at \in {"get", "load"} => new.page = NoPage,
           new.at = "idle" => new = NoRequest,
           ~blunted' => \A B \in [Nat -> Nat] : Timeline(B) =>
               /\ new.at # "idle" => new.under <= generation /\ new.owed <= B[new.under]
               /\ new.page # NoPage => new.page >= B[new.under]
    PROVE  PanelInv'
<1>1. viewing'[v] = new /\ viewing' \in [Viewer -> Requests] /\ \A u \in Viewer \ {v} : viewing'[u] = viewing[u]
  BY PanelTypes DEF PanelInv
<1>2. PanelCacheTypeOK'
  BY <1>1, PanelTypes DEF PanelInv, PanelCacheTypeOK, Requests
<1>3. GenerationsInv'
  BY DEF PanelInv, GenerationsInv, Unretired
<1>4. PagesInv'
  BY <1>1 DEF PanelInv, PagesInv
<1>5. ASSUME ~blunted'
      PROVE  PagesAreYoung'
  <2>1. PICK B \in [Nat -> Nat] : Timeline(B)
    BY <1>5 DEF PanelInv, PagesAreYoung
  <2>2. \A g \in Generations : entries'[g] # NoPage => g <= generation /\ entries'[g] >= B[g]
    BY <2>1 DEF Timeline
  <2>3. /\ new.at # "idle" => new.under <= generation /\ new.owed <= B[new.under]
        /\ new.page # NoPage => new.page >= B[new.under]
    BY <1>5, <2>1
  <2>4. Timeline(B)'
    BY <1>1, <2>1, <2>2, <2>3 DEF Timeline
  <2> QED
    BY <2>4 DEF PagesAreYoung
<1> QED
  BY <1>2, <1>3, <1>4, <1>5 DEF PanelInv

LEMMA RequestMade ==
    ASSUME NEW at \in {"idle", "get", "load", "put", "served"}, NEW owed \in Generations,
           NEW under \in Generations, NEW page \in {NoPage} \cup Generations
    PROVE  /\ PageRequest(at, owed, under, page) \in Requests
           /\ PageRequest(at, owed, under, page).at = at
           /\ PageRequest(at, owed, under, page).owed = owed
           /\ PageRequest(at, owed, under, page).under = under
           /\ PageRequest(at, owed, under, page).page = page
  BY DEF PageRequest, Requests

LEMMA OpenKeepsInv ==
    ASSUME PanelInv, NEW v \in Viewer, OpenPage(v)
    PROVE  PanelInv'
<1> DEFINE new == PageRequest("get", shown, generation, NoPage)
<1>1. /\ edits \in 0..MaxEdits /\ generation \in 0..MaxEdits /\ shown \in 0..MaxEdits
      /\ views \in 0..MaxViews /\ outages \in 0..MaxOutages /\ blunted \in BOOLEAN
      /\ MaxEdits \in Nat /\ MaxViews \in Nat /\ Generations = 0..MaxEdits
      /\ entries \in [Generations -> {NoPage} \cup Generations]
  BY PanelTypes DEF PanelInv
<1>2. /\ new \in Requests /\ new.at = "get" /\ new.owed = shown /\ new.under = generation /\ new.page = NoPage
  BY <1>1, RequestMade
<1>3. /\ viewing' = [viewing EXCEPT ![v] = new]
      /\ UNCHANGED <<edits, saving, shown, generation, entries, outages, blunted>>
      /\ views' = views + 1 /\ views < MaxViews
  BY DEF OpenPage, Proceeds, EditorVars
<1>4. views' \in 0..MaxViews
  BY <1>1, <1>3
<1> HIDE DEF new
<1>5. ASSUME NEW B \in [Nat -> Nat], Timeline(B)
      PROVE  new.under <= generation /\ new.owed <= B[new.under]
  <2>1. shown <= B[generation]
    BY <1>5 DEF Timeline
  <2> QED
    BY <1>1, <1>2, <2>1
<1> QED
  BY <1>1, <1>2, <1>3, <1>4, <1>5, ViewStep

\* Read as generation 0, which is the current one unless a write has been made.
LEMMA OpenBlindKeepsInv ==
    ASSUME PanelInv, NEW v \in Viewer, OpenPageBlind(v)
    PROVE  PanelInv'
<1> DEFINE new == PageRequest("get", shown, 0, NoPage)
<1>1. /\ edits \in 0..MaxEdits /\ generation \in 0..MaxEdits /\ shown \in 0..MaxEdits
      /\ views \in 0..MaxViews /\ outages \in 0..MaxOutages /\ blunted \in BOOLEAN
      /\ MaxEdits \in Nat /\ MaxViews \in Nat /\ MaxOutages \in Nat /\ Generations = 0..MaxEdits
      /\ entries \in [Generations -> {NoPage} \cup Generations]
  BY PanelTypes DEF PanelInv
<1>2. /\ new \in Requests /\ new.at = "get" /\ new.owed = shown /\ new.under = 0 /\ new.page = NoPage
  BY <1>1, RequestMade
<1>3. /\ viewing' = [viewing EXCEPT ![v] = new]
      /\ UNCHANGED <<edits, saving, shown, generation, entries>>
      /\ views' = views + 1 /\ views < MaxViews
      /\ outages' = outages + 1 /\ outages < MaxOutages
  BY DEF OpenPageBlind, Proceeds, EditorVars, RedisFails
<1>4. views' \in 0..MaxViews /\ outages' \in 0..MaxOutages
  BY <1>1, <1>3
<1>5. blunted' = (blunted \/ generation > 0)
  BY DEF OpenPageBlind
<1>6. blunted' \in BOOLEAN
  BY <1>5, Zenon
<1>7. ASSUME ~blunted'
      PROVE  ~blunted /\ ~(generation > 0)
  BY <1>5, <1>7, Zenon
<1> HIDE DEF new
<1>8. ASSUME ~blunted', NEW B \in [Nat -> Nat], Timeline(B)
      PROVE  new.under <= generation /\ new.owed <= B[new.under]
  <2>1. ~(generation > 0)
    BY <1>7, <1>8
  <2>2. generation = 0
    BY <1>1, <2>1
  <2>3. shown <= B[generation]
    BY <1>8 DEF Timeline
  <2> QED
    BY <1>1, <1>2, <2>2, <2>3
<1>9. ~blunted' => ~blunted
  BY <1>7
<1> QED
  BY <1>1, <1>2, <1>3, <1>4, <1>6, <1>8, <1>9, ViewStep

\* The page kept under the request's generation, or none, or the tables as they are.
LEMMA ReadPageKeepsInv ==
    ASSUME PanelInv, NEW v \in Viewer, NEW at \in {"served", "load", "put"}, NEW page \in {NoPage} \cup Generations,
           viewing[v].at \in {"get", "load"},
           Proceeds(v, RequestAt(v, at, page)),
           \/ at = "served" /\ page # NoPage /\ page = entries[viewing[v].under]
           \/ at = "load" /\ page = NoPage
           \/ at = "put" /\ page = edits,
           UNCHANGED <<edits, saving, shown, generation, entries, blunted, views>>,
           outages' \in 0..MaxOutages
    PROVE  PanelInv'
<1> DEFINE new == RequestAt(v, at, page)
<1>1. /\ edits \in 0..MaxEdits /\ generation \in 0..MaxEdits /\ Generations = 0..MaxEdits
      /\ viewing[v] \in Requests /\ entries \in [Generations -> {NoPage} \cup Generations]
      /\ views \in 0..MaxViews /\ blunted \in BOOLEAN
      /\ MaxEdits \in Nat /\ NoPage = -1
  BY PanelTypes DEF PanelInv
<1>2. viewing[v].under \in Generations /\ viewing[v].owed \in Generations
  BY <1>1 DEF Requests
<1>3. /\ new \in Requests /\ new.at = at /\ new.owed = viewing[v].owed
      /\ new.under = viewing[v].under /\ new.page = page
  BY <1>2, RequestMade DEF RequestAt
<1>4. viewing' = [viewing EXCEPT ![v] = new]
  BY DEF Proceeds
<1>5. /\ at \in {"put", "served"} => page # NoPage
      /\ at \in {"get", "load"} => page = NoPage
      /\ at # "idle"
  BY <1>1
<1>6. ASSUME NEW B \in [Nat -> Nat], Timeline(B)
      PROVE  /\ new.under <= generation /\ new.owed <= B[new.under]
             /\ new.page # NoPage => new.page >= B[new.under]
  <2>1. viewing[v].under <= generation /\ viewing[v].owed <= B[viewing[v].under]
    BY <1>6 DEF Timeline
  <2>2. B[viewing[v].under] <= edits
    <3>1. viewing[v].under \in 0..generation
      <4>1. MaxEdits \in Nat /\ generation \in 0..MaxEdits /\ viewing[v].under \in 0..MaxEdits
        BY <1>1, <1>2
      <4> QED
        BY <2>1, <4>1, UpTo
    <3> QED
      BY <1>6, <3>1 DEF Timeline
  <2>3. entries[viewing[v].under] # NoPage => entries[viewing[v].under] >= B[viewing[v].under]
    BY <1>2, <1>6 DEF Timeline
  <2> QED
    BY <1>3, <2>1, <2>2, <2>3
<1> HIDE DEF new
<1> QED
  BY <1>1, <1>3, <1>4, <1>5, <1>6, ViewStep

LEMMA FetchKeepsInv ==
    ASSUME PanelInv, NEW v \in Viewer, Hit(v) \/ Miss(v) \/ MissBlind(v) \/ Load(v)
    PROVE  PanelInv'
<1>1. /\ edits \in Generations /\ viewing[v] \in Requests /\ entries \in [Generations -> {NoPage} \cup Generations]
      /\ outages \in 0..MaxOutages /\ MaxOutages \in Nat
  BY PanelTypes DEF PanelInv
<1>2. viewing[v].under \in Generations
  BY <1>1 DEF Requests
<1>3. CASE Hit(v)
  BY <1>1, <1>2, <1>3, ReadPageKeepsInv DEF Hit, EditorVars
<1>4. CASE Miss(v)
  BY <1>1, <1>4, ReadPageKeepsInv DEF Miss, EditorVars
<1>5. CASE MissBlind(v)
  BY <1>1, <1>5, ReadPageKeepsInv DEF MissBlind, RedisFails, EditorVars
<1>6. CASE Load(v)
  BY <1>1, <1>6, ReadPageKeepsInv DEF Load, EditorVars
<1> QED
  BY <1>3, <1>4, <1>5, <1>6

LEMMA StoreKeepsInv ==
    ASSUME PanelInv, NEW v \in Viewer, Store(v) \/ StoreFails(v)
    PROVE  PanelInv'
<1> DEFINE new == RequestAt(v, "served", viewing[v].page)
<1>1. /\ viewing[v] \in Requests /\ entries \in [Generations -> {NoPage} \cup Generations]
      /\ views \in 0..MaxViews /\ outages \in 0..MaxOutages /\ blunted \in BOOLEAN /\ MaxOutages \in Nat
  BY PanelTypes DEF PanelInv
<1>2. /\ viewing[v].at = "put" /\ viewing[v].page # NoPage
      /\ viewing[v].under \in Generations /\ viewing[v].owed \in Generations
      /\ viewing[v].page \in {NoPage} \cup Generations
  BY <1>1 DEF Store, StoreFails, PanelInv, PagesInv, Requests
<1>3. /\ new \in Requests /\ new.at = "served" /\ new.owed = viewing[v].owed
      /\ new.under = viewing[v].under /\ new.page = viewing[v].page
  <2>1. new = PageRequest("served", viewing[v].owed, viewing[v].under, viewing[v].page)
    BY DEF RequestAt
  <2> HIDE DEF new
  <2> QED
    BY <1>2, <2>1 DEF PageRequest, Requests
<1>4. viewing' = [viewing EXCEPT ![v] = new]
  BY DEF Store, StoreFails, Proceeds
<1>5. /\ UNCHANGED <<edits, saving, shown, generation, blunted, views>>
      /\ outages' \in 0..MaxOutages
  BY <1>1 DEF Store, StoreFails, RedisFails, EditorVars
<1>6. /\ entries' \in [Generations -> {NoPage} \cup Generations]
      /\ \A g \in Generations :
            entries'[g] = entries[g] \/ (g = viewing[v].under /\ entries'[g] = viewing[v].page)
  BY <1>1, <1>2 DEF Store, StoreFails, Under
<1>7. \A B \in [Nat -> Nat] : Timeline(B) =>
         /\ new.under <= generation /\ new.owed <= B[new.under]
         /\ new.page >= B[new.under]
  BY <1>2, <1>3 DEF Timeline
<1> HIDE DEF new
<1> QED
  BY <1>1, <1>2, <1>3, <1>4, <1>5, <1>6, <1>7, ViewStep

LEMMA LeaveKeepsInv ==
    ASSUME PanelInv, NEW v \in Viewer, Leave(v)
    PROVE  PanelInv'
<1> DEFINE new == NoRequest
<1>1. /\ new \in Requests /\ new.at = "idle" /\ new.page = NoPage /\ new = NoRequest
      /\ viewing' = [viewing EXCEPT ![v] = new]
  BY RequestFacts DEF Leave, Proceeds
<1>2. UNCHANGED <<edits, saving, shown, generation, entries, blunted, views, outages>>
  BY DEF Leave, EditorVars
<1> HIDE DEF new
<1> QED
  BY <1>1, <1>2, PanelTypes, ViewStep DEF PanelInv

LEMMA ExpiryKeepsInv ==
    ASSUME PanelInv, NEW g \in Generations, EntryExpires(g)
    PROVE  PanelInv'
<1>1. /\ entries' = [entries EXCEPT ![g] = NoPage]
      /\ UNCHANGED <<edits, saving, shown, generation, outages, blunted, viewing, views>>
  BY DEF EntryExpires, EditorVars, ViewerVars
<1>2. PanelCacheTypeOK'
  BY <1>1, PanelTypes DEF PanelInv, PanelCacheTypeOK
<1>3. GenerationsInv' /\ PagesInv'
  BY <1>1 DEF PanelInv, GenerationsInv, PagesInv, Unretired
<1>4. \A h \in Generations : entries'[h] = entries[h] \/ entries'[h] = NoPage
  BY <1>1, PanelTypes DEF PanelInv
<1>5. ASSUME ~blunted
      PROVE  PagesAreYoung'
  <2>1. PICK B \in [Nat -> Nat] : Timeline(B)
    BY <1>5 DEF PanelInv, PagesAreYoung
  <2>2. Timeline(B)'
    BY <1>1, <1>4, <2>1 DEF Timeline
  <2> QED
    BY <2>2 DEF PagesAreYoung
<1> QED
  BY <1>1, <1>2, <1>3, <1>5 DEF PanelInv

----------------------------------------------------------------------------
(* Editors.                                                                *)

LEMMA SaverChanged ==
    ASSUME PanelInv, NEW s \in Editor, NEW new \in SaveStates,
           saving' = [saving EXCEPT ![s] = new]
    PROVE  /\ saving'[s] = new
           /\ \A t \in Editor \ {s} : saving'[t] = saving[t]
           /\ saving' \in [Editor -> SaveStates]
  BY PanelTypes DEF PanelInv

LEMMA UnretiredFacts ==
    ASSUME PanelInv
    PROVE  /\ IsFiniteSet(Unretired) /\ Cardinality(Unretired) \in Nat
           /\ Unretired \subseteq 1..edits /\ edits \in Nat
<1>1. edits \in Nat /\ saving \in [Editor -> SaveStates] /\ \A s \in Editor : saving[s].mine \in Nat
  BY PanelTypes DEF PanelInv, SaveStates
<1>2. Unretired \subseteq 1..edits
  BY <1>1 DEF PanelInv, GenerationsInv, Unretired
<1>3. IsFiniteSet(1..edits)
  BY <1>1, FS_Interval
<1>4. IsFiniteSet(Unretired)
  BY <1>2, <1>3, FS_Subset
<1> QED
  BY <1>1, <1>2, <1>4, FS_CardinalityType

LEMMA EditKeepsInv ==
    ASSUME PanelInv, NEW s \in Editor, Edit(s)
    PROVE  PanelInv'
<1> DEFINE new == [at |-> "written", mine |-> edits + 1]
<1>1. /\ edits \in 0..MaxEdits /\ edits < MaxEdits /\ MaxEdits \in Nat /\ Generations = 0..MaxEdits
      /\ edits' = edits + 1 /\ edits' \in Generations
      /\ UNCHANGED <<generation, entries, shown, outages, blunted, viewing, views>>
      /\ saving \in [Editor -> SaveStates] /\ generation \in 0..MaxEdits /\ shown \in 0..MaxEdits
  BY PanelTypes DEF PanelInv, Edit, ViewerVars
<1>2. saving[s].at = "idle" /\ \A t \in Editor : saving[t].mine \in 0..MaxEdits
  BY <1>1, RequestFacts DEF Edit, SaveStates
<1>3. new \in SaveStates /\ new.at = "written" /\ new.mine = edits + 1 /\ saving' = [saving EXCEPT ![s] = new]
  BY <1>1 DEF SaveStates, Edit
<1> HIDE DEF new
<1>4. /\ saving'[s] = new /\ saving' \in [Editor -> SaveStates]
      /\ \A t \in Editor \ {s} : saving'[t] = saving[t]
  BY <1>3, SaverChanged
<1>5. PanelCacheTypeOK'
  BY <1>1, <1>4 DEF PanelInv, PanelCacheTypeOK, SaveStates
<1>6. Unretired' = Unretired \cup {edits + 1}
  BY <1>2, <1>3, <1>4 DEF Unretired
<1>7. edits + 1 \notin Unretired
  BY UnretiredFacts
<1>8. Cardinality(Unretired') = Cardinality(Unretired) + 1
  BY <1>6, <1>7, UnretiredFacts, FS_AddElement
<1>9. \A t \in Editor : saving[t].mine <= edits /\ saving[t].mine # edits + 1
  BY <1>1, <1>2 DEF PanelInv, GenerationsInv
<1>10. GenerationsInv'
  <2>1. (generation + Cardinality(Unretired) <= edits)'
    BY <1>1, <1>8, UnretiredFacts DEF PanelInv, GenerationsInv
  <2>2. (\A t \in Editor : saving[t].mine <= edits)'
    BY <1>1, <1>2, <1>3, <1>4, <1>9
  <2>3. (\A t \in Editor : saving[t].at = "written" => saving[t].mine >= 1)'
    BY <1>1, <1>3, <1>4 DEF PanelInv, GenerationsInv
  <2>4. (\A t, u \in Editor :
          saving[t].at = "written" /\ saving[u].at = "written" /\ saving[t].mine = saving[u].mine => t = u)'
    BY <1>3, <1>4, <1>9 DEF PanelInv, GenerationsInv
  <2>5. (shown <= edits)'
    BY <1>1 DEF PanelInv, GenerationsInv
  <2> QED
    BY <2>1, <2>2, <2>3, <2>4, <2>5 DEF GenerationsInv
<1>11. PagesInv'
  BY <1>1 DEF PanelInv, PagesInv
<1>12. ASSUME ~blunted
       PROVE  PagesAreYoung'
  <2>1. PICK B \in [Nat -> Nat] : Timeline(B)
    BY <1>12 DEF PanelInv, PagesAreYoung
  <2>2. (\A t \in Editor : saving[t].at = "dropped" => saving[t].mine <= B[generation])'
    <3>1. \A t \in Editor : saving[t].at = "dropped" => saving[t].mine <= B[generation]
      BY <2>1 DEF Timeline
    <3> QED
      BY <1>1, <1>3, <1>4, <3>1
  <2>3. (\A g \in 0..generation : B[g] <= edits)'
    <3>1. \A g \in 0..generation : B[g] <= edits
      BY <2>1 DEF Timeline
    <3>2. generation' = generation /\ generation \in Nat /\ edits' = edits + 1 /\ edits \in Nat
      BY <1>1
    <3>3. \A g \in 0..generation : B[g] \in Nat
      BY <3>2
    <3> QED
      BY <3>1, <3>2, <3>3
  <2>4. Timeline(B)'
    BY <1>1, <2>1, <2>2, <2>3 DEF Timeline
  <2> QED
    BY <2>4 DEF PagesAreYoung
<1> QED
  BY <1>1, <1>5, <1>10, <1>11, <1>12 DEF PanelInv

\* What a write loses by being over with the cache, done or failed.
LEMMA OneFewer ==
    ASSUME PanelInv, NEW s \in Editor, saving[s].at = "written",
           saving' = [saving EXCEPT ![s].at = "dropped"]
    PROVE  /\ saving' \in [Editor -> SaveStates]
           /\ \A t \in Editor : saving'[t].mine = saving[t].mine
           /\ saving'[s].at = "dropped"
           /\ \A t \in Editor \ {s} : saving'[t] = saving[t]
           /\ Cardinality(Unretired') = Cardinality(Unretired) - 1
           /\ Cardinality(Unretired') \in Nat
<1> DEFINE new == [at |-> "dropped", mine |-> saving[s].mine]
<1>1. saving \in [Editor -> SaveStates] /\ saving[s] \in SaveStates
  BY PanelTypes DEF PanelInv
<1>2. /\ new \in SaveStates /\ new.at = "dropped" /\ new.mine = saving[s].mine
      /\ saving' = [saving EXCEPT ![s] = new]
  <2>1. [saving[s] EXCEPT !.at = "dropped"] = new
    BY <1>1 DEF SaveStates
  <2>2. saving' = [saving EXCEPT ![s] = [saving[s] EXCEPT !.at = "dropped"]]
    BY <1>1
  <2>3. new \in SaveStates /\ new.at = "dropped" /\ new.mine = saving[s].mine
    BY <1>1 DEF SaveStates
  <2> QED
    BY <2>1, <2>2, <2>3
<1> HIDE DEF new
<1>3. /\ saving'[s] = new /\ saving' \in [Editor -> SaveStates]
      /\ \A t \in Editor \ {s} : saving'[t] = saving[t]
  BY <1>2, SaverChanged
<1>4. Unretired' = Unretired \ {saving[s].mine} /\ saving[s].mine \in Unretired
  BY <1>2, <1>3 DEF PanelInv, GenerationsInv, Unretired
<1>5. IsFiniteSet(Unretired') /\ Cardinality(Unretired') = Cardinality(Unretired) - 1
  BY <1>4, UnretiredFacts, FS_RemoveElement
<1> QED
  BY <1>2, <1>3, <1>5, FS_CardinalityType

LEMMA InvalidateKeepsInv ==
    ASSUME PanelInv, NEW s \in Editor, Invalidate(s)
    PROVE  PanelInv'
<1>1. /\ edits \in 0..MaxEdits /\ generation \in 0..MaxEdits /\ shown \in 0..MaxEdits /\ MaxEdits \in Nat
      /\ Generations = 0..MaxEdits /\ generation' = generation + 1
      /\ UNCHANGED <<edits, entries, shown, outages, blunted, viewing, views>>
      /\ viewing \in [Viewer -> Requests] /\ entries \in [Generations -> {NoPage} \cup Generations]
  BY PanelTypes DEF PanelInv, Invalidate, Retired, ViewerVars
<1>2. /\ saving' \in [Editor -> SaveStates]
      /\ \A t \in Editor : saving'[t].mine = saving[t].mine
      /\ saving'[s].at = "dropped"
      /\ \A t \in Editor \ {s} : saving'[t] = saving[t]
      /\ Cardinality(Unretired') = Cardinality(Unretired) - 1
      /\ Cardinality(Unretired') \in Nat
  BY OneFewer DEF Invalidate
<1>3. generation' + Cardinality(Unretired') <= edits /\ generation' \in Generations
  BY <1>1, <1>2, UnretiredFacts DEF PanelInv, GenerationsInv
<1>4. PanelCacheTypeOK'
  BY <1>1, <1>2, <1>3 DEF PanelInv, PanelCacheTypeOK, SaveStates
<1>5. GenerationsInv'
  BY <1>1, <1>2, <1>3 DEF PanelInv, GenerationsInv
<1>6. PagesInv'
  BY <1>1 DEF PanelInv, PagesInv
<1>7. ASSUME ~blunted
      PROVE  PagesAreYoung'
  <2>1. PICK B \in [Nat -> Nat] : Timeline(B)
    BY <1>7 DEF PanelInv, PagesAreYoung
  <2>2. PICK C \in [Nat -> Nat] : C[generation'] = edits /\ \A g \in 0..generation : C[g] = B[g]
    <3>1. [B EXCEPT ![generation + 1] = edits] \in [Nat -> Nat]
      BY <1>1
    <3>2. /\ [B EXCEPT ![generation + 1] = edits][generation'] = edits
          /\ \A g \in 0..generation : [B EXCEPT ![generation + 1] = edits][g] = B[g]
      BY <1>1
    <3> QED
      BY <3>1, <3>2
  <2>3. shown' <= C[generation'] /\ \A t \in Editor : saving'[t].mine <= C[generation']
    <3>1. shown <= edits /\ \A t \in Editor : saving[t].mine <= edits
      BY DEF PanelInv, GenerationsInv
    <3> QED
      BY <1>1, <1>2, <2>2, <3>1
  <2>4. \A g \in 0..generation' : C[g] <= edits'
    <3>1. \A g \in 0..generation : B[g] <= edits
      BY <2>1 DEF Timeline
    <3>2. generation' = generation + 1 /\ generation \in Nat /\ edits' = edits /\ edits \in Nat
      BY <1>1
    <3>3. ASSUME NEW g \in 0..generation'
          PROVE  C[g] <= edits'
      <4>1. g \in 0..generation \/ g = generation'
        BY <3>2
      <4>2. CASE g \in 0..generation
        BY <2>2, <3>1, <3>2, <4>2
      <4>3. CASE g = generation'
        BY <2>2, <3>2, <4>3
      <4> QED
        BY <4>1, <4>2, <4>3
    <3> QED
      BY <3>3
  <2>5. \A g \in Generations : entries'[g] # NoPage => g <= generation' /\ entries'[g] >= C[g]
    <3>1. ASSUME NEW g \in Generations, entries[g] # NoPage
          PROVE  g \in 0..generation /\ entries[g] >= B[g]
      BY <1>1, <2>1, <3>1 DEF Timeline
    <3> QED
      BY <1>1, <2>2, <3>1
  <2>6. ASSUME NEW v \in Viewer
        PROVE  /\ viewing'[v].at # "idle" => viewing'[v].under <= generation' /\ viewing'[v].owed <= C[viewing'[v].under]
               /\ viewing'[v].page # NoPage => viewing'[v].page >= C[viewing'[v].under]
    <3>1. viewing[v] \in Requests /\ viewing[v].under \in 0..MaxEdits
      BY <1>1 DEF Requests
    <3>2. CASE viewing[v].at = "idle"
      <4>1. viewing[v].page = NoPage
        BY <3>2, RequestFacts DEF PanelInv, PagesInv
      <4> QED
        BY <1>1, <3>2, <4>1
    <3>3. CASE viewing[v].at # "idle"
      <4>1. viewing[v].under \in 0..generation
        <5>1. viewing[v].under <= generation
          BY <2>1, <3>3 DEF Timeline
        <5>2. generation \in 0..MaxEdits /\ MaxEdits \in Nat
          BY <1>1
        <5> QED
          BY <3>1, <5>1, <5>2, UpTo
      <4>2. C[viewing[v].under] = B[viewing[v].under]
        BY <2>2, <4>1
      <4>3. viewing[v].owed <= B[viewing[v].under] /\ (viewing[v].page # NoPage => viewing[v].page >= B[viewing[v].under])
        BY <2>1, <3>3 DEF Timeline
      <4>4. generation' = generation + 1 /\ generation \in Nat /\ viewing' = viewing
        BY <1>1
      <4> QED
        BY <4>1, <4>2, <4>3, <4>4
    <3> QED
      BY <3>2, <3>3
  <2>7. Timeline(C)'
    <3>1. /\ (shown <= C[generation])'
          /\ (\A t \in Editor : saving[t].at = "dropped" => saving[t].mine <= C[generation])'
      BY <2>3
    <3>2. (\A g \in 0..generation : C[g] <= edits)'
      BY <2>4
    <3>3. (\A g \in Generations : entries[g] # NoPage => g <= generation /\ entries[g] >= C[g])'
      BY <2>5 DEF Generations, NoPage
    <3>4. (\A v \in Viewer :
              /\ viewing[v].at # "idle" => viewing[v].under <= generation /\ viewing[v].owed <= C[viewing[v].under]
              /\ viewing[v].page # NoPage => viewing[v].page >= C[viewing[v].under])'
      BY <2>6 DEF NoPage
    <3> QED
      BY <3>1, <3>2, <3>3, <3>4 DEF Timeline
  <2> QED
    BY <2>2, <2>7 DEF PagesAreYoung
<1> QED
  BY <1>1, <1>4, <1>5, <1>6, <1>7 DEF PanelInv

LEMMA InvalidateFailsKeepsInv ==
    ASSUME PanelInv, NEW s \in Editor, InvalidateFails(s)
    PROVE  PanelInv'
<1>1. /\ UNCHANGED <<edits, generation, entries, shown, viewing, views>>
      /\ outages' = outages + 1 /\ outages < MaxOutages
      /\ outages \in 0..MaxOutages /\ MaxOutages \in Nat
      /\ edits \in 0..MaxEdits /\ generation \in 0..MaxEdits
  BY PanelTypes DEF PanelInv, InvalidateFails, ViewerVars, RedisFails
<1>2. blunted' = TRUE
  BY DEF InvalidateFails
<1>3. /\ saving' \in [Editor -> SaveStates]
      /\ \A t \in Editor : saving'[t].mine = saving[t].mine
      /\ saving'[s].at = "dropped"
      /\ \A t \in Editor \ {s} : saving'[t] = saving[t]
      /\ Cardinality(Unretired') = Cardinality(Unretired) - 1
      /\ Cardinality(Unretired') \in Nat
  BY OneFewer DEF InvalidateFails
<1>4. outages' \in 0..MaxOutages
  BY <1>1
<1>5. PanelCacheTypeOK'
  BY <1>1, <1>2, <1>3, <1>4 DEF PanelInv, PanelCacheTypeOK, SaveStates
<1>6. GenerationsInv'
  <2>1. (generation + Cardinality(Unretired) <= edits)'
    BY <1>1, <1>3, UnretiredFacts DEF PanelInv, GenerationsInv
  <2> QED
    BY <1>1, <1>3, <2>1 DEF PanelInv, GenerationsInv
<1>7. PagesInv'
  BY <1>1 DEF PanelInv, PagesInv
<1> QED
  BY <1>2, <1>5, <1>6, <1>7 DEF PanelInv

LEMMA SavedKeepsInv ==
    ASSUME PanelInv, NEW s \in Editor, Saved(s)
    PROVE  PanelInv'
<1>1. /\ UNCHANGED <<edits, generation, entries, outages, blunted, viewing, views>>
      /\ saving[s].at = "dropped" /\ saving \in [Editor -> SaveStates]
      /\ shown' = IF saving[s].mine > shown THEN saving[s].mine ELSE shown
      /\ saving' = [saving EXCEPT ![s] = NotSaving]
      /\ edits \in 0..MaxEdits /\ generation \in 0..MaxEdits /\ shown \in 0..MaxEdits
      /\ Generations = 0..MaxEdits /\ MaxEdits \in Nat
  BY PanelTypes DEF PanelInv, Saved, ViewerVars
<1>2. saving[s].mine \in 0..MaxEdits
  BY <1>1 DEF SaveStates
<1>3. /\ saving'[s] = NotSaving /\ saving' \in [Editor -> SaveStates]
      /\ \A t \in Editor \ {s} : saving'[t] = saving[t]
  BY <1>1, SaverChanged, RequestFacts
<1>4. Unretired' = Unretired
  BY <1>1, <1>3, RequestFacts DEF Unretired
<1>5. shown' \in Generations /\ shown' <= edits
  BY <1>1, <1>2 DEF PanelInv, GenerationsInv
<1>6. PanelCacheTypeOK'
  BY <1>1, <1>3, <1>5 DEF PanelInv, PanelCacheTypeOK, SaveStates
<1>7. GenerationsInv'
  BY <1>1, <1>3, <1>4, <1>5, RequestFacts DEF PanelInv, GenerationsInv
<1>8. PagesInv'
  BY <1>1 DEF PanelInv, PagesInv
<1>9. ASSUME ~blunted
      PROVE  PagesAreYoung'
  <2>1. PICK B \in [Nat -> Nat] : Timeline(B)
    BY <1>9 DEF PanelInv, PagesAreYoung
  <2>2. shown' <= B[generation]
    BY <1>1, <2>1 DEF Timeline
  <2>3. \A t \in Editor : saving'[t].at = "dropped" => saving'[t].mine <= B[generation]
    BY <1>3, <2>1, RequestFacts DEF Timeline
  <2>4. Timeline(B)'
    BY <1>1, <2>1, <2>2, <2>3 DEF Timeline
  <2> QED
    BY <2>4 DEF PagesAreYoung
<1> QED
  BY <1>1, <1>6, <1>7, <1>8, <1>9 DEF PanelInv

----------------------------------------------------------------------------

LEMMA PanelInit ==
    ASSUME PanelCacheInit
    PROVE  PanelInv
<1>1. PanelCacheTypeOK
  <2>1. /\ edits \in Generations /\ generation \in Generations /\ shown \in Generations
        /\ views \in 0..MaxViews /\ outages \in 0..MaxOutages
    BY PanelCacheAssumption DEF PanelCacheInit, Generations
  <2>2. blunted \in BOOLEAN
    BY DEF PanelCacheInit
  <2>3. entries \in [Generations -> {NoPage} \cup Generations]
    BY DEF PanelCacheInit
  <2>4. saving \in [Editor -> SaveStates] /\ viewing \in [Viewer -> Requests]
    BY RequestFacts DEF PanelCacheInit
  <2> QED
    BY <2>1, <2>2, <2>3, <2>4 DEF PanelCacheTypeOK, SaveStates, Requests
<1>2. Unretired = {}
  BY RequestFacts DEF PanelCacheInit, Unretired
<1>3. GenerationsInv
  BY <1>2, RequestFacts, FS_EmptySet DEF PanelCacheInit, GenerationsInv
<1>4. PagesInv
  BY RequestFacts DEF PanelCacheInit, PagesInv
<1>5. PagesAreYoung
  <2> DEFINE B == [n \in Nat |-> 0]
  <2>1. B \in [Nat -> Nat] /\ \A n \in Nat : B[n] = 0
    OBVIOUS
  <2> HIDE DEF B
  <2>2. Timeline(B)
    BY <2>1, RequestFacts DEF PanelCacheInit, Timeline
  <2> QED
    BY <2>1, <2>2 DEF PagesAreYoung
<1> QED
  BY <1>1, <1>3, <1>4, <1>5 DEF PanelInv

LEMMA PanelStep ==
    ASSUME PanelInv, [PanelCacheNext]_panelCacheVars
    PROVE  PanelInv'
<1>1. CASE UNCHANGED panelCacheVars
  <2>1. PanelCacheTypeOK' /\ GenerationsInv' /\ PagesInv'
    BY <1>1 DEF panelCacheVars, PanelInv, PanelCacheTypeOK, GenerationsInv, PagesInv, Unretired
  <2>2. ASSUME ~blunted
        PROVE  PagesAreYoung'
    <3>1. PICK B \in [Nat -> Nat] : Timeline(B)
      BY <2>2 DEF PanelInv, PagesAreYoung
    <3>2. Timeline(B)'
      BY <1>1, <3>1 DEF panelCacheVars, Timeline
    <3> QED
      BY <3>2 DEF PagesAreYoung
  <2>3. blunted' = blunted
    BY <1>1 DEF panelCacheVars
  <2> QED
    BY <2>1, <2>2, <2>3 DEF PanelInv
<1>2. ASSUME NEW s \in Editor, Edit(s) \/ Invalidate(s) \/ InvalidateFails(s) \/ Saved(s)
      PROVE  PanelInv'
  BY <1>2, EditKeepsInv, InvalidateKeepsInv, InvalidateFailsKeepsInv, SavedKeepsInv
<1>3. ASSUME NEW v \in Viewer, \/ OpenPage(v) \/ OpenPageBlind(v) \/ Hit(v) \/ Miss(v) \/ MissBlind(v)
                               \/ Load(v) \/ Store(v) \/ StoreFails(v) \/ Leave(v)
      PROVE  PanelInv'
  BY <1>3, OpenKeepsInv, OpenBlindKeepsInv, FetchKeepsInv, StoreKeepsInv, LeaveKeepsInv
<1>4. ASSUME NEW g \in Generations, EntryExpires(g)
      PROVE  PanelInv'
  BY <1>4, ExpiryKeepsInv
<1> QED
  BY <1>1, <1>2, <1>3, <1>4 DEF PanelCacheNext

\* Every variable of the panel's cache has its type.
THEOREM PanelTypeCorrectness == PanelCacheSpec => []PanelCacheTypeOK
<1>1. PanelInv => PanelCacheTypeOK
  BY DEF PanelInv
<1> QED
  BY <1>1, PanelInit, PanelStep, PTL DEF PanelCacheSpec

\* "A staff member who changes something and reloads the page must see what
\* they changed", however many write and read, and however slowly.
THEOREM ReloadShowsTheWriteAlways == PanelCacheSpec => []ReloadShowsTheWrite
<1>1. ASSUME PanelInv
      PROVE  ReloadShowsTheWrite
  <2>1. ASSUME NEW v \in Viewer, viewing[v].at = "served", ~blunted
        PROVE  viewing[v].page >= viewing[v].owed
    <3>1. PICK B \in [Nat -> Nat] : Timeline(B)
      BY <1>1, <2>1 DEF PanelInv, PagesAreYoung
    <3>2. viewing[v] \in Requests /\ MaxEdits \in Nat /\ Generations = 0..MaxEdits /\ NoPage = -1
      <4>1. PanelCacheTypeOK
        BY <1>1 DEF PanelInv
      <4> QED
        BY <2>1, <4>1, PanelTypes
    <3>3. viewing[v].page \in {NoPage} \cup 0..MaxEdits /\ viewing[v].under \in 0..MaxEdits /\ viewing[v].owed \in 0..MaxEdits
      BY <3>2 DEF Requests
    <3>4. viewing[v].owed <= B[viewing[v].under] /\ viewing[v].page >= B[viewing[v].under]
      <4>1. viewing[v].page # NoPage
        BY <1>1, <2>1 DEF PanelInv, PagesInv
      <4> QED
        BY <2>1, <3>1, <4>1 DEF Timeline
    <3>5. viewing[v].page \in Int /\ viewing[v].owed \in Nat /\ B[viewing[v].under] \in Nat
      <4>1. viewing[v].under \in Nat /\ viewing[v].owed \in Nat
        <5>1. MaxEdits \in Nat
          BY <3>2
        <5> QED
          BY <3>3, <5>1
      <4>2. B[viewing[v].under] \in Nat
        BY <4>1
      <4>3. viewing[v].page \in Int
        <5>1. -1 \in Int /\ 0..MaxEdits \subseteq Int
          BY <3>2
        <5> QED
          BY <3>3, <5>1 DEF NoPage
      <4> QED
        BY <4>1, <4>2, <4>3
    <3> QED
      BY <3>4, <3>5
  <2> QED
    BY <2>1 DEF ReloadShowsTheWrite
<1> QED
  BY <1>1, PanelInit, PanelStep, PTL DEF PanelCacheSpec

----------------------------------------------------------------------------
(* ConfigCache.  Whatever a process keeps or is reading is no older than   *)
(* the last write it knows of, and a copy is at least as old as the time   *)
(* the row has been past it.                                               *)

AskRecord == [at : {"idle", "read", "answered"}, owed : Sets, got : Sets, had : {-1} \cup Sets]

Copies == [value : {-1} \cup Sets, age : 0..(Ttl + 1)]

KnownIsMade ==
    /\ \A p \in Process : told[p] <= row /\ setting[p] <= row
    /\ \A h \in hints : h[2] <= row

KeptIsYoung ==
    /\ \A s \in Sets : s >= row => outdated[s] = 0
    /\ \A p \in Process : copy[p] # NoCopy => copy[p].value \in Sets /\ outdated[copy[p].value] <= copy[p].age
    /\ \A p \in Process, a \in Asker : asking[p][a].at = "read" => outdated[asking[p][a].got] = 0

KeptIsTold ==
    \A p \in Process : ~crossed[p] /\ badReads = 0 =>
        /\ copy[p] # NoCopy => copy[p].value >= told[p]
        /\ \A a \in Asker :
              /\ asking[p][a].at = "read" => asking[p][a].got >= told[p] /\ told[p] >= asking[p][a].owed
              /\ asking[p][a].at = "answered" => asking[p][a].got >= asking[p][a].owed

ConfigInv == ConfigCacheTypeOK /\ KnownIsMade /\ KeptIsYoung /\ KeptIsTold

LEMMA ConfigTypes ==
    ASSUME ConfigCacheTypeOK
    PROVE  /\ MaxSets \in Nat /\ Ttl \in Nat /\ MaxBadReads \in Nat /\ Sets = 0..MaxSets
           /\ row \in Sets /\ row \in Nat /\ badReads \in 0..MaxBadReads
           /\ outdated \in [Sets -> 0..(Ttl + 1)]
           /\ copy \in [Process -> Copies] /\ asking \in [Process -> [Asker -> AskRecord]]
           /\ setting \in [Process -> Sets] /\ told \in [Process -> Sets]
           /\ crossed \in [Process -> BOOLEAN] /\ hints \subseteq Process \X Sets
  BY ConfigCacheAssumption DEF ConfigCacheTypeOK, Sets, Copies, AskRecord

LEMMA AnswerMade ==
    ASSUME NEW at \in {"idle", "read", "answered"}, NEW owed \in Sets, NEW got \in Sets, NEW had \in {-1} \cup Sets
    PROVE  /\ Asking(at, owed, got, had) \in AskRecord /\ Asking(at, owed, got, had).at = at
           /\ Asking(at, owed, got, had).owed = owed /\ Asking(at, owed, got, had).got = got
  BY DEF Asking, AskRecord

LEMMA NotAskingFacts ==
    NotAsking \in AskRecord /\ NotAsking.at = "idle"
  BY ConfigCacheAssumption DEF NotAsking, Asking, AskRecord, Sets

LEMMA CopyMade ==
    ASSUME NEW value \in Sets, NEW ticks \in 0..(Ttl + 1)
    PROVE  /\ Copy(value, ticks) \in Copies
           /\ Copy(value, ticks).value = value /\ Copy(value, ticks).age = ticks
  BY DEF Copy, Copies

LEMMA NoCopyFacts ==
    NoCopy \in Copies /\ NoCopy.value = -1
  BY ConfigCacheAssumption DEF NoCopy, Copy, Copies

\* A caller goes on: the copy is as it was, or is what the caller had read.
LEMMA AskerStep ==
    ASSUME ConfigInv, NEW p \in Process, NEW a \in Asker, NEW new \in AskRecord,
           asking' = [asking EXCEPT ![p][a] = new],
           \/ copy' = copy
           \/ asking[p][a].at = "read" /\ copy' = [copy EXCEPT ![p] = Copy(asking[p][a].got, 0)],
           UNCHANGED <<row, outdated, setting, hints, told, crossed>>,
           badReads' \in 0..MaxBadReads, badReads' >= badReads,
           new.at = "read" => outdated[new.got] = 0,
           ~crossed[p] /\ badReads' = 0 =>
               /\ new.at = "read" => new.got >= told[p] /\ told[p] >= new.owed
               /\ new.at = "answered" => new.got >= new.owed
    PROVE  ConfigInv'
<1>1. /\ MaxSets \in Nat /\ Ttl \in Nat /\ MaxBadReads \in Nat /\ Sets = 0..MaxSets
      /\ row \in Sets /\ badReads \in 0..MaxBadReads /\ outdated \in [Sets -> 0..(Ttl + 1)]
      /\ copy \in [Process -> Copies] /\ asking \in [Process -> [Asker -> AskRecord]]
      /\ told \in [Process -> Sets]
  BY ConfigTypes DEF ConfigInv
<1>2. /\ asking' \in [Process -> [Asker -> AskRecord]] /\ asking'[p][a] = new
      /\ \A q \in Process, b \in Asker : <<q, b>> # <<p, a>> => asking'[q][b] = asking[q][b]
  BY <1>1
<1>3. asking[p][a].got \in Sets /\ 0 \in 0..(Ttl + 1)
  BY <1>1 DEF AskRecord
<1> DEFINE made == Copy(asking[p][a].got, 0)
<1>4. made \in Copies /\ made.value = asking[p][a].got /\ made.age = 0
  BY <1>3, CopyMade
<1> HIDE DEF made
<1>5. /\ copy' \in [Process -> Copies]
      /\ \A q \in Process : copy'[q] = copy[q] \/ (q = p /\ asking[p][a].at = "read" /\ copy'[q] = made)
  BY <1>1, <1>4 DEF made
<1>6. badReads' = 0 => badReads = 0
  BY <1>1
<1>7. ConfigCacheTypeOK'
  BY <1>2, <1>5 DEF ConfigInv, ConfigCacheTypeOK, AskRecord, Copies
<1>8. KnownIsMade'
  BY DEF ConfigInv, KnownIsMade
<1>9. KeptIsYoung'
  <2>1. (\A s \in Sets : s >= row => outdated[s] = 0)'
    BY DEF ConfigInv, KeptIsYoung
  <2>2. asking[p][a].at = "read" => outdated[asking[p][a].got] = 0
    BY DEF ConfigInv, KeptIsYoung
  <2>3. (\A q \in Process : copy[q] # NoCopy => copy[q].value \in Sets /\ outdated[copy[q].value] <= copy[q].age)'
    BY <1>1, <1>3, <1>4, <1>5, <2>2 DEF ConfigInv, KeptIsYoung
  <2>4. (\A q \in Process, b \in Asker : asking[q][b].at = "read" => outdated[asking[q][b].got] = 0)'
    BY <1>2 DEF ConfigInv, KeptIsYoung
  <2> QED
    BY <2>1, <2>3, <2>4 DEF KeptIsYoung
<1>10. KeptIsTold'
  <2>1. ASSUME NEW q \in Process, ~crossed'[q], badReads' = 0
        PROVE  copy'[q] # NoCopy => copy'[q].value >= told'[q]
    BY <1>4, <1>5, <1>6, <2>1 DEF ConfigInv, KeptIsTold
  <2>2. ASSUME NEW q \in Process, ~crossed'[q], badReads' = 0, NEW b \in Asker
        PROVE  /\ asking'[q][b].at = "read" => asking'[q][b].got >= told'[q] /\ told'[q] >= asking'[q][b].owed
               /\ asking'[q][b].at = "answered" => asking'[q][b].got >= asking'[q][b].owed
    BY <1>2, <1>6, <2>2 DEF ConfigInv, KeptIsTold
  <2> QED
    BY <2>1, <2>2 DEF KeptIsTold
<1> QED
  BY <1>7, <1>8, <1>9, <1>10 DEF ConfigInv

LEMMA AskKeepsInv ==
    ASSUME ConfigInv, NEW p \in Process, NEW a \in Asker, Ask(p, a)
    PROVE  ConfigInv'
<1> DEFINE new == IF Fresh(p) THEN Asking("answered", told[p], copy[p].value, -1)
                              ELSE Asking("read", told[p], row, copy[p].value)
<1>1. /\ Sets = 0..MaxSets /\ MaxSets \in Nat /\ row \in Sets /\ told[p] \in Sets /\ copy[p] \in Copies
      /\ badReads \in 0..MaxBadReads /\ MaxBadReads \in Nat
  BY ConfigTypes DEF ConfigInv
<1>2. copy[p].value \in {-1} \cup Sets /\ (Fresh(p) => copy[p].value \in Sets)
  BY <1>1 DEF ConfigInv, KeptIsYoung, Copies, Fresh
<1>3. outdated[row] = 0 /\ told[p] <= row
  BY <1>1 DEF ConfigInv, KeptIsYoung, KnownIsMade
<1>4. ~crossed[p] /\ badReads = 0 /\ Fresh(p) => copy[p].value >= told[p]
  BY DEF ConfigInv, KeptIsTold, Fresh
<1>5. asking' = [asking EXCEPT ![p][a] = new]
  BY DEF Ask
<1>6. UNCHANGED <<copy, row, outdated, setting, hints, told, crossed, badReads>>
  BY DEF Ask
<1>7. badReads' \in 0..MaxBadReads /\ badReads' >= badReads
  BY <1>1, <1>6
<1>8. CASE Fresh(p)
  <2>1. new = Asking("answered", told[p], copy[p].value, -1)
    BY <1>8
  <2> HIDE DEF new
  <2>2. new \in AskRecord /\ new.at = "answered" /\ new.owed = told[p] /\ new.got = copy[p].value
    BY <1>1, <1>2, <1>8, <2>1, AnswerMade
  <2> QED
    BY <1>4, <1>5, <1>6, <1>7, <1>8, <2>2, AskerStep
<1>9. CASE ~Fresh(p)
  <2>1. new = Asking("read", told[p], row, copy[p].value)
    BY <1>9
  <2> HIDE DEF new
  <2>2. new \in AskRecord /\ new.at = "read" /\ new.owed = told[p] /\ new.got = row
    BY <1>1, <1>2, <2>1 DEF Asking, AskRecord
  <2>3. row >= told[p] /\ told[p] >= told[p]
    <3>1. row \in Nat /\ told[p] \in Nat
      <4>1. MaxSets \in Nat /\ row \in 0..MaxSets /\ told[p] \in 0..MaxSets
        BY <1>1
      <4> QED
        BY <4>1
    <3> QED
      BY <1>3, <3>1
  <2> QED
    BY <1>3, <1>5, <1>6, <1>7, <2>2, <2>3, AskerStep
<1> QED
  BY <1>8, <1>9

LEMMA ReadKeepsInv ==
    ASSUME ConfigInv, NEW p \in Process, NEW a \in Asker, ReadReturns(p, a) \/ ReadFails(p, a) \/ TakeAnswer(p, a)
    PROVE  ConfigInv'
<1> DEFINE was == asking[p][a]
<1>1. /\ asking \in [Process -> [Asker -> AskRecord]] /\ was \in AskRecord
      /\ badReads \in 0..MaxBadReads /\ MaxBadReads \in Nat /\ Sets = 0..MaxSets /\ MaxSets \in Nat /\ told[p] \in Sets
  BY ConfigTypes DEF ConfigInv
<1>2. /\ was.owed \in Sets /\ was.got \in Sets /\ was.had \in {-1} \cup Sets
  BY <1>1 DEF AskRecord
<1>3. CASE ReadReturns(p, a)
  <2> DEFINE new == Asking("answered", was.owed, was.got, -1)
  <2>1. new \in AskRecord /\ new.at = "answered" /\ new.owed = was.owed /\ new.got = was.got
    BY <1>2, AnswerMade
  <2>2. asking' = [asking EXCEPT ![p][a] = new]
    BY <1>1, <1>3 DEF ReadReturns
  <2>3. /\ was.at = "read" /\ copy' = [copy EXCEPT ![p] = Copy(was.got, 0)]
        /\ UNCHANGED <<row, outdated, setting, hints, told, crossed, badReads>>
    BY <1>3 DEF ReadReturns
  <2>4. ~crossed[p] /\ badReads = 0 => was.got >= was.owed
    BY <1>1, <1>2, <2>3 DEF ConfigInv, KeptIsTold
  <2>5. badReads' \in 0..MaxBadReads /\ badReads' >= badReads
    BY <1>1, <2>3
  <2> HIDE DEF new, was
  <2>6. /\ asking[p][a].at = "read" /\ copy' = [copy EXCEPT ![p] = Copy(asking[p][a].got, 0)]
    BY <2>3 DEF was
  <2> QED
    BY <2>1, <2>2, <2>3, <2>4, <2>5, <2>6, AskerStep
<1>4. CASE ReadFails(p, a)
  <2> DEFINE new == IF was.had = -1 THEN NotAsking ELSE Asking("answered", was.owed, was.had, -1)
  <2>1. new \in AskRecord /\ new.at # "read"
    BY <1>2, AnswerMade, NotAskingFacts
  <2>2. asking' = [asking EXCEPT ![p][a] = new]
    BY <1>1, <1>4 DEF ReadFails
  <2>3. /\ UNCHANGED <<copy, row, outdated, setting, hints, told, crossed>>
        /\ badReads' = badReads + 1 /\ badReads < MaxBadReads
    BY <1>4 DEF ReadFails
  <2>4. badReads' \in 0..MaxBadReads /\ badReads' >= badReads /\ badReads' # 0
    BY <1>1, <2>3
  <2> HIDE DEF new
  <2> QED
    BY <2>1, <2>2, <2>3, <2>4, AskerStep
<1>5. CASE TakeAnswer(p, a)
  <2> DEFINE new == NotAsking
  <2>1. new \in AskRecord /\ new.at = "idle"
    BY NotAskingFacts
  <2>2. asking' = [asking EXCEPT ![p][a] = new]
    BY <1>5 DEF TakeAnswer
  <2>3. UNCHANGED <<copy, row, outdated, setting, hints, told, crossed, badReads>>
    BY <1>5 DEF TakeAnswer
  <2>4. badReads' \in 0..MaxBadReads /\ badReads' >= badReads
    BY <1>1, <2>3
  <2> HIDE DEF new
  <2> QED
    BY <2>1, <2>2, <2>3, <2>4, AskerStep
<1> QED
  BY <1>3, <1>4, <1>5

LEMMA SetRowKeepsInv ==
    ASSUME ConfigInv, NEW p \in Process, SetRow(p)
    PROVE  ConfigInv'
<1>1. /\ row' = row + 1 /\ setting' = [setting EXCEPT ![p] = row + 1] /\ row < MaxSets
      /\ UNCHANGED <<outdated, copy, asking, hints, told, crossed, badReads>>
      /\ MaxSets \in Nat /\ Sets = 0..MaxSets /\ row \in Sets
      /\ setting \in [Process -> Sets] /\ told \in [Process -> Sets] /\ hints \subseteq Process \X Sets
  BY ConfigTypes DEF ConfigInv, SetRow
<1>2. row' \in Sets /\ setting' \in [Process -> Sets]
  BY <1>1
<1>3. ConfigCacheTypeOK'
  BY <1>1, <1>2 DEF ConfigInv, ConfigCacheTypeOK
<1>4. KnownIsMade'
  BY <1>1 DEF ConfigInv, KnownIsMade
<1>5. KeptIsYoung'
  <2>1. (\A s \in Sets : s >= row => outdated[s] = 0)'
    BY <1>1 DEF ConfigInv, KeptIsYoung
  <2> QED
    BY <1>1, <2>1 DEF ConfigInv, KeptIsYoung
<1>6. KeptIsTold'
  BY <1>1 DEF ConfigInv, KeptIsTold
<1> QED
  BY <1>3, <1>4, <1>5, <1>6 DEF ConfigInv

\* A process learns of a write and drops its copy.
LEMMA LearnKeepsInv ==
    ASSUME ConfigInv, NEW p \in Process, NEW set \in Sets, set <= row,
           copy' = Dropped(p), Learns(p, set),
           setting' \in [Process -> Sets], \A q \in Process : setting'[q] <= row,
           hints' \subseteq Process \X Sets, \A h \in hints' : h[2] <= row,
           UNCHANGED <<row, outdated, asking, badReads>>
    PROVE  ConfigInv'
<1>1. /\ MaxSets \in Nat /\ Sets = 0..MaxSets /\ row \in Sets
      /\ copy \in [Process -> Copies] /\ told \in [Process -> Sets] /\ crossed \in [Process -> BOOLEAN]
  BY ConfigTypes DEF ConfigInv
<1>2. /\ copy' \in [Process -> Copies] /\ copy'[p] = NoCopy
      /\ \A q \in Process \ {p} : copy'[q] = copy[q]
  BY <1>1, NoCopyFacts DEF Dropped
<1>3. /\ told' \in [Process -> Sets] /\ \A q \in Process \ {p} : told'[q] = told[q]
      /\ told'[p] <= row
  BY <1>1 DEF Learns, ConfigInv, KnownIsMade
<1>4. /\ crossed' \in [Process -> BOOLEAN] /\ \A q \in Process \ {p} : crossed'[q] = crossed[q]
      /\ ~crossed'[p] => ~crossed[p] /\ ~Reading(p)
  <2>1. crossed' = [crossed EXCEPT ![p] = crossed[p] \/ Reading(p)]
    BY <1>1 DEF Learns
  <2>2. (crossed[p] \/ Reading(p)) \in BOOLEAN
    BY Zenon
  <2> HIDE DEF Reading
  <2>3. crossed' \in [Process -> BOOLEAN] /\ \A q \in Process \ {p} : crossed'[q] = crossed[q]
    BY <1>1, <2>1, <2>2
  <2>4. crossed'[p] = (crossed[p] \/ Reading(p))
    BY <1>1, <2>1, Zenon
  <2> QED
    BY <2>3, <2>4, Zenon
<1>5. ConfigCacheTypeOK'
  BY <1>2, <1>3, <1>4 DEF ConfigInv, ConfigCacheTypeOK, Copies
<1>6. KnownIsMade'
  BY <1>3 DEF ConfigInv, KnownIsMade
<1>7. KeptIsYoung'
  BY <1>2 DEF ConfigInv, KeptIsYoung
<1>8. KeptIsTold'
  <2>1. ASSUME NEW q \in Process, ~crossed'[q], badReads' = 0, q # p
        PROVE  /\ copy'[q] # NoCopy => copy'[q].value >= told'[q]
               /\ \A a \in Asker :
                     /\ asking'[q][a].at = "read" => asking'[q][a].got >= told'[q] /\ told'[q] >= asking'[q][a].owed
                     /\ asking'[q][a].at = "answered" => asking'[q][a].got >= asking'[q][a].owed
    <3>1. ~crossed[q] /\ copy'[q] = copy[q] /\ told'[q] = told[q] /\ badReads = 0 /\ asking' = asking
      BY <1>2, <1>3, <1>4, <2>1
    <3> QED
      BY <3>1 DEF ConfigInv, KeptIsTold
  <2>2. ASSUME ~crossed'[p], badReads' = 0
        PROVE  /\ copy'[p] # NoCopy => copy'[p].value >= told'[p]
               /\ \A a \in Asker :
                     /\ asking'[p][a].at = "read" => asking'[p][a].got >= told'[p] /\ told'[p] >= asking'[p][a].owed
                     /\ asking'[p][a].at = "answered" => asking'[p][a].got >= asking'[p][a].owed
    <3>1. ~crossed[p] /\ (\A a \in Asker : asking[p][a].at # "read") /\ badReads = 0 /\ asking' = asking
      BY <1>4, <2>2 DEF Reading
    <3> QED
      BY <1>2, <3>1 DEF ConfigInv, KeptIsTold
  <2> QED
    BY <2>1, <2>2 DEF KeptIsTold, NoCopy
<1> QED
  BY <1>5, <1>6, <1>7, <1>8 DEF ConfigInv

LEMMA NewsKeepsInv ==
    ASSUME ConfigInv, NEW p \in Process, Announce(p) \/ HearHint(p)
    PROVE  ConfigInv'
<1>1. /\ setting \in [Process -> Sets] /\ hints \subseteq Process \X Sets /\ Sets = 0..MaxSets /\ row \in Nat
      /\ 0 \in Sets
  BY ConfigTypes DEF ConfigInv
<1>2. CASE Announce(p)
  <2>1. PICK heard \in SUBSET (Process \ {p}) : hints' = hints \cup {<<q, setting[p]>> : q \in heard}
    BY <1>2 DEF Announce
  <2>2. /\ setting[p] \in Sets /\ setting[p] <= row
        /\ setting' \in [Process -> Sets] /\ \A q \in Process : setting'[q] <= row
    BY <1>1, <1>2 DEF Announce, ConfigInv, KnownIsMade
  <2>3. hints' \subseteq Process \X Sets /\ \A h \in hints' : h[2] <= row
    BY <1>1, <2>1, <2>2 DEF ConfigInv, KnownIsMade
  <2>4. copy' = Dropped(p) /\ Learns(p, setting[p]) /\ UNCHANGED <<row, outdated, asking, badReads>>
    BY <1>2 DEF Announce
  <2> QED
    BY <2>2, <2>3, <2>4, LearnKeepsInv
<1>3. CASE HearHint(p)
  <2>1. PICK set \in Sets :
          /\ <<p, set>> \in hints
          /\ hints' = hints \ {<<p, set>>}
          /\ copy' = Dropped(p)
          /\ Learns(p, set)
          /\ UNCHANGED <<row, outdated, asking, setting, badReads>>
    BY <1>3 DEF HearHint
  <2>2. set <= row /\ hints' \subseteq Process \X Sets /\ \A h \in hints' : h[2] <= row
    BY <1>1, <2>1 DEF ConfigInv, KnownIsMade
  <2>3. setting' \in [Process -> Sets] /\ \A q \in Process : setting'[q] <= row
    BY <1>1, <2>1 DEF ConfigInv, KnownIsMade
  <2> QED
    BY <2>1, <2>2, <2>3, LearnKeepsInv
<1> QED
  BY <1>2, <1>3

LEMMA OlderIsMonotone ==
    ASSUME NEW x \in 0..(Ttl + 1), NEW y \in 0..(Ttl + 1)
    PROVE  /\ Older(x) \in 0..(Ttl + 1)
           /\ x <= y => Older(x) <= Older(y)
  BY ConfigCacheAssumption DEF Older

LEMMA TickKeepsInv ==
    ASSUME ConfigInv, ConfigTick
    PROVE  ConfigInv'
<1>1. /\ MaxSets \in Nat /\ Ttl \in Nat /\ Sets = 0..MaxSets /\ row \in Sets
      /\ outdated \in [Sets -> 0..(Ttl + 1)] /\ copy \in [Process -> Copies]
      /\ UNCHANGED <<row, asking, setting, hints, told, crossed, badReads>>
  BY ConfigTypes DEF ConfigInv, ConfigTick
<1>2. \A s \in Sets : outdated'[s] = IF s < row THEN Older(outdated[s]) ELSE 0
  BY DEF ConfigTick
<1>3. outdated' \in [Sets -> 0..(Ttl + 1)]
  <2>1. \A s \in Sets : Older(outdated[s]) \in 0..(Ttl + 1)
    BY <1>1, OlderIsMonotone
  <2> QED
    BY <1>1, <2>1 DEF ConfigTick
<1>4. ASSUME NEW p \in Process
      PROVE  /\ copy'[p] \in Copies
             /\ copy[p] = NoCopy => copy'[p] = NoCopy
             /\ copy[p] # NoCopy => copy'[p].value = copy[p].value /\ copy'[p].age = Older(copy[p].age)
  <2>1. copy'[p] = IF copy[p] = NoCopy THEN NoCopy ELSE Copy(copy[p].value, Older(copy[p].age))
    BY DEF ConfigTick
  <2>2. copy[p] # NoCopy => copy[p].value \in Sets
    BY DEF ConfigInv, KeptIsYoung
  <2>3. Older(copy[p].age) \in 0..(Ttl + 1)
    BY <1>1, OlderIsMonotone DEF Copies
  <2> QED
    BY <2>1, <2>2, <2>3, CopyMade, NoCopyFacts
<1>5. copy' \in [Process -> Copies]
  BY <1>4 DEF ConfigTick
<1>6. ConfigCacheTypeOK'
  BY <1>1, <1>3, <1>5 DEF ConfigInv, ConfigCacheTypeOK, Copies
<1>7. KnownIsMade'
  BY <1>1 DEF ConfigInv, KnownIsMade
<1>8. KeptIsYoung'
  <2>1. (\A s \in Sets : s >= row => outdated[s] = 0)'
    BY <1>1, <1>2
  <2>2. ASSUME NEW p \in Process, copy'[p] # NoCopy
        PROVE  copy'[p].value \in Sets /\ outdated'[copy'[p].value] <= copy'[p].age
    <3>1. copy[p] # NoCopy /\ copy'[p].value = copy[p].value /\ copy'[p].age = Older(copy[p].age)
      BY <1>4, <2>2
    <3>2. copy[p].value \in Sets /\ outdated[copy[p].value] <= copy[p].age
      BY <3>1 DEF ConfigInv, KeptIsYoung
    <3>3. copy[p].age \in 0..(Ttl + 1) /\ outdated[copy[p].value] \in 0..(Ttl + 1)
      BY <1>1, <3>2 DEF Copies
    <3>4. /\ Older(outdated[copy[p].value]) <= Older(copy[p].age)
          /\ Older(copy[p].age) \in 0..(Ttl + 1)
      BY <3>2, <3>3, OlderIsMonotone
    <3> QED
      BY <1>2, <3>1, <3>2, <3>4
  <2>3. \A p \in Process, a \in Asker : asking'[p][a].at # "read"
    BY <1>1 DEF ConfigTick, Reading
  <2>4. (\A p \in Process : copy[p] # NoCopy => copy[p].value \in Sets /\ outdated[copy[p].value] <= copy[p].age)'
    BY <2>2 DEF NoCopy, Sets
  <2> QED
    BY <2>1, <2>3, <2>4 DEF KeptIsYoung
<1>9. KeptIsTold'
  <2>1. ASSUME NEW p \in Process
        PROVE  copy'[p] # NoCopy => copy[p] # NoCopy /\ copy'[p].value = copy[p].value
    BY <1>4
  <2> QED
    BY <1>1, <2>1 DEF ConfigInv, KeptIsTold
<1> QED
  BY <1>6, <1>7, <1>8, <1>9 DEF ConfigInv

LEMMA ConfigStep ==
    ASSUME ConfigInv, [ConfigCacheNext]_configCacheVars
    PROVE  ConfigInv'
<1>1. CASE UNCHANGED configCacheVars
  BY <1>1 DEF configCacheVars, ConfigInv, ConfigCacheTypeOK, KnownIsMade, KeptIsYoung, KeptIsTold
<1>2. ASSUME NEW p \in Process, NEW a \in Asker,
             Ask(p, a) \/ ReadReturns(p, a) \/ ReadFails(p, a) \/ TakeAnswer(p, a)
      PROVE  ConfigInv'
  BY <1>2, AskKeepsInv, ReadKeepsInv
<1>3. ASSUME NEW p \in Process, SetRow(p) \/ Announce(p) \/ HearHint(p)
      PROVE  ConfigInv'
  BY <1>3, SetRowKeepsInv, NewsKeepsInv
<1> QED
  BY <1>1, <1>2, <1>3, TickKeepsInv DEF ConfigCacheNext

LEMMA ConfigInit ==
    ASSUME ConfigCacheInit
    PROVE  ConfigInv
<1>1. 0 \in Sets /\ Ttl \in Nat /\ MaxBadReads \in Nat
  BY ConfigCacheAssumption DEF Sets
<1>2. ConfigCacheTypeOK
  BY <1>1, NoCopyFacts, NotAskingFacts DEF ConfigCacheInit, ConfigCacheTypeOK, Copies, AskRecord
<1>3. KnownIsMade /\ KeptIsYoung /\ KeptIsTold
  BY <1>1, NotAskingFacts DEF ConfigCacheInit, KnownIsMade, KeptIsYoung, KeptIsTold
<1> QED
  BY <1>2, <1>3 DEF ConfigInv

\* Every variable of the configuration's cache has its type.
THEOREM ConfigTypeCorrectness == ConfigCacheSpec => []ConfigCacheTypeOK
<1>1. ConfigInv => ConfigCacheTypeOK
  BY DEF ConfigInv
<1> QED
  BY <1>1, ConfigInit, ConfigStep, PTL DEF ConfigCacheSpec

\* "A staffer never has to wonder whether their toggle took effect": what a
\* process knows was written, its later answers have.
THEOREM ToldIsSeenAlways == ConfigCacheSpec => []ToldIsSeen
<1>1. ConfigInv => ToldIsSeen
  BY DEF ConfigInv, KeptIsTold, ToldIsSeen
<1> QED
  BY <1>1, ConfigInit, ConfigStep, PTL DEF ConfigCacheSpec

\* With every announcement lost, what is served was current less than Ttl
\* ticks ago.
THEOREM StaleIsBriefAlways == ConfigCacheSpec => StaleIsBrief
<1> DEFINE Brief == \A p \in Process, a \in Asker :
                       asking[p][a] = NotAsking /\ asking'[p][a].at = "answered"
                           => outdated[asking'[p][a].got] < Ttl
<1>1. ASSUME ConfigInv, [ConfigCacheNext]_configCacheVars
      PROVE  [Brief]_configCacheVars
  <2>1. ASSUME NEW p \in Process, NEW a \in Asker, asking[p][a] = NotAsking, asking'[p][a].at = "answered",
               ConfigCacheNext
        PROVE  Ask(p, a)
    <3>1. asking'[p][a] # asking[p][a]
      BY <2>1, NotAskingFacts
    <3>2. asking \in [Process -> [Asker -> AskRecord]]
      BY <1>1, ConfigTypes DEF ConfigInv
    <3>3. ASSUME NEW q \in Process, NEW b \in Asker,
                 Ask(q, b) \/ ReadReturns(q, b) \/ ReadFails(q, b) \/ TakeAnswer(q, b)
          PROVE  Ask(p, a)
      <4>1. q = p /\ b = a
        BY <3>1, <3>2, <3>3 DEF Ask, ReadReturns, ReadFails, TakeAnswer
      <4>2. asking[q][b].at = "idle"
        BY <2>1, <4>1, NotAskingFacts
      <4> QED
        BY <3>3, <4>1, <4>2 DEF ReadReturns, ReadFails, TakeAnswer
    <3>4. ASSUME NEW q \in Process, SetRow(q) \/ Announce(q) \/ HearHint(q)
          PROVE  FALSE
      BY <3>1, <3>4 DEF SetRow, Announce, HearHint
    <3>5. ~ConfigTick
      BY <3>1 DEF ConfigTick
    <3> QED
      BY <2>1, <3>3, <3>4, <3>5 DEF ConfigCacheNext
  <2>2. ASSUME NEW p \in Process, NEW a \in Asker, Ask(p, a), asking'[p][a].at = "answered"
        PROVE  outdated[asking'[p][a].got] < Ttl
    <3>1. /\ asking \in [Process -> [Asker -> AskRecord]] /\ copy[p] \in Copies /\ row \in Sets /\ told[p] \in Sets
          /\ Ttl \in Nat /\ outdated \in [Sets -> 0..(Ttl + 1)]
      BY <1>1, ConfigTypes DEF ConfigInv
    <3>2. asking'[p][a] = IF Fresh(p) THEN Asking("answered", told[p], copy[p].value, -1)
                                      ELSE Asking("read", told[p], row, copy[p].value)
      BY <2>2, <3>1 DEF Ask
    <3>3. Fresh(p) /\ asking'[p][a].got = copy[p].value
      BY <2>2, <3>2 DEF Asking
    <3>4. copy[p].value \in Sets /\ outdated[copy[p].value] <= copy[p].age /\ copy[p].age < Ttl
      BY <1>1, <3>3 DEF ConfigInv, KeptIsYoung, Fresh
    <3>5. copy[p].age \in 0..(Ttl + 1) /\ outdated[copy[p].value] \in 0..(Ttl + 1)
      BY <3>1, <3>4 DEF Copies
    <3> QED
      BY <3>1, <3>3, <3>4, <3>5
  <2> QED
    BY <1>1, <2>1, <2>2 DEF configCacheVars
<1> QED
  BY <1>1, ConfigInit, ConfigStep, PTL DEF ConfigCacheSpec, StaleIsBrief

-----------------------------------------------------------------------------
(* PanelWrites.                                                            *)

Plans ==
    [how : {"row", "rows", "edit", "remove", "publish"}, on : Table,
     add : SUBSET Stored, drop : SUBSET Stored, after : SUBSET Stored,
     miss : SUBSET {"audit", "fail", "throw"}]

\* What the shapes of a body have in common: how it may end, once it has
\* written something, says which mutations it may be of.
Shaped(plan) ==
    /\ plan \in Plans
    /\ plan.how = "rows" => plan.after = {} /\ plan \in RefusedHalfway
    /\ "audit" \in plan.miss => plan \in DoneHalfway
    /\ "fail" \in plan.miss => plan \in RefusedHalfway
    /\ "throw" \in plan.miss => plan.after = {} \/ plan \in ThrownHalfway

\* A job, and what it can say of itself.
JobRecord ==
    [at : {"idle", "body", "write", "after", "audit", "capture", "fail", "answered"},
     plan : Mutation, seen : SUBSET Stored, left : SUBSET Stored,
     wrote : {"nothing", "some", "all"}, audited : BOOLEAN,
     answer : {"none", "ok", "refused", "thrown"}]

SaysOk(j) == j.audited /\ (j.wrote = "all" \/ j.plan \in DoneHalfway)

SaysRefused(j) == ~j.audited /\ (j.wrote = "nothing" \/ j.plan \in RefusedHalfway)

SaysNothing(j) ==
    \/ j.wrote \in {"nothing", "all"}
    \/ j.plan \in DoneHalfway \cup RefusedHalfway \cup ThrownHalfway

\* How far a job has come says what it wrote, and whether it is on the trail.
JobIsSo(j) ==
    /\ j.at \in {"idle", "write"} => j.wrote = "nothing" /\ ~j.audited
    /\ j.at = "body" => (j.wrote = "nothing" \/ j.plan.how = "rows") /\ ~j.audited
    /\ j.at = "after" => j.wrote = (IF j.plan.after = {} THEN "all" ELSE "some") /\ ~j.audited
    /\ j.at = "audit" => (j.wrote = "all" \/ j.plan \in DoneHalfway) /\ ~j.audited
    /\ j.at = "capture" => SaysOk(j)
    /\ j.at = "fail" => SaysRefused(j)
    /\ j.at # "answered" => j.answer = "none"
    /\ j.answer = "ok" => SaysOk(j)
    /\ j.answer = "refused" => SaysRefused(j)
    /\ j.answer = "thrown" => SaysNothing(j)

PanelWritesInv ==
    /\ table \in [Table -> SUBSET Stored]
    /\ job \in [Clerk -> JobRecord]
    /\ begunJobs \in 0..MaxWrites
    /\ errors \in 0..MaxErrors
    /\ \A c \in Clerk : JobIsSo(job[c])

-----------------------------------------------------------------------------
(* The mutations, one by one: each has a body of one of the shapes.        *)

LEMMA PlanMade ==
    ASSUME NEW how \in {"row", "edit", "remove", "publish"}, NEW on \in Table,
           NEW add \in SUBSET Stored, NEW drop \in SUBSET Stored
    PROVE  Shaped(Plan(how, on, add, drop))
  BY DEF Shaped, Plans, Plan

LEMMA ThenMade ==
    ASSUME NEW how \in {"row", "edit", "remove", "publish"}, NEW on \in Table,
           NEW add \in SUBSET Stored, NEW drop \in SUBSET Stored, NEW after \in SUBSET Stored,
           NEW miss \in SUBSET {"audit", "fail", "throw"}
    PROVE  LET plan == Then(Plan(how, on, add, drop), after, miss)
           IN ("audit" \in miss => plan \in DoneHalfway)
              /\ ("fail" \in miss => plan \in RefusedHalfway)
              /\ ("throw" \in miss => after = {} \/ plan \in ThrownHalfway)
              => Shaped(plan)
<1> DEFINE plan == Then(Plan(how, on, add, drop), after, miss)
<1>1. /\ plan \in Plans /\ plan.how = how /\ plan.after = after /\ plan.miss = miss
  BY DEF Then, Plan, Plans
<1> HIDE DEF plan
<1>2. ("audit" \in miss => plan \in DoneHalfway)
      /\ ("fail" \in miss => plan \in RefusedHalfway)
      /\ ("throw" \in miss => after = {} \/ plan \in ThrownHalfway)
      => Shaped(plan)
  BY <1>1 DEF Shaped
<1> QED
  BY <1>2 DEF plan

LEMMA StoredFacts ==
    /\ Entry \subseteq Stored /\ Switch \in Stored
    /\ \A e \in Entry : Beside(e) \in Stored
  BY DEF Stored, AllBeside

LEMMA Shapes ==
    ASSUME NEW t \in Table
    PROVE  \A plan \in UNION {Puts(t), Takes(t), Documents(t), Adds(t), Drops(t)} : Shaped(plan)
<1>1. \A plan \in Puts(t) : Shaped(plan)
  BY PlanMade, StoredFacts DEF Puts
<1>2. \A plan \in Takes(t) : Shaped(plan)
  BY PlanMade, StoredFacts DEF Takes
<1>3. \A plan \in Documents(t) : Shaped(plan)
  BY PlanMade, StoredFacts DEF Documents
<1>4. \A plan \in Adds(t) : Shaped(plan)
  BY PlanMade, StoredFacts DEF Adds
<1>5. \A plan \in Drops(t) : Shaped(plan)
  BY PlanMade, StoredFacts DEF Drops
<1> QED
  BY <1>1, <1>2, <1>3, <1>4, <1>5

\* A body whose service may fail after the write, and is one of those named.
LEMMA HalfwayShapes ==
    /\ \A plan \in ApplyModeration \cup AddSwitchedOff \cup PublishRoleMenu : Shaped(plan)
    /\ \A plan \in AdjustXp \cup LiftAndVoid : Shaped(plan)
    /\ \A plan \in RetryCase \cup CompleteEvent : Shaped(plan)
<1> USE DEF Table
<1>1. /\ \A e \in Entry : {e} \in SUBSET Stored /\ {Beside(e)} \in SUBSET Stored
      /\ {} \in SUBSET Stored
  BY StoredFacts
<1>2. \A plan \in ApplyModeration : Shaped(plan)
  <2> SUFFICES ASSUME NEW e \in Entry
               PROVE  Shaped(Then(Plan("row", "rows", {e}, {}), {Beside(e)}, {"audit"}))
    BY DEF ApplyModeration
  <2>1. Then(Plan("row", "rows", {e}, {}), {Beside(e)}, {"audit"}) \in DoneHalfway
    BY DEF DoneHalfway, ApplyModeration
  <2> QED
    BY <1>1, <2>1, ThenMade
<1>3. \A plan \in AddSwitchedOff : Shaped(plan)
  <2> SUFFICES ASSUME NEW e \in Entry
               PROVE  Shaped(Then(Plan("row", "rows", {e}, {}), {Beside(e)}, {"audit", "fail"}))
    BY DEF AddSwitchedOff
  <2>1. Then(Plan("row", "rows", {e}, {}), {Beside(e)}, {"audit", "fail"})
           \in DoneHalfway \cap RefusedHalfway
    BY DEF DoneHalfway, RefusedHalfway, AddSwitchedOff
  <2> QED
    BY <1>1, <2>1, ThenMade
<1>4. \A plan \in PublishRoleMenu : Shaped(plan)
  <2> SUFFICES ASSUME NEW e \in Entry
               PROVE  Shaped(Then(Plan("publish", "menus", {}, {}), {Beside(e)}, {"audit"}))
    BY DEF PublishRoleMenu
  <2>1. Then(Plan("publish", "menus", {}, {}), {Beside(e)}, {"audit"}) \in DoneHalfway
    BY DEF DoneHalfway, PublishRoleMenu
  <2> QED
    BY <1>1, <2>1, ThenMade
<1>5. \A plan \in AdjustXp : Shaped(plan)
  <2> SUFFICES ASSUME NEW e \in Entry
               PROVE  Shaped(Then(Plan("row", "rows", {e}, {}), {Beside(e)}, {"fail"}))
    BY DEF AdjustXp
  <2>1. Then(Plan("row", "rows", {e}, {}), {Beside(e)}, {"fail"}) \in RefusedHalfway
    BY DEF RefusedHalfway, AdjustXp
  <2> QED
    BY <1>1, <2>1, ThenMade
<1>6. \A plan \in LiftAndVoid : Shaped(plan)
  <2> SUFFICES ASSUME NEW e \in Entry
               PROVE  Shaped(Then(Plan("row", "rows", {Beside(e)}, {}), {e}, {"fail", "throw"}))
    BY DEF LiftAndVoid
  <2>1. Then(Plan("row", "rows", {Beside(e)}, {}), {e}, {"fail", "throw"})
           \in RefusedHalfway \cap ThrownHalfway
    BY DEF RefusedHalfway, ThrownHalfway, LiftAndVoid
  <2> QED
    BY <1>1, <2>1, ThenMade
<1>7. \A plan \in RetryCase : Shaped(plan)
  <2> SUFFICES ASSUME NEW e \in Entry
               PROVE  /\ Shaped(Then(Plan("row", "rows", {Beside(e)}, {}), {e}, {"throw"}))
                      /\ Shaped(Then(Plan("row", "rows", {}, {}), {e}, {"throw"}))
    BY DEF RetryCase
  <2>1. /\ Then(Plan("row", "rows", {Beside(e)}, {}), {e}, {"throw"}) \in ThrownHalfway
        /\ Then(Plan("row", "rows", {}, {}), {e}, {"throw"}) \in ThrownHalfway
    BY DEF ThrownHalfway, RetryCase
  <2>2. Shaped(Then(Plan("row", "rows", {Beside(e)}, {}), {e}, {"throw"}))
    BY <1>1, <2>1, ThenMade
  <2>3. Shaped(Then(Plan("row", "rows", {}, {}), {e}, {"throw"}))
    BY <1>1, <2>1, ThenMade
  <2> QED
    BY <2>2, <2>3
<1>8. \A plan \in CompleteEvent : Shaped(plan)
  <2> SUFFICES ASSUME NEW e \in Entry
               PROVE  Shaped(Then(Plan("row", "rows", {e}, {}), {Beside(e)}, {"throw"}))
    BY DEF CompleteEvent
  <2>1. Then(Plan("row", "rows", {e}, {}), {Beside(e)}, {"throw"}) \in ThrownHalfway
    BY DEF ThrownHalfway, CompleteEvent
  <2> QED
    BY <1>1, <2>1, ThenMade
<1> QED
  BY <1>2, <1>3, <1>4, <1>5, <1>6, <1>7, <1>8

\* What is read back is written by then: all that may be wrong is the answer.
LEMMA ReadBackShapes ==
    /\ \A plan \in ReadBack(Puts("rows"), {"throw"}) : Shaped(plan)
    /\ \A plan \in MarkAttendance \cup SetMemberRole : Shaped(plan)
<1> USE DEF Table
<1>1. \A e \in Entry : {e} \in SUBSET Stored /\ {} \in SUBSET Stored
  BY StoredFacts
<1>2. \A plan \in ReadBack(Puts("rows"), {"throw"}) : Shaped(plan)
  <2> SUFFICES ASSUME NEW e \in Entry
               PROVE  Shaped(Then(Plan("row", "rows", {e}, {}), {}, {"throw"}))
    BY DEF ReadBack, Puts
  <2> QED
    BY <1>1, ThenMade
<1>3. \A plan \in SetMemberRole : Shaped(plan)
  <2> SUFFICES ASSUME NEW e \in Entry
               PROVE  Shaped(Then(Plan("row", "rows", {e}, {}), {}, {"fail", "throw"}))
    BY DEF SetMemberRole, ReadBack, Puts
  <2>1. Then(Plan("row", "rows", {e}, {}), {}, {"fail", "throw"}) \in RefusedHalfway
    BY DEF RefusedHalfway, SetMemberRole, ReadBack, Puts
  <2> QED
    BY <1>1, <2>1, ThenMade
<1>4. \A plan \in MarkAttendance : Shaped(plan)
  <2> SUFFICES ASSUME NEW d \in SUBSET Entry
               PROVE  Shaped(Then(Plan("row", "rows", d, Entry \ d), {}, {"fail", "throw"}))
    BY DEF MarkAttendance, ReadBack, Documents
  <2>1. Then(Plan("row", "rows", d, Entry \ d), {}, {"fail", "throw"}) \in RefusedHalfway
    BY DEF RefusedHalfway, MarkAttendance, ReadBack, Documents
  <2>2. d \in SUBSET Stored /\ Entry \ d \in SUBSET Stored /\ {} \in SUBSET Stored
    BY StoredFacts
  <2> QED
    BY <2>1, <2>2, ThenMade
<1> QED
  BY <1>2, <1>3, <1>4

\* The bodies that are of no shape of their own.
LEMMA OtherShapes ==
    /\ \A plan \in Elsewhere : Shaped(plan)
    /\ \A plan \in ClearRoleRefusals : Shaped(plan)
    /\ \A plan \in ImportWordlist \cup ApplySuggestedXpPolicy : Shaped(plan)
    /\ \A plan \in RemoveAutomodRule : Shaped(plan)
    /\ \A plan \in SetAutomodEnabled : Shaped(plan)
    /\ \A plan \in SaveRoleMenus : Shaped(plan)
    /\ \A plan \in ArchiveDepartedMembers : Shaped(plan)
<1> USE DEF Table
<1>1. \A plan \in Elsewhere : Shaped(plan)
  BY PlanMade DEF Elsewhere
<1>2. \A plan \in ClearRoleRefusals : Shaped(plan)
  BY PlanMade, StoredFacts DEF ClearRoleRefusals
<1>3. \A plan \in ImportWordlist \cup ApplySuggestedXpPolicy : Shaped(plan)
  <2> SUFFICES ASSUME NEW d \in SUBSET Entry \ {{}}
               PROVE  Shaped(Plan("rows", "rows", d, {}))
    BY DEF ImportWordlist, ApplySuggestedXpPolicy, Several
  <2>1. Plan("rows", "rows", d, {}) \in RefusedHalfway
    BY DEF RefusedHalfway, ImportWordlist, Several
  <2> QED
    BY <2>1, StoredFacts DEF Shaped, Plans, Plan
<1>4. \A plan \in RemoveAutomodRule : Shaped(plan)
  <2>1. \A e \in Entry : [Plan("edit", "automod", {}, {e}) EXCEPT !.how = "remove"]
                         = Plan("remove", "automod", {}, {e})
    BY DEF Plan
  <2>2. \A e \in Entry : Shaped(Plan("remove", "automod", {}, {e}))
    BY PlanMade, StoredFacts
  <2>3. ASSUME NEW p \in Drops("automod") PROVE Shaped([p EXCEPT !.how = "remove"])
    <3>1. PICK e \in Entry : p = Plan("edit", "automod", {}, {e})
      BY DEF Drops
    <3> QED
      BY <2>1, <2>2, <3>1
  <2> QED
    BY <2>3 DEF RemoveAutomodRule
<1>5. \A plan \in SetAutomodEnabled : Shaped(plan)
  BY PlanMade, StoredFacts DEF SetAutomodEnabled
<1>6. \A plan \in SaveRoleMenus : Shaped(plan)
  <2> SUFFICES ASSUME NEW d \in SUBSET Entry
               PROVE  Shaped(Plan("edit", "menus", d, (Entry \ d) \cup PostsDropped(d)))
    BY DEF SaveRoleMenus
  <2>1. (Entry \ d) \cup PostsDropped(d) \in SUBSET Stored /\ d \in SUBSET Stored
    BY StoredFacts DEF PostsDropped, AllBeside
  <2> QED
    BY <2>1, PlanMade
<1>7. \A plan \in ArchiveDepartedMembers : Shaped(plan)
  BY PlanMade, StoredFacts DEF ArchiveDepartedMembers
<1> QED
  BY <1>1, <1>2, <1>3, <1>4, <1>5, <1>6, <1>7

LEMMA MutationIsShaped == \A plan \in Mutation : Shaped(plan)
<1> DEFINE shapes == {plan \in Plans : Shaped(plan)}
<1>1. \A t \in {"config", "flags", "bindings", "automod", "roles", "rows"} :
         /\ Puts(t) \subseteq shapes /\ Takes(t) \subseteq shapes /\ Documents(t) \subseteq shapes
         /\ Adds(t) \subseteq shapes /\ Drops(t) \subseteq shapes
  BY Shapes DEF Table, Shaped
<1>2. /\ Elsewhere \subseteq shapes /\ ClearRoleRefusals \subseteq shapes
      /\ ImportWordlist \subseteq shapes /\ ApplySuggestedXpPolicy \subseteq shapes
      /\ RemoveAutomodRule \subseteq shapes /\ SetAutomodEnabled \subseteq shapes
      /\ SaveRoleMenus \subseteq shapes /\ ArchiveDepartedMembers \subseteq shapes
  BY OtherShapes DEF Shaped
<1>2a. /\ ApplyModeration \subseteq shapes /\ AddSwitchedOff \subseteq shapes
       /\ PublishRoleMenu \subseteq shapes /\ AdjustXp \subseteq shapes
       /\ LiftAndVoid \subseteq shapes /\ RetryCase \subseteq shapes /\ CompleteEvent \subseteq shapes
  BY HalfwayShapes DEF Shaped
<1>2b. /\ ReadBack(Puts("rows"), {"throw"}) \subseteq shapes
       /\ MarkAttendance \subseteq shapes /\ SetMemberRole \subseteq shapes
  BY ReadBackShapes DEF Shaped
<1> HIDE DEF shapes
<1>3. /\ SetChannel \subseteq shapes /\ SetHypixelGuild \subseteq shapes /\ SetSetting \subseteq shapes
      /\ SetRoleMapping \subseteq shapes /\ SetFeature \subseteq shapes
      /\ SetBridgeSuspended \subseteq shapes /\ SetRecruitment \subseteq shapes
      /\ SetRoleBinding \subseteq shapes
  BY <1>1 DEF SetChannel, SetHypixelGuild, SetSetting, SetRoleMapping, SetFeature,
              SetBridgeSuspended, SetRecruitment, SetRoleBinding
<1>4. /\ SetScreeningPolicy \subseteq shapes /\ SaveProgressionMetrics \subseteq shapes
      /\ SaveLinkHelp \subseteq shapes /\ SaveTriggers \subseteq shapes
      /\ SaveTicketSettings \subseteq shapes /\ SaveWordlistPacks \subseteq shapes
      /\ SetModerationDefaults \subseteq shapes /\ SetRelaySync \subseteq shapes
      /\ SaveAntiRaid \subseteq shapes /\ SaveAutoRoles \subseteq shapes
      /\ SaveWelcome \subseteq shapes /\ SetCooldowns \subseteq shapes
  BY <1>1 DEF SetScreeningPolicy, SaveProgressionMetrics, SaveLinkHelp, SaveTriggers,
              SaveTicketSettings, SaveWordlistPacks, SetModerationDefaults, SetRelaySync,
              SaveAntiRaid, SaveAutoRoles, SaveWelcome, SetCooldowns
<1>5. /\ SetXpSource \subseteq shapes /\ UpsertMilestone \subseteq shapes
      /\ RemoveMilestone \subseteq shapes /\ UpsertTicketCategory \subseteq shapes
      /\ RemoveTicketCategory \subseteq shapes /\ UpsertTicketPanel \subseteq shapes
      /\ RemoveTicketPanel \subseteq shapes /\ UpsertTicketTag \subseteq shapes
      /\ RemoveTicketTag \subseteq shapes /\ DeleteWordlistRule \subseteq shapes
      /\ SetPermissionException \subseteq shapes /\ RemovePermissionException \subseteq shapes
  BY <1>1 DEF SetXpSource, UpsertMilestone, RemoveMilestone, UpsertTicketCategory,
              RemoveTicketCategory, UpsertTicketPanel, RemoveTicketPanel, UpsertTicketTag,
              RemoveTicketTag, DeleteWordlistRule, SetPermissionException, RemovePermissionException
<1>6. /\ UpsertAutomodRule \subseteq shapes /\ SetRankMapping \subseteq shapes
      /\ SetCapabilityFloor \subseteq shapes /\ SetCommandFloor \subseteq shapes
      /\ UpsertWordlistRule \subseteq shapes
  BY <1>1, <1>2a DEF UpsertAutomodRule, SetRankMapping, SetCapabilityFloor, SetCommandFloor,
                     UpsertWordlistRule
<1>7. /\ EditCase \subseteq shapes /\ SetCaseEnforcement \subseteq shapes /\ VoidCase \subseteq shapes
      /\ DecideApplication \subseteq shapes /\ CloseTicket \subseteq shapes
      /\ ClaimTicket \subseteq shapes /\ TransferTicket \subseteq shapes /\ UpdateEvent \subseteq shapes
  BY <1>1, <1>2a, <1>2b DEF EditCase, SetCaseEnforcement, VoidCase, DecideApplication,
              CloseTicket, ClaimTicket, TransferTicket, UpdateEvent
<1>8. /\ UnlinkMember \subseteq shapes /\ ArchiveMember \subseteq shapes
      /\ StripMemberRoles \subseteq shapes /\ CreateEvent \subseteq shapes
      /\ StartEvent \subseteq shapes /\ CancelEvent \subseteq shapes
  BY <1>1 DEF UnlinkMember, ArchiveMember, StripMemberRoles, CreateEvent, StartEvent, CancelEvent
<1>9. /\ PublishTicketPanel \subseteq shapes /\ ResendTicketTranscript \subseteq shapes
      /\ PublishEventBoard \subseteq shapes /\ RunJob \subseteq shapes /\ TestAutomod \subseteq shapes
      /\ TestAntiRaid \subseteq shapes /\ PreviewAutoRoles \subseteq shapes
  BY <1>2 DEF PublishTicketPanel, ResendTicketTranscript, PublishEventBoard, RunJob, TestAutomod,
              TestAntiRaid, PreviewAutoRoles
<1>10. Mutation \subseteq shapes
  BY <1>2, <1>2a, <1>2b, <1>3, <1>4, <1>5, <1>6, <1>7, <1>8, <1>9 DEF Mutation
<1> QED
  BY <1>10 DEF shapes

-----------------------------------------------------------------------------
(* Jobs, from their beginning to their answer.                             *)

LEMMA JobBegun ==
    ASSUME NEW at \in {"idle", "body"}, NEW plan \in Mutation
    PROVE  /\ Job(at, plan) \in JobRecord /\ JobIsSo(Job(at, plan))
           /\ Job(at, plan).at = at /\ Job(at, plan).plan = plan /\ Job(at, plan).wrote = "nothing"
<1>1. plan.add \in SUBSET Stored
  BY MutationIsShaped DEF Shaped, Plans
<1> QED
  BY <1>1 DEF Job, JobRecord, JobIsSo

LEMMA NoJobFacts ==
    /\ NoJob \in JobRecord /\ JobIsSo(NoJob)
    /\ NoJob.at = "idle" /\ NoJob.wrote = "nothing"
<1>1. (CHOOSE plan \in Elsewhere : TRUE) \in Mutation
  BY DEF Elsewhere, Mutation, RunJob
<1> QED
  BY <1>1, JobBegun DEF NoJob

\* A clerk's job goes on: the others' jobs are as they were.
LEMMA JobGoesOn ==
    ASSUME PanelWritesInv, NEW c \in Clerk, NEW new \in JobRecord, JobIsSo(new), GoesOn(c, new),
           table' \in [Table -> SUBSET Stored], begunJobs' \in 0..MaxWrites, errors' \in 0..MaxErrors
    PROVE  PanelWritesInv'
<1>1. job' \in [Clerk -> JobRecord] /\ \A d \in Clerk : job'[d] = IF d = c THEN new ELSE job[d]
  BY DEF PanelWritesInv, GoesOn
<1>2. \A d \in Clerk : JobIsSo(job'[d])
  BY <1>1 DEF PanelWritesInv
<1> QED
  BY <1>1, <1>2 DEF PanelWritesInv

LEMMA JobFacts ==
    ASSUME PanelWritesInv, NEW c \in Clerk
    PROVE  /\ job[c] \in JobRecord /\ JobIsSo(job[c]) /\ Shaped(job[c].plan) /\ Doc(c) \in Table
           /\ How(c) = job[c].plan.how
           /\ Errs => errors' \in 0..MaxErrors
           /\ table \in [Table -> SUBSET Stored] /\ begunJobs \in 0..MaxWrites
           /\ errors \in 0..MaxErrors
<1>1. job[c] \in JobRecord /\ JobIsSo(job[c])
  BY DEF PanelWritesInv
<1>2. Shaped(job[c].plan)
  BY <1>1, MutationIsShaped DEF JobRecord
<1>3. Errs => errors' \in 0..MaxErrors
  BY PanelWritesAssumption DEF PanelWritesInv, Errs
<1>4. How(c) = job[c].plan.how
  BY DEF How
<1> QED
  BY <1>1, <1>2, <1>3, <1>4 DEF Shaped, Plans, Doc, PanelWritesInv

\* A job moves on, and what it says of itself with it.
SameJob(new, j, at, wrote) ==
    /\ new \in JobRecord /\ new.at = at /\ new.plan = j.plan /\ new.wrote = wrote
    /\ new.audited = j.audited /\ new.answer = j.answer

LEMMA JobMoved ==
    ASSUME NEW j \in JobRecord, NEW at \in {"body", "write", "after", "audit", "fail"},
           NEW wrote \in {"some", "all"}, NEW seen \in SUBSET Stored, NEW left \in SUBSET j.left
    PROVE  /\ SameJob([j EXCEPT !.at = at], j, at, j.wrote)
           /\ SameJob([j EXCEPT !.at = at, !.wrote = wrote], j, at, wrote)
           /\ SameJob([j EXCEPT !.at = at, !.seen = seen], j, at, j.wrote)
           /\ SameJob([j EXCEPT !.at = at, !.left = left, !.wrote = wrote], j, at, wrote)
           /\ SameJob([j EXCEPT !.left = left, !.wrote = wrote], j, j.at, wrote)
  BY DEF SameJob, JobRecord

LEMMA JobMoves ==
    ASSUME PanelWritesInv, NEW c \in Clerk, NEW at, NEW wrote, NEW new,
           SameJob(new, job[c], at, wrote), GoesOn(c, new), job[c].answer = "none",
           at \in {"body", "write", "after", "audit", "fail"},
           at = "body" => wrote = "nothing" \/ How(c) = "rows",
           at = "write" => wrote = "nothing",
           at = "after" => wrote = (IF job[c].plan.after = {} THEN "all" ELSE "some"),
           at = "audit" => wrote = "all" \/ job[c].plan \in DoneHalfway,
           at = "fail" => wrote = "nothing" \/ job[c].plan \in RefusedHalfway,
           ~job[c].audited,
           table' \in [Table -> SUBSET Stored], begunJobs' \in 0..MaxWrites, errors' \in 0..MaxErrors
    PROVE  PanelWritesInv'
<1>1. JobIsSo(new)
  BY DEF JobIsSo, SameJob, SaysRefused, How
<1> QED
  BY <1>1, JobGoesOn DEF SameJob

LEMMA AnswersFacts ==
    ASSUME PanelWritesInv, NEW c \in Clerk, NEW answer \in {"ok", "refused", "thrown"}, Answers(c, answer),
           answer = "ok" => SaysOk(job[c]),
           answer = "refused" => SaysRefused(job[c]),
           answer = "thrown" => SaysNothing(job[c]),
           UNCHANGED <<table, begunJobs>>, errors' \in 0..MaxErrors
    PROVE  PanelWritesInv'
<1> DEFINE new == [job[c] EXCEPT !.at = "answered", !.seen = {}, !.left = {}, !.answer = answer]
<1>1. job[c] \in JobRecord
  BY JobFacts
<1>2. /\ new \in JobRecord /\ new.at = "answered" /\ new.answer = answer /\ new.plan = job[c].plan
      /\ new.wrote = job[c].wrote /\ new.audited = job[c].audited
  BY <1>1 DEF JobRecord
<1>3. GoesOn(c, new)
  BY DEF Answers
<1> HIDE DEF new
<1>4. JobIsSo(new)
  BY <1>2 DEF JobIsSo, SaysOk, SaysRefused, SaysNothing
<1> QED
  BY <1>2, <1>3, <1>4, JobGoesOn DEF PanelWritesInv

LEMMA AnsweringKeeps ==
    ASSUME PanelWritesInv, NEW c \in Clerk,
           Deny(c) \/ BodyThrows(c) \/ Capture(c) \/ ReportThrows(c) \/ LeavePage(c)
    PROVE  PanelWritesInv'
<1>1. JobIsSo(job[c]) /\ (Errs => errors' \in 0..MaxErrors)
  BY JobFacts
<1>2. errors \in 0..MaxErrors /\ begunJobs \in 0..MaxWrites /\ table \in [Table -> SUBSET Stored]
  BY DEF PanelWritesInv
<1>3. CASE Deny(c)
  BY <1>1, <1>2, <1>3, NoJobFacts, AnswersFacts DEF Deny, JobIsSo, SaysRefused
<1>4. CASE BodyThrows(c)
  BY <1>1, <1>2, <1>4, AnswersFacts DEF BodyThrows, Throws, SaysNothing
<1>5. CASE Capture(c)
  BY <1>1, <1>2, <1>5, AnswersFacts DEF Capture, JobIsSo
<1>6. CASE ReportThrows(c)
  <2>1. SaysNothing(job[c])
    BY <1>1, <1>6 DEF ReportThrows, JobIsSo, SaysOk, SaysRefused, SaysNothing
  <2> QED
    BY <1>1, <1>2, <1>6, <2>1, AnswersFacts DEF ReportThrows, Throws
<1>7. CASE LeavePage(c)
  BY <1>2, <1>7, NoJobFacts, JobGoesOn DEF LeavePage
<1> QED
  BY <1>3, <1>4, <1>5, <1>6, <1>7

\* What is read, and what ends before anything is written.
LEMMA ReadingPanelKeeps ==
    ASSUME PanelWritesInv, NEW c \in Clerk,
           BeginJob(c) \/ Invalid(c) \/ ReadDocument(c) \/ ReadDocumentFails(c)
    PROVE  PanelWritesInv'
<1>1. /\ job[c] \in JobRecord /\ JobIsSo(job[c]) /\ (Errs => errors' \in 0..MaxErrors)
      /\ Doc(c) \in Table
  BY JobFacts
<1>2. errors \in 0..MaxErrors /\ begunJobs \in 0..MaxWrites /\ table \in [Table -> SUBSET Stored]
  BY DEF PanelWritesInv
<1>3. CASE BeginJob(c)
  <2>1. PICK plan \in Mutation : GoesOn(c, Job("body", plan))
    BY <1>3 DEF BeginJob
  <2>2. table' = table /\ errors' = errors /\ begunJobs' \in 0..MaxWrites
    BY <1>2, <1>3, PanelWritesAssumption DEF BeginJob
  <2> QED
    BY <1>2, <2>1, <2>2, JobBegun, JobGoesOn
<1>4. CASE Invalid(c)
  <2>1. job[c].wrote = "nothing" /\ job[c].answer = "none" /\ ~job[c].audited
    BY <1>1, <1>4 DEF Invalid, JobIsSo
  <2>2. SameJob([job[c] EXCEPT !.at = "fail"], job[c], "fail", "nothing")
    BY <1>1, <2>1, JobMoved
  <2> QED
    BY <1>2, <1>4, <2>1, <2>2, JobMoves DEF Invalid
<1>5. CASE ReadDocument(c)
  <2>1. job[c].wrote = "nothing" /\ job[c].answer = "none" /\ ~job[c].audited
    BY <1>1, <1>5 DEF ReadDocument, JobIsSo, How
  <2>2. table[Doc(c)] \in SUBSET Stored
    BY <1>1, <1>2
  <2>3. SameJob([job[c] EXCEPT !.at = "write", !.seen = table[Doc(c)]], job[c], "write", job[c].wrote)
    BY <1>1, <2>2, JobMoved
  <2> QED
    BY <1>2, <1>5, <2>1, <2>3, JobMoves DEF ReadDocument
<1>6. CASE ReadDocumentFails(c)
  <2>1. job[c].wrote = "nothing" /\ job[c].answer = "none" /\ ~job[c].audited
    BY <1>1, <1>6 DEF ReadDocumentFails, JobIsSo, How
  <2>2. SameJob([job[c] EXCEPT !.at = "write"], job[c], "write", job[c].wrote)
    BY <1>1, JobMoved
  <2> QED
    BY <1>1, <1>2, <1>6, <2>1, <2>2, JobMoves DEF ReadDocumentFails
<1> QED
  BY <1>3, <1>4, <1>5, <1>6

LEMMA TableWritten ==
    ASSUME table \in [Table -> SUBSET Stored], NEW t \in Table, NEW stored \in SUBSET Stored,
           Writes(t, stored)
    PROVE  table' \in [Table -> SUBSET Stored]
  BY DEF Writes

\* The write is made, and what follows it is left.
LEMMA WriteMade ==
    ASSUME PanelWritesInv, NEW c \in Clerk, GoesOn(c, Written(job[c])),
           job[c].at \in {"body", "write"}, table' \in [Table -> SUBSET Stored],
           UNCHANGED <<begunJobs, errors>>
    PROVE  PanelWritesInv'
<1> DEFINE wrote == IF job[c].plan.after = {} THEN "all" ELSE "some"
<1>1. /\ job[c] \in JobRecord /\ JobIsSo(job[c])
      /\ errors \in 0..MaxErrors /\ begunJobs \in 0..MaxWrites
  BY JobFacts
<1>2. job[c].answer = "none" /\ ~job[c].audited
  BY <1>1 DEF JobIsSo
<1>3. SameJob(Written(job[c]), job[c], "after", wrote)
  BY <1>1, JobMoved DEF Written
<1> QED
  BY <1>1, <1>2, <1>3, JobMoves

LEMMA WritingKeeps ==
    ASSUME PanelWritesInv, NEW c \in Clerk,
           WriteRow(c) \/ WriteNext(c) \/ WriteDocument(c) \/ AlreadyGone(c) \/ PostMenu(c)
    PROVE  PanelWritesInv'
<1>1. /\ job[c] \in JobRecord /\ JobIsSo(job[c]) /\ Shaped(job[c].plan) /\ Doc(c) \in Table
      /\ errors \in 0..MaxErrors /\ begunJobs \in 0..MaxWrites /\ table \in [Table -> SUBSET Stored]
  BY JobFacts
<1>2. /\ job[c].plan.add \in SUBSET Stored /\ job[c].seen \in SUBSET Stored
      /\ job[c].left \in SUBSET Stored
  BY <1>1 DEF Shaped, Plans, JobRecord
<1>3. CASE WriteRow(c)
  <2>1. Edited(table[Doc(c)], job[c].plan) \in SUBSET Stored
    BY <1>1, <1>2 DEF Edited
  <2>2. table' \in [Table -> SUBSET Stored]
    BY <1>1, <1>3, <2>1, TableWritten DEF WriteRow
  <2> QED
    BY <1>3, <2>2, WriteMade DEF WriteRow
<1>4. CASE WriteNext(c)
  <2>1. PICK e \in job[c].left :
           /\ Writes(Doc(c), table[Doc(c)] \cup {e})
           /\ GoesOn(c, IF job[c].left = {e} THEN Written(job[c])
                        ELSE [job[c] EXCEPT !.left = @ \ {e}, !.wrote = "some"])
    BY <1>4 DEF WriteNext
  <2>2. table' \in [Table -> SUBSET Stored]
    <3>1. table[Doc(c)] \cup {e} \in SUBSET Stored
      BY <1>1, <1>2
    <3> QED
      BY <1>1, <2>1, <3>1, TableWritten
  <2>3. How(c) = "rows" /\ job[c].at = "body" /\ UNCHANGED <<begunJobs, errors>>
    BY <1>4 DEF WriteNext
  <2>4. CASE job[c].left = {e}
    BY <2>1, <2>2, <2>3, <2>4, WriteMade
  <2>5. CASE job[c].left # {e}
    <3>1. SameJob([job[c] EXCEPT !.left = job[c].left \ {e}, !.wrote = "some"], job[c], "body", "some")
      BY <1>1, <2>3, JobMoved
    <3>2. GoesOn(c, [job[c] EXCEPT !.left = job[c].left \ {e}, !.wrote = "some"])
      BY <2>1, <2>5
    <3>3. job[c].answer = "none" /\ ~job[c].audited
      BY <1>1, <2>3 DEF JobIsSo
    <3> QED
      BY <1>1, <2>2, <2>3, <3>1, <3>2, <3>3, JobMoves
  <2> QED
    BY <2>4, <2>5
<1>5. CASE WriteDocument(c)
  <2>1. Edited(job[c].seen, job[c].plan) \in SUBSET Stored
    BY <1>2 DEF Edited
  <2>2. table' \in [Table -> SUBSET Stored]
    BY <1>1, <1>5, <2>1, TableWritten DEF WriteDocument
  <2> QED
    BY <1>5, <2>2, WriteMade DEF WriteDocument
<1>6. CASE AlreadyGone(c) \/ PostMenu(c)
  BY <1>1, <1>6, WriteMade DEF AlreadyGone, PostMenu
<1> QED
  BY <1>3, <1>4, <1>5, <1>6

\* A write that fails, what follows one, and the audit row.
LEMMA ReportingKeeps ==
    ASSUME PanelWritesInv, NEW c \in Clerk,
           WriteFails(c) \/ Afterwards(c) \/ AfterwardsFails(c) \/ Audit(c)
    PROVE  PanelWritesInv'
<1>1. /\ job[c] \in JobRecord /\ JobIsSo(job[c]) /\ Shaped(job[c].plan) /\ Doc(c) \in Table
      /\ How(c) = job[c].plan.how
      /\ errors \in 0..MaxErrors /\ begunJobs \in 0..MaxWrites /\ table \in [Table -> SUBSET Stored]
      /\ Errs => errors' \in 0..MaxErrors
  BY JobFacts
<1>2. /\ job[c].answer = "none" /\ ~job[c].audited /\ begunJobs' = begunJobs
      /\ errors' \in 0..MaxErrors
  BY <1>1 DEF JobIsSo, WriteFails, Afterwards, AfterwardsFails, Audit
<1>3. /\ SameJob([job[c] EXCEPT !.at = "audit"], job[c], "audit", job[c].wrote)
      /\ SameJob([job[c] EXCEPT !.at = "audit", !.wrote = "all"], job[c], "audit", "all")
      /\ SameJob([job[c] EXCEPT !.at = "fail"], job[c], "fail", job[c].wrote)
  BY <1>1, JobMoved
<1>4. CASE WriteFails(c)
  <2>1. table' = table /\ GoesOn(c, [job[c] EXCEPT !.at = "fail"])
    BY <1>4 DEF WriteFails, Failed
  <2>2. job[c].wrote = "nothing" \/ job[c].plan \in RefusedHalfway
    BY <1>1, <1>4 DEF WriteFails, JobIsSo, Shaped
  <2> QED
    BY <1>1, <1>2, <1>3, <2>1, <2>2, JobMoves
<1>5. CASE Afterwards(c)
  <2> DEFINE from == IF How(c) = "publish" THEN job[c].seen ELSE table[Doc(c)]
             new == [job[c] EXCEPT !.at = "audit",
                                   !.wrote = IF job[c].plan.after = {} THEN @ ELSE "all"]
  <2>1. /\ table' = table \/ Writes(Doc(c), from \cup job[c].plan.after)
        /\ GoesOn(c, new)
    BY <1>5 DEF Afterwards
  <2>2. from \cup job[c].plan.after \in SUBSET Stored
    BY <1>1 DEF Shaped, Plans, JobRecord
  <2>3. table' \in [Table -> SUBSET Stored]
    <3> HIDE DEF from
    <3> QED
      BY <1>1, <2>1, <2>2, TableWritten
  <2>4. job[c].plan.after = {} => job[c].wrote = "all"
    BY <1>1, <1>5 DEF Afterwards, JobIsSo
  <2>5. new = [job[c] EXCEPT !.at = "audit", !.wrote = "all"]
    BY <1>1, <2>4 DEF JobRecord
  <2> HIDE DEF new
  <2> QED
    BY <1>1, <1>2, <1>3, <2>1, <2>3, <2>5, JobMoves
<1>6. CASE AfterwardsFails(c)
  <2>1. PICK ends \in job[c].plan.miss :
           \/ ends \in {"audit", "fail"} /\ GoesOn(c, [job[c] EXCEPT !.at = ends])
           \/ ends = "throw" /\ Throws(c)
    BY <1>6 DEF AfterwardsFails
  <2>2. table' = table
    BY <1>6 DEF AfterwardsFails
  <2>3. CASE ends = "audit"
    <3>1. job[c].plan \in DoneHalfway /\ GoesOn(c, [job[c] EXCEPT !.at = "audit"])
      BY <1>1, <2>1, <2>3 DEF Shaped
    <3> QED
      BY <1>1, <1>2, <1>3, <2>2, <3>1, JobMoves
  <2>4. CASE ends = "fail"
    <3>1. job[c].plan \in RefusedHalfway /\ GoesOn(c, [job[c] EXCEPT !.at = "fail"])
      BY <1>1, <2>1, <2>4 DEF Shaped
    <3> QED
      BY <1>1, <1>2, <1>3, <2>2, <3>1, JobMoves
  <2>5. CASE ends = "throw"
    <3>1. Answers(c, "thrown") /\ SaysNothing(job[c])
      BY <1>1, <1>6, <2>1, <2>5 DEF Shaped, AfterwardsFails, JobIsSo, SaysNothing, Throws
    <3> QED
      BY <1>1, <1>2, <2>2, <3>1, AnswersFacts
  <2> QED
    BY <2>1, <2>3, <2>4, <2>5
<1>7. CASE Audit(c)
  <2> DEFINE new == [job[c] EXCEPT !.at = "capture", !.audited = TRUE]
  <2>1. /\ table' = table /\ GoesOn(c, new)
        /\ job[c].wrote = "all" \/ job[c].plan \in DoneHalfway
    BY <1>1, <1>7 DEF Audit, JobIsSo
  <2>2. /\ new \in JobRecord /\ new.at = "capture" /\ new.audited /\ new.wrote = job[c].wrote
        /\ new.plan = job[c].plan /\ new.answer = job[c].answer
    BY <1>1 DEF JobRecord
  <2> HIDE DEF new
  <2>3. JobIsSo(new)
    BY <1>2, <2>1, <2>2 DEF JobIsSo, SaysOk
  <2> QED
    BY <1>1, <1>2, <2>1, <2>2, <2>3, JobGoesOn
<1> QED
  BY <1>4, <1>5, <1>6, <1>7

-----------------------------------------------------------------------------

LEMMA PanelWritesInitially == PanelWritesInit => PanelWritesInv
<1> SUFFICES ASSUME PanelWritesInit PROVE PanelWritesInv
  OBVIOUS
<1>1. table \in [Table -> SUBSET Stored]
  BY StoredFacts DEF PanelWritesInit, AllBeside
<1>2. job \in [Clerk -> JobRecord] /\ \A c \in Clerk : JobIsSo(job[c])
  BY NoJobFacts DEF PanelWritesInit
<1> QED
  BY <1>1, <1>2, PanelWritesAssumption DEF PanelWritesInit, PanelWritesInv

LEMMA PanelWritesStep ==
    ASSUME PanelWritesInv, [PanelWritesNext]_panelWritesVars
    PROVE  PanelWritesInv'
<1>1. CASE UNCHANGED panelWritesVars
  BY <1>1 DEF panelWritesVars, PanelWritesInv
<1>2. CASE PanelWritesNext
  BY <1>2, AnsweringKeeps, ReadingPanelKeeps, WritingKeeps, ReportingKeeps DEF PanelWritesNext
<1> QED
  BY <1>1, <1>2

\* Every variable of the panel's writes has its type, for any clerks, entries
\* and bounds, and every mutation that is under way is one of the panel's.
THEOREM PanelWritesTypeCorrectness == PanelWritesSpec => []PanelWritesTypeOK
<1>1. PanelWritesInv => PanelWritesTypeOK
  BY DEF PanelWritesInv, JobRecord, PanelWritesTypeOK
<1> QED
  BY <1>1, PanelWritesInitially, PanelWritesStep, PTL DEF PanelWritesSpec

\* A success is written whole and on the trail, a refusal wrote nothing, and a
\* request that dies wrote nothing or all, but for the mutations that are named:
\* how far a job has come, and what its service does after it wrote, say which.
THEOREM AnswersAreTrueAlways == PanelWritesSpec => []AnswersAreTrue
<1>1. PanelWritesInv => AnswersAreTrue
  BY DEF PanelWritesInv, JobIsSo, SaysOk, SaysRefused, SaysNothing, AnswersAreTrue
<1> QED
  BY <1>1, PanelWritesInitially, PanelWritesStep, PTL DEF PanelWritesSpec
=============================================================================
