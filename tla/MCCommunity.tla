----------------------------- MODULE MCCommunity -----------------------------
(* The components around the panel, the members and the events share       *)
(* nothing as they are modelled, and are checked side by side: a behaviour *)
(* is one of one of them, and the others stay as they began.               *)
EXTENDS PanelCache, ConfigCache, PanelWrites, IngestSession, TicketNumbers, Tickets, XpLedger,
        EventBoard, EventSignup, EventContest

VARIABLE part

Parts == {"page", "configuration", "writes", "ingest", "numbers", "ticket", "xp",
          "board", "signup", "contest"}

CommunityInit ==
    /\ part \in Parts
    /\ PanelCacheInit /\ ConfigCacheInit /\ PanelWritesInit /\ IngestInit
    /\ NumbersInit /\ TicketsInit
    /\ XpInit /\ (part # "xp" => level = 0)
    /\ EventBoardInit
    /\ SignupInit /\ (part # "signup" => \A n \in Seats : n <= capacity)
    /\ ContestInit /\ (part # "contest" => worth = CHOOSE w \in Worth : TRUE)

panelVars == <<panelCacheVars, configCacheVars, panelWritesVars>>
memberVars == <<ingestVars, ticketNumberVars, ticketVars, xpVars>>
eventVars == <<eventBoardVars, eventSignupVars, contestVars>>

PanelNext ==
    \/ part = "page" /\ PanelCacheNext /\ UNCHANGED <<configCacheVars, panelWritesVars>>
    \/ part = "configuration" /\ ConfigCacheNext /\ UNCHANGED <<panelCacheVars, panelWritesVars>>
    \/ part = "writes" /\ PanelWritesNext /\ UNCHANGED <<panelCacheVars, configCacheVars>>

MemberNext ==
    \/ part = "ingest" /\ IngestNext /\ UNCHANGED <<ticketNumberVars, ticketVars, xpVars>>
    \/ part = "numbers" /\ NumbersNext /\ UNCHANGED <<ingestVars, ticketVars, xpVars>>
    \/ part = "ticket" /\ TicketsNext /\ UNCHANGED <<ingestVars, ticketNumberVars, xpVars>>
    \/ part = "xp" /\ XpNext /\ UNCHANGED <<ingestVars, ticketNumberVars, ticketVars>>

EventNext ==
    \/ part = "board" /\ EventBoardNext /\ UNCHANGED <<eventSignupVars, contestVars>>
    \/ part = "signup" /\ SignupNext /\ UNCHANGED <<eventBoardVars, contestVars>>
    \/ part = "contest" /\ ContestNext /\ UNCHANGED <<eventBoardVars, eventSignupVars>>

CommunityNext ==
    /\ UNCHANGED part
    /\ \/ PanelNext /\ UNCHANGED <<memberVars, eventVars>>
       \/ MemberNext /\ UNCHANGED <<panelVars, eventVars>>
       \/ EventNext /\ UNCHANGED <<panelVars, memberVars>>

CommunitySpec == CommunityInit /\ [][CommunityNext]_<<part, panelVars, memberVars, eventVars>>

\* Every variable of the part that moves has its type.
CommunityTypeOK ==
    CASE part = "page" -> PanelCacheTypeOK
      [] part = "configuration" -> ConfigCacheTypeOK
      [] part = "writes" -> PanelWritesTypeOK
      [] part = "ingest" -> IngestTypeOK
      [] part = "numbers" -> NumbersTypeOK
      [] part = "ticket" -> TicketsTypeOK
      [] part = "xp" -> XpTypeOK
      [] part = "board" -> EventBoardTypeOK
      [] part = "signup" -> SignupTypeOK
      [] part = "contest" -> ContestTypeOK
=============================================================================
