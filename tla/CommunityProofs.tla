--------------------------- MODULE CommunityProofs ---------------------------
(***************************************************************************)
(* MCCommunity, which checks the components around the panel, the members  *)
(* and the events side by side, for any values of their constants: each    *)
(* keeps the invariant it keeps alone.                                     *)
(***************************************************************************)
EXTENDS MCCommunity, PanelProofs, MemberProofs, EventProofs

PanelPartsInv == PanelInv /\ ConfigInv /\ PanelWritesInv

MemberPartsInv == IngestInv /\ NumbersInv /\ TicketInv /\ XpInv

EventPartsInv == BoardInv /\ SignupInv /\ ContestInv

CommunityInv == PanelPartsInv /\ MemberPartsInv /\ EventPartsInv

LEMMA CommunityInitially == CommunityInit => CommunityInv
<1> SUFFICES ASSUME CommunityInit
             PROVE  CommunityInv
  OBVIOUS
<1>1. PanelPartsInv
  BY PanelInit, ConfigInit, PanelWritesInitially DEF CommunityInit, PanelPartsInv
<1>2. MemberPartsInv
  BY IngestInitInv, NumbersInitially, TicketsInitially, XpInitHolds
  DEF CommunityInit, MemberPartsInv
<1>3. EventPartsInv
  BY BoardInitInv, SignupInitInv, ContestInitInv DEF CommunityInit, EventPartsInv
<1> QED
  BY <1>1, <1>2, <1>3 DEF CommunityInv

\* A step of the whole is a step or a stutter of every part.
LEMMA PanelPartsStep ==
    ASSUME PanelPartsInv, [PanelNext]_panelVars
    PROVE  PanelPartsInv'
<1>1. /\ [PanelCacheNext]_panelCacheVars
      /\ [ConfigCacheNext]_configCacheVars
      /\ [PanelWritesNext]_panelWritesVars
  BY DEF PanelNext, panelVars
<1> QED
  BY <1>1, PanelStep, ConfigStep, PanelWritesStep DEF PanelPartsInv

LEMMA MemberPartsStep ==
    ASSUME MemberPartsInv, [MemberNext]_memberVars
    PROVE  MemberPartsInv'
<1>1. /\ [IngestNext]_ingestVars /\ [NumbersNext]_ticketNumberVars
      /\ [TicketsNext]_ticketVars /\ [XpNext]_xpVars
  BY DEF MemberNext, memberVars
<1> QED
  BY <1>1, IngestInductive, NumbersStep, TicketStep, XpStep DEF MemberPartsInv

LEMMA EventPartsStep ==
    ASSUME EventPartsInv, [EventNext]_eventVars
    PROVE  EventPartsInv'
<1>1. /\ [EventBoardNext]_eventBoardVars /\ [SignupNext]_eventSignupVars
      /\ [ContestNext]_contestVars
  BY DEF EventNext, eventVars
<1> QED
  BY <1>1, BoardInductive, SignupSeatsStep, ContestInductive DEF EventPartsInv

LEMMA CommunityStep ==
    ASSUME CommunityInv, [CommunityNext]_<<part, panelVars, memberVars, eventVars>>
    PROVE  CommunityInv'
<1>1. [PanelNext]_panelVars /\ [MemberNext]_memberVars /\ [EventNext]_eventVars
  BY DEF CommunityNext
<1> QED
  BY <1>1, PanelPartsStep, MemberPartsStep, EventPartsStep DEF CommunityInv

\* Every variable of the components around the panel, the members and the
\* events has its type, whichever of them moves.
THEOREM CommunityTypeCorrectness == CommunitySpec => []CommunityTypeOK
<1>1. CommunityInv /\ part \in Parts => CommunityTypeOK
  <2>1. PanelPartsInv => PanelCacheTypeOK /\ ConfigCacheTypeOK /\ PanelWritesTypeOK
    <3>1. PanelWritesInv => PanelWritesTypeOK
      BY DEF PanelWritesInv, JobRecord, PanelWritesTypeOK
    <3>2. (PanelInv => PanelCacheTypeOK) /\ (ConfigInv => ConfigCacheTypeOK)
      BY DEF PanelInv, ConfigInv
    <3> QED
      BY <3>1, <3>2 DEF PanelPartsInv
  <2>2. MemberPartsInv => IngestTypeOK /\ NumbersTypeOK /\ TicketsTypeOK /\ XpTypeOK
    <3>1. IngestInv => IngestTypeOK
      BY DEF IngestInv, IngestTyped
    <3>2. (NumbersInv => NumbersTypeOK) /\ (TicketInv => TicketsTypeOK) /\ (XpInv => XpTypeOK)
      BY DEF NumbersInv, TicketInv, XpInv
    <3> QED
      BY <3>1, <3>2 DEF MemberPartsInv
  <2>3. EventPartsInv => EventBoardTypeOK /\ SignupTypeOK /\ ContestTypeOK
    <3>1. SignupInv => SignupTypeOK
      BY Zenon DEF SignupInv
    <3>2. BoardInv => EventBoardTypeOK
      BY DEF BoardInv
    <3>3. ContestInv => ContestTypeOK
      BY DEF ContestInv
    <3> QED
      BY <3>1, <3>2, <3>3 DEF EventPartsInv
  <2> QED
    BY <2>1, <2>2, <2>3 DEF CommunityInv, CommunityTypeOK, Parts
<1>2. CommunityInit => part \in Parts
  BY DEF CommunityInit
<1>3. part \in Parts /\ [CommunityNext]_<<part, panelVars, memberVars, eventVars>>
         => (part \in Parts)'
  BY DEF CommunityNext
<1> QED
  BY <1>1, <1>2, <1>3, CommunityInitially, CommunityStep, PTL DEF CommunitySpec
=============================================================================
