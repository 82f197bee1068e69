---------------------------- MODULE MCModeration ----------------------------
(* GuildCommand, SafetyLockdown and Screening share nothing and are        *)
(* checked side by side: a behaviour is one of one of them, and the other  *)
(* two stay as they began.                                                 *)
EXTENDS GuildCommand, SafetyLockdown, Screening

CONSTANTS ban, mute, kickNotch, muteSteve

\* What each request is after.
IntentOf == [r \in Request |-> IF r = mute THEN muteSteve ELSE kickNotch]

VARIABLE part

ModerationInit ==
    /\ part \in {"guild command", "lockdown", "screening"}
    /\ GuildInit /\ SafetyInit /\ ScreeningInit

ModerationNext ==
    /\ UNCHANGED part
    /\ \/ part = "guild command" /\ GuildNext /\ UNCHANGED <<safetyVars, screeningVars>>
       \/ part = "lockdown" /\ SafetyNext /\ UNCHANGED <<guildCommandVars, screeningVars>>
       \/ part = "screening" /\ ScreeningNext /\ UNCHANGED <<guildCommandVars, safetyVars>>

ModerationSpec == ModerationInit /\ [][ModerationNext]_<<part, guildCommandVars, safetyVars, screeningVars>>

\* Every variable of the three has its type.
ModerationTypeOK == GuildTypeOK /\ SafetyTypeOK /\ ScreeningTypeOK
=============================================================================
