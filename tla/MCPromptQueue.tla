---------------------------- MODULE MCPromptQueue ----------------------------
(***************************************************************************)
(* Values for the constants of PromptQueue, for the runs of TLC: the       *)
(* conditions each run puts the client under.                              *)
(***************************************************************************)
EXTENDS PromptQueue

Turbulence       == {"earlyStart", "rejected", "failedTurn", "duplicate", "lostEvent", "streamEnd"}
AllButLoss       == AllConditions \ {"duplicate", "lostEvent"}
Shared           == {"earlyStart", "foreignTurn"}
EarlyEnds        == {"earlyStart", "earlyEnd"}
=============================================================================
