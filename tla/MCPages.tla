------------------------------- MODULE MCPages -------------------------------
(* What runs in a browser's page: the player of a visitor who presses four  *)
(* times on two tracks, and the publish desk and the asset list of an       *)
(* administrator.  They share no state, so that the first state says which  *)
(* of them runs.  Liveness of the player: see MCLive.                       *)
EXTENDS AudioPlayer, PublishDesk, AssetLibrary

VARIABLE half

ASSUME PagesAssumption == DeskParameters /\ ListParameters

pageVars == <<half, vars, deskVars, listVars>>

PagesInit == Init /\ DeskInit /\ ListInit /\ half \in {"player", "desk", "list"}

PagesNext ==
  \/ half = "player" /\ Next /\ UNCHANGED <<half, deskVars, listVars>>
  \/ half = "desk" /\ DeskNext /\ UNCHANGED <<half, vars, listVars>>
  \/ half = "list" /\ ListNext /\ UNCHANGED <<half, vars, deskVars>>

PagesSpec == PagesInit /\ [][PagesNext]_pageVars

\* All assets were created at the same time: the page's order is that of ids.
SameTime == [id \in Ids |-> 1]

\* The player, the desk and the list hold values of their types.
PagesTypeOK == TypeOK /\ DeskTypeOK /\ ListTypeOK
==============================================================================
