-------------------------------- MODULE TrayApp --------------------------------
(***************************************************************************)
(* src/src/trayapp.cpp: the icon and the tooltip.  They are drawn when the *)
(* manager signals, from its cache as it is then, and never in between.    *)
(* The header of the window says the same: it is refreshed by the same     *)
(* signals, and by lightRemoved, which lightUpdated always follows.        *)
(***************************************************************************)
EXTENDS ControlWindow

VARIABLE shown   \* the lights that were counted when icon and tooltip were drawn last

uiVars == <<cards, shown>>

\* counts(): what it counts is the lights that are online and on.
Counted(known) ==
  LET usable == {id \in DOMAIN known : Enabled(known[id])}
  IN  [online |-> usable, on |-> {id \in usable : known[id].state.on}]

UiTypeOK == CardsTypeOK /\ shown \in [online : SUBSET Ids, on : SUBSET Ids]

UiInit == CardsInit /\ shown = Counted(EmptyTable)

\* Mutant: the tray listens to lightAdded only.
UpdateIconWhenAdded(known, added, updated) ==
  shown' = IF added # {} THEN Counted(known) ELSE shown
\* onLightAdded and updateIcon.
UpdateIcon(known, added, updated) ==
  shown' = IF added \cup updated # {} THEN Counted(known) ELSE shown

(***************************************************************************)
(* One handler emits lightAdded, lightUpdated and lightRemoved for these   *)
(* sets of lights, disjoint in every handler, so their order is of no      *)
(* consequence.  known is the manager's cache while it emits.              *)
(***************************************************************************)
Emit(known, added, updated, removed) ==
  /\ SyncCards(known, added, updated, removed)
  /\ UpdateIcon(known, added, updated)

===============================================================================
