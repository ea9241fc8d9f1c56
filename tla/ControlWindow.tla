---------------------------- MODULE ControlWindow ----------------------------
(***************************************************************************)
(* src/src/controlwindow.cpp: one card per announced light.  The manager's *)
(* signals are direct calls on the same thread, so the cards change within *)
(* the handler that emits.  Of what a card shows, the model keeps whether  *)
(* its controls are enabled: this is what lets the user act.               *)
(***************************************************************************)
EXTENDS KeyLight

VARIABLE cards   \* for each light with a card: are its controls enabled?

CardsTypeOK == IsTable(cards, Ids, BOOLEAN)

CardsInit == cards = EmptyTable

\* LightCard::sync
Enabled(light) == light.online /\ light.state # None

\* Mutant: onLightRemoved leaves the card.
SyncKeepingCards(known, added, updated, removed) ==
  LET synced == (added \cup updated) \cap DOMAIN known
  IN  cards' = [id \in DOMAIN cards \cup added |->
                  IF id \in synced THEN Enabled(known[id]) ELSE cards[id]]

\* Mutant: onLightAdded makes no card.
SyncOldCards(known, added, updated, removed) ==
  LET synced == (added \cup updated) \cap DOMAIN known
  IN  cards' = [id \in DOMAIN cards \ removed |->
                  IF id \in synced THEN Enabled(known[id]) ELSE cards[id]]

\* onLightAdded, onLightUpdated and onLightRemoved for these sets of lights; sync
\* returns early for a light that is not in known, the manager's cache.
SyncCards(known, added, updated, removed) ==
  LET synced == (added \cup updated) \cap DOMAIN known
  IN  cards' = [id \in (DOMAIN cards \ removed) \cup added |->
                  IF id \in synced THEN Enabled(known[id]) ELSE cards[id]]

==============================================================================
