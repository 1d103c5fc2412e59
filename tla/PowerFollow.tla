----------------------------- MODULE PowerFollow -----------------------------
(***************************************************************************)
(* What the power-source watcher promises, without its ticks: a change of  *)
(* the source that stays is announced to clients, once, and in that very   *)
(* step the profile configured for the new source is selected.  Besides    *)
(* that the watcher selects a profile only for the source it last          *)
(* announced, once, when autoswitch has just been enabled; and that only   *)
(* if no change is pending then.                                           *)
(***************************************************************************)
CONSTANTS
  Profiles,     \* every profile name
  Unsure        \* the profiles whose selection may fail

VARIABLES
  readable,     \* the source can be told
  onAC,         \* what it is, when it can
  watching,     \* the watcher has made its first observation
  announced,    \* the source of that observation or of the last announcement
  target,       \* autoswitch's choice for a source, or ""
  selectable,   \* profiles that exist and set something
  profile,      \* the active profile
  fresh,        \* autoswitch was enabled and the watcher has not seen it yet
  byWatcher     \* the last step was the watcher's

vars == <<readable, onAC, watching, announced, target, selectable, profile, fresh, byWatcher>>
source == <<readable, onAC>>
settings == <<target, selectable>>

Init ==
  /\ {readable, onAC, announced} \subseteq BOOLEAN
  /\ watching = FALSE
  /\ target \in [BOOLEAN -> Profiles \cup {""}]
  /\ selectable \subseteq Profiles
  /\ profile \in Profiles
  /\ {fresh, byWatcher} \subseteq BOOLEAN

Select(p) ==
  IF p \in selectable
  THEN profile' = p \/ (p \in Unsure /\ UNCHANGED profile)
  ELSE UNCHANGED profile

Announce ==
  /\ readable /\ watching /\ announced # onAC
  /\ announced' = onAC
  /\ Select(target[onAC])
  /\ fresh' = FALSE /\ byWatcher' = TRUE
  /\ UNCHANGED <<source, watching, settings>>

SelectOnEnable ==
  /\ readable /\ watching /\ announced = onAC
  /\ fresh /\ fresh' = FALSE
  /\ Select(target[onAC])
  /\ byWatcher' = TRUE
  /\ UNCHANGED <<source, watching, announced, settings>>

FirstLook ==
  /\ readable /\ ~watching
  /\ watching' = TRUE
  /\ announced' = onAC
  /\ byWatcher' = TRUE
  /\ UNCHANGED <<source, settings, profile, fresh>>

\* Nothing to do, or nothing to be done yet.
Look ==
  /\ fresh' \in {fresh, FALSE}
  /\ byWatcher' = TRUE
  /\ UNCHANGED <<source, watching, announced, settings, profile>>

SourceMoves ==
  /\ readable' \in BOOLEAN /\ onAC' \in BOOLEAN
  /\ byWatcher' = FALSE
  /\ UNCHANGED <<watching, announced, settings, profile, fresh>>

Command ==
  /\ target' \in [BOOLEAN -> Profiles \cup {""}]
  /\ selectable' \in SUBSET Profiles
  /\ profile' \in Profiles
  /\ fresh' \in BOOLEAN
  /\ byWatcher' = FALSE
  /\ UNCHANGED <<source, watching, announced>>

Restart ==
  /\ watching' = FALSE
  /\ {announced', fresh'} \subseteq BOOLEAN
  /\ byWatcher' = FALSE
  /\ UNCHANGED profile \/ (readable /\ Select(target[onAC]))
  /\ UNCHANGED <<source, settings>>

Next == Announce \/ SelectOnEnable \/ FirstLook \/ Look \/ SourceMoves \/ Command \/ Restart

Fairness == WF_vars(Announce) /\ WF_vars(FirstLook)

Spec == Init /\ [][Next]_vars /\ Fairness
=============================================================================
