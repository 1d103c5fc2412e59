----------------------------- MODULE PowerSource -----------------------------
(***************************************************************************)
(* The AC/battery watcher (internal/daemon/powersource.go): it polls the   *)
(* mains supplies, confirms a change on the next observation, announces it *)
(* and selects the profile autoswitch names for the new source.  UPower's  *)
(* signals only make it look sooner.  Around it move the adapters, the     *)
(* commands that configure autoswitch or select, create and delete         *)
(* profiles, and a sleep or a wedged EC, in which it stands down.          *)
(* One observation holds hwMu from its reads to its write.  Of what it     *)
(* reads, only the autoswitch settings may change meanwhile, which is as   *)
(* if they had changed just after it: a step is one observation.           *)
(***************************************************************************)
EXTENDS Naturals, FiniteSets

CONSTANTS
  Adapters,    \* supplies of type Mains
  Custom,      \* names of custom profiles
  Stocks,      \* firmware profiles; writing platform_profile may fail
  NudgeCap,    \* capacity of the nudge channel
  MaxOutages   \* bound on sleeps and restarts

ASSUME PowerAssumption ==
  /\ Custom \cap Stocks = {} /\ "" \notin Custom \cup Stocks
  /\ NudgeCap \in Nat \ {0} /\ MaxOutages \in Nat

Profiles == Custom \cup Stocks

VARIABLES
  online,      \* what reading each adapter's online attribute gives
  nudges,      \* length of the nudge channel
  latch,       \* powerState of the watcher
  auto,        \* state.Autoswitch: enabled, and a profile or "" per source
  saved,       \* each custom profile: absent, empty, or setting something
  profile,     \* state.Profile
  suspending, ecWedged,
  lastLook,    \* what the watcher's last observation found, and whether the
  byWatcher,   \*   last step was the watcher's; both read by properties only
  outages

vars == <<online, nudges, latch, auto, saved, profile, suspending, ecWedged,
          lastLook, byWatcher, outages>>
flags == <<suspending, ecWedged>>

TypeOK ==
  /\ online \in [Adapters -> {"on", "off", "fails"}]
  /\ nudges \in 0..NudgeCap
  /\ latch \in [known : BOOLEAN, onAC : BOOLEAN, enabled : BOOLEAN,
                pending : BOOLEAN, pendAC : BOOLEAN]
  /\ auto \in [enabled : BOOLEAN, target : [BOOLEAN -> Profiles \cup {""}]]
  /\ saved \in [Custom -> {"absent", "empty", "set"}]
  /\ profile \in Profiles
  /\ {suspending, ecWedged} \subseteq BOOLEAN
  /\ byWatcher \in BOOLEAN
  /\ lastLook \in {"none", "ac", "battery"}
  /\ outages \in 0..MaxOutages

-----------------------------------------------------------------------------
\* OnACPower: any adapter online is mains; none readable is unknown.
Known == \E a \in Adapters : online[a] # "fails"
OnAC == \E a \in Adapters : online[a] = "on"

\* AutoswitchState.Target
TargetOf(source) == IF auto.enabled THEN auto.target[source] ELSE ""

\* What applyProfileLocked does not refuse.
Selectable == Stocks \cup {p \in Custom : saved[p] = "set"}

ApplyProfile(p) ==
  IF p \in Selectable
  THEN profile' = p \/ (p \in Stocks /\ UNCHANGED profile)
  ELSE UNCHANGED profile

Latch == [known |-> FALSE, onAC |-> FALSE, enabled |-> FALSE, pending |-> FALSE, pendAC |-> FALSE]

-----------------------------------------------------------------------------
(* powerTick: what the watcher latches, and the profile it selects.        *)

Moved == OnAC # latch.onAC

\* A defect the checks must catch: a change is acted on at once.
ConfirmedAtOnce == latch.known /\ Moved

Confirmed == latch.known /\ Moved /\ latch.pending /\ latch.pendAC = OnAC

\* Whatever is enabled is latched as disabled, for the next tick to notice.
FirstTick ==
  /\ ~latch.known
  /\ latch' = [latch EXCEPT !.known = TRUE, !.onAC = OnAC, !.enabled = FALSE]

\* A change waits for the next observation; an enablement is latched at once.
Unconfirmed ==
  /\ latch.known /\ Moved /\ ~Confirmed
  /\ latch' = [latch EXCEPT !.enabled = auto.enabled, !.pending = TRUE, !.pendAC = OnAC]

Settled ==
  /\ latch.known /\ (Moved => Confirmed)
  /\ latch' = [latch EXCEPT !.enabled = auto.enabled, !.pending = FALSE, !.onAC = OnAC]

\* A confirmed change selects the target whatever is active; autoswitch just
\* enabled does unless the target is active already.
JustEnabled ==
  /\ latch.known /\ ~Moved
  /\ auto.enabled /\ ~latch.enabled
  /\ TargetOf(OnAC) # profile

Choice == IF Confirmed \/ JustEnabled THEN TargetOf(OnAC) ELSE ""

powerTick == FirstTick \/ Unconfirmed \/ Settled

\* powerSourceOnce: asleep, or with the EC wedged, it leaves the edge alone.
StandsDown == suspending \/ ecWedged

\* A defect the checks must catch: standing down, it still consumes the edge.
ObserveConsumingEdge ==
  /\ IF Known
     THEN /\ powerTick
          /\ ApplyProfile(IF StandsDown THEN "" ELSE Choice)
          /\ lastLook' = IF OnAC THEN "ac" ELSE "battery"
     ELSE UNCHANGED <<latch, profile, lastLook>>
  /\ UNCHANGED <<online, auto, saved, flags, outages>>

Observe ==
  /\ IF Known /\ ~StandsDown
     THEN /\ powerTick
          /\ ApplyProfile(Choice)
          /\ lastLook' = IF OnAC THEN "ac" ELSE "battery"
     ELSE UNCHANGED <<latch, profile, lastLook>>
  /\ UNCHANGED <<online, auto, saved, flags, outages>>

\* watchPowerSource's two triggers.
Poll == Observe /\ byWatcher' = TRUE /\ UNCHANGED nudges
Nudged == nudges > 0 /\ nudges' = nudges - 1 /\ Observe /\ byWatcher' = TRUE

-----------------------------------------------------------------------------
(* The adapters, and UPower's signal for them: dropped when the channel is *)
(* full, and absent where UPower is.                                       *)

\* A defect the checks must catch: the signal waits for room in the channel.
AdapterChangesUncapped ==
  /\ \E a \in Adapters, v \in {"on", "off", "fails"} :
       v # online[a] /\ online' = [online EXCEPT ![a] = v]
  /\ nudges' = nudges + 1
  /\ UNCHANGED <<latch, auto, saved, profile, flags, lastLook, outages>>

AdapterChanges ==
  /\ \E a \in Adapters, v \in {"on", "off", "fails"} :
       v # online[a] /\ online' = [online EXCEPT ![a] = v]
  /\ \/ UNCHANGED nudges
     \/ nudges < NudgeCap /\ nudges' = nudges + 1
  /\ UNCHANGED <<latch, auto, saved, profile, flags, lastLook, outages>>

-----------------------------------------------------------------------------
(* Commands.                                                               *)

\* Enabling wants targets that exist; disabling takes any.
HandleAutoswitch(enabled, target) ==
  /\ enabled => \A s \in BOOLEAN : target[s] \in Custom => saved[target[s]] # "absent"
  /\ auto' = [enabled |-> enabled, target |-> target]
  /\ UNCHANGED <<online, nudges, latch, saved, profile, flags, lastLook, outages>>

HandleProfile(p) ==
  /\ ~ecWedged
  /\ ApplyProfile(p)
  /\ UNCHANGED <<online, nudges, latch, auto, saved, flags, lastLook, outages>>

\* A defect the checks must catch: only what autoswitch is using is kept.
MayDeleteUnused(p) ==
  /\ saved[p] # "absent"
  /\ profile # p
  /\ TargetOf(OnAC) # p

\* deleteRefusalLocked
MayDelete(p) ==
  /\ saved[p] # "absent"
  /\ profile # p
  /\ \A s \in BOOLEAN : auto.target[s] # p

\* profile-create, the edits of a named profile, and profile-delete.
ChangeProfile(p) ==
  /\ \E v \in {"absent", "empty", "set"} :
       /\ saved[p] = "absent" => v = "empty"
       /\ v = "absent" => MayDelete(p)
       /\ saved' = [saved EXCEPT ![p] = v]
  /\ UNCHANGED <<online, nudges, latch, auto, profile, flags, lastLook, outages>>

-----------------------------------------------------------------------------
(* Sleeps, the EC, restarts.                                               *)

Sleep ==
  /\ ~suspending /\ outages < MaxOutages
  /\ outages' = outages + 1
  /\ suspending' = TRUE
  /\ UNCHANGED <<online, nudges, latch, auto, saved, profile, ecWedged, lastLook>>

Resume ==
  /\ suspending
  /\ suspending' = FALSE
  /\ ecWedged' \in BOOLEAN
  /\ UNCHANGED <<online, nudges, latch, auto, saved, profile, lastLook, outages>>

ECAnswers ==
  /\ ecWedged
  /\ ecWedged' = FALSE
  /\ UNCHANGED <<online, nudges, latch, auto, saved, profile, suspending, lastLook, outages>>

\* autoswitchTarget, in restoreHardwareAtStartup: not with the EC wedged.
StartupTarget ==
  LET t == IF Known THEN TargetOf(OnAC) ELSE "" IN
  IF t \in Selectable THEN t ELSE profile

Restart ==
  /\ outages < MaxOutages
  /\ outages' = outages + 1
  /\ suspending' = FALSE
  /\ ecWedged' \in BOOLEAN
  /\ profile' = IF ecWedged' THEN profile ELSE StartupTarget
  /\ latch' = Latch
  /\ nudges' = 0
  /\ lastLook' = "none"
  /\ UNCHANGED <<online, auto, saved>>

-----------------------------------------------------------------------------
Init ==
  /\ online \in [Adapters -> {"on", "off"}]
  /\ nudges = 0
  /\ latch = Latch
  /\ auto = [enabled |-> FALSE, target |-> [s \in BOOLEAN |-> ""]]
  /\ saved = [p \in Custom |-> "absent"]
  /\ profile \in Stocks
  /\ suspending = FALSE
  /\ ecWedged = FALSE
  /\ lastLook = "none"
  /\ byWatcher = FALSE
  /\ outages = 0

Watcher == Poll \/ Nudged

Commands ==
  \/ \E enabled \in BOOLEAN, target \in [BOOLEAN -> Profiles \cup {""}] : HandleAutoswitch(enabled, target)
  \/ \E p \in Profiles : HandleProfile(p)
  \/ \E p \in Custom : ChangeProfile(p)

Outages == Sleep \/ Resume \/ ECAnswers \/ Restart

Next == Watcher \/ (byWatcher' = FALSE /\ (AdapterChanges \/ Commands \/ Outages))

\* The poll comes round every powerPollInterval, UPower or not; a sleep ends
\* or is given up, and the EC answers in the end.
Fairness ==
  /\ WF_vars(Poll)
  /\ WF_vars(Resume /\ byWatcher' = FALSE)
  /\ WF_vars(ECAnswers /\ byWatcher' = FALSE)

Spec == Init /\ [][Next]_vars /\ Fairness

-----------------------------------------------------------------------------
(* Properties.                                                             *)

Follow == INSTANCE PowerFollow WITH
  Unsure <- Stocks,
  readable <- Known,
  onAC <- OnAC,
  watching <- latch.known,
  announced <- latch.onAC,
  target <- [s \in BOOLEAN |-> TargetOf(s)],
  selectable <- Selectable,
  fresh <- auto.enabled /\ ~latch.enabled

\* Every change of source that stays is announced, and its profile selected
\* in the same step, across sleeps, wedged ECs and restarts, and the watcher
\* selects a profile at no other time (powersource.go:140-174, 223-251).
FollowsTheSource == Follow!Spec

\* No change is acted on that the observation before did not see as well: an
\* adapter that flaps between two looks costs nothing (powersource.go:25-29).
Confirms ==
  [][latch.known /\ latch'.known /\ latch'.onAC # latch.onAC =>
       lastLook = IF latch'.onAC THEN "ac" ELSE "battery"]_vars

\* Autoswitch, while enabled, names no profile that is gone, whatever is
\* created, deleted or configured in which order (profile.go:509-516).
TargetsExist ==
  auto.enabled => \A s \in BOOLEAN : auto.target[s] \in Custom => saved[auto.target[s]] # "absent"
=============================================================================
