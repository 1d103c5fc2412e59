------------------------- MODULE PowerSource_proofs -------------------------
(***************************************************************************)
(* What the power-source watcher keeps for any adapters, profiles and      *)
(* nudge channel, across any number of sleeps and restarts: its targets    *)
(* exist, a change is confirmed before it is acted on, and every step is a *)
(* step of PowerFollow.                                                    *)
(***************************************************************************)
EXTENDS PowerSource, TLAPS

Look(ac) == IF ac THEN "ac" ELSE "battery"

\* A change that waits for its confirmation is what the last observation saw.
PendingSeen == latch.pending => lastLook = Look(latch.pendAC)

\* Before its first observation the watcher has latched nothing.
Unlatched == ~latch.known => latch = Latch

IInv == TypeOK /\ TargetsExist /\ PendingSeen /\ Unlatched

-----------------------------------------------------------------------------
(* Lemmas about the operators.                                             *)

\* The bounds, and counting within them.
LEMMA Counting ==
  /\ MaxOutages \in Nat /\ NudgeCap \in Nat
  /\ 0 \in 0..MaxOutages /\ 0 \in 0..NudgeCap
  /\ \A n \in 0..MaxOutages : n < MaxOutages => n + 1 \in 0..MaxOutages
  /\ \A n \in 0..NudgeCap : n < NudgeCap => n + 1 \in 0..NudgeCap
  /\ \A n \in 0..NudgeCap : n > 0 => n - 1 \in 0..NudgeCap
<1>1. MaxOutages \in Nat /\ NudgeCap \in Nat
  BY PowerAssumption
<1> QED BY <1>1

LEMMA NoNameIsNoProfile == "" \notin Profiles /\ "" \notin Selectable
  BY PowerAssumption DEF Profiles, Selectable

LEMMA Switched ==
  ASSUME TypeOK, NEW p, ApplyProfile(p)
  PROVE  profile' \in Profiles
  BY DEF ApplyProfile, Selectable, TypeOK, Profiles

\* One tick, as its three outcomes, with the record that it leaves.
LEMMA Tick ==
  ASSUME TypeOK, powerTick
  PROVE  \/ /\ FirstTick
            /\ latch' = [known |-> TRUE, onAC |-> OnAC, enabled |-> FALSE,
                         pending |-> latch.pending, pendAC |-> latch.pendAC]
         \/ /\ Unconfirmed
            /\ latch' = [known |-> TRUE, onAC |-> latch.onAC, enabled |-> auto.enabled,
                         pending |-> TRUE, pendAC |-> OnAC]
         \/ /\ Settled
            /\ latch' = [known |-> TRUE, onAC |-> OnAC, enabled |-> auto.enabled,
                         pending |-> FALSE, pendAC |-> latch.pendAC]
  BY DEF powerTick, FirstTick, Unconfirmed, Settled, TypeOK

LEMMA SourceTyped == OnAC \in BOOLEAN /\ Known \in BOOLEAN
  BY DEF OnAC, Known

-----------------------------------------------------------------------------
(* The invariant.                                                          *)

LEMMA Initially == Init => IInv
<1> SUFFICES ASSUME Init PROVE IInv
  OBVIOUS
<1>1. online \in [Adapters -> {"on", "off", "fails"}] /\ profile \in Profiles
  BY DEF Init, Profiles
<1>2. auto \in [enabled : BOOLEAN, target : [BOOLEAN -> Profiles \cup {""}]]
  BY DEF Init
<1>3. saved \in [Custom -> {"absent", "empty", "set"}] /\ nudges \in 0..NudgeCap
  BY Counting DEF Init
<1>4. outages \in 0..MaxOutages
  BY Counting DEF Init
<1>5. TypeOK
  BY <1>1, <1>2, <1>3, <1>4 DEF Init, TypeOK, Latch
<1>6. TargetsExist /\ PendingSeen /\ Unlatched
  BY DEF Init, TargetsExist, PendingSeen, Unlatched, Latch
<1> QED BY <1>5, <1>6 DEF IInv

\* What every observation does, whichever trigger it has.
LEMMA Observed ==
  ASSUME IInv, Observe
  PROVE  /\ latch' \in [known : BOOLEAN, onAC : BOOLEAN, enabled : BOOLEAN,
                        pending : BOOLEAN, pendAC : BOOLEAN]
         /\ profile' \in Profiles
         /\ lastLook' \in {"none", "ac", "battery"}
         /\ PendingSeen' /\ Unlatched'
<1>1. TypeOK /\ PendingSeen /\ Unlatched
  BY DEF IInv
<1>2. CASE Known /\ ~StandsDown
  <2>1. powerTick /\ ApplyProfile(Choice) /\ lastLook' = Look(OnAC)
    BY <1>2 DEF Observe, Look
  <2>2. profile' \in Profiles
    BY <1>1, <2>1, Switched
  <2>3. CASE FirstTick
    <3>1. latch = Latch
      BY <1>1, <2>3 DEF FirstTick, Unlatched
    <3>2. latch' = [known |-> TRUE, onAC |-> OnAC, enabled |-> FALSE,
                    pending |-> FALSE, pendAC |-> FALSE]
      BY <2>3, <3>1 DEF FirstTick, Latch
    <3> QED BY <2>1, <2>2, <3>2, SourceTyped DEF PendingSeen, Unlatched, Look
  <2>4. CASE Unconfirmed
    <3>1. latch' = [known |-> TRUE, onAC |-> latch.onAC, enabled |-> auto.enabled,
                    pending |-> TRUE, pendAC |-> OnAC]
      BY <1>1, <2>4 DEF Unconfirmed, TypeOK
    <3> QED BY <1>1, <2>1, <2>2, <3>1, SourceTyped DEF PendingSeen, Unlatched, Look, TypeOK
  <2>5. CASE Settled
    <3>1. latch' = [known |-> TRUE, onAC |-> OnAC, enabled |-> auto.enabled,
                    pending |-> FALSE, pendAC |-> latch.pendAC]
      BY <1>1, <2>5 DEF Settled, TypeOK
    <3> QED BY <1>1, <2>1, <2>2, <3>1, SourceTyped DEF PendingSeen, Unlatched, Look, TypeOK
  <2> QED BY <2>1, <2>3, <2>4, <2>5 DEF powerTick
<1>3. CASE ~(Known /\ ~StandsDown)
  BY <1>1, <1>3 DEF Observe, TypeOK, PendingSeen, Unlatched
<1> QED BY <1>2, <1>3

LEMMA WatcherKeeps ==
  ASSUME IInv, Watcher
  PROVE  IInv'
<1>1. Observe /\ byWatcher' = TRUE /\ nudges' \in 0..NudgeCap
  <2>1. nudges \in 0..NudgeCap /\ NudgeCap \in Nat
    BY Counting DEF IInv, TypeOK
  <2> QED BY <2>1 DEF Watcher, Poll, Nudged
<1>2. TypeOK'
  <2>1. TypeOK /\ UNCHANGED <<online, auto, saved, flags, outages>>
    BY <1>1 DEF IInv, Observe
  <2> QED BY <1>1, <2>1, Observed DEF TypeOK, flags
<1>3. TargetsExist'
  BY <1>1 DEF IInv, TargetsExist, Observe
<1> QED BY <1>1, <1>2, <1>3, Observed DEF IInv

LEMMA AdapterChangesKeeps ==
  ASSUME IInv, byWatcher' = FALSE, AdapterChanges
  PROVE  IInv'
<1>1. TypeOK
  BY DEF IInv
<1>2. online' \in [Adapters -> {"on", "off", "fails"}]
  <2>1. PICK a \in Adapters, v \in {"on", "off", "fails"} : online' = [online EXCEPT ![a] = v]
    BY DEF AdapterChanges
  <2>2. online \in [Adapters -> {"on", "off", "fails"}]
    BY <1>1 DEF TypeOK
  <2> QED BY <2>1, <2>2
<1>3. nudges' \in 0..NudgeCap
  <2>1. nudges \in 0..NudgeCap
    BY <1>1 DEF TypeOK
  <2>2. UNCHANGED nudges \/ (nudges < NudgeCap /\ nudges' = nudges + 1)
    BY DEF AdapterChanges
  <2> QED BY <2>1, <2>2, Counting
<1>4. TypeOK'
  BY <1>1, <1>2, <1>3 DEF AdapterChanges, TypeOK, flags
<1> QED BY <1>4 DEF IInv, AdapterChanges, TargetsExist, PendingSeen, Unlatched

LEMMA CommandsKeeps ==
  ASSUME IInv, byWatcher' = FALSE, Commands
  PROVE  IInv'
<1>1. TypeOK /\ TargetsExist /\ PendingSeen /\ Unlatched
  BY DEF IInv
<1>2. ASSUME NEW enabled \in BOOLEAN, NEW target \in [BOOLEAN -> Profiles \cup {""}],
             HandleAutoswitch(enabled, target)
      PROVE  IInv'
  <2>1. TypeOK'
    BY <1>1, <1>2 DEF HandleAutoswitch, TypeOK, flags
  <2>2. TargetsExist'
    BY <1>2 DEF HandleAutoswitch, TargetsExist
  <2> QED BY <1>1, <1>2, <2>1, <2>2 DEF IInv, HandleAutoswitch, PendingSeen, Unlatched
<1>3. ASSUME NEW p \in Profiles, HandleProfile(p)
      PROVE  IInv'
  <2>1. profile' \in Profiles
    BY <1>1, <1>3, Switched DEF HandleProfile
  <2>2. TypeOK'
    BY <1>1, <1>3, <2>1 DEF HandleProfile, TypeOK, flags
  <2> QED BY <1>1, <1>3, <2>2 DEF IInv, HandleProfile, TargetsExist, PendingSeen, Unlatched
<1>4. ASSUME NEW p \in Custom, ChangeProfile(p)
      PROVE  IInv'
  <2>1. PICK v \in {"absent", "empty", "set"} :
               /\ v = "absent" => MayDelete(p)
               /\ saved' = [saved EXCEPT ![p] = v]
    BY <1>4 DEF ChangeProfile
  <2>2. TypeOK'
    BY <1>1, <1>4, <2>1 DEF ChangeProfile, TypeOK, flags
  <2>3. TargetsExist'
    <3> SUFFICES ASSUME auto'.enabled, NEW s \in BOOLEAN, auto'.target[s] \in Custom
                 PROVE  saved'[auto'.target[s]] # "absent"
      BY DEF TargetsExist
    <3>1. auto' = auto
      BY <1>4 DEF ChangeProfile
    <3>2. saved[auto.target[s]] # "absent" /\ saved \in [Custom -> {"absent", "empty", "set"}]
      BY <1>1, <3>1 DEF TargetsExist, TypeOK
    <3>3. CASE auto.target[s] = p
      BY <2>1, <3>1, <3>2, <3>3 DEF MayDelete
    <3>4. CASE auto.target[s] # p
      BY <2>1, <3>1, <3>2, <3>4
    <3> QED BY <3>3, <3>4
  <2> QED BY <1>1, <1>4, <2>2, <2>3 DEF IInv, ChangeProfile, PendingSeen, Unlatched
<1> QED BY <1>2, <1>3, <1>4 DEF Commands

LEMMA OutagesKeeps ==
  ASSUME IInv, byWatcher' = FALSE, Outages
  PROVE  IInv'
<1>1. TypeOK /\ TargetsExist /\ PendingSeen /\ Unlatched /\ MaxOutages \in Nat
  BY Counting DEF IInv
<1>2. CASE Sleep
  <2>1. outages' \in 0..MaxOutages
    <3>1. outages \in 0..MaxOutages
      BY <1>1 DEF TypeOK
    <3> QED BY <1>2, <3>1, Counting DEF Sleep
  <2>2. TypeOK'
    BY <1>1, <1>2, <2>1 DEF Sleep, TypeOK
  <2> QED BY <1>1, <1>2, <2>2 DEF IInv, Sleep, TargetsExist, PendingSeen, Unlatched
<1>3. CASE Resume
  <2>1. TypeOK'
    BY <1>1, <1>3 DEF Resume, TypeOK
  <2> QED BY <1>1, <1>3, <2>1 DEF IInv, Resume, TargetsExist, PendingSeen, Unlatched
<1>4. CASE ECAnswers
  <2>1. TypeOK'
    BY <1>1, <1>4 DEF ECAnswers, TypeOK
  <2> QED BY <1>1, <1>4, <2>1 DEF IInv, ECAnswers, TargetsExist, PendingSeen, Unlatched
<1>5. CASE Restart
  <2>1. StartupTarget \in Profiles
    BY <1>1 DEF StartupTarget, Selectable, Profiles, TypeOK
  <2>2. outages' \in 0..MaxOutages /\ nudges' \in 0..NudgeCap
    BY <1>1, <1>5, Counting DEF Restart, TypeOK
  <2>3. profile' \in Profiles
    BY <1>1, <1>5, <2>1 DEF Restart, TypeOK
  <2>4. TypeOK'
    BY <1>1, <1>5, <2>2, <2>3 DEF Restart, TypeOK, Latch
  <2> QED BY <1>1, <1>5, <2>4 DEF IInv, Restart, TargetsExist, PendingSeen, Unlatched, Latch
<1> QED BY <1>2, <1>3, <1>4, <1>5 DEF Outages

LEMMA StutterKeeps ==
  ASSUME IInv, UNCHANGED vars
  PROVE  IInv'
  BY DEF IInv, TypeOK, TargetsExist, PendingSeen, Unlatched, vars, flags

LEMMA Invariance == Spec => []IInv
<1>1. IInv /\ [Next]_vars => IInv'
  BY WatcherKeeps, AdapterChangesKeeps, CommandsKeeps, OutagesKeeps, StutterKeeps DEF Next
<1> QED BY <1>1, Initially, PTL DEF Spec

\* Every variable keeps its type: in particular the nudge channel never
\* overflows, and state.Profile is a profile's name.
THEOREM TypeCorrect == Spec => []TypeOK
<1>1. IInv => TypeOK
  BY DEF IInv
<1> QED BY <1>1, Invariance, PTL

\* deleteRefusalLocked and the check of handleAutoswitch keep autoswitch on
\* profiles that exist, for every order of creations, edits, deletions and
\* configurations.
THEOREM TargetsAlwaysExist == Spec => []TargetsExist
<1>1. IInv => TargetsExist
  BY DEF IInv
<1> QED BY <1>1, Invariance, PTL

-----------------------------------------------------------------------------
(* A change of source is confirmed.                                        *)

\* Only an observation, the first apart, moves the latched source, and only
\* with a change it had pending.
LEMMA LatchMoves ==
  ASSUME IInv, [Next]_vars, latch.known, latch'.known, latch'.onAC # latch.onAC
  PROVE  lastLook = Look(latch'.onAC)
<1>1. TypeOK /\ PendingSeen
  BY DEF IInv
<1>2. Watcher
  <2>1. ~AdapterChanges /\ ~Commands /\ ~Sleep /\ ~Resume /\ ~ECAnswers /\ ~UNCHANGED vars
    BY DEF AdapterChanges, Commands, HandleAutoswitch, HandleProfile, ChangeProfile,
           Sleep, Resume, ECAnswers, vars
  <2>2. ~Restart
    BY DEF Restart, Latch
  <2> QED BY <2>1, <2>2 DEF Next, Outages
<1>3. powerTick
  BY <1>2 DEF Watcher, Poll, Nudged, Observe
<1>4. Settled /\ latch'.onAC = OnAC
  BY <1>1, <1>3, Tick DEF FirstTick
<1>5. latch.pending /\ latch.pendAC = OnAC
  BY <1>4 DEF Settled, Moved, Confirmed
<1> QED BY <1>1, <1>4, <1>5 DEF PendingSeen

\* No change of source is acted on that the observation before did not see as
\* well (powersource.go:25-29), however adapters flap, nudges are lost and
\* sleeps fall in between.
THEOREM ChangesConfirmed == Spec => Confirms
<1>1. IInv /\ [Next]_vars =>
        [latch.known /\ latch'.known /\ latch'.onAC # latch.onAC =>
           lastLook = IF latch'.onAC THEN "ac" ELSE "battery"]_vars
  BY LatchMoves DEF Look
<1> QED BY <1>1, Invariance, PTL DEF Spec, Confirms

-----------------------------------------------------------------------------
(* Every step of the watcher, of its commands and of its outages is one of *)
(* PowerFollow.                                                            *)

Target == [s \in BOOLEAN |-> TargetOf(s)]
Fresh == auto.enabled /\ ~latch.enabled

LEMMA TargetTyped ==
  ASSUME TypeOK
  PROVE  Target \in [BOOLEAN -> Profiles \cup {""}] /\ Selectable \subseteq Profiles
<1>1. \A s \in BOOLEAN : TargetOf(s) \in Profiles \cup {""}
  BY DEF TargetOf, TypeOK
<1> QED BY <1>1 DEF Target, Selectable, Profiles

LEMMA FollowInit == Init => Follow!Init
<1> SUFFICES ASSUME Init PROVE Follow!Init
  OBVIOUS
<1>1. TypeOK
  BY Initially DEF IInv
<1>2. Target \in [BOOLEAN -> Profiles \cup {""}] /\ Selectable \subseteq Profiles
  BY <1>1, TargetTyped
<1>3. latch = Latch /\ latch.onAC = FALSE /\ latch.known = FALSE
  BY DEF Init, Latch
<1> QED BY <1>1, <1>2, <1>3, SourceTyped DEF Follow!Init, Target, Fresh, TypeOK

\* What is chosen and applied by the step's guard, ApplyProfile, is what the
\* abstract watcher selects.
LEMMA SelectIsApply ==
  ASSUME NEW p
  PROVE  Follow!Select(p) <=> ApplyProfile(p)
  BY DEF Follow!Select, ApplyProfile

\* While no setting and no source changes, none of what the mapping makes of
\* them does.
LEMMA SettingsStay ==
  ASSUME UNCHANGED <<online, auto, saved>>
  PROVE  /\ Known' = Known /\ OnAC' = OnAC
         /\ Selectable' = Selectable /\ Target' = Target
  BY DEF Known, OnAC, Selectable, Target, TargetOf

LEMMA FollowObserve ==
  ASSUME IInv, Observe, byWatcher' = TRUE
  PROVE  Follow!Next
<1>1. TypeOK /\ Unlatched
  BY DEF IInv
<1>2. UNCHANGED <<online, auto, saved>>
  BY DEF Observe
<1>3. /\ Known' = Known /\ OnAC' = OnAC
      /\ Selectable' = Selectable /\ Target' = Target
  BY <1>2, SettingsStay
<1>4. Target[OnAC] = TargetOf(OnAC)
  BY SourceTyped DEF Target
<1>5. CASE ~(Known /\ ~StandsDown)
  <2>1. UNCHANGED <<latch, profile>>
    BY <1>5 DEF Observe
  <2>2. Follow!Look
    BY <1>2, <1>3, <2>1 DEF Follow!Look, Follow!source, Follow!settings, Target
  <2> QED BY <2>2 DEF Follow!Next
<1>6. CASE Known /\ ~StandsDown
  <2>1. powerTick /\ ApplyProfile(Choice)
    BY <1>6 DEF Observe
  <2>2. CASE FirstTick
    <3>1. latch = Latch /\ ~latch.known /\ ~latch.enabled
      BY <1>1, <2>2 DEF FirstTick, Unlatched, Latch
    <3>2. latch'.known /\ latch'.onAC = OnAC /\ latch'.enabled = FALSE
      BY <2>2, <3>1 DEF FirstTick, Latch
    <3>3. Choice = ""
      BY <3>1 DEF Choice, Confirmed, JustEnabled
    <3>4. profile' = profile
      BY <2>1, <3>3, NoNameIsNoProfile DEF ApplyProfile
    <3>5. Fresh' = Fresh
      BY <1>2, <3>1, <3>2 DEF Fresh
    <3>6. Follow!FirstLook
      BY <1>3, <1>6, <3>1, <3>2, <3>4, <3>5
         DEF Follow!FirstLook, Follow!source, Follow!settings, Target, Fresh
    <3> QED BY <3>6 DEF Follow!Next
  <2>3. CASE Unconfirmed
    <3>1. latch'.known = latch.known /\ latch'.onAC = latch.onAC /\ latch'.enabled = auto.enabled
      BY <1>1, <2>3 DEF Unconfirmed, TypeOK
    <3>2. Choice = ""
      BY <2>3 DEF Choice, JustEnabled, Unconfirmed
    <3>3. profile' = profile
      BY <2>1, <3>2, NoNameIsNoProfile DEF ApplyProfile
    <3>4. Fresh' = FALSE
      BY <1>2, <3>1 DEF Fresh
    <3>5. Follow!Look
      BY <1>3, <3>1, <3>3, <3>4
         DEF Follow!Look, Follow!source, Follow!settings, Target, Fresh
    <3> QED BY <3>5 DEF Follow!Next
  <2>4. CASE Settled
    <3>1. /\ latch.known = TRUE /\ latch'.known = TRUE
          /\ latch'.onAC = OnAC /\ latch'.enabled = auto.enabled
      BY <1>1, <2>4 DEF Settled, TypeOK
    <3>2. Fresh' = FALSE
      BY <1>2, <3>1 DEF Fresh
    <3>3. CASE Moved
      <4>1. Choice = TargetOf(OnAC)
        BY <2>4, <3>3 DEF Choice, Settled
      <4>2. Follow!Select(Target[OnAC])
        BY <1>4, <2>1, <4>1, SelectIsApply
      <4>3. Follow!Announce
        BY <1>3, <1>6, <3>1, <3>2, <3>3, <4>2
           DEF Follow!Announce, Follow!source, Follow!settings, Target, Fresh, Moved
      <4> QED BY <4>3 DEF Follow!Next
    <3>4. CASE ~Moved /\ JustEnabled
      <4>1. Choice = TargetOf(OnAC) /\ Fresh
        BY <3>4 DEF Choice, JustEnabled, Fresh
      <4>2. Follow!Select(Target[OnAC])
        BY <1>4, <2>1, <4>1, SelectIsApply
      <4>3. Follow!SelectOnEnable
        BY <1>3, <1>6, <3>1, <3>2, <3>4, <4>1, <4>2
           DEF Follow!SelectOnEnable, Follow!source, Follow!settings, Target, Fresh, Moved
      <4> QED BY <4>3 DEF Follow!Next
    <3>5. CASE ~Moved /\ ~JustEnabled
      <4>1. Choice = ""
        BY <3>5 DEF Choice, Confirmed
      <4>2. profile' = profile
        BY <2>1, <4>1, NoNameIsNoProfile DEF ApplyProfile
      <4>3. Follow!Look
        BY <1>3, <3>1, <3>2, <3>5, <4>2
           DEF Follow!Look, Follow!source, Follow!settings, Target, Fresh, Moved
      <4> QED BY <4>3 DEF Follow!Next
    <3> QED BY <3>3, <3>4, <3>5
  <2> QED BY <2>1, <2>2, <2>3, <2>4 DEF powerTick
<1> QED BY <1>5, <1>6

LEMMA FollowAdapters ==
  ASSUME AdapterChanges, byWatcher' = FALSE
  PROVE  Follow!Next
<1>1. UNCHANGED <<latch, auto, saved, profile>>
  BY DEF AdapterChanges
<1>2. Selectable' = Selectable /\ Target' = Target /\ Fresh' = Fresh
  BY <1>1 DEF Selectable, Target, TargetOf, Fresh
<1>3. Known' \in BOOLEAN /\ OnAC' \in BOOLEAN
  BY DEF Known, OnAC
<1>4. Follow!SourceMoves
  BY <1>1, <1>2, <1>3 DEF Follow!SourceMoves, Follow!settings, Target, Fresh
<1> QED BY <1>4 DEF Follow!Next

LEMMA FollowCommands ==
  ASSUME IInv, Commands, byWatcher' = FALSE
  PROVE  Follow!Next
<1>1. TypeOK'
  BY CommandsKeeps DEF IInv
<1>2. Target' \in [BOOLEAN -> Profiles \cup {""}] /\ Selectable' \subseteq Profiles
  <2>1. \A s \in BOOLEAN : TargetOf(s)' \in Profiles \cup {""}
    BY <1>1 DEF TargetOf, TypeOK
  <2> QED BY <2>1 DEF Target, Selectable, Profiles
<1>3. UNCHANGED <<online, latch>>
  BY DEF Commands, HandleAutoswitch, HandleProfile, ChangeProfile
<1>4. Known' = Known /\ OnAC' = OnAC
  BY <1>3 DEF Known, OnAC
<1>5. profile' \in Profiles /\ Fresh' \in BOOLEAN
  BY <1>1 DEF TypeOK, Fresh
<1>6. Follow!Command
  BY <1>2, <1>3, <1>4, <1>5 DEF Follow!Command, Follow!source, Target, Fresh
<1> QED BY <1>6 DEF Follow!Next

LEMMA FollowOutages ==
  ASSUME IInv, Outages, byWatcher' = FALSE
  PROVE  Follow!Next
<1>1. UNCHANGED <<online, auto, saved>>
  BY DEF Outages, Sleep, Resume, ECAnswers, Restart
<1>2. /\ Known' = Known /\ OnAC' = OnAC
      /\ Selectable' = Selectable /\ Target' = Target
  BY <1>1, SettingsStay
<1>3. CASE Sleep \/ Resume \/ ECAnswers
  <2>1. UNCHANGED <<latch, profile>>
    BY <1>3 DEF Sleep, Resume, ECAnswers
  <2>2. Fresh' = Fresh
    BY <1>1, <2>1 DEF Fresh
  <2>3. Follow!SourceMoves
    BY <1>2, <2>1, <2>2, SourceTyped DEF Follow!SourceMoves, Follow!settings, Target, Fresh
  <2> QED BY <2>3 DEF Follow!Next
<1>4. CASE Restart
  <2>1. TypeOK' /\ latch' = Latch
    BY <1>4, OutagesKeeps DEF IInv, Restart
  <2>2. latch'.known = FALSE /\ latch'.onAC \in BOOLEAN /\ Fresh' \in BOOLEAN
    BY <2>1 DEF Latch, TypeOK, Fresh
  <2>3. Target[OnAC] = TargetOf(OnAC)
    BY SourceTyped DEF Target
  <2>4. UNCHANGED profile \/ (Known /\ Follow!Select(Target[OnAC]))
    BY <1>4, <2>3, NoNameIsNoProfile DEF Restart, StartupTarget, Follow!Select
  <2>5. Follow!Restart
    BY <1>2, <2>2, <2>4
       DEF Follow!Restart, Follow!source, Follow!settings, Target, Fresh
  <2> QED BY <2>5 DEF Follow!Next
<1> QED BY <1>3, <1>4 DEF Outages

LEMMA FollowStutter ==
  ASSUME UNCHANGED vars
  PROVE  UNCHANGED Follow!vars
  BY DEF vars, flags, Follow!vars, Known, OnAC, TargetOf, Selectable

\* powerTick, the commands and a restart do what PowerFollow allows and no
\* more: a confirmed change is announced and its profile selected in one and
\* the same step, and the watcher selects a profile at no other time, but
\* once when autoswitch was enabled (powersource.go:140-174, 223-251).  That
\* every lasting change is announced in the end is the fairness part of
\* FollowsTheSource.
THEOREM StepsFollow == Spec => Follow!Init /\ [][Follow!Next]_(Follow!vars)
<1>1. IInv /\ [Next]_vars => [Follow!Next]_(Follow!vars)
  <2> SUFFICES ASSUME IInv, [Next]_vars PROVE Follow!Next \/ UNCHANGED Follow!vars
    OBVIOUS
  <2>1. CASE Watcher
    BY <2>1, FollowObserve DEF Watcher, Poll, Nudged
  <2>2. CASE byWatcher' = FALSE /\ (AdapterChanges \/ Commands \/ Outages)
    BY <2>2, FollowAdapters, FollowCommands, FollowOutages
  <2>3. CASE UNCHANGED vars
    BY <2>3, FollowStutter
  <2> QED BY <2>1, <2>2, <2>3 DEF Next
<1> QED BY <1>1, FollowInit, Invariance, PTL DEF Spec

=============================================================================
