--------------------------- MODULE ThermalControl ---------------------------
(***************************************************************************)
(* How the daemon (internal/daemon) keeps three things of one machine      *)
(* consistent: the sustained power limit (PL1), the two fan curves and the *)
(* selected profile.  Every operation that writes them holds hwMu from its *)
(* first read to its last write, so at most one is under way: todo is the  *)
(* rest of it, a sequence of calls, each the sequence of its writes and    *)
(* readbacks.  Between two of those steps the rest of the machine moves:   *)
(* another program writes platform_profile or a power limit, a kernel      *)
(* notification is delivered, the daemon or the machine restarts.          *)
(*                                                                         *)
(* A write of platform_profile, or of pwm_enable=2, even one that changes  *)
(* nothing, makes the firmware re-apply the profile's own power limit and  *)
(* drop both custom curves, while the ppt_* attribute keeps showing what   *)
(* was last written to it: cache is that attribute, inForce the limit the  *)
(* hardware really holds, which nothing can read.                          *)
(***************************************************************************)
EXTENDS FanFloor, Sequences

CONSTANTS
  Names,          \* custom profile names, "custom" among them
  StockProfiles,  \* firmware profile names, "balanced" among them
  Firmware,       \* the PL1 each firmware profile carries, also its row's PL1
  FactoryCurve,   \* what the curve registers hold at power-on
  UserCurves,     \* curves a user asks for
  Watts,          \* limits a user asks for
  OutsideLimits,  \* limits another program writes
  AutoTargets,    \* what autoswitch may select at startup
  WriteFaults,    \* TRUE when a hardware or state-file write may fail
  TornAt,         \* registers of a fan written when a curve write ends there
  Restarts,       \* TRUE when the daemon or the machine may restart
  ZeroPL1         \* TRUE when a request may carry pl1 = "0" (meaning "not set")

ASSUME ProfileAssumption ==
  /\ "custom" \in Names
  /\ "balanced" \in StockProfiles
  /\ Names \cap StockProfiles = {}
  /\ "" \notin Names \cup StockProfiles
  /\ AutoTargets \subseteq Names \cup StockProfiles

ASSUME PowerAssumption ==
  /\ Firmware \in [StockProfiles -> 1..TDPMaxSafe]
  /\ Watts \subseteq TDPMin..TDPMaxForced
  /\ OutsideLimits \subseteq 1..TDPMaxSafe

ASSUME CurveAssumption ==
  /\ FactoryCurve \in FanCurve
  /\ UserCurves \subseteq FanCurve
  /\ TornAt \subseteq 0..15

ASSUME SwitchAssumption == {WriteFaults, Restarts, ZeroPL1} \subseteq BOOLEAN

VARIABLES
  platform,       \* platform_profile
  fan,            \* the two channels: pwm_enable and the curve points
  cache,          \* the PL1 attribute: what was last written
  inForce,        \* the PL1 the firmware enforces
  pending,        \* a policy write the watcher has not been told of yet
  active,         \* state.Profile
  saved,          \* state.CustomProfiles: curve and limit, 0 for no limit
  disk,           \* the state file
  todo,           \* the calls the operation holding hwMu still has to make
  floorLimit,     \* reconcileOnce's limit now in force; 0 outside its curve arm
  lastHW,         \* reconcileState.lastHW
  policyWritten,  \* Daemon.policyWritten
  watching        \* the watchers run; FALSE during the startup restore

hardware == <<platform, fan, cache, inForce, pending>>
memory   == <<active, saved>>
latches  == <<floorLimit, lastHW, policyWritten, watching>>
vars     == <<hardware, memory, disk, todo, latches>>

NoName == ""
Profiles == Names \cup StockProfiles
MaybeProfile == Profiles \cup {NoName}
MaybeCurve == FanCurve \cup {NoCurve}
Registers == [Index -> Point]
Limit == 0..TDPMaxForced
Fan == {1, 2}
Settings == [curve : MaybeCurve, tdp : Limit]
Memory == [active : MaybeProfile, saved : [Names -> Settings]]

Step == [do : {"curve", "verify", "limit", "guard", "release", "profile",
               "restore", "reconcile", "commit", "save"},
         curve : MaybeCurve, watts : Limit, name : MaybeProfile,
         active : MaybeProfile, must : BOOLEAN]

TypeOK ==
  /\ platform \in StockProfiles
  /\ fan \in [Fan -> [mode : {1, 2}, curve : Registers]]
  /\ cache \in Limit
  /\ inForce \in Limit
  /\ pending \in BOOLEAN
  /\ active \in MaybeProfile
  /\ saved \in [Names -> Settings]
  /\ disk \in Memory
  /\ todo \in Seq(Seq(Step))
  /\ floorLimit \in Limit
  /\ lastHW \in StockProfiles \cup {NoName}
  /\ policyWritten \in BOOLEAN
  /\ watching \in BOOLEAN

-----------------------------------------------------------------------------
(* The calls of internal/cli, as the steps they take.  A failed step ends  *)
(* its call; when it must succeed, the handler returns the error.          *)

Do(what) == [do |-> what, curve |-> NoCurve, watts |-> 0, name |-> NoName,
             active |-> NoName, must |-> FALSE]

CurveStep(c, must) == [Do("curve") EXCEPT !.curve = c, !.must = must]
VerifyStep(must) == [Do("verify") EXCEPT !.must = must]
LimitStep(w, must) == [Do("limit") EXCEPT !.watts = w, !.must = must]
ReleaseStep(keep, must) == [Do("release") EXCEPT !.watts = keep, !.must = must]

SetBothFanCurves(c, must) == << CurveStep(c, must), VerifyStep(must) >>

SetTDPState(w, must) == << LimitStep(w, must) >>

\* A defect the checks must catch: power is raised before the fans.
LimitBeforeFloor(w, want, must) ==
  LET c == FanCurveForTDP(w, want)
  IN  IF c = NoCurve
      THEN << LimitStep(w, must) >>
      ELSE << LimitStep(w, must), CurveStep(c, must), VerifyStep(must) >>

\* The floor first, then the limit.
ApplyTDPSafely(w, want, must) ==
  LET c == FanCurveForTDP(w, want)
  IN  IF c = NoCurve
      THEN << LimitStep(w, must) >>
      ELSE << CurveStep(c, must), VerifyStep(must), LimitStep(w, must) >>

\* Firmware auto, then the limit to keep; 0 is nil, the firmware's own.
ReleaseFans(keep, must) ==
  IF keep = 0
  THEN << ReleaseStep(keep, must) >>
  ELSE << ReleaseStep(keep, must), LimitStep(keep, must) >>

\* A defect the checks must catch: the fans are released unconditionally.
UnguardedRelease(keep) == ReleaseFans(keep, FALSE)

\* CheckFanFloorRelease against the cached limit, then ReleaseFans.
GuardedRelease(keep) ==
  IF keep = 0
  THEN << Do("guard"), ReleaseStep(keep, FALSE) >>
  ELSE << Do("guard"), ReleaseStep(keep, FALSE), LimitStep(keep, FALSE) >>

\* The row first, the release last; a failed row does not skip the release.
HandBackToFirmware(p) ==
  << SetTDPState(Firmware[p], FALSE), GuardedRelease(0) >>

SetProfile(p, must) == << [Do("profile") EXCEPT !.name = p, !.must = must] >>

Restore(p) == << [Do("restore") EXCEPT !.name = p] >>

\* commitEditLocked: name's settings, and the profile then active (NoName
\* leaves that alone), persisted by saveAndNotify.
CommitAndSave(name, curve, tdp, act) ==
  << << [Do("commit") EXCEPT !.name = name, !.curve = curve,
                             !.watts = tdp, !.active = act] >>,
     <<Do("save")>> >>

-----------------------------------------------------------------------------
(* The steps of the operation under way.                                   *)

Now == Head(Head(todo))

\* The step succeeded: the rest of its call, then the other calls.
Done == todo' = IF Len(Head(todo)) > 1
                THEN <<Tail(Head(todo))>> \o Tail(todo)
                ELSE Tail(todo)

\* The step failed: the operation returns the error, or logs it and goes on.
Failed == todo' = IF Now.must THEN <<>> ELSE Tail(todo)

Doing(what) == todo # <<>> /\ Now.do = what

\* What a write of platform_profile or of pwm_enable=2 does to the machine.
FirmwareTakesOver(p) ==
  /\ platform' = p
  /\ inForce' = Firmware[p]
  /\ fan' = [i \in Fan |-> [fan[i] EXCEPT !.mode = 2]]
  /\ pending' = watching
  /\ UNCHANGED cache

\* Points to both fans, then pwm_enable=1 on both.
WriteCurve ==
  /\ Doing("curve")
  /\ fan' = [i \in Fan |-> [mode |-> 1, curve |-> Now.curve]]
  /\ Done
  /\ UNCHANGED <<platform, cache, inForce, pending, memory, disk, latches>>

\* A fan's registers after n of its writes, point by point, temperature first:
\* the points of one curve, those of another, and between them a point with the
\* temperature of the one and the PWM of the other.
TornCurve(old, new, n) ==
  [j \in Index |-> [temp |-> IF 2 * j <= n + 1 THEN new[j].temp ELSE old[j].temp,
                    pwm  |-> IF 2 * j <= n THEN new[j].pwm ELSE old[j].pwm]]

\* A write that ends among the points of fan f, or at enabling it: the fans
\* before it have the points, or are enabled.
PartOfCurve ==
  \/ \E f \in Fan, n \in TornAt :
       fan' = [i \in Fan |->
                 [mode  |-> fan[i].mode,
                  curve |-> IF i < f THEN Now.curve
                            ELSE IF i = f THEN TornCurve(fan[i].curve, Now.curve, n)
                            ELSE fan[i].curve]]
  \/ \E f \in Fan :
       fan' = [i \in Fan |-> [mode  |-> IF i < f THEN 1 ELSE fan[i].mode,
                             curve |-> Now.curve]]

WriteCurveFails ==
  /\ WriteFaults
  /\ Doing("curve")
  /\ PartOfCurve
  /\ Failed
  /\ UNCHANGED <<platform, cache, inForce, pending, memory, disk, latches>>

\* A defect the checks must catch: the curve is taken as live unread.
AssumeCurveActive ==
  /\ Doing("verify")
  /\ Done
  /\ UNCHANGED <<hardware, memory, disk, latches>>

VerifyFanCurveActive ==
  /\ Doing("verify")
  /\ IF \A i \in Fan : fan[i].mode = 1 THEN Done ELSE Failed
  /\ UNCHANGED <<hardware, memory, disk, latches>>

WriteLimit ==
  /\ Doing("limit")
  /\ cache' = Now.watts
  /\ inForce' = Now.watts
  /\ Done
  /\ floorLimit' = IF floorLimit = 0 THEN 0 ELSE Now.watts
  /\ UNCHANGED <<platform, fan, pending, memory, disk, lastHW, policyWritten, watching>>

\* SetTDPState stops at the first limit it cannot write: PL1 may be through.
WriteLimitFails ==
  /\ WriteFaults
  /\ Doing("limit")
  /\ \/ cache' = Now.watts /\ inForce' = Now.watts
     \/ UNCHANGED <<cache, inForce>>
  /\ Failed
  /\ UNCHANGED <<platform, fan, pending, memory, disk, latches>>

CheckFanFloorRelease ==
  /\ Doing("guard")
  /\ IF CheckFanFloorReleaseAt(cache) THEN Done ELSE Failed
  /\ UNCHANGED <<hardware, memory, disk, latches>>

RefuseRelease ==
  /\ Doing("release")
  /\ Now.watts > TDPMaxSafe
  /\ Failed
  /\ UNCHANGED <<hardware, memory, disk, latches>>

Release ==
  /\ Doing("release")
  /\ Now.watts <= TDPMaxSafe
  /\ FirmwareTakesOver(platform)
  /\ Done
  /\ UNCHANGED <<memory, disk, latches>>

\* pwm_enable=2 failed on the first fan, or on the second one only.
ReleaseFails ==
  /\ WriteFaults
  /\ Doing("release")
  /\ Now.watts <= TDPMaxSafe
  /\ \/ FirmwareTakesOver(platform)
     \/ UNCHANGED hardware
  /\ Failed
  /\ UNCHANGED <<memory, disk, latches>>

WriteProfile ==
  /\ Doing("profile")
  /\ FirmwareTakesOver(Now.name)
  /\ Done
  /\ UNCHANGED <<memory, disk, latches>>

WriteProfileFails ==
  /\ WriteFaults
  /\ Doing("profile")
  /\ Failed
  /\ UNCHANGED <<hardware, memory, disk, latches>>

\* A defect the checks must catch: a curve in force is left alone, and so is
\* the limit that came with it.
RestoreFansOnly ==
  /\ Doing("restore")
  /\ todo' = (IF \A i \in Fan : fan[i].mode = 2
              THEN HandBackToFirmware(Now.name) ELSE <<>>) \o Tail(todo)
  /\ UNCHANGED <<hardware, memory, disk, latches>>

\* Startup on a firmware profile: the fans are released only when they are
\* already on auto; a curve in force may be another tool's, so then only the
\* row is written.
ChooseRestore ==
  /\ Doing("restore")
  /\ todo' = (IF \A i \in Fan : fan[i].mode = 2
              THEN HandBackToFirmware(Now.name)
              ELSE << SetTDPState(Firmware[Now.name], FALSE) >>) \o Tail(todo)
  /\ UNCHANGED <<hardware, memory, disk, latches>>

\* The reconcile watcher's curve arm, for the limit now in force.
ReconcileCurve ==
  /\ Doing("reconcile")
  /\ LET c == ReconcileCurveFor(floorLimit, Now.curve)
     IN  todo' = (IF c = NoCurve THEN <<>> ELSE << SetBothFanCurves(c, FALSE) >>)
                   \o Tail(todo)
  /\ floorLimit' = 0
  /\ UNCHANGED <<hardware, memory, disk, lastHW, policyWritten, watching>>

Commit ==
  /\ Doing("commit")
  /\ saved' = [n \in Names |-> IF n = Now.name
                               THEN [curve |-> Now.curve, tdp |-> Now.watts]
                               ELSE saved[n]]
  /\ active' = IF Now.active = NoName THEN active ELSE Now.active
  /\ Done
  /\ UNCHANGED <<hardware, disk, latches>>

StateInMemory == [active |-> active, saved |-> saved]

Save ==
  /\ Doing("save")
  /\ disk' = StateInMemory
  /\ Done
  /\ UNCHANGED <<hardware, memory, latches>>

SaveFails ==
  /\ WriteFaults
  /\ Doing("save")
  /\ Done
  /\ UNCHANGED <<hardware, memory, disk, latches>>

HardwareStep ==
  \/ WriteCurve
  \/ WriteCurveFails
  \/ VerifyFanCurveActive
  \/ WriteLimit
  \/ WriteLimitFails
  \/ CheckFanFloorRelease
  \/ RefuseRelease
  \/ Release
  \/ ReleaseFails
  \/ WriteProfile
  \/ WriteProfileFails

StateStep ==
  \/ ChooseRestore
  \/ ReconcileCurve
  \/ Commit
  \/ Save
  \/ SaveFails

-----------------------------------------------------------------------------
(* The operations that take hwMu.  A handler that refuses changes nothing. *)

Idle == todo = <<>>

\* resolveEditTargetLocked: a bare edit means the active custom profile, or
\* "custom", created and activated, when a firmware profile is active.
Target(n) == IF n # NoName THEN n ELSE IF active \in Names THEN active ELSE "custom"
Live(n) == n = NoName \/ n = active
Implicit(n) == n = NoName /\ active \notin Names

FloorLimitFor(n) == IF Live(n) THEN cache ELSE saved[n].tdp

Nothing == [curve |-> NoCurve, tdp |-> 0]

\* A defect the checks must catch: the limit and its floor come first, and the
\* profile's own curve, floor or not, last.
CurveAfterLimit(settings, current) ==
  LET c == settings.curve
      w == settings.tdp
  IN  (IF w = 0 THEN HandBackToFirmware(current) ELSE << ApplyTDPSafely(w, c, FALSE) >>)
      \o (IF c = NoCurve THEN <<>> ELSE << SetBothFanCurves(c, FALSE) >>)
      \o << <<Do("save")>> >>

\* applyCustomHW, with platform_profile read as current: what the profile does
\* not set is cleared; its curve goes on before its limit.  ReleaseFans refuses
\* a high limit, so the call for a curveless profile is listed only when it can
\* do something.
ApplyCustomHW(settings, current) ==
  LET c == settings.curve
      w == settings.tdp
  IN  (IF w = 0 THEN HandBackToFirmware(current) ELSE <<>>)
      \o (IF c = NoCurve THEN <<>> ELSE << SetBothFanCurves(c, FALSE) >>)
      \o (IF w = 0 THEN <<>> ELSE << ApplyTDPSafely(w, c, FALSE) >>)
      \o (IF w # 0 /\ c = NoCurve /\ w <= TDPMaxSafe
          THEN << GuardedRelease(w) >> ELSE <<>>)
      \o << <<Do("save")>> >>

SelectStock(p) ==
  /\ Idle /\ watching
  /\ todo' = << SetProfile(p, TRUE) >> \o HandBackToFirmware(p)
              \o CommitAndSave(NoName, NoCurve, 0, p)
  /\ UNCHANGED <<hardware, memory, disk, latches>>

\* The profile is active before its settings are applied.
SelectCustom(n) ==
  /\ Idle /\ watching
  /\ saved[n] # Nothing
  /\ active' = n
  /\ todo' = ApplyCustomHW(saved[n], platform)
  /\ UNCHANGED <<hardware, saved, disk, latches>>

\* A defect the checks must catch: the curve is not held to the floor.
SetAnyFanCurve(n, points) ==
  /\ Idle /\ watching
  /\ todo' = (IF Live(n) THEN << SetBothFanCurves(points, TRUE) >> ELSE <<>>)
              \o CommitAndSave(Target(n), points, saved[Target(n)].tdp,
                               IF Live(n) THEN Target(n) ELSE NoName)
  /\ UNCHANGED <<hardware, memory, disk, latches>>

SetFanCurve(n, points) ==
  /\ Idle /\ watching
  /\ CheckCurveAgainstTDP(points, FloorLimitFor(n))
  /\ todo' = (IF Live(n) THEN << SetBothFanCurves(points, TRUE) >> ELSE <<>>)
              \o CommitAndSave(Target(n), points, saved[Target(n)].tdp,
                               IF Live(n) THEN Target(n) ELSE NoName)
  /\ UNCHANGED <<hardware, memory, disk, latches>>

\* A bare reset on a firmware profile releases the fans and edits nothing.
ResetFanCurve(n) ==
  /\ Idle /\ watching
  /\ CheckFanFloorReleaseAt(FloorLimitFor(n))
  /\ LET keep == IF Implicit(n) THEN 0 ELSE saved[Target(n)].tdp
     IN  todo' = (IF Live(n) THEN << ReleaseFans(keep, TRUE) >> ELSE <<>>)
                 \o (IF Implicit(n) THEN <<>>
                     ELSE CommitAndSave(Target(n), NoCurve, saved[Target(n)].tdp,
                                        IF Live(n) THEN Target(n) ELSE NoName))
  /\ UNCHANGED <<hardware, memory, disk, latches>>

\* pl1 is the request's own pl1, which handleTDP goes on using after
\* ResolveTDP has read "0" as "not set".
SetTDP(n, w, pl1) ==
  /\ Idle /\ watching
  /\ LET c == saved[Target(n)].curve
     IN  /\ (~Live(n) /\ c # NoCurve) => CheckCurveAgainstTDP(c, pl1)
         /\ todo' = (IF Live(n) THEN << ApplyTDPSafely(w, c, TRUE) >> ELSE <<>>)
                     \o CommitAndSave(Target(n), c, w,
                                      IF Live(n) THEN Target(n) ELSE NoName)
                     \o (IF Live(n) /\ pl1 <= TDPMaxSafe
                         THEN << IF c = NoCurve THEN ReleaseFans(w, FALSE)
                                 ELSE SetBothFanCurves(c, FALSE) >>
                         ELSE <<>>)
  /\ UNCHANGED <<hardware, memory, disk, latches>>

\* On the live profile this lands on balanced.
ResetTDP(n) ==
  /\ Idle /\ watching
  /\ todo' = IF Live(n)
             THEN << SetProfile("balanced", TRUE) >>
                  \o HandBackToFirmware("balanced")
                  \o CommitAndSave(IF Implicit(n) THEN NoName ELSE Target(n),
                                   NoCurve, 0, "balanced")
             ELSE CommitAndSave(n, saved[n].curve, 0, NoName)
  /\ UNCHANGED <<hardware, memory, disk, latches>>

UserOperation ==
  \/ \E p \in StockProfiles : SelectStock(p)
  \/ \E n \in Names : SelectCustom(n)
  \/ \E n \in Names \cup {NoName} :
       \/ \E points \in UserCurves : SetFanCurve(n, points)
       \/ ResetFanCurve(n)
       \/ \E w \in Watts : \E pl1 \in {w} \cup (IF ZeroPL1 THEN {0} ELSE {}) :
            SetTDP(n, w, pl1)
       \/ ResetTDP(n)

-----------------------------------------------------------------------------
(* The watchers.                                                           *)

\* The part of reconcileTick that decides the curve arm: the CPU fan is off
\* its curve, and the profile or the limit wants one.
CurveDropped(want) ==
  fan[1].mode = 2 /\ (want # NoCurve \/ FanCurveForTDP(cache, want) # NoCurve)

ProfileChanged == lastHW # NoName /\ platform # lastHW

\* A defect the checks must catch: only what the attribute shows counts as drift.
LimitDrifted(settings) == settings.tdp # 0 /\ cache # settings.tdp

\* A defect the checks must catch: the kernel's own report is not consulted.
LimitLostUnreported(settings) ==
  /\ settings.tdp # 0
  /\ \/ cache # settings.tdp
     \/ CurveDropped(settings.curve)
     \/ ProfileChanged

LimitLost(settings) ==
  /\ settings.tdp # 0
  /\ \/ cache # settings.tdp
     \/ policyWritten
     \/ CurveDropped(settings.curve)
     \/ ProfileChanged

\* One reconcileOnce: observe, decide, and apply the limit before the curve.
ReconcileTick ==
  /\ Idle /\ watching
  /\ lastHW' = platform
  /\ policyWritten' = FALSE
  /\ IF active \in Names
     THEN LET s == saved[active]
              dropped == CurveDropped(s.curve)
          IN  /\ todo' = (IF LimitLost(s)
                          THEN << ApplyTDPSafely(s.tdp, s.curve, FALSE) >> ELSE <<>>)
                         \o (IF dropped
                             THEN << << [Do("reconcile") EXCEPT !.curve = s.curve] >> >>
                             ELSE <<>>)
              /\ floorLimit' = IF dropped THEN cache ELSE 0
     ELSE UNCHANGED <<todo, floorLimit>>
  /\ UNCHANGED <<hardware, memory, disk, watching>>

\* watchPolicyWrites: the kernel reports a policy write.
Notify ==
  /\ pending
  /\ pending' = FALSE
  /\ policyWritten' = TRUE
  /\ UNCHANGED <<platform, fan, cache, inForce, memory, disk, todo,
                 floorLimit, lastHW, watching>>

\* Run: the startup restore is over and the watchers start.
StartWatchers ==
  /\ Idle /\ ~watching
  /\ watching' = TRUE
  /\ UNCHANGED <<hardware, memory, disk, todo, floorLimit, lastHW, policyWritten>>

-----------------------------------------------------------------------------
(* The rest of the machine.                                                *)

\* power-profiles-daemon, Fn+F5, asusctl; the profile may stay the same.
OutsidePolicy(p) ==
  /\ FirmwareTakesOver(p)
  /\ UNCHANGED <<memory, disk, todo, latches>>

OutsideLimit(w) ==
  /\ cache' = w
  /\ inForce' = w
  /\ UNCHANGED <<platform, fan, pending, memory, disk, todo, latches>>

\* A handler that holds d.mu but not hwMu (lighting) saves the whole state.
\* Only a restart reads it back.
OtherSave ==
  /\ Restarts
  /\ disk' = StateInMemory
  /\ UNCHANGED <<hardware, memory, todo, latches>>

\* autoswitchTarget: a configured target, unless it is active, or empty.
AutoswitchTarget(st, target) ==
  /\ target # st.active
  /\ target \in AutoTargets
  /\ target \in Names => st.saved[target] # Nothing

\* restoreHardwareAtStartup from the state file; the watchers do not run yet.
StartDaemon(target) ==
  LET switched == AutoswitchTarget(disk, target)
      leftCustom == switched /\ disk.active \in Names /\ target \in StockProfiles
      act == IF switched THEN target ELSE disk.active
  IN  /\ active' = act
      /\ saved' = disk.saved
      /\ floorLimit' = 0 /\ lastHW' = NoName
      /\ policyWritten' = FALSE /\ watching' = FALSE
      /\ todo' =
           IF act \in StockProfiles
           THEN (IF platform' # act THEN << SetProfile(act, FALSE) >> ELSE <<>>)
                \o (IF leftCustom THEN HandBackToFirmware(act) ELSE << Restore(act) >>)
                \o (IF switched THEN << <<Do("save")>> >> ELSE <<>>)
           ELSE IF act \in Names /\ disk.saved[act] # Nothing
                THEN ApplyCustomHW(disk.saved[act], platform')
                ELSE <<>>
      /\ UNCHANGED disk

\* The daemon dies, between any two steps or among the registers of a curve,
\* and is started again.
RestartDaemon ==
  /\ Restarts
  /\ pending' = FALSE
  /\ UNCHANGED fan \/ (Doing("curve") /\ PartOfCurve)
  /\ UNCHANGED <<platform, cache, inForce>>
  /\ \E target \in AutoTargets \cup {NoName} : StartDaemon(target)

\* The machine boots: 5 W in the attribute, the firmware's own limit in force.
Reboot ==
  /\ Restarts
  /\ platform' \in StockProfiles
  /\ fan' = [i \in Fan |-> [mode |-> 2, curve |-> FactoryCurve]]
  /\ cache' = TDPMin
  /\ inForce' = Firmware[platform']
  /\ pending' = FALSE
  /\ \E target \in AutoTargets \cup {NoName} : StartDaemon(target)

Environment ==
  \/ \E p \in StockProfiles : OutsidePolicy(p)
  \/ \E w \in OutsideLimits : OutsideLimit(w)
  \/ OtherSave
  \/ RestartDaemon
  \/ Reboot

-----------------------------------------------------------------------------
\* The first start: no state file, so nothing to restore.
Init ==
  /\ platform \in StockProfiles
  /\ fan = [i \in Fan |-> [mode |-> 2, curve |-> FactoryCurve]]
  /\ cache = TDPMin
  /\ inForce = Firmware[platform]
  /\ pending = FALSE
  /\ active = NoName
  /\ saved = [n \in Names |-> Nothing]
  /\ disk = StateInMemory
  /\ todo = <<>>
  /\ floorLimit = 0
  /\ lastHW = NoName
  /\ policyWritten = FALSE
  /\ watching = FALSE

Daemon == HardwareStep \/ StateStep \/ ReconcileTick \/ Notify \/ StartWatchers

Next == Daemon \/ UserOperation \/ Environment

\* The daemon's goroutines are scheduled; nobody owes it a request.
Fairness ==
  /\ WF_vars(HardwareStep \/ StateStep)
  /\ WF_vars(ReconcileTick)
  /\ WF_vars(Notify)
  /\ WF_vars(StartWatchers)

Spec == Init /\ [][Next]_vars /\ Fairness

-----------------------------------------------------------------------------
(* Properties.                                                             *)

\* The sustained limit is raised above TDPMaxSafe only with both fans' points
\* at or above the floor, and enabled - unless the kernel has dropped them
\* since they were verified, which it reports to the watcher
\* (ApplyTDPSafely: "If that fan write fails, the TDP is NOT applied").
RaiseOnlyOverFloor ==
  [][(inForce' > inForce /\ inForce' > TDPMaxSafe) =>
       \A i \in Fan : /\ MeetsFloor(fan[i].curve)
                      /\ fan[i].mode = 1 \/ pending \/ policyWritten \/ ~watching]_vars

\* The daemon never gives the fans back to the firmware while a limit that
\* needs the floor is in force (CheckFanFloorRelease reads a cache that the
\* firmware does not keep up to date).
ReleaseBelowSafe ==
  [][(Release \/ ReleaseFails) => inForce <= TDPMaxSafe]_vars

\* Between operations a high limit always has its floor: points at or above
\* it on both fans, whatever profile switches, edits and outside writes led
\* there (docs/daemon.md: "While PL1 is above 75 W, both fans are held ...").
HighLimitFloored ==
  (Idle /\ inForce > TDPMaxSafe) => \A i \in Fan : MeetsFloor(fan[i].curve)

\* Between operations a custom profile with settings of its own never runs on
\* a high limit without its floor, also when the daemon was killed between any
\* two steps of the operation before, or the machine booted: what the restart
\* found half done, the startup restore finishes (profile.go applyCustomHW).
\* A restart that finds nothing to restore leaves a high limit as it stands.
SettingsFloored ==
  (Idle /\ inForce > TDPMaxSafe /\ active \in Names /\ saved[active] # Nothing)
    => \A i \in Fan : MeetsFloor(fan[i].curve)

\* Between operations a firmware profile never runs on a custom profile's
\* high limit, across restarts and autoswitch at startup too.
StockLimitSafe == (Idle /\ active \in StockProfiles) => inForce <= TDPMaxSafe

\* Writes may fail, and then a firmware profile may be left on a custom
\* profile's high limit (SetTDPState stops at the first limit it cannot write,
\* handleTDP returns), and on a curve of which only some registers were written
\* (SetBothFanCurves) - but between operations never with a point below the
\* floor's minimum, HighTDPMinPWM.
StockHeld ==
  (Idle /\ active \in StockProfiles /\ inForce > TDPMaxSafe) =>
    \A i \in Fan, j \in Index : fan[i].curve[j].pwm >= HighTDPMinPWM

\* What the next reconcile tick can see of a lost limit.
Evidence ==
  pending \/ policyWritten \/ ProfileChanged
    \/ cache # saved[active].tdp \/ CurveDropped(saved[active].curve)

\* Between operations, when the limit in force is not the active profile's,
\* something still says so to the reconcile watcher: a lost limit is never
\* forgotten (reconcile.go, issue #22).
LimitDefended ==
  (Idle /\ active \in Names) =>
    \/ saved[active].tdp \in {0, inForce}
    \/ Evidence

\* The custom profile's limit is in force, and its fans run a curve when the
\* profile or the limit wants one, over the floor when the limit needs it.
Defended ==
  (Idle /\ active \in Names) =>
    LET s == saved[active] IN
    /\ s.tdp \in {0, inForce}
    /\ ReconcileCurveFor(cache, s.curve) # NoCurve => \A i \in Fan : fan[i].mode = 1
    /\ inForce > TDPMaxSafe => \A i \in Fan : MeetsFloor(fan[i].curve)

\* Once users and other programs leave the machine alone, the watcher brings
\* it to what the active profile asks for, and it stays there.
Defends == []<><<UserOperation \/ Environment>>_vars \/ <>[]Defended

=============================================================================
