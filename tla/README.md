# A verification of the z13ctl daemon

z13ctl controls a laptop whose fans, power limits and profile are written by
the daemon, by the firmware and by other programs at the same time, and where
the attribute that shows the power limit does not say what the hardware holds.
This directory models the daemon's control logic in TLA+, checks it with TLC on
small instances, and proves its safety properties with TLAPS for all of them:
the ones it cannot prove are named in section 4.

All references are to the Go source: `tdp.go:262` is line 262 of
`internal/cli/tdp.go`; `daemon/` is `internal/daemon/`, `cli/` is `internal/cli/`.

## 1. The system

| Part | State it keeps | Operations | What makes it correct |
|---|---|---|---|
| Fan floor rule (`cli/tdp.go`, `cli/fan.go`) | none | `FanCurveForTDP`, `FloorPWMAt`, `CheckCurveAgainstTDP`, `CheckFanFloorReleaseAt`, `reconcileCurveFor` | above 75 W sustained, fans never below a ramp that depends on temperature; nothing is ever lowered |
| Hardware writes (`cli/fan.go`, `cli/tdp.go`, `cli/ppt.go`, `cli/sysfs.go`) | two fan channels, five power limits, `platform_profile` | `SetBothFanCurves`, `SetTDPState`, `ApplyTDPSafely`, `ReleaseFans`, `HandBackToFirmware`, `SetProfile` | floor before limit, limit down before release, limit again after a release |
| Profiles and edits (`daemon/profile.go`, `daemon/server.go`) | `state.Profile`, `CustomProfiles` | select, `fancurve`, `tdp`, their resets, create, save, delete | a stored profile is safe to activate; the profile described is the one in the hardware |
| Reconcile watcher (`daemon/reconcile.go`, `daemon/policywatch.go`) | `reconcileState`, `policyWritten` | `reconcileOnce` every 2 s, `watchPolicyWrites` on each kernel notification | a lost limit or curve is restored, and nothing is restored during a sleep or a wedge |
| Startup (`daemon/daemon.go`) | none of its own | `restoreHardwareAtStartup` | half-finished work of a dead daemon ends in a safe state |
| Sleep and resume (`daemon/resume.go`) | `suspending`, `suspendGen`, inhibitor, pending restore | `releaseVolatileState`, `restoreVolatileState`, `sleepCycle` | fans released before each freeze, restored after each wake, never the other way round |
| EC wedge guard (`daemon/resume.go`, `daemon/server.go`, `daemon/reconcile.go`) | `ecWedged` | probe, gate, recovery | no embedded-controller access while it does not answer |
| Power-source autoswitch (`daemon/powersource.go`) | `powerState` | `powerTick`, `powerSourceOnce`, startup target | a confirmed change of source selects its profile once |
| Undervolt (`cli/smu.go`, `cli/undervolt.go`, `daemon/server.go`) | offset in the SMU, `Active` in state | set, reset, probe | `Active` says what the SMU holds |
| State file (`daemon/state.go`) | `state.json` | `saveState`, `loadState`, migration | the last saved state survives a crash |
| Socket and subscribers (`daemon/server.go`, `daemon/daemon.go`, `api/client.go`) | subscribers, their filters | accept, dispatch, subscribe, broadcast | no acknowledged subscriber misses an event; nobody blocks a watcher |
| Lighting and hotplug (`daemon/hotplug.go`, `internal/aura`, `internal/hid`) | lighting per zone, device handle | apply, off, brightness, reopen | the lighting saved is restored after each reattachment |
| Button, wake-up report, command line | - | - | I/O around the above |

**How they interact.** Every operation that writes hardware holds `hwMu` from
its first read to its last write; `mu` guards the state and is taken inside it
for short sections. So between two *daemon* operations nothing interleaves, and
between two *steps* of one operation everything else does: the firmware, which
re-applies the profile's own limit and drops both custom curves on any write of
`platform_profile` or of `pwm_enable=2`, even one that changes nothing;
power-profiles-daemon, Fn+F5 and asusctl, which make such writes; kernel
notifications, which another goroutine turns into `policyWritten`; a crash. The
watchers, the handlers, the startup restore, the sleep hook and autoswitch all
end in the same calls of `internal/cli`.

**What is hard.** The limit in force cannot be read: `ppt_*` shows the last
value written to it. The order of writes carries the safety argument (curve,
readback, limit; row, check, release, limit). Any write can fail half way, and
most failures are logged and skipped rather than returned. State is committed
before the hardware work on one path and after it on the others. A crash leaves
the hardware as it was and the state file one step behind. `PROJECT.json`
lists each hazard with its line, and the property that watches it or the module
that will.

## 2. Modules

    FanFloor            pure functions: the floor rule
    FanFloor_proofs     the floor rule is right for every curve and limit
    FanCooling          the floor while the temperature moves     (MCCooling)
    FanCooling_proofs   the floor at every temperature
    ThermalControl      fans, limit, profile; daemon, firmware, others (MCThermal)
    ThermalControl_proofs   types, safe raise, safe release; what holds
                        between operations
    SleepCycle          suspend, resume, the EC and the watcher   (MCSleep)
    SleepCycle_proofs   types, the release before a freeze, the restore after it
    Undervolt           profiles, the SMU's offset, its flag      (MCUndervolt)
    Undervolt_proofs    types, true flags, fresh edits, no needless write
    PowerFollow         abstract: a change of source is followed once
    PowerSource         the polling watcher; implements PowerFollow (MCPower)
    PowerSource_proofs  types, targets, confirmation, every step a PowerFollow step
    Lighting            two zones, what is saved, restoring       (hotplug_latch)
    Lighting_proofs     what is saved is shown, and can be restored
    Server              Lighting, the state file, subscribers     (MCServer)
    Server_proofs       the same in the daemon; the file; the subscriber

SleepCycle EXTENDS FanFloor for the limits, Server EXTENDS Lighting and runs its
actions under the locks of the server. The other modules meet in what they leave
abstract: a switch of profile is many steps in ThermalControl and one in
SleepCycle, Undervolt and PowerSource, each of which follows another part of it
(fans and limit, offset and flag, which profile).

### FanFloor

A curve is eight points, `NoCurve` is Go's nil. `FanCurve` is what
`ParseFanCurve` accepts. `PWMAt` is the piecewise-linear reading in
`FloorPWMAt` (tdp.go:186), with Go's truncating division (no operand is
negative). The other operators carry the names of the functions they translate;
`CheckCurveAgainstTDP` and `CheckFanFloorReleaseAt` are TRUE where Go returns
nil.

### ThermalControl

| Variable | Code |
|---|---|
| `platform` | `platform_profile` |
| `fan` | `pwmN_enable` and `pwmN_auto_point*` of both channels |
| `cache` | the PL1 attribute, what was last written |
| `inForce` | the PL1 the hardware enforces; no code can read it |
| `pending` | a policy write the kernel has not reported yet |
| `active`, `saved` | `state.Profile`, `state.CustomProfiles` (curve and PL1) |
| `disk` | `state.json` |
| `todo` | what the operation holding `hwMu` still has to do |
| `floorLimit` | `floorLimit` in `reconcileOnce` |
| `lastHW`, `policyWritten` | `reconcileState.lastHW`, `Daemon.policyWritten` |
| `watching` | the watchers of `Run` have started |

`todo` is a sequence of calls and a call a sequence of steps, so the two ways
in which the code treats an error are visible: a failed step ends its call
(`Failed`), and either the handler returns the error (`must`) or it is logged
and the next call runs. `SetBothFanCurves`, `ApplyTDPSafely`, `ReleaseFans`,
`HandBackToFirmware` and `ApplyCustomHW` build those sequences in the order of
the functions whose names they bear. An operation is one action that takes the
lock, decides on what it reads then and fills `todo`; `HardwareStep` and
`StateStep` perform one step at a time; `Environment` may move between any two.
Checks that are read late in the code (`CheckFanFloorRelease`, the readback, the
reconcile curve) are late in the model too: they are steps, not conditions
decided at the start.

| Action | Code |
|---|---|
| `SelectStock`, `SelectCustom` | `applyStockHW`, `applyProfileLocked` + `applyCustomHW` |
| `SetFanCurve`, `ResetFanCurve` | `handleFanCurve`, `handleFanCurveReset` |
| `SetTDP`, `ResetTDP` | `handleTDP`, `handleTDPReset` |
| `ReconcileTick`, `ReconcileCurve` | `reconcileOnce` with `reconcileTick`; its curve arm |
| `Notify` | `watchPolicyWrites` |
| `StartDaemon`, `RestartDaemon`, `Reboot`, `StartWatchers` | `restoreHardwareAtStartup`, `Run` |
| `OutsidePolicy`, `OutsideLimit` | external: other programs |
| `FirmwareTakesOver` | external: the firmware, as described in fan.go:296-321 and reconcile.go:226-237 |

Abstractions. Of five power limits only PL1 is kept (every decision is made on
it). A curve that is written reaches the fans in one step, since nothing that
looks at the points runs among its writes; one that fails, or is cut short by a
kill, leaves what its register writes left (`PartOfCurve`): the fans before have
the new points, and of the fan in hand the first `n` of its 16 registers,
temperature before PWM, are new and the others old (`TornCurve`), or the points
are through and a `pwm_enable` is not. `TornAt` is the set of those `n`, any part
of 0..15. `name` not in the state and a profile
without settings are the same thing: an edit may target either, selecting either
is refused. The legacy 5 W cache is modelled; `ReadEffectivePPT`'s substitution
of a firmware profile's row for it is not, since a row and 5 W are both at most
75 W and a custom profile, the only one whose limit is compared exactly, is
never substituted (tdp.go:67-72). Clamping to the asus-armoury bounds, forced
full speed and unreadable attributes are left out; undervolt, suspend and the
wedge gate are in SleepCycle and Undervolt.

### SleepCycle

| Variable | Code |
|---|---|
| `phase`, `signals`, `lock` | external: logind, its signal channel and the delay lock's fd |
| `ec`, `hadBattery` | what reading the battery finds; `hadBattery` in `watchResume` |
| `mode`, `limit`, `inForce`, `offset` | `pwm1_enable`, the PL1 attribute, what the firmware enforces, the CO offset |
| `loop` | where `watchResume`'s goroutine is |
| `restore`, `status`, `cancelled` | the goroutine of `sleepCycle.resumed`, its verdict and its context |
| `suspending`, `suspendGen`, `ecWedged`, `policyWritten` | fields of `Daemon` |
| `tickGen`, `ticks` | `reconcileState.suspendGen`, `suspendedTicks` |

The loop is one action per step at which it can be overtaken: hearing the
signal, `settle` (which waits for the restore goroutine), the observation under
`hwMu`, the lowering, the freeing, the closing of the lock. Sleep and resume
interleave with the goroutine that waits for the EC, with the watcher (one tick,
one action), with a command and an autoswitch, and with the machine, which
freezes when the lock is closed or when logind no longer waits. Time is left
out but for one relation: the ticks that fit in a delay or a wait (`left`) are
fewer than the stand-down's budget, as reconcile.go:53-68 argues for 60 ticks.
`disturbed` is read by properties only; it names what came in the way of a
suspend.

### Undervolt

| Variable | Code |
|---|---|
| `st`, `disk` | `d.state` (active profile; offset, `Active` and "something else set" of each saved one), `state.json` |
| `smu` | `smuProbeResult` and the offset the CPU runs with; nothing can read the second |
| `sent` | what the last step wrote to the mailbox |
| `power` | running, resuming, EC wedged, or not running |
| `asked` | `undervolt --set` requests, probed and validated, that wait for `hwMu` |
| `edit` | an edit that holds `hwMu`: its target and profile as they were resolved |
| `drift` | why the flags may be wrong; read by properties only |

A record for the mailbox is threaded through `Probed`, `SetCurveOptimizer`,
`ResetCurveOptimizer` and `ResetIfApplied` (`uvApplied` and the reset), so each
handler is one expression over what it sends and what it saves. A set probes
before it looks at its value (server.go:991-1007), so one that is out of range
has sent the probe and leaves nothing in `asked`; one whose profile is not there
when it gets `hwMu` is refused (`RefuseUndervolt`). A command can
be lost, or carried out with its answer lost. `Start` is
`restoreHardwareAtStartup` with the autoswitch target, `StaleResume` the
watcher's re-apply when the stand-down ran out.

### PowerFollow and PowerSource

PowerFollow has no ticks, adapters or latches: the source changes, and a change
that stays is announced once, with the selection in the same step. PowerSource
is `powerTick` with the poll, the nudge channel, the adapters, the
settings and the stand-downs. The mapping takes `latch.onAC` for what was
announced, `Known`/`OnAC` for the source and `enabled /\ ~latch.enabled` for a
fresh enablement; the observation that waits for a confirmation is a stutter.
Because reads and writes of one observation happen under `hwMu`, and only the
autoswitch settings can change meanwhile, an observation is one step.

### Lighting and Server

A zone's hardware is power, look and level; `lights` is `state.Lighting` and
`state.Devices`. A command or a restore is one action (it holds `d.mu`), but its
packets may stop after any of them. A node goes from absent over present and
not openable (udev has not acted) to openable; a handle goes stale when its node
goes. `HotplugTick`, `Resume` and `Start` restore through the same
`ApplyLightingState`. `drift` and `unsent` are read by properties only.

Server takes Lighting's state as it is, abstracts everything else in the state
to a version number, and follows the locks and the file. A lighting command
saves under `d.mu`; a hardware command changes the state under `d.mu` and saves
and announces under `hwMu`; `batterylimit`, `paneloverdrive` and `autoswitch`
save under nothing. For most hardware commands the change comes after the
hardware and in one critical section with the copy to be saved (`OtherHandler`).
The switch to a custom profile makes it active first (`SwitchProfile`,
profile.go:66), writes the hardware, and only then renews the record of the
active offset and takes its copy (`CommitApplied`, profile.go:172-183); lighting
commands, other savers and a kill come in between. `Open`, `Write` and `Rename` are the system calls of
`os.WriteFile` and `os.Rename`; a descriptor follows its file through a
rename (`Moved`), so that two saves on one temporary file do what they do on a
disk. `Notify` is `broadcast`, with the write deadline; `Subscribe` and
`AddSubscriber` are the two halves of `handleConn`; the client reads the state
after it is acknowledged and after each event.

### FanCooling

One running profile: its limit, the curve as the user drew it, the curve on the
fans, and a temperature that moves. It asks what `FanFloor`'s point-wise
comparison means for a controller that interpolates.

## 3. Properties and runs

Properties are named after what they promise, and stated beside the model.

* `RaiseOnlyOverFloor`: a step that raises the limit in force above 75 W finds
  both fans' points at or above the floor, and enabled, unless a policy write
  that the watcher has been or will be told of dropped them after the readback.
* `ReleaseBelowSafe`: the daemon gives the fans back only while the hardware's
  own limit is at most 75 W, although it can read only the cache.
* `HighLimitFloored`: between operations a high limit has its floor, after any
  sequence of switches, edits and outside writes.
* `SettingsFloored`: the same for a custom profile with settings of its own, also
  when the daemon was killed half way through an operation and started again.
* `StockLimitSafe`: a firmware profile never runs on a custom profile's limit.
* `StockHeld`: a firmware profile that a failed write leaves on such a limit has
  no point below the floor's minimum, PWM 127, on either fan, also when the last
  curve write stopped among a fan's registers.
* `LimitDefended`: when the limit in force is not the profile's, some evidence
  the next tick reads says so.
* `Defends`: once users and other programs stay quiet, limit and curves come to
  what the active profile asks for and stay there.
* `MinimumHeld`, `NeverQuieter`, `OverRampOnItsGrid`: the floor at every
  temperature.
* `ReleasedAtFreeze`: a machine that freezes after the daemon has dealt with the
  suspend freezes with its fans released, unless something named in `Excused`
  came between (section 5).
* `LoweredBeforeFree`: before a sleep the fans are given up only from a limit
  that needs no floor, whatever the limit read as.
* `RestoredOnceAnswering`: what a resume owes is written, and the latch lifted,
  only once the EC has answered.
* `Recovers`: once the machine stays awake and its EC answers, limit, fans and
  offset come back and the watchers work, also after a lost signal.
* `FlagsTellHardware`, `StockClean`: the `Active` flags tell what the CPU runs
  with, and a firmware profile runs without an offset, apart from causes that
  are listed by name.
* `NoSpeculativeWrite`: no reset goes to the SMU with nothing to reset, and no
  probe but on behalf of a write that is due - or of a set that is refused for
  its value only after the probe (section 5).
* `ActiveExists`, `TargetsExist`: the profile that is active, in memory and on
  disk, and those autoswitch names exist.
* `SnapshotFresh`: what an edit commits back is built on the profile as it is.
* `FollowsTheSource`: PowerSource implements PowerFollow, liveness included.
* `Confirms`: a change is acted on only if the observation before saw it too.
* `LampsMatch`: a zone whose handle works shows what a restart would put there.
* `Restorable`: every entry that is on names a mode.
* `LatchedWhenShown`: the hotplug watcher takes a keyboard as restored only when
  the zones it opened show what was saved.
* `FileWhole`, `FileKeepsUp`: `state.json` parses at every moment, and says what
  the daemon holds once no command is between its change of the state and the
  end of its save.
* `NoMissedChange`: a client that reads after each event shows the state as it is.
* `CommandsGoOn`: a command under way can always take its next step, whatever a
  subscriber does.

| Run | Instance | Shows |
|---|---|---|
| `thermal_faults` | 1 custom, 1 firmware profile; every write may fail, a curve also in the middle of a point | `TypeOK`, `StockHeld`, `RaiseOnlyOverFloor`, `ReleaseBelowSafe` |
| `thermal_restart` | 1 custom, 2 firmware profiles; crashes, also between the two fans of a curve, boots, autoswitch | `StockLimitSafe`, `SettingsFloored`, `RaiseOnlyOverFloor` |
| `thermal_defend` | 2 custom profiles, limits 30 and 80 W, outside writes | `HighLimitFloored`, `LimitDefended`, `Defends` |
| `fan_cooling` | 0-100 degrees in steps of 1, limits around 75 W | `MinimumHeld`, `NeverQuieter`, `OverRampOnItsGrid` |
| `sleep` | 1 custom profile over 75 W with an offset; 2 suspends; lost signals, refused lock, failing accesses, EC gone | `TypeOK`, `ReleasedAtFreeze`, `LoweredBeforeFree`, `RestoredOnceAnswering`, `Recovers` |
| `undervolt` | 2 names, 1 firmware profile, offsets -20 and (invalid) -41; 1 failure, 2 suspends or crashes | `TypeOK`, `FlagsTellHardware`, `StockClean`, `ActiveExists`, `SnapshotFresh`, `NoSpeculativeWrite` |
| `power_source` | 2 adapters, 1 custom and 1 firmware profile, 1 nudge, 1 sleep or restart | `TypeOK`, `FollowsTheSource`, `Confirms`, `TargetsExist` |
| `server` | 2 zones, 1 subscriber, 2 commands, 1 fault, 1 outage | `LampsMatch`, `Restorable`, `LatchedWhenShown`, `FileWhole`, `FileKeepsUp`, `NoMissedChange`, `CommandsGoOn` |
| `hotplug_latch` | Lighting alone; the keyboard comes back | violates `LatchesOnlyOpened` (section 6) |
| `thermal_zero_pl1` | requests may carry `pl1 = "0"` | violates `HighLimitFloored` (section 6) |
| `thermal_limit_forgotten` | as `thermal_defend`, writes may fail | violates `LimitDefended` (section 6) |
| `fan_cooling_gap` | a curve that ends at 60 degrees | violates `OverRamp` (section 6) |

**Bounds.** In ThermalControl no counter needs a bound: `todo` grows only by one
operation at a time and every other variable ranges over a finite set given by
the constants. What is small is those sets. Two custom profiles are what it takes to edit one
while the other runs, and to go from one to the other; two firmware profiles to
see `platform_profile` change; one curve under the floor is the case every rule
is about (the ramp and the raised curve arise from it), and one limit on each
side of 75 W. `OutsideLimits` holds one value that is nobody's wanted limit
(45), or a safe one that equals a wanted one (30). `WriteFaults` and `Restarts`
are not combined: together with two profiles the instance is beyond a short run.
For `TypeOK`, `RaiseOnlyOverFloor` and `ReleaseBelowSafe` the proofs cover the
combination, and for `StockHeld` all of it but one kind of restart; the other
four invariants about the time between operations need `WriteFaults = FALSE`
(section 5). `TornAt = {9}` ends a curve write within the fifth point, of which
only the temperature is through; `{0}`, for `thermal_restart` and
`thermal_limit_forgotten`, before a fan's first register, so that one fan has the
new curve and the other the old one. The proofs are for every subset of 0..15.
`thermal_faults` and `thermal_restart` start their fans with the user's quiet curve in the registers, so
that a torn curve has quiet points to keep.

`OutsideLimits` is held to at most 75 W, an assumption of the proofs too
(`HighLimitShown`, section 4). reconcile.go:296-304 and 450-459 consider a limit
that has drifted to 90 W: that a program other than the daemon *raises* the limit
above 75 W is outside `HighLimitFloored`, `StockLimitSafe`, `ReleaseBelowSafe` and
`Defends`, for nobody writes a floor before such a write. The order of limit
and curve in `reconcileOnce`, which those comments are about, is in the model
(`ReconcileTick`, then `ReconcileCurve` for the limit that is in force by then).
The states that the curves tell apart are few, because every rule compares a
point with the ramp at that point's temperature.

In the other modules the events that come from outside are counted.
`MaxSleeps = 2` is what it takes for a suspend to meet the restore of the one
before, to leave a budget of the stand-down half spent, and to capture a battery
that the first suspend lost. `StandDownTicks = 3` with one tick in a delay and
one in a wait keeps the relation of 60 ticks to 5 and 20 seconds; a lost resume
still runs into it, since ticks outside a delay are not counted in `left`.
`MaxFaults = 1` in Undervolt and Server makes one thing fail at a time: a second
failure only adds to `drift` or `mishaps`, which excuse both. `MaxOutages`
allows a crash after a suspend (Undervolt), and one sleep, detach, kill or hung
client in Server, whose two commands are what it takes for saves to overlap or
overtake each other. One look besides the default and the levels off and full
tell the entries of Lighting apart; in Server the lightbar, which is built in,
is accessible from the start, and a file that would say the default state is not
there at first, since both load the same.

**Deadlock** is checked in every run: each of these systems has a step left in
every state, if only a poll that finds nothing to do.

**Fairness.** In ThermalControl, weak fairness on the steps of the operation
that holds `hwMu` (its goroutine runs and the writes return), on the tick (a
loop on a two-second timer, reconcile.go:314), on the notification (a `poll` loop) and on the start of the
watchers. None on requests, on other programs, on crashes. `Defends` speaks of
behaviours in which `UserOperation` and `Environment` steps eventually stop; a
program that fights the daemon for ever can keep it from succeeding. `Fairness`
does not separate a failing write from a succeeding one, so `Defends` is stated
for the instance without faults: nothing in the code makes a broken write work.

In SleepCycle, weak fairness on the loop, on the restore goroutine and on the
watcher: three goroutines of a running process, each blocked only by the locks
the guards show. Nothing is asked of logind, of the EC or of clients; `Recovers`
excludes, in so many words, a machine that keeps sleeping, an EC that keeps not
answering and other programs that keep writing. In PowerSource, weak fairness on
the poll (a timer), on the end of a suspend and on the EC's answer: a machine
that sleeps for ever follows no source. Nudges are not fair, as UPower may not
be there. Undervolt, Lighting and Server state no fairness; `CommandsGoOn` is
about what is possible in each state.

Every property of a passing run has a mutant: a definition with a plausible
defect (the limit before the floor, the release unguarded, the kernel's
report not consulted, drift read from the attribute alone, ...), under
which TLC finds the property violated. The defects stand beside their targets,
each introduced by "A defect the checks must catch".

## 4. What is proved

`FanFloor_proofs` (no assumption beyond the definitions):

* `RaisedCurve`: raising a curve's points to the floor keeps its temperatures,
  lowers nothing, meets the floor and gives a curve the kernel accepts again.
  The last part is the one that needs an argument: the raised curve is monotone
  because the floor is, which in turn needs the truncating division to be
  monotone on each of the ramp's segments and the segments to meet.
* `FloorForTDP`: above 75 W there is always a curve to write, acceptable and
  over the floor, with a curve of the user's or without.

`ThermalControl_proofs` (assumptions: `ProfileAssumption`, `PowerAssumption`,
`CurveAssumption`, `SwitchAssumption`; in words: firmware profiles and custom
names are different, a firmware profile's limit is at most 75 W, requested
limits are in the kernel's range, curves are ones `ParseFanCurve` accepts):

* `TypeCorrect`: `Spec => []TypeOK`.
* `RaiseSafe`: `Spec => RaiseOnlyOverFloor`.
* `ReleaseOnlyBelowSafe`: `Spec => ReleaseBelowSafe`.

Neither action property follows from the step that could break it: a limit step
with 80 W in it is only as safe as what stands before it in `todo`, and as what
the machine did meanwhile. The inductive invariant `IInv` therefore says, of the
pending calls, what `todo` may contain, and of the call under way, how far it
has come:

* `Shape`, of every call, started or not: a high limit follows the readback of
  a curve that meets the floor, and a release inside a call follows its guard; a
  call that has not started begins with neither a high limit nor a readback;
* `NextStepSafe`, of the call under way: when its next step is the readback the
  fans hold the floor, when it is a high limit they also run it, unless a policy
  write since is on record (`pending`, `policyWritten`) or the watchers have not
  started, and when it is a release the hardware's limit is low;
* `ReleaseToComeSafe`, of the releases that have no guard of their own
  (`handleTDP`, `handleFanCurveReset`): nothing in the operation raises the
  limit, and it is low already or the next step lowers it, on pain of returning;
* `HighLimitShown`: a limit in force above 75 W is the one the attribute shows.
  The firmware and other programs lower limits behind the daemon's back and
  never raise one above 75 W, which is what makes a check of the attribute mean
  something about the hardware.

The proof has one lemma per action and `Invariance` puts them together; the two
action properties follow from `IInv` by cases on the same actions. The constants
are arbitrary, so failures, restarts, autoswitch and `pl1 = "0"` are all covered
at once, in any number and order.

Five invariants say how the hardware is left *between* operations. Four of them
need hypotheses that section 5 explains; the fifth is about write failures:

* `StockStaysSafe`: `WriteFaults = FALSE /\ Spec => []StockLimitSafe`, with
  restarts, boots, autoswitch and `pl1 = "0"`.
* `HighLimitsFloored`: `[]HighLimitFloored`, without write failures, restarts and
  `pl1 = "0"`.
* `RestartsKeepTheFloor`: `[]SettingsFloored`, with restarts, boots and autoswitch
  at startup, without write failures and `pl1 = "0"`.
* `RestartsKeepLimitsDefended`: `Spec /\ [][LeavesTrace]_vars => []LimitDefended`,
  with restarts, boots and autoswitch at startup, without write failures, when
  the limits nobody asks for (other programs', the firmware's, the one shown at
  boot) are not among those requested (`LimitsTellApart`). `LeavesTrace` excepts
  two steps: a policy write while a custom profile is active and the watcher is
  not armed yet, and a restart that has nothing to restore while the attribute
  shows a limit somebody may ask for. Both are needed: with either let in, TLC
  finds `LimitDefended` violated (section 5).
* `LimitAlwaysDefended`: `[]LimitDefended` without restarts, under the same two
  conditions and no exception. It follows from the theorem before, because a
  daemon that is not restarted takes neither excepted step (`QuietAtStart`).
* `FailuresKeepTheMinimum`: `Spec /\ [][LandsHeld]_vars => []StockHeld`, with
  write failures anywhere, after any register of a fan, restarts, boots,
  autoswitch and `pl1 = "0"`. `LandsHeld` excepts one step: a restart that lands
  on a firmware profile while a high limit without the minimum of 127 is in the
  hardware. With it let in TLC finds `StockHeld` violated (section 5).
* `StockAlwaysHeld`: `[]StockHeld` without restarts and no other hypothesis.

Between operations these are short facts; *during* one they are false, and
the proof is about why the rest of `todo` makes them true again. So each
invariant is a disjunction of the situations an operation goes through, each a
condition on the hardware together with one on the calls that remain, and a step
leads from one disjunct to another:

* `StockInv`: the limit is low and stays so (`Low`, of which `LowersFirst` is the
  case where the next step lowers it); or a custom profile is active and stays so;
  or the next call writes a custom profile's limit on pain of returning, and the
  one after it commits that profile (`ClaimsNext`, `Claims`).
* `FloorInv`: the limit is low; or the floor holds and nothing that remains
  disturbs it (`StaysFloored`); or the next call writes it (`FloorsFirst`), if
  necessary after the profile's own curve was tried (`MendsNext`); or a release is
  about to be refused (`Refused`); or a restart found nothing to restore and
  edits of stored profiles are all that may run (`Bare`). The last is what
  `HighLimitFloored` does not survive, and why `SettingsFloored` asks for a
  profile with settings: for one without, a restart writes nothing, and a limit
  left high by the operation that was killed stands as it is. The restart of a
  profile with settings leads to the disjuncts of a switch to it, since it makes
  the same calls. `RunInv` and `FloorLimitShown` tie the saved profiles, the
  watcher's curve arm and `floorLimit` to it.
* `LimitInv`: the attribute shows a limit nobody asked for; or the attribute is
  true or a report is still to be read, and the calls that remain keep that
  (`KeepsLimit`); or they start by clearing, taking or applying a limit
  (`ClearsLimit`, `TakesLimit`, `AppliesLimit`). While no watcher is armed there is
  no report to read, and the argument is about the calls of the startup restore
  alone (`StartsQuietly`): they are no edits, and when a custom profile is active
  each of them that gives back the fans writes the limit right after
  (`RewritesLimit`), so that a limit the firmware dropped with them is in force
  again before anybody has to notice.
* `FailInv`, where every call may stop half way and what it leaves has to be
  harmless: the limit is low and stays so (`StaysLow`); or no point on the fans is
  below 127 and every curve that remains to be written meets the floor (`Holds`); or a custom profile is
  active and no call hands over to a firmware one (`StaysCustom`); or the next
  call does, and returns with nothing changed if it fails (`LandsSafely`); or a
  request on a firmware profile is about to make "custom" the active one, and has
  written a curve that meets the floor before the limit is written and the profile
  committed (`ClaimsFloored`, then `Claims`). It is the minimum that is
  followed and not the whole ramp, because each point of a torn curve has its PWM
  from the one curve or the other (`TornRegisters`), but a point with a new
  temperature may still have the PWM of the old one. A failure drops the rest of the operation, so
  each disjunct must be as good with nothing left to do, which is what the order
  of `ApplyTDPSafely` is for.

`FanCooling_proofs` (assumption: `CoolingAssumption`, ranges only):

* `MinimumAlwaysHeld`, `NeverQuieterThanDrawn`, `OverRampOnItsOwnGrid`, for every
  temperature, curve and sequence of limits. The argument is that the integer
  reading of a segment is monotone in its ends (`SegmentMonotone`), hence the
  reading of a curve in its points (`ReadingMonotone`); `IInv` says that the curve
  on the fans is the one `reconcileCurveFor` would write (`FloorInForce`).

`SleepCycle_proofs` (`SleepAssumption`: among others, the ticks of a delay and a
wait are fewer than the budget of the stand-down, as reconcile.go:53-68 has it):

* `TypeCorrect`, for which the generations need an argument: every suspend
  announced, heard or in work counts at most once (`Generations`);
* `FansFreedWhenSafe`: `Spec => LoweredBeforeFree`, because the firmware's limit
  is what the attribute shows or its own row (`LimitKnown`, `FreeIsSafe`);
* `RestoresAfterAnswer`: `Spec => RestoredOnceAnswering`. The verdict is as good
  when it is acted on as when it was given, unless a freeze fell in between
  (`Overslept`, `Answered`);
* `FreezesReleased`: `SleepRelease /\ Spec => ReleasedAtFreeze`. `SleepRelease` is
  FALSE under `--no-sleep-release`, where the fans are meant to stay. `Released`
  follows the announcement from the channel (`LastTold`) through the loop
  (`Settling`: from the release on no restore is left and the watcher stands down)
  to the state it leaves until the freeze (`Quieted`).

`Undervolt_proofs` (`UndervoltAssumption`):

* `TypeCorrect`, `ActiveAlwaysExists`, `SnapshotsAreFresh`, `FlagsAreTrue`,
  `StockRunsClean`, `NeverSpeculative`. `FlagsTellHardware` and `StockClean`
  speak of a running daemon, and across a sleep an offset may be gone while its
  flag is rightly up, so the invariant follows the two directions on their own (`OwnedUnlessExcused`: an offset in force is the active
  profile's and flagged; `LastingUnlessDrifted`: a flag is the active profile's
  and its offset in force or lost), and `EditTyped`, `TargetFresh` and `FlagsSet`
  tie a pending edit's snapshot to the state it will be committed to.

`PowerSource_proofs` (`PowerAssumption`):

* `TypeCorrect`, `TargetsAlwaysExist`, and `ChangesConfirmed`:
  `Spec => Confirms`. A pending change is what the last observation saw
  (`PendingSeen`), and before its first observation the watcher has latched
  nothing (`Unlatched`).
* `StepsFollow`: `Spec => Follow!Init /\ [][Follow!Next]_(Follow!vars)`, the safety
  half of `FollowsTheSource`, step by step under the mapping of section 2.

`Lighting_proofs` and `Server_proofs` (`LightingAssumption`: `""` and `"none"`,
which stand for a missing mode and a missing entry, are no modes; ranges):

* `LampsAlwaysMatch`, `AlwaysRestorable`, `LatchesWhatItShows`, of Lighting on its
  own (`LightSpec`). `LampsMatch` says nothing of the mode of a dark lamp, which
  the next brightness command lights again; `Shown` does, unless the zone was
  turned off. `Named` and `OnNamed` are what makes a restore find a mode, and
  `LiveNode` that a handle that works is on a node that is there.
* `LampsMatchWhatIsSaved`, `SavedIsRestorable`, `LatchesOnlyWhenShown`: the same
  in the daemon, where other commands, saves and subscribers interleave and a
  start loads whatever the file says; `Named` is therefore also an invariant of
  every copy being saved and of both files.
* `FileAlwaysWhole`: `Alone` says that the temporary file belongs to one save
  from its open to its rename, and what is in it at each step.
* `FileAlwaysKeepsUp`: copies are numbered in the order they are taken
  (`Numbered`), and the latest of the copies being saved and of the one in the
  file is the state as it is, except while a switch has yet to take its copy
  (`NewestFresh`), which is then the latest.
* `NoChangeIsMissed`: a client that has read what it was sent shows the state
  unless a command still owes its announcement (`Subscribed`).

Every proof that a step keeps an invariant has one lemma or step per action (in
Lighting, per command and packet sequence). Where a theorem has a hypothesis on
the switches, the run that checks its property is an instance of it.

Only model-checked:

* `Defends`, `Recovers` and the liveness half of `FollowsTheSource`: liveness under
  fairness is beyond these provers.
* `CommandsGoOn`: it is about `ENABLED`.
* Of how the hardware is left between operations when writes fail, `StockHeld`
  is all that is proved: the other four invariants do not hold there, for the
  reasons of section 5.

## 5. What holds only under a condition

* `HighLimitFloored` holds without write failures. With them, TLC finds a
  machine left at a high limit under a quiet curve: `applyCustomHW` writes the
  new profile's curve (profile.go:121) before the limit that is to replace the
  previous profile's; if the limit cannot be written, the watcher sees a live
  curve and leaves it. The same order is visible if the daemon is killed there:
  a restart that finds the profile finishes the job, and `SettingsFloored` holds;
  one that finds a profile without settings, or none, leaves a high limit under
  the quiet curve. So `HighLimitFloored` is stated for a daemon that is not
  restarted, and both are stated for requests without `pl1 = "0"` (section 6, 1).
  `RaiseOnlyOverFloor` is not affected: nothing is raised.
* `StockLimitSafe` holds without write failures. A `tdp --set` above 75 W on a
  firmware profile makes "custom" the active profile only after the limits are
  written; `SetTDPState` stops at the first limit that fails (ppt.go:362-368) and
  the handler returns (server.go:828-830), so that, if that is a later one than PL1,
  the limit is in force under "balanced", with its floor on the fans. Later
  requests whose curve write stops among a fan's registers (fan.go:235-247) can
  leave part of that ramp: a `fancurve --set` on "balanced", or a second
  `tdp --set` after the curve stored in "custom" was edited, writes a curve that
  meets the floor over another that does, and the fifth point, say, keeps the PWM
  of the one at the temperature of the other. `StockHeld` is what remains whatever fails: no
  point below 127. A failure and a restart together can undo it too: a custom
  profile is left without its floor as above, or by a kill while its own curve is
  written, the daemon is started again on a firmware profile, and the write that should lower the limit fails.
* `LimitDefended` holds without write failures (section 6, 2), and for limits of
  other programs, of the firmware and of the boot that are different from those
  of the profiles. If another program happens to write the very value the
  profile asks for, then a firmware reset with no trace left (a bare
  `fancurve --set` on a firmware profile activates "custom" without writing its
  saved limit) cannot be told from a limit in force. Across restarts it holds
  apart from two steps (`LeavesTrace`, section 4). One is a policy write in the
  window before `watchPolicyWrites` is armed, which nobody reports: a profile
  without a curve keeps no other trace of it. The other is a restart with no
  profile to restore while a requested limit shows in the attribute: the watcher
  consumes what is reported while nothing is active, and a later bare
  `fancurve --set` activates "custom" with its saved limit, which the attribute
  still shows and the firmware has dropped.
* The limit that `ReleaseFans` re-writes after a release (`keep`) is a second
  line of defence in the model: without it, the notification of the release
  makes the next tick write the limit, so no property here fails. It is what
  remains on a kernel without the notification (policywatch.go).
* A policy write in the moment between the startup restore and the arming of
  `watchPolicyWrites` is not reported. `RaiseOnlyOverFloor` excuses it by
  `~watching`.
* `ReleasedAtFreeze` excuses a command, an autoswitch or the recovery from a
  wedged EC that lands between the release and the freeze, and puts the curve
  back (none of them looks at the sleep edge: reconcile.go:345-366); fans that
  were already off the curve at the edge, for which `suspending` is not armed
  (resume.go:329-331, 405-413); a release that failed; and the ceiling of the
  stand-down. The last is more than the code says: a suspend whose restore was
  skipped leaves `suspending` set, so the next release does not bump
  `suspendGen` (daemon.go:478-485), and the budget that reconcile.go:148 calls
  "per-suspend" adds up over such suspends until it ends inside a delay.
* `RestoredOnceAnswering` excuses a second suspend that begins while the EC,
  and with it the battery, is already gone: `hadBattery` is then captured as
  false, the absent battery reads as a machine that has none (resume.go:136,
  629), and the restore writes into a dead EC. It also excuses a freeze that
  falls between the verdict and the writes, for which the delay lock must have
  been refused or given up.
* `Recovers` leaves out the offset of a suspend that had released nothing and
  whose resume signal was lost: nothing is armed that could notice. Fans forced
  to full speed hide a limit lost during the stand-down (reconcile.go:418-421).
* `FlagsTellHardware` holds apart from seven causes, each a name in `drift`:
  the SMU failed (`smu`, a failed set in profile.go:167-175); `applyStockHW`
  reset the offset and then failed on `platform_profile` (`profile`,
  profile.go:201); startup autoswitch leaves the flag up (`startup`,
  daemon.go:285; the comment at 279-280 has it "exactly as applyStockHW would",
  which lowers it);
  `profile-save` onto the active profile's own name (`saveOver`,
  profile.go:452-459); the re-apply after a lost resume signal marks nothing
  (`reapply`, reconcile.go:486-499); the probe zeroes a live offset in a
  process that has not probed yet, for instance by a set on a profile that is
  not running (`probe`; the comment at smu.go:127 has the daemon probe at
  startup, which it does not, and smu.go:163-164 says that whoever probes is
  about to write); a crash before the save (`unsaved`). server.go:712-714 says
  the flag is set in one place; `undervolt --set` sets it too.
* `NoSpeculativeWrite` excepts the probe of an `undervolt --set` that is refused
  for its value: `handleUndervolt` probes first and parses and validates then
  (server.go:991-1007), so in a process that has not probed yet a set of -41, or
  of a word, sends a reset and nothing after it, although smu.go:163-165 keeps
  the probe for "the caller about to write an offset anyway". It zeroes a live
  offset like any other first probe (`probe` above).
* `FollowsTheSource` allows an enablement to be swallowed when it coincides
  with a change of source that is not confirmed: `enabled` is latched before
  the early return (powersource.go:123-136), and when the source flaps back
  nothing is left to act on. Two queued nudges confirm a change back to back,
  without the moment to settle of powersource.go:189-190.
* `LampsMatch` looks at zones with a working handle and excuses: sequences that
  stopped half way; a raw `/dev/hidrawN` path, which is not saved; the
  brightness of all zones over an override, which lights the zone and leaves
  the override to undo it at the next restore (server.go:413-418); a sleep not
  restored yet, for good if the resume signal is lost. The mode is not compared
  on a zone that was off: an override's is forgotten (server.go:367) while the
  hardware keeps it, though docs/commands.md:70 has brightness keep the mode.
* A keyboard that is detached and reattached within one 2 s poll, a restore
  that fails at startup, and a daemon that found no device at its start wait for
  the next reattach (hotplug.go:27). While the keyboard is off, every command
  for all zones fails on its stale handle.
* `FileWhole` and `FileKeepsUp` excuse what two saves at once do on one
  temporary file: the second truncates what the first wrote (`overlap`: a torn
  `state.json` is possible, which state.go:256 calls "atomically"), and the
  older copy may be renamed last (`overtaken`). All it takes is a lighting
  command beside a hardware command, or a `batterylimit` beside either. A power
  cut is not modelled: nothing calls `fsync`.
* `FileKeepsUp` says nothing between a change and the end of its save. For a
  switch to a custom profile that stretch is long: `state.Profile` is set at
  profile.go:66, and the copy is taken and saved at profile.go:172-183, after the
  curve, the limits and the offset were written. No save is under way
  meanwhile, the file names the profile before, and a daemon killed there
  starts on it: the machine goes back to the older profile, whose restore is then
  the one ThermalControl follows (`thermal_restart`). A save of another command
  in between writes the new name early.
* `NoMissedChange` excuses an event between a subscription's acknowledgement
  and its registration (server.go:92-93).

## 6. Disagreements found

1. **`pl1 = "0"` undoes the floor** (`thermal_zero_pl1`). `ResolveTDP` reads a
   zero pl1 as "not set", and the limit is the unified value; `handleTDP` goes
   on comparing the request's own 0 with 75 and, at server.go:861, puts the
   profile's curve back under the high limit. docs/daemon.md:226: "While PL1 is
   above 75 W, both fans are held to a minimum of 127 PWM (50%)."
2. **A lost limit is forgotten** (`thermal_limit_forgotten`). reconcile.go:421
   consumes `policyWritten` before the re-apply; when that fails, the attribute
   still shows the wanted value and no later tick has a reason to act.
   profile.go:105-106: "the reconcile watcher keeps trying on the parts it
   owns".
3. **Between the points** (`fan_cooling_gap`). The floor is compared at a
   curve's own points. After the last one, and on a segment that cuts a corner
   of the ramp, the fans run below it; never below 127 (`MinimumHeld`), and not
   at all when the curve uses the ramp's temperatures (`OverRampOnItsGrid`).
   docs/commands.md:514-515: "a curve whose points sit at unusual temperatures
   cannot slip under the ramp".
4. **The keyboard that was not opened** (`hotplug_latch`). `findAll` skips a
   node that it may not open and succeeds with the lightbar alone (scan.go:54-67),
   so `reopenAndRestore` returns true and the keyboard is latched as restored;
   it stays on the firmware's lighting until the next reattach.
   hotplug.go:21-24: "If the reopen fails (e.g. udev has not yet applied hidraw
   permissions), it does not latch the present state, so the next tick retries."

Others, met while modelling, are described where a property of section 5 leaves
them out.

## 7. Plan

In order of what matters most; each module is written to be proved about.

1. *Done*: FanFloor, FanCooling, ThermalControl and their proofs; SleepCycle,
   Undervolt, PowerSource with its abstract specification, Lighting, Server.
2. *Done*: the proofs about SleepCycle, Undervolt, PowerSource, Lighting and
   Server, and about FanCooling and what ThermalControl leaves between operations.
3. **Further proofs**: `HighLimitFloored` with write failures, in the weaker form
   that names what they leave (a quiet curve that was written); `StockHeld` is
   that form of `StockLimitSafe`.
4. **ECGuard**: the window between `dispatch`'s check of `ecWedged` and the
   handler's `hwMu`, by splitting SleepCycle's `HandleProfile`.
5. **PowerLimits** (`ResolveTDPWith`, `clamp`) as pure functions over the five
   limits, and the migration of a state file from before named profiles.

## 8. Not modelled

* The bytes of HID packets, argument parsing and output of the command line, the
  wake-up report: input and output without a decision a property could be about.
  The command line's direct path, used without a daemon, calls the functions of
  `internal/cli` that ThermalControl and Undervolt model; two processes writing
  the hardware at once are outside programs to each other.
* The button: an input loop that feeds a channel of four and drops a press that
  finds it full. No other state depends on it.
* Of the server: the read deadline of a silent connection, the event filter of a
  subscriber, and the commands that only read.
* Of the state file: the migration and the projection to the fields of older
  releases, and power cuts.
* `ResolveTDPWith`, `clamp` and the two power-limit backends, until PowerLimits.
* Battery limit, boot sound and panel overdrive: single attribute writes. Their
  part in saving and announcing is in Server.
* The fields of a lighting entry are one `look`; a look of one zone's kind does
  not fail on the other.
