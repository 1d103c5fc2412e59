------------------------------ MODULE Undervolt ------------------------------
(***************************************************************************)
(* Saved custom profiles and the Curve Optimizer offset they may carry     *)
(* (internal/daemon/profile.go and server.go, internal/cli/smu.go and      *)
(* undervolt.go).  The SMU cannot be read back: the daemon's one record of *)
(* what the hardware holds is the Active flag beside a saved offset, and   *)
(* writing to the SMU with nothing to write is itself to be avoided.  The  *)
(* module follows that flag through every command that edits, copies,      *)
(* selects or deletes a profile, through sleep, and through the state file *)
(* a restart loads.                                                        *)
(* A command that edits a profile resolves its target, writes the hardware *)
(* and commits the profile back, all under hwMu; the other handlers that   *)
(* touch the profiles are one step each, under hwMu as well.               *)
(***************************************************************************)
EXTENDS Integers, FiniteSets

CONSTANTS
  Names,       \* names of custom profiles
  Default,     \* api.DefaultCustomProfile
  Stocks,      \* firmware profiles
  Balanced,    \* where tdp-reset lands
  Requests,    \* the offsets clients ask for, valid or not
  Targets,     \* the profiles autoswitch is configured for
  MaxFaults,   \* bound on the failures of a behaviour
  MaxOutages   \* bound on its suspends and crashes

UVMinCPU == -40
UVMaxCPU == 0
NoOffset == 1            \* CustomProfile.Undervolt = nil

Offsets == Requests \cap (UVMinCPU..UVMaxCPU)

ASSUME UndervoltAssumption ==
  /\ Default \in Names /\ Balanced \in Stocks
  /\ Names \cap Stocks = {}
  /\ Targets \subseteq Names \cup Stocks
  /\ Requests \subseteq Int
  /\ {MaxFaults, MaxOutages} \subseteq Nat

VARIABLES
  st,       \* d.state: the active profile and the custom profiles saved
  disk,     \* the same in the state file
  smu,      \* smuProbeResult, and the offset the CPU runs with
  sent,     \* what the last step sent to the mailbox
  power,    \* where the machine and the daemon are
  asked,    \* undervolt commands past the probe, waiting for hwMu
  edit,     \* the edit that holds hwMu: its target, as it was resolved
  drift,    \* why the flags may not tell what the hardware holds
  faults, outages

vars == <<st, disk, smu, sent, power, asked, edit, drift, faults, outages>>

Profile == [uv : Offsets \cup {NoOffset}, active : BOOLEAN, rest : BOOLEAN]
State == [profile : Names \cup Stocks,
          saved : UNION {[S -> Profile] : S \in SUBSET Names}]

\* encodeCOValue: the argument of the MP1 command for an offset.
encodeCOValue(v) == IF v >= 0 THEN 1048576 ELSE 1048576 + v
StockCO == encodeCOValue(0)

Target == [name : Names, live : BOOLEAN, wasActive : BOOLEAN]
NoEdit == [kind |-> "none"]

Failures == {"probe", "lost", "unread", "profile", "save"}
Drifts == {"smu", "profile", "startup", "saveOver", "reapply", "probe", "unsaved"}

TypeOK ==
  /\ {st, disk} \subseteq State
  /\ smu \in [probe : {"none", "ok", "failed"}, co : {encodeCOValue(v) : v \in Offsets \cup {0}}]
  /\ sent \subseteq {"probe", "set", "reset"}
  /\ power \in {"up", "resuming", "wedged", "down"}
  /\ asked \subseteq [name : Names \cup {""}, value : Offsets]
  /\ drift \subseteq Drifts
  /\ faults \in 0..MaxFaults
  /\ outages \in 0..MaxOutages

-----------------------------------------------------------------------------
(* The state and its profiles.                                             *)

NewProfile == [uv |-> NoOffset, active |-> FALSE, rest |-> FALSE]
Empty(p) == p.uv = NoOffset /\ ~p.rest
\* ValidateProfileName: the default name cannot be chosen.
ValidName(name) == name \in Names \ {Default}
\* IsCustomProfile: the default profile is addressable before it is saved.
IsCustom(s, name) == name = Default \/ name \in DOMAIN s.saved
SavedProfile(s, name) == IF name \in DOMAIN s.saved THEN s.saved[name] ELSE NewProfile

PutProfile(s, name, p) ==
  [s EXCEPT !.saved = [n \in DOMAIN s.saved \cup {name} |-> IF n = name THEN p ELSE s.saved[n]]]

undervoltActive(s) == \E n \in DOMAIN s.saved : s.saved[n].uv # NoOffset /\ s.saved[n].active

\* Every flag down: the offset of no profile is in hardware.
ClearActive(s) == [s EXCEPT !.saved = [n \in DOMAIN s.saved |-> [s.saved[n] EXCEPT !.active = FALSE]]]

\* The flags tell what the CPU runs with, and that it is the active profile's.
Agree(s, co) ==
  /\ \A n \in DOMAIN s.saved :
       s.saved[n].active => n = s.profile /\ encodeCOValue(s.saved[n].uv) = co
  /\ undervoltActive(s) \/ co = StockCO

\* saveAndNotify, which writes the whole state: a failure is only logged.
Save(s, f) == st' = s /\ disk' = IF f = "save" THEN disk ELSE s

\* The failure an action may meet.
MayFail(f) ==
  /\ f # "none" => faults < MaxFaults
  /\ faults' = IF f = "none" THEN faults ELSE faults + 1
SMUFailures == {"none", "probe", "lost", "unread"}
SomeFailure == {"none"} \cup Failures

\* The events since the flags were last right that may have made them wrong.
Drift(causes) ==
  drift' = IF Agree(st', smu'.co) THEN {}
           ELSE drift \cup causes \cup IF smu'.probe = "failed" THEN {"smu"} ELSE {}
OfFailure(f) == IF f \in {"probe", "lost", "unread"} THEN {"smu"} ELSE {}

-----------------------------------------------------------------------------
(* The SMU mailbox.  A record m threads what an action does to it.         *)

Mailbox == [probe |-> smu.probe, co |-> smu.co, sent |-> {}, ok |-> TRUE]

\* SMUProbeUndervolt: the first in a process sends an offset of 0.
Probed(m, f) ==
  IF m.probe # "none" THEN m
  ELSE [m EXCEPT !.probe = IF f = "probe" THEN "failed" ELSE "ok",
                 !.co = IF f = "probe" THEN @ ELSE StockCO,
                 !.sent = @ \cup {"probe"}]

\* SendSMUCommand, once probed: it may not go out, or its answer be lost.
SendCommand(m, what, v, f) ==
  IF m.probe = "failed" THEN [m EXCEPT !.ok = FALSE]
  ELSE [m EXCEPT !.co = IF f = "lost" THEN @ ELSE encodeCOValue(v),
                 !.sent = @ \cup {what},
                 !.ok = f \notin {"lost", "unread"}]

SetCurveOptimizer(m, v, f) == SendCommand(Probed(m, f), "set", v, f)
ResetCurveOptimizer(m, f) == SendCommand(Probed(m, f), "reset", 0, f)

\* A defect the checks must catch: the reset is gated on the probe alone.
ResetAlways(m, s, f) ==
  LET q == Probed(m, f) IN IF q.probe = "ok" THEN ResetCurveOptimizer(q, f) ELSE q

\* uvApplied, and the reset it gates: state is asked before the probe.
ResetIfApplied(m, s, f) ==
  IF undervoltActive(s)
  THEN LET q == Probed(m, f) IN IF q.probe = "ok" THEN ResetCurveOptimizer(q, f) ELSE q
  ELSE m

Posted(m) == smu' = [probe |-> m.probe, co |-> m.co] /\ sent' = m.sent

hwMuFree == power # "down" /\ edit = NoEdit

-----------------------------------------------------------------------------
(* Applying a profile.                                                     *)

\* applyCustomHW, as far as the offset goes.
ApplyCustom(s, name, m, f) ==
  LET p == s.saved[name]
      q == IF p.uv # NoOffset THEN SetCurveOptimizer(m, p.uv, f) ELSE ResetIfApplied(m, s, f)
      on == p.uv # NoOffset /\ q.ok
      clear == ClearActive(s)
  IN /\ Posted(q)
     /\ Save([clear EXCEPT !.profile = name, !.saved[name].active = on], f)
     /\ Drift(OfFailure(f))

\* A defect the checks must catch: the switch forgets the offset.
ToStockKeepingOffset(stock, s, f) ==
  /\ Posted(Mailbox)
  /\ \/ /\ f = "profile"
        /\ UNCHANGED <<st, disk>>
        /\ Drift({"profile"})
     \/ /\ f # "profile"
        /\ Save([ClearActive(s) EXCEPT !.profile = stock], f)
        /\ Drift(OfFailure(f))

\* Leaving for a firmware profile: the offset goes first, and when
\* platform_profile cannot be written the state stays as it was.
ToStock(stock, s, f) ==
  LET q == ResetIfApplied(Mailbox, st, f) IN
  /\ Posted(q)
  /\ \/ /\ f = "profile"
        /\ UNCHANGED <<st, disk>>
        /\ Drift({"profile"})
     \/ /\ f # "profile"
        /\ Save([ClearActive(s) EXCEPT !.profile = stock], f)
        /\ Drift(OfFailure(f))

\* profile --set: refused while the EC is wedged (ecGuarded), for a name that
\* is not saved, and for a profile with nothing in it.
HandleProfile(name) ==
  /\ hwMuFree /\ power # "wedged"
  /\ \E f \in SomeFailure :
       /\ MayFail(f)
       /\ \/ name \in Stocks /\ ToStock(name, st, f)
          \/ /\ IsCustom(st, name) /\ ~Empty(SavedProfile(st, name))
             /\ f # "profile"
             /\ ApplyCustom(st, name, Mailbox, f)
  /\ UNCHANGED <<power, asked, edit, outages>>

-----------------------------------------------------------------------------
(* Creating, copying and deleting profiles.                                *)

ProfilesOnly(s) ==
  /\ \E f \in {"none", "save"} : MayFail(f) /\ Save(s, f)
  /\ sent' = {}
  /\ UNCHANGED <<smu, power, asked, edit, outages>>

HandleProfileCreate(name) ==
  /\ hwMuFree
  /\ ValidName(name)
  /\ name \notin DOMAIN st.saved
  /\ ProfilesOnly(PutProfile(st, name, NewProfile))
  /\ Drift({})

\* A copy of the active profile, its flag down: also when it is copied onto
\* its own name.
HandleProfileSave(name) ==
  /\ hwMuFree
  /\ ValidName(name)
  /\ IsCustom(st, st.profile)
  /\ LET src == SavedProfile(st, st.profile) IN
     /\ ~Empty(src)
     /\ ProfilesOnly(PutProfile(st, name, [src EXCEPT !.active = FALSE]))
  /\ Drift(IF name = st.profile THEN {"saveOver"} ELSE {})

\* A defect the checks must catch: the active profile may be deleted.
MayDeleteActive(name) == name \in DOMAIN st.saved /\ name \notin Targets

\* deleteRefusalLocked
MayDelete(name) ==
  /\ name \in DOMAIN st.saved
  /\ st.profile # name
  /\ name \notin Targets

\* A defect the checks must catch: a delete under d.mu alone.
DeleteUnlocked(name) ==
  /\ power # "down"
  /\ MayDelete(name)
  /\ ProfilesOnly([st EXCEPT !.saved = [n \in DOMAIN @ \ {name} |-> @[n]]])
  /\ Drift({})

HandleProfileDelete(name) ==
  /\ hwMuFree
  /\ MayDelete(name)
  /\ ProfilesOnly([st EXCEPT !.saved = [n \in DOMAIN @ \ {name} |-> @[n]]])
  /\ Drift({})

-----------------------------------------------------------------------------
(* Editing a profile: resolveEditTargetLocked, the hardware write, and     *)
(* commitEditLocked, in one stretch of hwMu.                               *)

\* "" is the running profile, or the default one on a firmware profile.
Resolved(name) ==
  IF name = ""
  THEN IF IsCustom(st, st.profile)
       THEN [name |-> st.profile, live |-> TRUE, wasActive |-> TRUE]
       ELSE [name |-> Default, live |-> TRUE, wasActive |-> FALSE]
  ELSE [name |-> name, live |-> name = st.profile, wasActive |-> name = st.profile]

Resolvable(name) == name = "" \/ IsCustom(st, name)

Implicit(t) == t.live /\ ~t.wasActive

Resolve(kind, name, value) ==
  /\ hwMuFree
  /\ Resolvable(name)
  /\ LET t == Resolved(name) IN
     edit' = [kind |-> kind, value |-> value, target |-> t, profile |-> SavedProfile(st, t.name)]
  /\ sent' = {}
  /\ UNCHANGED <<st, disk, smu, power, drift, faults, outages>>

\* A defect the checks must catch: an offset out of range is let through.
ProbeUndervoltUnchecked(name, value) ==
  /\ power # "down"
  /\ asked = {}
  /\ \E f \in {"none", "probe"} :
       /\ MayFail(f)
       /\ LET q == Probed(Mailbox, f) IN
          /\ Posted(q)
          /\ asked' = IF q.probe = "ok" THEN {[name |-> name, value |-> value]} ELSE {}
       /\ UNCHANGED st
       /\ Drift(sent')
  /\ UNCHANGED <<disk, power, edit, outages>>

\* undervolt --set probes before it takes hwMu, whatever its target, and
\* before it looks at the value: one that is no integer in range is refused.
ProbeUndervolt(name, value) ==
  /\ power # "down"
  /\ asked = {}
  /\ \E f \in {"none", "probe"} :
       /\ MayFail(f)
       /\ LET q == Probed(Mailbox, f) IN
          /\ Posted(q)
          /\ asked' = IF q.probe = "ok" /\ value \in Offsets
                      THEN {[name |-> name, value |-> value]} ELSE {}
       /\ UNCHANGED st
       /\ Drift(sent')
  /\ UNCHANGED <<disk, power, edit, outages>>

\* A name that was not saved, or was deleted since the probe, is refused.
RefuseUndervolt(a) ==
  /\ hwMuFree
  /\ ~Resolvable(a.name)
  /\ sent' = {}
  /\ UNCHANGED <<st, disk, smu, power, edit, drift, faults, outages>>

ResolveUndervolt ==
  \E a \in asked :
    /\ Resolve("uv-set", a.name, a.value) \/ RefuseUndervolt(a)
    /\ asked' = asked \ {a}

\* undervolt --reset, and the fancurve and tdp commands, whose own effects
\* are in ThermalControl: here they only leave the profile with a setting
\* more or a setting less, and tdp --reset leaves the running one.
ResolveOther(kind, name) ==
  /\ kind # "uv-reset" => power # "wedged"
  /\ kind = "uv-reset" => smu.probe # "failed"
  /\ Resolve(kind, name, NoOffset)
  /\ UNCHANGED asked

Commit(p, q, f, cause) ==
  /\ Posted(q)
  /\ LET s == PutProfile(st, edit.target.name, p) IN
     Save(IF edit.target.live THEN [s EXCEPT !.profile = edit.target.name] ELSE s, f)
  /\ Drift(cause)

Refused(q, f) == Posted(q) /\ UNCHANGED <<st, disk>> /\ Drift(OfFailure(f))

\* A defect the checks must catch: undervolt --set marks a profile that is
\* not running.
SetUndervoltAlwaysActive(f) ==
  LET t == edit.target
      q == IF t.live THEN SetCurveOptimizer(Mailbox, edit.value, f) ELSE Mailbox
  IN IF q.ok
     THEN Commit([edit.profile EXCEPT !.uv = edit.value, !.active = TRUE], q, f, {})
     ELSE Refused(q, f)

\* Live, it is written to the SMU first, and refused when that fails.
SetUndervolt(f) ==
  LET t == edit.target
      q == IF t.live THEN SetCurveOptimizer(Mailbox, edit.value, f) ELSE Mailbox
  IN IF q.ok
     THEN Commit([edit.profile EXCEPT !.uv = edit.value, !.active = t.live], q, f, {})
     ELSE Refused(q, f)

\* The SMU is written only when an offset is applied, and a reset on a
\* firmware profile edits no profile.
ResetUndervolt(f) ==
  LET t == edit.target
      q == IF t.live THEN ResetIfApplied(Mailbox, st, f) ELSE Mailbox
  IN IF ~q.ok \/ Implicit(t)
     THEN Refused(q, f)
     ELSE Commit([edit.profile EXCEPT !.uv = NoOffset, !.active = FALSE], q, f, OfFailure(f))

SetOther(f) == Commit([edit.profile EXCEPT !.rest = TRUE], Mailbox, f, {})

ResetFanCurve(f) ==
  IF Implicit(edit.target) THEN Refused(Mailbox, f)
  ELSE \E left \in {edit.profile.rest, FALSE} :
         Commit([edit.profile EXCEPT !.rest = left], Mailbox, f, {})

\* Live, it is a switch to Balanced that also clears the limits and the
\* curve of the profile that was running.
ResetTDP(f) ==
  IF edit.target.live
  THEN ToStock(Balanced,
               IF Implicit(edit.target) THEN st
               ELSE PutProfile(st, edit.target.name, [edit.profile EXCEPT !.rest = FALSE]), f)
  ELSE \E left \in {edit.profile.rest, FALSE} :
         Commit([edit.profile EXCEPT !.rest = left], Mailbox, f, {})

\* The rest of the handler, at the end of which hwMu is released.
FinishEdit ==
  /\ edit # NoEdit
  /\ \E f \in SomeFailure :
       /\ MayFail(f)
       /\ f = "profile" => edit.kind = "tdp-reset" /\ edit.target.live
       /\ \/ edit.kind = "uv-set" /\ SetUndervolt(f)
          \/ edit.kind = "uv-reset" /\ ResetUndervolt(f)
          \/ edit.kind = "set" /\ SetOther(f)
          \/ edit.kind = "fancurve-reset" /\ ResetFanCurve(f)
          \/ edit.kind \in {"set", "fancurve-reset"} /\ f = "none" /\ Refused(Mailbox, f)
          \/ edit.kind = "tdp-reset" /\ ResetTDP(f)
  /\ edit' = NoEdit
  /\ UNCHANGED <<power, asked, outages>>

-----------------------------------------------------------------------------
(* Sleep, crashes and restarts.                                            *)

\* A suspend loses the offset; one given up before the freeze does not.
Suspend ==
  /\ power = "up"
  /\ outages < MaxOutages
  /\ outages' = outages + 1
  /\ power' = "resuming"
  /\ \E co \in {smu.co, StockCO} : smu' = [smu EXCEPT !.co = co]
  /\ sent' = {}
  /\ UNCHANGED <<st, disk, asked, edit, drift, faults>>

ActiveToRestore == IsCustom(st, st.profile) /\ ~Empty(SavedProfile(st, st.profile))

\* restoreVolatileState, or the reconcile watcher's recovery of a wedged EC.
RestoreProfile ==
  /\ power' = "up"
  /\ IF ActiveToRestore
     THEN \E f \in SomeFailure \ {"profile"} :
            MayFail(f) /\ ApplyCustom(st, st.profile, Mailbox, f)
     ELSE /\ sent' = {}
          /\ UNCHANGED <<st, smu, disk, faults>>
          /\ Drift({})
  /\ UNCHANGED <<asked, edit, outages>>

Resume == power = "resuming" /\ hwMuFree /\ RestoreProfile
RecoverEC == power = "wedged" /\ hwMuFree /\ RestoreProfile

ResumeWedged ==
  /\ power = "resuming" /\ hwMuFree
  /\ power' = "wedged"
  /\ sent' = {}
  /\ UNCHANGED <<st, disk, smu, asked, edit, drift, faults, outages>>

\* The stand-down ran out: the resume signal never came.  The watcher sends
\* the saved offset and marks nothing.
StaleResume ==
  /\ power = "resuming" /\ hwMuFree
  /\ power' = "up"
  /\ IF IsCustom(st, st.profile) /\ SavedProfile(st, st.profile).uv \notin {NoOffset, 0}
     THEN \E f \in SMUFailures :
            /\ MayFail(f)
            /\ Posted(SetCurveOptimizer(Mailbox, st.saved[st.profile].uv, f))
            /\ UNCHANGED st
            /\ Drift(OfFailure(f) \cup {"reapply"})
     ELSE /\ sent' = {}
          /\ UNCHANGED <<st, smu, faults>>
          /\ Drift({})
  /\ UNCHANGED <<disk, asked, edit, outages>>

\* The daemon dies, or the machine does: what was not saved is forgotten.
Crash(reboot) ==
  /\ power # "down"
  /\ outages < MaxOutages
  /\ outages' = outages + 1
  /\ power' = "down"
  /\ st' = disk
  /\ smu' = [probe |-> "none", co |-> IF reboot THEN StockCO ELSE smu.co]
  /\ asked' = {}
  /\ edit' = NoEdit
  /\ sent' = {}
  /\ Drift(IF st # disk THEN {"unsaved"} ELSE {})
  /\ UNCHANGED <<disk, faults>>

\* autoswitchTarget: a target that is neither active already nor empty.
Switchable(t) == t # st.profile /\ (t \in Stocks \/ (IsCustom(st, t) /\ ~Empty(SavedProfile(st, t))))

\* Run: a wedged EC skips the whole restore.
StartWedged ==
  /\ power = "down"
  /\ power' = "wedged"
  /\ sent' = {}
  /\ UNCHANGED <<st, disk, smu, asked, edit, drift, faults, outages>>

\* restoreHardwareAtStartup.  Leaving a custom profile for a firmware one
\* resets the offset and keeps its flag.
Start(target) ==
  /\ power = "down"
  /\ power' = "up"
  /\ \/ target = st.profile
     \/ target \in Targets /\ Switchable(target)
  /\ \E f \in SomeFailure \ {"profile"} :
       /\ MayFail(f)
       /\ IF target \in Names
          THEN IF IsCustom(st, target) /\ ~Empty(SavedProfile(st, target))
               THEN ApplyCustom(st, target, Mailbox, f)
               ELSE /\ Posted(Mailbox)
                    /\ UNCHANGED <<st, disk>>
                    /\ Drift({})
          ELSE /\ Posted(IF st.profile # target /\ IsCustom(st, st.profile)
                         THEN ResetIfApplied(Mailbox, st, f) ELSE Mailbox)
               /\ Save([st EXCEPT !.profile = target], f)
               /\ Drift(OfFailure(f) \cup IF undervoltActive(st) THEN {"startup"} ELSE {})
  /\ UNCHANGED <<asked, edit, outages>>

-----------------------------------------------------------------------------
Init ==
  /\ st = [profile |-> Balanced, saved |-> [n \in {} |-> NewProfile]]
  /\ disk = st
  /\ smu = [probe |-> "none", co |-> StockCO]
  /\ sent = {}
  /\ power = "up"
  /\ asked = {}
  /\ edit = NoEdit
  /\ drift = {}
  /\ faults = 0
  /\ outages = 0

Commands ==
  \/ \E name \in Names \cup Stocks : HandleProfile(name)
  \/ \E name \in Names : HandleProfileCreate(name) \/ HandleProfileSave(name) \/ HandleProfileDelete(name)
  \/ \E name \in Names \cup {""}, value \in Requests : ProbeUndervolt(name, value)
  \/ ResolveUndervolt
  \/ \E name \in Names \cup {""}, kind \in {"uv-reset", "set", "fancurve-reset", "tdp-reset"} :
       ResolveOther(kind, name)
  \/ FinishEdit

Outages ==
  \/ Suspend \/ Resume \/ ResumeWedged \/ RecoverEC \/ StaleResume
  \/ \E reboot \in BOOLEAN : Crash(reboot)
  \/ StartWedged
  \/ \E target \in Names \cup Stocks : Start(target)

Next == Commands \/ Outages

Spec == Init /\ [][Next]_vars

-----------------------------------------------------------------------------
(* Properties.                                                             *)

\* While the daemon runs, the Active flags tell exactly what offset the CPU
\* has: only the active profile's is ever up, and only with its own offset in
\* force, and no offset is in force with every flag down (profile.go:172-180).  The only
\* ways out are the seven that drift names, each an event of its own.
FlagsTellHardware == power = "up" /\ drift = {} => Agree(st, smu.co)

\* No custom offset runs under a firmware profile, whichever command,
\* restart or resume led there (profile.go:188-190), unless the state was
\* lost, written over, or marked nothing, or the SMU failed.
StockClean ==
  power = "up" /\ st.profile \in Stocks /\ smu.co # StockCO =>
    drift \cap {"smu", "saveOver", "reapply", "unsaved"} # {}

\* The mailbox is never sent a reset on a machine that has no offset to
\* clear (server.go:696-716), nor the probe's but for a write that was asked
\* for and may follow or a reset that is due (smu.go:163-165); the one other
\* probe is that of a set which is refused for its value only afterwards.
NoSpeculativeWrite ==
  [][power = "up" /\ drift = {} =>
       /\ "reset" \in sent' =>
            smu.co # StockCO \/ \E n \in DOMAIN st.saved : st.saved[n].active /\ st.saved[n].uv = 0
       /\ "probe" \in sent' =>
            \/ asked' # {} \/ "set" \in sent' \/ undervoltActive(st)
            \/ smu'.probe = "failed"
            \/ \E name \in Names \cup {""}, value \in Requests \ Offsets :
                 ProbeUndervolt(name, value)]_vars

\* The active profile exists, in memory and in the file a restart loads
\* (profile.go:470-472): otherwise the reconcile watcher goes quiet.
ActiveExists == \A s \in {st, disk} : s.profile \in Stocks \cup DOMAIN s.saved

\* What an edit commits is built on the profile as it still is: nothing else
\* changed, deleted or created it since it was resolved (profile.go:404-409).
SnapshotFresh == edit # NoEdit => edit.profile = SavedProfile(st, edit.target.name)
=============================================================================
