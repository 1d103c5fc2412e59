------------------------------ MODULE Lighting ------------------------------
(***************************************************************************)
(* The lighting of the two HID zones (internal/daemon/server.go, daemon.go *)
(* and hotplug.go, over internal/hid and internal/aura): the apply, off    *)
(* and brightness commands, the saved entry for all zones and the          *)
(* overrides per zone, and the places that restore what was saved: the     *)
(* start, a resume, and the watcher that polls for the detachable keyboard.*)
(* A command and a restore run under d.mu from the first packet to the     *)
(* change of state.  A packet goes to every open node; it fails as a whole *)
(* when one of the nodes refuses it.                                       *)
(***************************************************************************)
EXTENDS Integers, FiniteSets

CONSTANTS
  Looks,        \* the modes, colours and speeds a client asks for
  Levels,       \* the brightness levels a client asks for
  Bright,       \* the level of an apply command and of the default state
  DefaultLook,  \* defaultState: static red
  MaxCommands, MaxFaults, MaxOutages   \* bounds on what happens to the daemon

ASSUME LightingAssumption ==
  /\ {"", "none"} \cap (Looks \cup {DefaultLook}) = {}   \* no mode saved, no entry
  /\ Levels \subseteq Nat /\ Bright \in Nat \ {0}
  /\ {MaxCommands, MaxFaults, MaxOutages} \subseteq Nat

Zones == {"keyboard", "lightbar"}

VARIABLES
  node,       \* each hidraw node: absent, there but not openable, or openable
  lamp,       \* each zone's hardware: power, look and level
  dev,        \* d.dev: the handle it holds on each zone, none at all if nil
  present,    \* what the hotplug watcher has latched of the keyboard
  resuming,   \* a resume has not restored yet
  lights,     \* d.state.Lighting and d.state.Devices
  drift,      \* zones known to show something else than what is saved, and
  unsent,     \*   zones turned off: the mode saved is not the one last sent
  commands, faults, outages

hardware == <<node, lamp, dev>>
watch == <<present, resuming>>
lightVars == <<node, lamp, dev, present, resuming, lights, drift,
               unsent, commands, faults, outages>>

Entry == [on : BOOLEAN, look : Looks \cup {DefaultLook, "", "none"}, level : Levels \cup {0, Bright}]

Default == [on |-> TRUE, look |-> DefaultLook, level |-> Bright]
NoEntry == [on |-> FALSE, look |-> "none", level |-> 0]
OffEntry == [on |-> FALSE, look |-> "", level |-> 0]
OverriddenIn(l) == {z \in Zones : l.zones[z] # NoEntry}
Overridden == OverriddenIn(lights)

\* What the firmware shows on a zone that has just been enumerated.
FirmwareLamp == [power |-> TRUE, look |-> "firmware", level |-> Bright]

LightTypeOK ==
  /\ node \in [Zones -> {"absent", "locked", "ready"}]
  /\ lamp \in [Zones -> [power : BOOLEAN, look : Looks \cup {DefaultLook, "firmware"}, level : Levels \cup {0, Bright}]]
  /\ dev \in [Zones -> {"none", "live", "stale"}]
  /\ {present, resuming} \subseteq BOOLEAN
  /\ lights \in [all : Entry, zones : [Zones -> Entry]]
  /\ drift \subseteq Zones /\ unsent \subseteq Zones
  /\ commands \in 0..MaxCommands /\ faults \in 0..MaxFaults /\ outages \in 0..MaxOutages

-----------------------------------------------------------------------------
(* What is saved, and what a restore makes of it.                          *)

\* normalizeLightingState: an empty field is taken from the fallback, then
\* from the default.
Normalize(e, fallback) ==
  IF e.look # "" THEN e
  ELSE [e EXCEPT !.look = IF fallback.look # "" THEN fallback.look ELSE DefaultLook]

\* The entry applyLightingState restores on a zone from the state l.
Wanted(l, z) ==
  IF z \in OverriddenIn(l) THEN Normalize(l.zones[z], l.all)
  ELSE IF OverriddenIn(l) # {} THEN l.all
  ELSE Normalize(l.all, OffEntry)

\* loadState's repair of the entries of a file.
Repaired(l) ==
  LET all == Normalize(l.all, Default) IN
  [all |-> all,
   zones |-> [z \in Zones |-> IF l.zones[z] = NoEntry THEN NoEntry
                              ELSE Normalize(l.zones[z], all)]]

\* The packets of aura.Apply and aura.TurnOff, in order: power, brightness,
\* the keyboard's mode, the lightbar's.  The first n of them have arrived.
ModePacket(z) == IF z = "keyboard" THEN 3 ELSE 4

Sent(n, z, l, e) ==
  [power |-> IF n >= 1 THEN e.on ELSE l.power,
   level |-> IF n >= 2 THEN (IF e.on THEN e.level ELSE 0) ELSE l.level,
   look  |-> IF e.on /\ n >= ModePacket(z) THEN e.look ELSE l.look]

\* SetPower and SetBrightness alone, as the brightness command sends them.
SentLevel(n, l, level) ==
  [l EXCEPT !.power = IF n >= 1 THEN level > 0 ELSE @, !.level = IF n >= 2 THEN level ELSE @]

-----------------------------------------------------------------------------
(* The commands.                                                           *)

\* hid.Device.FilteredView; "raw" is the keyboard's /dev/hidrawN path.
Targets(device) ==
  {z \in Zones : dev[z] # "none" /\ (device = "" \/ device = z
                                      \/ (device = "raw" /\ z = "keyboard"))}

\* A stale handle refuses the first packet, and the command does nothing.
Reaches(device) == Targets(device) # {} /\ \A z \in Targets(device) : dev[z] = "live"

Saves(device) == device # "raw"

\* The sequence stops at a packet that fails, and nothing is saved.
FailsMidway(device, sent) ==
  /\ faults < MaxFaults /\ faults' = faults + 1
  /\ \E n \in 0..3 : lamp' = [z \in Zones |-> IF z \in Targets(device) THEN sent[n][z] ELSE lamp[z]]
  /\ drift' = drift \cup Targets(device)
  /\ UNCHANGED <<lights, unsent>>

Succeeds(device, sent) ==
  /\ lamp' = [z \in Zones |-> IF z \in Targets(device) THEN sent[4][z] ELSE lamp[z]]
  /\ UNCHANGED faults

\* What each zone shows after each packet of the sequence for e.
Sending(e) == [n \in 0..4 |-> [z \in Zones |-> Sent(n, z, lamp[z], e)]]

Receives(device) ==
  /\ commands < MaxCommands /\ commands' = commands + 1
  /\ Reaches(device)
  /\ UNCHANGED <<node, dev, watch, outages>>

\* A defect the checks must catch: an apply to all zones keeps the overrides.
HandleApplyKeepingOverrides(device, look) ==
  LET e == [on |-> TRUE, look |-> look, level |-> Bright]
      sent == Sending(e)
  IN
  /\ Receives(device)
  /\ \/ FailsMidway(device, sent)
     \/ /\ Succeeds(device, sent)
        /\ lights' = IF device = "" THEN [lights EXCEPT !.all = e]
                     ELSE IF Saves(device) THEN [lights EXCEPT !.zones[device] = e] ELSE lights
        /\ drift' = IF Saves(device) THEN drift \ Targets(device) ELSE drift \cup {"keyboard"}
        /\ unsent' = unsent \ Targets(device)

\* What a raw path shows is not saved.
HandleApply(device, look) ==
  LET e == [on |-> TRUE, look |-> look, level |-> Bright]
      sent == Sending(e)
  IN
  /\ Receives(device)
  /\ \/ FailsMidway(device, sent)
     \/ /\ Succeeds(device, sent)
        /\ lights' = IF device = "" THEN [all |-> e, zones |-> [z \in Zones |-> NoEntry]]
                     ELSE IF Saves(device) THEN [lights EXCEPT !.zones[device] = e] ELSE lights
        /\ drift' = IF Saves(device) THEN drift \ Targets(device) ELSE drift \cup {"keyboard"}
        /\ unsent' = unsent \ Targets(device)

\* An override's mode is forgotten while the zone's hardware keeps it.
HandleOff(device) ==
  LET sent == Sending(OffEntry) IN
  /\ Receives(device)
  /\ \/ FailsMidway(device, sent)
     \/ /\ Succeeds(device, sent)
        /\ lights' = IF device = "" THEN [all |-> [lights.all EXCEPT !.on = FALSE],
                                          zones |-> [z \in Zones |-> NoEntry]]
                     ELSE IF Saves(device) THEN [lights EXCEPT !.zones[device] = OffEntry] ELSE lights
        /\ drift' = IF Saves(device) THEN drift ELSE drift \cup {"keyboard"}
        /\ unsent' = unsent \cup Targets(device)

\* The entry a brightness command starts from.
Base(z) == IF z \in Overridden THEN Normalize(lights.zones[z], lights.all) ELSE lights.all

\* A defect the checks must catch: the entry of a zone that was turned off is
\* reused as it stands.
BaseVerbatim(z) == IF z \in Overridden THEN lights.zones[z] ELSE lights.all

\* To all zones the overrides are left as they are, although their hardware
\* follows.
Brightens(device, level, base) ==
  LET sent == [n \in 0..4 |-> [z \in Zones |-> SentLevel(n, lamp[z], level)]]
      At(e) == [e EXCEPT !.on = level > 0, !.level = level]
  IN
  /\ Receives(device)
  /\ \/ FailsMidway(device, sent)
     \/ /\ Succeeds(device, sent)
        /\ lights' = IF device = "" THEN [lights EXCEPT !.all = At(lights.all)]
                     ELSE IF Saves(device) THEN [lights EXCEPT !.zones[device] = At(base[device])]
                     ELSE lights
        /\ drift' = IF device = "" THEN drift \cup (Targets(device) \cap Overridden)
                    ELSE IF Saves(device) THEN drift ELSE drift \cup {"keyboard"}
        /\ UNCHANGED unsent

\* A defect the checks must catch: the entry is not normalized.
HandleBrightnessVerbatim(device, level) == Brightens(device, level, [z \in Zones |-> BaseVerbatim(z)])

HandleBrightness(device, level) == Brightens(device, level, [z \in Zones |-> Base(z)])

LightingCommand(device) ==
  \/ \E look \in Looks : HandleApply(device, look)
  \/ \E level \in Levels : HandleBrightness(device, level)
  \/ HandleOff(device)

Devices == Zones \cup {"", "raw"}

-----------------------------------------------------------------------------
(* Restoring.                                                              *)

\* hid.FindDevice: every node that can be opened; an error if none can.
Openable == {z \in Zones : node[z] = "ready"}
Opened == [z \in Zones |-> IF z \in Openable THEN "live" ELSE "none"]

\* The zones that get the whole sequence: with overrides each is restored on
\* its own, whatever happens to the other; without, one sequence goes to all.
Written(opened, failing) == opened \ failing

\* applyLightingState on the zones just opened.  That a zone failed is known,
\* and reported to the caller.
ApplyLightingState(l, opened) ==
  \E failing \in SUBSET opened, n \in 0..3 :
    /\ IF failing = {} THEN n = 3 ELSE faults < MaxFaults
    /\ OverriddenIn(l) # {} \/ failing \in {{}, opened}
    /\ faults' = faults + (IF failing = {} THEN 0 ELSE 1)
    /\ lamp' = [z \in Zones |->
         IF z \in Written(opened, failing) THEN Sent(4, z, lamp[z], Wanted(l, z))
         ELSE IF z \in failing THEN Sent(n, z, lamp[z], Wanted(l, z))
         ELSE lamp[z]]
    /\ drift' = (drift \ opened) \cup failing
    /\ unsent' = {z \in unsent \cup opened : z \notin opened \/ ~Wanted(l, z).on}

Dark == UNCHANGED <<dev, lamp, drift, unsent, faults>>

\* reopenDeviceLocked, then the restore; without a node to open nothing happens.
ReopenAndRestore ==
  IF Openable # {} THEN dev' = Opened /\ ApplyLightingState(lights, Openable) ELSE Dark

\* A defect the checks must catch: the answer of the restore is ignored.
RestoredOrNot == TRUE

Restored == Openable # {} /\ faults' = faults

Attached == node["keyboard"] # "absent"

\* hotplugTick: a reattach is latched only when it was restored.
HotplugTick ==
  /\ IF Attached /\ ~present
     THEN ReopenAndRestore /\ present' = Restored
     ELSE Dark /\ present' = Attached
  /\ UNCHANGED <<node, resuming, lights, commands, outages>>

\* The lighting part of restoreVolatileState: without a device the lighting is
\* left alone.
Resume ==
  /\ resuming /\ resuming' = FALSE
  /\ IF \E z \in Zones : dev[z] # "none" THEN ReopenAndRestore ELSE Dark
  /\ UNCHANGED <<node, present, lights, commands, outages>>

\* The start of the process from a file that says l.  The watcher takes the
\* keyboard it finds as restored.
Start(l) ==
  /\ lights' = Repaired(l)
  /\ dev' = Opened
  /\ IF Openable # {} THEN ApplyLightingState(Repaired(l), Openable)
     ELSE UNCHANGED <<lamp, drift, unsent, faults>>
  /\ present' = Attached /\ resuming' = FALSE

-----------------------------------------------------------------------------
(* The nodes: the kernel enumerates, udev gives access.                    *)

Outage == outages < MaxOutages /\ outages' = outages + 1

Stale(zones) == [z \in Zones |-> IF z \in zones /\ dev[z] = "live" THEN "stale" ELSE dev[z]]

Detach ==
  /\ Outage /\ Attached
  /\ node' = [node EXCEPT !["keyboard"] = "absent"]
  /\ dev' = Stale({"keyboard"})
  /\ UNCHANGED <<lamp, watch, lights, drift, unsent, commands, faults>>

Attach ==
  /\ ~Attached
  /\ node' = [node EXCEPT !["keyboard"] = "locked"]
  /\ lamp' = [lamp EXCEPT !["keyboard"] = FirmwareLamp]
  /\ UNCHANGED <<dev, watch, lights, drift, unsent, commands, faults, outages>>

GiveAccess(z) ==
  /\ node[z] = "locked" /\ node' = [node EXCEPT ![z] = "ready"]
  /\ UNCHANGED <<lamp, dev, watch, lights, drift, unsent, commands, faults, outages>>

\* watchResume turns everything off before a sleep, also one that is given up:
\* it is announced as a resume all the same.
TurnOffForSleep ==
  /\ Outage /\ resuming' = TRUE
  /\ lamp' = [z \in Zones |-> IF Reaches("") /\ z \in Targets("") THEN Sent(4, z, lamp[z], OffEntry)
                              ELSE lamp[z]]
  /\ drift' = drift \cup Targets("")
  /\ UNCHANGED <<node, dev, present, lights, unsent, commands, faults>>

\* Across a suspend what is attached is enumerated again.
SleepAndWake ==
  /\ Outage
  /\ node' = [z \in Zones |-> IF node[z] = "absent" THEN "absent" ELSE "locked"]
  /\ lamp' = [z \in Zones |-> IF node[z] = "absent" THEN lamp[z] ELSE FirmwareLamp]
  /\ dev' = Stale(Zones) /\ resuming' = TRUE
  /\ UNCHANGED <<present, lights, drift, unsent, commands, faults>>

\* The process is killed and started again; what was saved is what it had.
Restart ==
  /\ Outage /\ Start(lights)
  /\ UNCHANGED <<node, commands>>

\* The first start, with the nodes as udev has left them, from no file or from
\* one of an earlier release in which a zone was dimmed after it was turned off.
FirstLights ==
  {[all |-> Default, zones |-> [z \in Zones |-> NoEntry]],
   [all |-> Default,
    zones |-> [z \in Zones |-> IF z = "lightbar" THEN [OffEntry EXCEPT !.on = TRUE, !.level = Bright]
                               ELSE NoEntry]]}

LightInit(l) ==
  /\ node \in [Zones -> {"locked", "ready"}]
  /\ lights = Repaired(l)
  /\ dev = Opened
  /\ lamp = [z \in Zones |-> IF z \in Openable THEN Sent(4, z, FirmwareLamp, Wanted(lights, z))
                             ELSE FirmwareLamp]
  /\ present = TRUE /\ resuming = FALSE
  /\ drift = {} /\ unsent = {z \in Openable : ~Wanted(lights, z).on}
  /\ commands = 0 /\ faults = 0 /\ outages = 0

Nodes == Detach \/ Attach \/ SleepAndWake \/ \E z \in Zones : GiveAccess(z)

LightInits == \E l \in FirstLights : LightInit(l)

LightCommands == \E device \in Devices : LightingCommand(device)

LightNext == LightCommands \/ HotplugTick \/ TurnOffForSleep \/ Resume \/ Nodes \/ Restart

LightSpec == LightInits /\ [][LightNext]_lightVars

-----------------------------------------------------------------------------
(* Properties.                                                             *)

Lit(z) == lamp[z].power /\ lamp[z].level > 0

\* The mode of a zone that was off is its hardware's own.
Shows(z) ==
  LET w == Wanted(lights, z) IN
  IF w.on /\ w.level > 0
  THEN Lit(z) /\ lamp[z].level = w.level /\ (z \in unsent \/ lamp[z].look = w.look)
  ELSE ~Lit(z)

(***************************************************************************)
(* A zone whose handle works shows what a restart would put there: a       *)
(* command and what it saves agree, whatever zones it names and whatever   *)
(* was saved before, and a zone that fails in a restore takes no other     *)
(* with it.  Excepted are the zones in drift: a sequence that failed on    *)
(* the way, a raw path, the brightness of all zones over an override (it   *)
(* lights the zone and leaves the override as it was), or a sleep whose    *)
(* resume has not been restored yet.  The mode is not                      *)
(* compared on a zone that a brightness command lights after it was off:   *)
(* the override's mode is gone, and a restore of a dark zone sends none.   *)
(***************************************************************************)
LampsMatch == \A z \in Zones : dev[z] = "live" /\ z \notin drift => Shows(z)

(***************************************************************************)
(* Every entry the daemon holds that is on names a mode: what it saved, or *)
(* loaded from an older release, can be restored.                          *)
(***************************************************************************)
Restorable ==
  \A e \in {lights.all} \cup {lights.zones[z] : z \in Zones} : e.on => e.look # ""

(***************************************************************************)
(* The watcher takes a keyboard that came back as restored only when every *)
(* zone it opened shows what was saved: what a first try meets, the next   *)
(* poll repairs.                                                           *)
(***************************************************************************)
LatchedWhenShown ==
  [][~present /\ present' /\ outages' = outages
       => \A z \in Zones : dev'[z] = "live" => Shows(z)']_lightVars

(***************************************************************************)
(* The watcher takes a keyboard as restored only when it has opened it     *)
(* (hotplug.go:21-24).                                                     *)
(***************************************************************************)
LatchesOnlyOpened == [][~present /\ present' => dev'["keyboard"] = "live"]_lightVars
=============================================================================
