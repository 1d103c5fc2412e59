-------------------------- MODULE Lighting_proofs --------------------------
(***************************************************************************)
(* The commands and the restores of the lighting, for every set of modes   *)
(* and levels: what the zones show is what a restart would put there, and  *)
(* what is saved can be restored.                                          *)
(***************************************************************************)
EXTENDS Lighting, TLAPS

-----------------------------------------------------------------------------
(* The inductive invariant.                                                *)

Names == Looks \cup {DefaultLook}
LevelSet == Levels \cup {0, Bright}
LampSet == [power : BOOLEAN, look : Looks \cup {DefaultLook, "firmware"}, level : LevelSet]
LightsSet == [all : Entry, zones : [Zones -> Entry]]

\* What a file may hold: the entry for all zones names a mode, an override
\* names one or is that of a zone that was turned off.
Named(l) ==
  /\ l.all.look \in Names
  /\ \A z \in Zones : l.zones[z] = NoEntry \/ l.zones[z].look \in Names \cup {""}

\* An override that is on names a mode.
OnNamed(l) == \A z \in Zones : l.zones[z].on => l.zones[z].look # ""

\* A handle that works is on a node that is there.
LiveNode == \A z \in Zones : dev[z] = "live" => node[z] # "absent"

\* A lamp is lit at the level of an entry that is on, and dark for another.
Glows(l, w) ==
  IF w.on /\ w.level > 0 THEN l.power /\ l.level > 0 /\ l.level = w.level
  ELSE ~(l.power /\ l.level > 0)

\* Stronger than LampsMatch: the hardware keeps the saved mode of a dark zone
\* too, unless the zone was turned off.
ZoneShown(z) ==
  dev[z] = "live" /\ z \notin drift
    => /\ Glows(lamp[z], Wanted(lights, z))
       /\ z \notin unsent => lamp[z].look = Wanted(lights, z).look

Shown == \A z \in Zones : ZoneShown(z)

LightInv == LightTypeOK /\ Named(lights) /\ OnNamed(lights) /\ LiveNode /\ Shown

-----------------------------------------------------------------------------
(* Entries.                                                                *)

LEMMA LevelsAreNat == LevelSet \subseteq Nat /\ Bright > 0 /\ 0 \in LevelSet /\ Bright \in LevelSet
<1>1. Levels \subseteq Nat /\ Bright \in Nat \ {0}
  BY LightingAssumption
<1>2. Bright > 0
  BY <1>1
<1> QED BY <1>1, <1>2 DEF LevelSet

LEMMA NamesNamed ==
  /\ "" \notin Names /\ "none" \notin Names /\ DefaultLook \in Names
  /\ Names \subseteq Looks \cup {DefaultLook, "", "none"}
  BY LightingAssumption DEF Names

LEMMA EntryFields ==
  ASSUME NEW e \in Entry
  PROVE  e.on \in BOOLEAN /\ e.look \in Names \cup {"", "none"} /\ e.level \in LevelSet
  BY DEF Entry, Names, LevelSet

LEMMA EntryIntro ==
  ASSUME NEW on \in BOOLEAN, NEW look \in Names \cup {"", "none"}, NEW level \in LevelSet
  PROVE  [on |-> on, look |-> look, level |-> level] \in Entry
  BY DEF Entry, Names, LevelSet

LEMMA FixedEntries == Default \in Entry /\ NoEntry \in Entry /\ OffEntry \in Entry
  BY EntryIntro, LevelsAreNat, NamesNamed DEF Default, NoEntry, OffEntry

\* normalizeLightingState fills in the mode and nothing else.
LEMMA Normalized ==
  ASSUME NEW e \in Entry, NEW f \in Entry
  PROVE  /\ Normalize(e, f) \in Entry
         /\ Normalize(e, f).on = e.on
         /\ Normalize(e, f).level = e.level
         /\ e.look # "" => Normalize(e, f) = e
         /\ e.look = "" /\ f.look # "" => Normalize(e, f).look = f.look
         /\ e.look = "" /\ f.look = "" => Normalize(e, f).look = DefaultLook
<1>1. CASE e.look # ""
  BY <1>1 DEF Normalize
<1>2. CASE e.look = ""
  <2> DEFINE name == IF f.look # "" THEN f.look ELSE DefaultLook
  <2>1. name \in Looks \cup {DefaultLook, "", "none"}
    BY DEF Entry
  <2>2. Normalize(e, f) = [e EXCEPT !.look = name]
    BY <1>2 DEF Normalize
  <2> HIDE DEF name
  <2>3. /\ [e EXCEPT !.look = name] \in Entry
        /\ [e EXCEPT !.look = name].on = e.on
        /\ [e EXCEPT !.look = name].level = e.level
        /\ [e EXCEPT !.look = name].look = name
    BY <2>1 DEF Entry
  <2> QED BY <1>2, <2>2, <2>3 DEF name
<1> QED BY <1>1, <1>2

LEMMA LightsFields ==
  ASSUME NEW l \in LightsSet
  PROVE  l.all \in Entry /\ l.zones \in [Zones -> Entry] /\ \A z \in Zones : l.zones[z] \in Entry
  BY DEF LightsSet

\* The entry wanted on a zone: its override, completed, or the entry for all.
LEMMA WantedIs ==
  ASSUME NEW l \in LightsSet, Named(l), NEW z \in Zones
  PROVE  Wanted(l, z) = IF l.zones[z] # NoEntry THEN Normalize(l.zones[z], l.all) ELSE l.all
<1>1. l.all \in Entry /\ l.all.look # ""
  BY LightsFields, NamesNamed DEF Named
<1>2. Normalize(l.all, OffEntry) = l.all
  BY <1>1, FixedEntries, Normalized
<1> QED BY <1>2 DEF Wanted, OverriddenIn

LEMMA WantedTyped ==
  ASSUME NEW l \in LightsSet, Named(l), NEW z \in Zones
  PROVE  Wanted(l, z) \in Entry /\ Wanted(l, z).look \in Names
<1>1. l.all \in Entry /\ l.zones[z] \in Entry /\ l.all.look \in Names /\ l.all.look # ""
  BY LightsFields, NamesNamed DEF Named
<1>2. CASE l.zones[z] = NoEntry
  BY <1>1, <1>2, WantedIs
<1>3. CASE l.zones[z] # NoEntry
  <2>1. Wanted(l, z) = Normalize(l.zones[z], l.all)
    BY <1>3, WantedIs
  <2>2. l.zones[z].look \in Names \cup {""}
    BY <1>3 DEF Named
  <2>3. CASE l.zones[z].look = ""
    <3>1. Normalize(l.zones[z], l.all) \in Entry
      BY <1>1, Normalized
    <3>2. Normalize(l.zones[z], l.all).look = l.all.look
      BY <1>1, <2>3, Normalized
    <3> QED BY <1>1, <2>1, <3>1, <3>2
  <2>4. CASE l.zones[z].look # ""
    BY <1>1, <2>1, <2>2, <2>4, Normalized
  <2> QED BY <2>3, <2>4
<1> QED BY <1>2, <1>3

\* A command to all zones that drops the overrides.
LEMMA ForAllZones ==
  ASSUME NEW e \in Entry, e.look \in Names,
         NEW l, l = [all |-> e, zones |-> [z \in Zones |-> NoEntry]]
  PROVE  /\ l \in LightsSet /\ Named(l) /\ OnNamed(l)
         /\ \A z \in Zones : Wanted(l, z) = e
<1>1. l.all = e /\ \A z \in Zones : l.zones[z] = NoEntry
  OBVIOUS
<1>2. l \in LightsSet
  BY FixedEntries DEF LightsSet
<1>3. Named(l)
  BY <1>1 DEF Named
<1>4. OnNamed(l)
  BY <1>1 DEF OnNamed, NoEntry
<1> QED BY <1>1, <1>2, <1>3, <1>4, WantedIs

\* An override written, and the entry for all zones.
WithZone(l, d, e) == [l EXCEPT !.zones[d] = e]
WithAll(l, e) == [l EXCEPT !.all = e]

\* A command to one zone writes its override and disturbs no other zone.
LEMMA ForOneZone ==
  ASSUME NEW l \in LightsSet, Named(l), OnNamed(l), NEW d \in Zones,
         NEW e \in Entry, e.look \in Names \cup {""}, e.on => e.look # ""
  PROVE  /\ WithZone(l, d, e) \in LightsSet
         /\ Named(WithZone(l, d, e)) /\ OnNamed(WithZone(l, d, e))
         /\ Wanted(WithZone(l, d, e), d) = Normalize(e, l.all)
         /\ \A z \in Zones \ {d} : Wanted(WithZone(l, d, e), z) = Wanted(l, z)
<1> DEFINE m == WithZone(l, d, e)
<1>1. m.all = l.all /\ m.zones[d] = e /\ \A z \in Zones \ {d} : m.zones[z] = l.zones[z]
  BY DEF LightsSet, WithZone
<1>2. m \in LightsSet
  BY DEF LightsSet, WithZone
<1> HIDE DEF m
<1>3. Named(m)
  BY <1>1 DEF Named
<1>4. OnNamed(m)
  BY <1>1 DEF OnNamed
<1>5. e # NoEntry
  <2>1. NoEntry.look = "none"
    BY DEF NoEntry
  <2>2. e.look # "none"
    BY NamesNamed
  <2> QED BY <2>1, <2>2
<1>6. Wanted(m, d) = Normalize(e, l.all)
  BY <1>1, <1>2, <1>3, <1>5, WantedIs
<1>7. ASSUME NEW z \in Zones \ {d} PROVE Wanted(m, z) = Wanted(l, z)
  BY <1>1, <1>2, <1>3, WantedIs
<1> QED BY <1>2, <1>3, <1>4, <1>6, <1>7 DEF m

\* The brightness of all zones: the overrides stay, and the entry for all keeps
\* its mode.
LEMMA ForTheRest ==
  ASSUME NEW l \in LightsSet, Named(l), OnNamed(l),
         NEW e \in Entry, e.look = l.all.look,
         NEW m, m = WithAll(l, e)
  PROVE  /\ m \in LightsSet /\ Named(m) /\ OnNamed(m)
         /\ \A z \in Zones \ OverriddenIn(l) : Wanted(m, z) = e /\ Wanted(l, z) = l.all
<1>1. m.all = e /\ m.zones = l.zones
  BY DEF LightsSet, WithAll
<1>2. m \in LightsSet
  BY DEF LightsSet, WithAll
<1>3. Named(m)
  BY <1>1 DEF Named
<1>4. OnNamed(m)
  BY <1>1 DEF OnNamed
<1>5. ASSUME NEW z \in Zones \ OverriddenIn(l) PROVE Wanted(m, z) = e /\ Wanted(l, z) = l.all
  <2>1. m.zones[z] = NoEntry /\ l.zones[z] = NoEntry
    BY <1>1 DEF OverriddenIn
  <2> QED BY <1>1, <1>2, <1>3, <2>1, WantedIs
<1> QED BY <1>2, <1>3, <1>4, <1>5

\* loadState's repair: what comes out is complete, and repairing it again
\* changes nothing.
LEMMA RepairedIs ==
  ASSUME NEW l \in LightsSet, Named(l)
  PROVE  /\ Repaired(l).all = l.all
         /\ Repaired(l) = [all |-> l.all,
              zones |-> [z \in Zones |-> IF l.zones[z] = NoEntry THEN NoEntry
                                         ELSE Normalize(l.zones[z], l.all)]]
<1>1. l.all \in Entry /\ l.all.look # ""
  BY LightsFields, NamesNamed DEF Named
<1>2. Normalize(l.all, Default) = l.all
  BY <1>1, FixedEntries, Normalized
<1> QED BY <1>2 DEF Repaired

LEMMA RepairComplete ==
  ASSUME NEW l \in LightsSet, Named(l)
  PROVE  /\ Repaired(l) \in LightsSet /\ Named(Repaired(l)) /\ OnNamed(Repaired(l))
         /\ Repaired(Repaired(l)) = Repaired(l)
<1> DEFINE R == Repaired(l)
<1>1. l.all \in Entry /\ l.all.look # "" /\ l.all.look \in Names
  BY LightsFields, NamesNamed DEF Named
<1>2. ASSUME NEW z \in Zones, l.zones[z] # NoEntry
      PROVE  /\ Normalize(l.zones[z], l.all) \in Entry
             /\ Normalize(l.zones[z], l.all).look \in Names
             /\ Normalize(l.zones[z], l.all).look # ""
  <2>1. Wanted(l, z) = Normalize(l.zones[z], l.all)
    BY <1>2, WantedIs
  <2> QED BY <2>1, WantedTyped, NamesNamed
<1>3. /\ R.all = l.all
      /\ \A z \in Zones : R.zones[z] = IF l.zones[z] = NoEntry THEN NoEntry
                                       ELSE Normalize(l.zones[z], l.all)
  BY RepairedIs
<1>4. R \in LightsSet
  <2> DEFINE zones == [z \in Zones |-> IF l.zones[z] = NoEntry THEN NoEntry
                                     ELSE Normalize(l.zones[z], l.all)]
  <2>1. zones \in [Zones -> Entry]
    BY <1>2, FixedEntries
  <2>2. R = [all |-> l.all, zones |-> zones]
    BY RepairedIs
  <2> HIDE DEF zones, R
  <2> QED BY <1>1, <2>1, <2>2 DEF LightsSet
<1>5. Named(R)
  BY <1>1, <1>2, <1>3 DEF Named
<1>6. OnNamed(R)
  <2>1. ASSUME NEW z \in Zones, R.zones[z].on PROVE R.zones[z].look # ""
    <3>1. ~NoEntry.on
      BY DEF NoEntry
    <3>2. l.zones[z] # NoEntry
      BY <1>3, <2>1, <3>1
    <3> QED BY <1>2, <1>3, <3>2
  <2> QED BY <2>1 DEF OnNamed
<1>7. ASSUME NEW z \in Zones
      PROVE  (IF R.zones[z] = NoEntry THEN NoEntry ELSE Normalize(R.zones[z], R.all)) = R.zones[z]
  <2>1. CASE l.zones[z] = NoEntry
    BY <1>3, <2>1
  <2>2. CASE l.zones[z] # NoEntry
    <3>1. R.zones[z] \in Entry /\ R.zones[z].look # ""
      BY <1>2, <1>3, <2>2
    <3>2. Normalize(R.zones[z], R.all) = R.zones[z]
      BY <3>1 DEF Normalize
    <3> QED BY <3>2
  <2> QED BY <2>1, <2>2
<1>8. Repaired(R) = [all |-> R.all, zones |-> [z \in Zones |-> R.zones[z]]]
  BY <1>4, <1>5, <1>7, RepairedIs
<1>9. R = [all |-> R.all, zones |-> [z \in Zones |-> R.zones[z]]]
  BY <1>4 DEF LightsSet
<1> QED BY <1>4, <1>5, <1>6, <1>8, <1>9

-----------------------------------------------------------------------------
(* Packets.                                                                *)

LEMMA LampFields ==
  ASSUME NEW l \in LampSet
  PROVE  l.power \in BOOLEAN /\ l.look \in Names \cup {"firmware"} /\ l.level \in LevelSet
  BY DEF LampSet, Names

LEMMA LampIntro ==
  ASSUME NEW power \in BOOLEAN, NEW look \in Names \cup {"firmware"}, NEW level \in LevelSet
  PROVE  [power |-> power, level |-> level, look |-> look] \in LampSet
  BY DEF LampSet, Names

LEMMA FirmwareTyped == FirmwareLamp \in LampSet
  BY LevelsAreNat DEF FirmwareLamp, LampSet

\* A sequence cut short leaves a lamp with fields of before and after.
LEMMA SentTyped ==
  ASSUME NEW l \in LampSet, NEW e \in Entry, e.on => e.look \in Names, NEW n \in 0..4, NEW z \in Zones
  PROVE  Sent(n, z, l, e) \in LampSet
<1>1. (IF n >= 1 THEN e.on ELSE l.power) \in BOOLEAN
  BY LampFields, EntryFields
<1>2. (IF n >= 2 THEN (IF e.on THEN e.level ELSE 0) ELSE l.level) \in LevelSet
  BY LampFields, EntryFields, LevelsAreNat
<1>3. (IF e.on /\ n >= ModePacket(z) THEN e.look ELSE l.look) \in Names \cup {"firmware"}
  BY LampFields
<1> QED BY <1>1, <1>2, <1>3, LampIntro DEF Sent

\* The whole sequence sets power and level, and the mode of an entry that is on.
LEMMA SentAll ==
  ASSUME NEW l \in LampSet, NEW e \in Entry, NEW z \in Zones
  PROVE  /\ Sent(4, z, l, e).power = e.on
         /\ Sent(4, z, l, e).level = IF e.on THEN e.level ELSE 0
         /\ Sent(4, z, l, e).look = IF e.on THEN e.look ELSE l.look
<1>1. 4 >= 1 /\ 4 >= 2 /\ 4 >= ModePacket(z)
  BY DEF ModePacket
<1> QED BY <1>1 DEF Sent

LEMMA SentGlows ==
  ASSUME NEW l \in LampSet, NEW e \in Entry, NEW z \in Zones
  PROVE  Glows(Sent(4, z, l, e), e)
<1>1. ~(0 > 0)
  OBVIOUS
<1> QED BY <1>1, SentAll DEF Glows

LEMMA OffIsDark ==
  ASSUME NEW l \in LampSet, NEW w \in Entry, ~w.on, NEW z \in Zones
  PROVE  /\ Glows(Sent(4, z, l, OffEntry), w)
         /\ Sent(4, z, l, OffEntry).look = l.look
<1>1. ~OffEntry.on
  BY DEF OffEntry
<1>2. ~Sent(4, z, l, OffEntry).power /\ Sent(4, z, l, OffEntry).look = l.look
  BY <1>1, FixedEntries, SentAll
<1> QED BY <1>2 DEF Glows

LEMMA SentLevelTyped ==
  ASSUME NEW l \in LampSet, NEW level \in LevelSet, NEW n \in 0..4
  PROVE  SentLevel(n, l, level) \in LampSet
<1>1. (level > 0) \in BOOLEAN
  OBVIOUS
<1> QED BY <1>1 DEF SentLevel, LampSet, LevelSet

LEMMA LevelGlows ==
  ASSUME NEW l \in LampSet, NEW level \in LevelSet, NEW w \in Entry,
         w.on = (level > 0), w.level = level
  PROVE  /\ Glows(SentLevel(4, l, level), w)
         /\ SentLevel(4, l, level).look = l.look
<1>1. 4 >= 1 /\ 4 >= 2
  OBVIOUS
<1>2. /\ SentLevel(4, l, level).power = (level > 0)
      /\ SentLevel(4, l, level).level = level
      /\ SentLevel(4, l, level).look = l.look
  BY <1>1 DEF SentLevel, LampSet
<1> QED BY <1>2 DEF Glows

-----------------------------------------------------------------------------
(* The commands.                                                           *)

\* An entry at a new level.
AtLevel(e, level) == [e EXCEPT !.on = level > 0, !.level = level]

LEMMA LevelledEntry ==
  ASSUME NEW e \in Entry, NEW level \in LevelSet
  PROVE  /\ AtLevel(e, level) \in Entry /\ AtLevel(e, level).look = e.look
         /\ AtLevel(e, level).level = level /\ AtLevel(e, level).on = (level > 0)
<1>1. (level > 0) \in BOOLEAN
  OBVIOUS
<1> QED BY <1>1 DEF Entry, LevelSet, AtLevel

LEMMA InvParts ==
  ASSUME LightInv
  PROVE  /\ node \in [Zones -> {"absent", "locked", "ready"}]
         /\ lamp \in [Zones -> LampSet]
         /\ dev \in [Zones -> {"none", "live", "stale"}]
         /\ present \in BOOLEAN /\ resuming \in BOOLEAN
         /\ lights \in LightsSet /\ Named(lights) /\ OnNamed(lights)
         /\ drift \subseteq Zones /\ unsent \subseteq Zones
         /\ LiveNode /\ Shown
  BY DEF LightInv, LightTypeOK, LampSet, LightsSet, LevelSet

Counted == commands \in 0..MaxCommands /\ faults \in 0..MaxFaults /\ outages \in 0..MaxOutages

LEMMA CountersTyped ==
  ASSUME LightInv
  PROVE  Counted /\ MaxCommands \in Nat /\ MaxFaults \in Nat /\ MaxOutages \in Nat
  BY LightingAssumption DEF LightInv, LightTypeOK, Counted

\* The invariant of the next state from its parts.
LEMMA InvNext ==
  ASSUME node' \in [Zones -> {"absent", "locked", "ready"}],
         lamp' \in [Zones -> LampSet],
         dev' \in [Zones -> {"none", "live", "stale"}],
         present' \in BOOLEAN, resuming' \in BOOLEAN,
         lights' \in LightsSet, Named(lights'), OnNamed(lights'),
         drift' \subseteq Zones, unsent' \subseteq Zones,
         LiveNode', Shown', Counted'
  PROVE  LightInv'
  BY DEF LightInv, LightTypeOK, LampSet, LightsSet, LevelSet, Counted

\* The lighting is left alone.
LEMMA LightsAlone ==
  ASSUME LightInv, UNCHANGED <<hardware, watch, lights, drift, unsent>>, Counted'
  PROVE  LightInv'
  BY DEF LightInv, LightTypeOK, hardware, watch, LiveNode, Shown, ZoneShown, Counted

LEMMA ReachesLive ==
  ASSUME NEW device \in Devices, Reaches(device)
  PROVE  /\ Targets(device) \subseteq Zones
         /\ \A z \in Targets(device) : dev[z] = "live"
         /\ device = "" => \A z \in Zones : dev[z] = "live" => z \in Targets(device)
         /\ device \in Zones => Targets(device) = {device}
         /\ device = "raw" => Targets(device) = {"keyboard"}
<1>1. Targets(device) \subseteq Zones /\ Targets(device) # {}
      /\ \A z \in Targets(device) : dev[z] = "live"
  BY DEF Targets, Reaches
<1>2. device = "" => \A z \in Zones : dev[z] = "live" => z \in Targets(device)
  BY DEF Targets
<1>3. device \in Zones => Targets(device) = {device}
  BY <1>1 DEF Targets, Zones
<1>4. device = "raw" => Targets(device) = {"keyboard"}
  BY <1>1 DEF Targets, Zones
<1> QED BY <1>1, <1>2, <1>3, <1>4

\* What receiving a command leaves as it is.
LEMMA Received ==
  ASSUME LightInv, NEW device \in Devices, Receives(device), faults' \in 0..MaxFaults
  PROVE  /\ UNCHANGED <<node, dev, present, resuming>>
         /\ Counted' /\ Reaches(device)
<1>1. commands' = commands + 1 /\ commands < MaxCommands /\ UNCHANGED outages
  BY DEF Receives
<1>2. commands' \in 0..MaxCommands
  BY <1>1, CountersTyped DEF Counted
<1> QED BY <1>1, <1>2, CountersTyped DEF Receives, watch, Counted

\* A sequence that stops midway: its zones may show anything, the others and
\* what is saved are untouched.
LEMMA CommandFails ==
  ASSUME LightInv, NEW device \in Devices, Receives(device), NEW sent,
         FailsMidway(device, sent),
         \A n \in 0..4, z \in Zones : sent[n][z] \in LampSet
  PROVE  LightInv'
<1>1. faults' \in 0..MaxFaults
  BY CountersTyped DEF FailsMidway, Counted
<1>2. UNCHANGED <<node, dev, present, resuming>> /\ Counted'
  BY <1>1, Received
<1>3. PICK n \in 0..3 : lamp' = [z \in Zones |-> IF z \in Targets(device) THEN sent[n][z] ELSE lamp[z]]
  BY DEF FailsMidway
<1>4. n \in 0..4
  OBVIOUS
<1>5. lamp' \in [Zones -> LampSet]
  BY <1>3, <1>4, InvParts
<1>6. drift' = drift \cup Targets(device) /\ UNCHANGED <<lights, unsent>>
  BY DEF FailsMidway
<1>7. Targets(device) \subseteq Zones
  BY DEF Targets
<1>8. Shown'
  <2>1. ASSUME NEW z \in Zones PROVE ZoneShown(z)'
    <3>1. ZoneShown(z)
      BY InvParts DEF Shown
    <3>2. z \notin drift' => lamp'[z] = lamp[z]
      BY <1>3, <1>6
    <3> QED BY <1>2, <1>6, <3>1, <3>2 DEF ZoneShown
  <2> QED BY <2>1 DEF Shown
<1>9. LiveNode'
  BY <1>2, InvParts DEF LiveNode
<1> QED BY <1>2, <1>5, <1>6, <1>7, <1>8, <1>9, InvParts, InvNext

\* What a zone shows after a command agrees with what is saved after it.
ShownAfter(device, sent, z) ==
  dev[z] = "live" /\ z \notin drift' =>
    IF z \in Targets(device)
    THEN /\ Glows(sent[4][z], Wanted(lights', z))
         /\ z \notin unsent' => sent[4][z].look = Wanted(lights', z).look
    ELSE /\ Glows(lamp[z], Wanted(lights', z))
         /\ z \notin unsent' => lamp[z].look = Wanted(lights', z).look

\* A command that succeeds: it is enough that each zone shows what is saved now.
LEMMA CommandSucceeds ==
  ASSUME LightInv, NEW device \in Devices, Receives(device), NEW sent,
         Succeeds(device, sent),
         \A n \in 0..4, z \in Zones : sent[n][z] \in LampSet,
         lights' \in LightsSet, Named(lights'), OnNamed(lights'),
         drift' \subseteq Zones, unsent' \subseteq Zones,
         \A z \in Zones : ShownAfter(device, sent, z)
  PROVE  LightInv'
<1>1. faults' \in 0..MaxFaults
  BY CountersTyped DEF Succeeds, Counted
<1>2. UNCHANGED <<node, dev, present, resuming>> /\ Counted'
  BY <1>1, Received
<1>3. lamp' = [z \in Zones |-> IF z \in Targets(device) THEN sent[4][z] ELSE lamp[z]]
  BY DEF Succeeds
<1>4. 4 \in 0..4
  OBVIOUS
<1>5. lamp' \in [Zones -> LampSet]
  BY <1>3, <1>4, InvParts
<1>8. Shown'
  <2>1. ASSUME NEW z \in Zones PROVE ZoneShown(z)'
    <3>1. lamp'[z] = IF z \in Targets(device) THEN sent[4][z] ELSE lamp[z]
      BY <1>3
    <3>2. ShownAfter(device, sent, z)
      OBVIOUS
    <3> QED BY <1>2, <3>1, <3>2 DEF ZoneShown, ShownAfter
  <2> QED BY <2>1 DEF Shown
<1>9. LiveNode'
  BY <1>2, InvParts DEF LiveNode
<1> QED BY <1>2, <1>5, <1>8, <1>9, InvParts, InvNext

\* The zones as they show before the command.
LEMMA ShownNow ==
  ASSUME LightInv, NEW z \in Zones, dev[z] = "live", z \notin drift
  PROVE  /\ Glows(lamp[z], Wanted(lights, z))
         /\ z \notin unsent => lamp[z].look = Wanted(lights, z).look
  BY InvParts DEF Shown, ZoneShown

LEMMA SendingTyped ==
  ASSUME LightInv, NEW e \in Entry, e.on => e.look \in Names
  PROVE  /\ \A n \in 0..4, z \in Zones : Sending(e)[n][z] \in LampSet
         /\ \A z \in Zones : Sending(e)[4][z] = Sent(4, z, lamp[z], e)
<1>1. \A z \in Zones : lamp[z] \in LampSet
  BY InvParts
<1>2. 4 \in 0..4
  OBVIOUS
<1>3. ASSUME NEW n \in 0..4, NEW z \in Zones
      PROVE  Sending(e)[n][z] = Sent(n, z, lamp[z], e)
  BY DEF Sending
<1> QED BY <1>1, <1>2, <1>3, SentTyped

\* A zone the command did not name, when nothing else about it changes.
LEMMA OtherZone ==
  ASSUME LightInv, NEW device \in Devices, NEW sent, NEW z \in Zones,
         z \notin Targets(device),
         dev[z] = "live" => Wanted(lights', z) = Wanted(lights, z),
         z \notin drift' => z \notin drift,
         z \notin unsent' => z \notin unsent
  PROVE  ShownAfter(device, sent, z)
  BY ShownNow DEF ShownAfter

\* A command over a raw path saves nothing, and the keyboard is in drift.
LEMMA RawStep ==
  ASSUME LightInv, Receives("raw"), NEW sent, Succeeds("raw", sent),
         \A n \in 0..4, z \in Zones : sent[n][z] \in LampSet,
         lights' = lights, drift' = drift \cup {"keyboard"},
         unsent' \subseteq Zones, unsent \ Targets("raw") \subseteq unsent'
  PROVE  LightInv'
<1>1. "raw" \in Devices /\ Reaches("raw")
  BY DEF Devices, Receives
<1>2. Targets("raw") = {"keyboard"}
  BY <1>1, ReachesLive
<1>3. ASSUME NEW z \in Zones PROVE ShownAfter("raw", sent, z)
  <2>1. CASE z = "keyboard"
    BY <2>1 DEF ShownAfter
  <2>2. CASE z # "keyboard"
    <3>1. /\ z \notin Targets("raw")
          /\ z \notin drift' => z \notin drift
          /\ z \notin unsent' => z \notin unsent
      BY <1>2, <2>2
    <3> QED BY <1>1, <3>1, OtherZone
  <2> QED BY <2>1, <2>2
<1>4. drift' \subseteq Zones
  BY InvParts DEF Zones
<1> QED BY <1>1, <1>3, <1>4, InvParts, CommandSucceeds

\* A command to one zone that saves the entry e, and leaves the lamp showing it.
LEMMA OneZoneStep ==
  ASSUME LightInv, NEW device \in Zones, Receives(device), NEW sent, Succeeds(device, sent),
         \A n \in 0..4, z \in Zones : sent[n][z] \in LampSet,
         NEW e \in Entry, e.look \in Names \cup {""}, e.on => e.look # "",
         lights' = [lights EXCEPT !.zones[device] = e],
         drift \ {device} \subseteq drift', drift' \subseteq Zones,
         unsent \ {device} \subseteq unsent', unsent' \subseteq Zones,
         dev[device] = "live" /\ device \notin drift'
           => /\ Glows(sent[4][device], Normalize(e, lights.all))
              /\ device \notin unsent' => sent[4][device].look = Normalize(e, lights.all).look
  PROVE  LightInv'
<1>1. device \in Devices /\ Reaches(device)
  BY DEF Devices, Receives
<1>2. Targets(device) = {device}
  BY <1>1, ReachesLive
<1>3. lights \in LightsSet /\ Named(lights) /\ OnNamed(lights) /\ lights' = WithZone(lights, device, e)
  BY InvParts DEF WithZone
<1>4. /\ lights' \in LightsSet /\ Named(lights') /\ OnNamed(lights')
      /\ Wanted(lights', device) = Normalize(e, lights.all)
      /\ \A z \in Zones \ {device} : Wanted(lights', z) = Wanted(lights, z)
  <2> DEFINE m == WithZone(lights, device, e)
  <2>1. m \in LightsSet /\ Named(m) /\ OnNamed(m)
    BY <1>3, ForOneZone
  <2>2. Wanted(m, device) = Normalize(e, lights.all)
    BY <1>3, ForOneZone
  <2>3. \A z \in Zones \ {device} : Wanted(m, z) = Wanted(lights, z)
    BY <1>3, ForOneZone
  <2> QED BY <1>3, <2>1, <2>2, <2>3
<1>5. ASSUME NEW z \in Zones PROVE ShownAfter(device, sent, z)
  <2>1. CASE z = device
    BY <1>2, <1>4, <2>1 DEF ShownAfter
  <2>2. CASE z # device
    <3>1. /\ z \notin Targets(device)
          /\ Wanted(lights', z) = Wanted(lights, z)
          /\ z \notin drift' => z \notin drift
          /\ z \notin unsent' => z \notin unsent
      BY <1>2, <1>4, <2>2
    <3> QED BY <1>1, <3>1, OtherZone
  <2> QED BY <2>1, <2>2
<1> QED BY <1>1, <1>4, <1>5, CommandSucceeds

\* A command to all zones reaches every zone with a handle.
LEMMA AllZonesStep ==
  ASSUME LightInv, Receives(""), NEW sent, Succeeds("", sent),
         \A n \in 0..4, z \in Zones : sent[n][z] \in LampSet,
         lights' \in LightsSet, Named(lights'), OnNamed(lights'),
         drift' \subseteq Zones, unsent' \subseteq Zones,
         \A z \in Zones : dev[z] = "live" /\ z \notin drift'
           => /\ Glows(sent[4][z], Wanted(lights', z))
              /\ z \notin unsent' => sent[4][z].look = Wanted(lights', z).look
  PROVE  LightInv'
<1>1. "" \in Devices /\ Reaches("")
  BY DEF Devices, Receives
<1>2. \A z \in Zones : dev[z] = "live" => z \in Targets("")
  BY <1>1, ReachesLive
<1>3. ASSUME NEW z \in Zones PROVE ShownAfter("", sent, z)
  BY <1>2 DEF ShownAfter
<1> QED BY <1>1, <1>3, CommandSucceeds

\* The three ways a device is named.
LEMMA DeviceCases ==
  ASSUME NEW device \in Devices
  PROVE  /\ \/ device = "" \/ device \in Zones \/ device = "raw"
         /\ device \in Zones => device # "" /\ Saves(device)
         /\ ~Saves("raw") /\ "raw" # ""
  BY DEF Devices, Zones, Saves

\* HandleApply: the zones it reached show the look it saved.
LEMMA ApplyStep ==
  ASSUME LightInv, NEW device \in Devices, NEW look \in Looks, HandleApply(device, look)
  PROVE  LightInv'
<1> DEFINE e == [on |-> TRUE, look |-> look, level |-> Bright]
           sent == Sending(e)
<1>1. e \in Entry /\ e.look \in Names /\ e.on /\ e.look # ""
  BY LevelsAreNat, NamesNamed, EntryIntro DEF Names
<1>2. /\ Receives(device)
      /\ \/ FailsMidway(device, sent)
         \/ /\ Succeeds(device, sent)
            /\ lights' = IF device = "" THEN [all |-> e, zones |-> [z \in Zones |-> NoEntry]]
                         ELSE IF Saves(device) THEN [lights EXCEPT !.zones[device] = e] ELSE lights
            /\ drift' = IF Saves(device) THEN drift \ Targets(device) ELSE drift \cup {"keyboard"}
            /\ unsent' = unsent \ Targets(device)
  BY DEF HandleApply
<1> HIDE DEF e
<1>3. /\ \A n \in 0..4, z \in Zones : sent[n][z] \in LampSet
      /\ \A z \in Zones : sent[4][z] = Sent(4, z, lamp[z], e)
  BY <1>1, SendingTyped
<1> HIDE DEF sent
<1>4. ASSUME NEW z \in Zones
      PROVE  Glows(sent[4][z], e) /\ sent[4][z].look = e.look
  <2>1. lamp[z] \in LampSet
    BY InvParts
  <2>2. Glows(sent[4][z], e)
    BY <1>1, <1>3, <2>1, SentGlows
  <2>3. Sent(4, z, lamp[z], e).look = IF e.on THEN e.look ELSE lamp[z].look
    <3>1. e \in Entry
      BY <1>1
    <3> QED BY <2>1, <3>1, SentAll
  <2>4. sent[4][z].look = e.look
    BY <1>1, <1>3, <2>3
  <2> QED BY <2>2, <2>4
<1>5. CASE FailsMidway(device, sent)
  BY <1>2, <1>3, <1>5, CommandFails
<1>6. CASE ~FailsMidway(device, sent)
  <2>1. /\ Succeeds(device, sent)
        /\ lights' = IF device = "" THEN [all |-> e, zones |-> [z \in Zones |-> NoEntry]]
                     ELSE IF Saves(device) THEN [lights EXCEPT !.zones[device] = e] ELSE lights
        /\ drift' = IF Saves(device) THEN drift \ Targets(device) ELSE drift \cup {"keyboard"}
        /\ unsent' = unsent \ Targets(device)
    BY <1>2, <1>6
  <2>2. drift' \subseteq Zones /\ unsent' \subseteq Zones
    BY <2>1, InvParts DEF Zones
  <2>3. CASE device = ""
    <3>1. lights' = [all |-> e, zones |-> [z \in Zones |-> NoEntry]]
      BY <2>1, <2>3
    <3>2. /\ lights' \in LightsSet /\ Named(lights') /\ OnNamed(lights')
          /\ \A z \in Zones : Wanted(lights', z) = e
      BY <1>1, <3>1, ForAllZones
    <3>3. \A z \in Zones : /\ Glows(sent[4][z], Wanted(lights', z))
                           /\ sent[4][z].look = Wanted(lights', z).look
      BY <1>4, <3>2
    <3> QED BY <1>2, <1>3, <2>1, <2>2, <2>3, <3>2, <3>3, AllZonesStep
  <2>4. CASE device \in Zones
    <3>1. lights' = [lights EXCEPT !.zones[device] = e] /\ drift' = drift \ Targets(device)
      BY <2>1, <2>4, DeviceCases
    <3>2. Targets(device) = {device}
      BY <1>2, <2>4, ReachesLive DEF Receives
    <3>3. Normalize(e, lights.all) = e
      BY <1>1, InvParts, LightsFields, Normalized
    <3>4. Glows(sent[4][device], Normalize(e, lights.all))
          /\ sent[4][device].look = Normalize(e, lights.all).look
      BY <1>4, <2>4, <3>3
    <3>5. drift \ {device} \subseteq drift' /\ unsent \ {device} \subseteq unsent'
      BY <2>1, <3>1, <3>2
    <3> QED BY <1>1, <1>2, <1>3, <2>1, <2>2, <2>4, <3>1, <3>4, <3>5, OneZoneStep
  <2>5. CASE device = "raw"
    <3>1. lights' = lights /\ drift' = drift \cup {"keyboard"}
      BY <2>1, <2>5, DeviceCases
    <3> QED BY <1>2, <1>3, <2>1, <2>2, <2>5, <3>1, RawStep
  <2> QED BY <2>3, <2>4, <2>5, DeviceCases
<1> QED BY <1>5, <1>6

\* HandleOff: the zones are dark, and so is what is saved for them.
LEMMA OffStep ==
  ASSUME LightInv, NEW device \in Devices, HandleOff(device)
  PROVE  LightInv'
<1> DEFINE sent == Sending(OffEntry)
           all == [lights.all EXCEPT !.on = FALSE]
<1>1. OffEntry \in Entry /\ ~OffEntry.on /\ OffEntry.look = ""
  BY FixedEntries DEF OffEntry
<1>2. /\ Receives(device)
      /\ \/ FailsMidway(device, sent)
         \/ /\ Succeeds(device, sent)
            /\ lights' = IF device = "" THEN [all |-> all, zones |-> [z \in Zones |-> NoEntry]]
                         ELSE IF Saves(device) THEN [lights EXCEPT !.zones[device] = OffEntry] ELSE lights
            /\ drift' = IF Saves(device) THEN drift ELSE drift \cup {"keyboard"}
            /\ unsent' = unsent \cup Targets(device)
  BY DEF HandleOff
<1>3. /\ \A n \in 0..4, z \in Zones : sent[n][z] \in LampSet
      /\ \A z \in Zones : sent[4][z] = Sent(4, z, lamp[z], OffEntry)
  BY <1>1, SendingTyped
<1>4. all \in Entry /\ all.look \in Names /\ ~all.on
  <2>1. lights.all \in Entry /\ lights.all.look \in Names
    BY InvParts, LightsFields DEF Named
  <2> QED BY <2>1 DEF Entry
<1> HIDE DEF sent, all
<1>5. CASE FailsMidway(device, sent)
  BY <1>2, <1>3, <1>5, CommandFails
<1>6. CASE ~FailsMidway(device, sent)
  <2>1. /\ Succeeds(device, sent)
        /\ lights' = IF device = "" THEN [all |-> all, zones |-> [z \in Zones |-> NoEntry]]
                     ELSE IF Saves(device) THEN [lights EXCEPT !.zones[device] = OffEntry] ELSE lights
        /\ drift' = IF Saves(device) THEN drift ELSE drift \cup {"keyboard"}
        /\ unsent' = unsent \cup Targets(device)
        /\ Reaches(device)
    BY <1>2, <1>6 DEF Receives
  <2>2. drift' \subseteq Zones /\ unsent' \subseteq Zones
    BY <2>1, InvParts, ReachesLive DEF Zones
  <2>3. ASSUME NEW z \in Zones, NEW w \in Entry, ~w.on PROVE Glows(sent[4][z], w)
    <3>1. lamp[z] \in LampSet
      BY InvParts
    <3> QED BY <1>3, <2>3, <3>1, OffIsDark
  <2>4. CASE device = ""
    <3>1. lights' = [all |-> all, zones |-> [z \in Zones |-> NoEntry]]
      BY <2>1, <2>4
    <3>2. /\ lights' \in LightsSet /\ Named(lights') /\ OnNamed(lights')
          /\ \A z \in Zones : Wanted(lights', z) = all
      BY <1>4, <3>1, ForAllZones
    <3>3. \A z \in Zones : dev[z] = "live" => Glows(sent[4][z], Wanted(lights', z)) /\ z \in unsent'
      BY <1>4, <2>1, <2>3, <2>4, <3>2, ReachesLive
    <3> QED BY <1>2, <1>3, <2>1, <2>2, <2>4, <3>2, <3>3, AllZonesStep
  <2>5. CASE device \in Zones
    <3>1. lights' = [lights EXCEPT !.zones[device] = OffEntry] /\ drift' = drift
      BY <2>1, <2>5, DeviceCases
    <3>2. Normalize(OffEntry, lights.all) \in Entry /\ ~Normalize(OffEntry, lights.all).on
      BY <1>1, InvParts, LightsFields, Normalized
    <3>3. Glows(sent[4][device], Normalize(OffEntry, lights.all))
      BY <2>3, <2>5, <3>2
    <3>4. device \in unsent'
      BY <2>1, <2>5, ReachesLive
    <3>5. drift \ {device} \subseteq drift' /\ unsent \ {device} \subseteq unsent'
      BY <2>1, <3>1
    <3> QED BY <1>1, <1>2, <1>3, <2>1, <2>2, <2>5, <3>1, <3>3, <3>4, <3>5, OneZoneStep
  <2>6. CASE device = "raw"
    <3>1. lights' = lights /\ drift' = drift \cup {"keyboard"}
      BY <2>1, <2>6, DeviceCases
    <3> QED BY <1>2, <1>3, <2>1, <2>2, <2>6, <3>1, RawStep
  <2> QED BY <2>4, <2>5, <2>6, DeviceCases
<1> QED BY <1>5, <1>6

\* HandleBrightness: a zone takes the level at the look it has, and the entry
\* saved for it keeps that look.
LEMMA BrightnessStep ==
  ASSUME LightInv, NEW device \in Devices, NEW level \in Levels, HandleBrightness(device, level)
  PROVE  LightInv'
<1> DEFINE base == [z \in Zones |-> Base(z)]
           sent == [n \in 0..4 |-> [z \in Zones |-> SentLevel(n, lamp[z], level)]]
           Levelled(e) == AtLevel(e, level)
<1>1. /\ Receives(device)
      /\ \/ FailsMidway(device, sent)
         \/ /\ Succeeds(device, sent)
            /\ lights' = IF device = "" THEN [lights EXCEPT !.all = Levelled(lights.all)]
                         ELSE IF Saves(device) THEN [lights EXCEPT !.zones[device] = Levelled(base[device])]
                         ELSE lights
            /\ drift' = IF device = "" THEN drift \cup (Targets(device) \cap Overridden)
                        ELSE IF Saves(device) THEN drift ELSE drift \cup {"keyboard"}
            /\ UNCHANGED unsent
  BY DEF HandleBrightness, Brightens, AtLevel
<1>2. level \in LevelSet
  BY DEF LevelSet
<1>3. \A z \in Zones : lamp[z] \in LampSet
  BY InvParts
<1>4. \A n \in 0..4, z \in Zones : sent[n][z] \in LampSet
  BY <1>2, <1>3, SentLevelTyped
<1>5. \A z \in Zones : sent[4][z] = SentLevel(4, lamp[z], level)
  OBVIOUS
<1>6. ASSUME NEW z \in Zones PROVE base[z] = Wanted(lights, z)
  <2>1. Base(z) = Wanted(lights, z)
    BY InvParts, WantedIs DEF Base, Overridden, OverriddenIn
  <2> QED BY <2>1
<1>7. ASSUME NEW e \in Entry
      PROVE  /\ Levelled(e) \in Entry /\ Levelled(e).look = e.look
             /\ Levelled(e).level = level /\ Levelled(e).on = (level > 0)
  BY <1>2, LevelledEntry
<1> HIDE DEF base, sent, Levelled
<1>8. ASSUME NEW z \in Zones, NEW e \in Entry
      PROVE  Glows(sent[4][z], Levelled(e)) /\ sent[4][z].look = lamp[z].look
  BY <1>2, <1>3, <1>5, <1>7, LevelGlows
<1>9. CASE FailsMidway(device, sent)
  BY <1>1, <1>4, <1>9, CommandFails
<1>10. CASE ~FailsMidway(device, sent)
  <2>1. /\ Succeeds(device, sent)
        /\ lights' = IF device = "" THEN [lights EXCEPT !.all = Levelled(lights.all)]
                     ELSE IF Saves(device) THEN [lights EXCEPT !.zones[device] = Levelled(base[device])]
                     ELSE lights
        /\ drift' = IF device = "" THEN drift \cup (Targets(device) \cap Overridden)
                    ELSE IF Saves(device) THEN drift ELSE drift \cup {"keyboard"}
        /\ unsent' = unsent /\ Reaches(device)
    BY <1>1, <1>10 DEF Receives
  <2>2. drift' \subseteq Zones /\ unsent' \subseteq Zones
    BY <2>1, InvParts DEF Zones, Overridden, OverriddenIn
  <2>3. CASE device = ""
    <3> DEFINE e == Levelled(lights.all)
    <3>1. lights' = [lights EXCEPT !.all = e] /\ drift' = drift \cup (Targets("") \cap Overridden)
      BY <2>1, <2>3
    <3>2. lights.all \in Entry
      BY InvParts, LightsFields
    <3>3. e \in Entry /\ e.look = lights.all.look
      BY <1>7, <3>2
    <3> HIDE DEF e
    <3>4. /\ lights' \in LightsSet /\ Named(lights') /\ OnNamed(lights')
          /\ \A z \in Zones \ Overridden : Wanted(lights', z) = e /\ Wanted(lights, z) = lights.all
      <4>1. lights' = WithAll(lights, e)
        BY <3>1 DEF WithAll
      <4> QED BY <3>3, <4>1, InvParts, ForTheRest DEF Overridden
    <3>5. ASSUME NEW z \in Zones, dev[z] = "live", z \notin drift'
          PROVE  /\ Glows(sent[4][z], Wanted(lights', z))
                 /\ z \notin unsent' => sent[4][z].look = Wanted(lights', z).look
      <4>1. z \in Targets("")
        BY <2>1, <2>3, <3>5, ReachesLive
      <4>2. z \in Zones \ Overridden /\ z \notin drift
        BY <3>1, <3>5, <4>1
      <4>3. Glows(sent[4][z], e) /\ sent[4][z].look = lamp[z].look
        BY <1>8, <3>2 DEF e
      <4>4. z \notin unsent => lamp[z].look = Wanted(lights, z).look
        BY <3>5, <4>2, ShownNow
      <4> QED BY <2>1, <3>3, <3>4, <4>2, <4>3, <4>4
    <3> QED BY <1>1, <1>4, <2>1, <2>2, <2>3, <3>4, <3>5, AllZonesStep
  <2>4. CASE device \in Zones
    <3> DEFINE e == Levelled(Wanted(lights, device))
    <3>1. lights' = [lights EXCEPT !.zones[device] = e] /\ drift' = drift
      BY <1>6, <2>1, <2>4, DeviceCases
    <3>2. Wanted(lights, device) \in Entry /\ Wanted(lights, device).look \in Names
      BY <2>4, InvParts, WantedTyped
    <3>3. e \in Entry /\ e.look = Wanted(lights, device).look
      BY <1>7, <3>2
    <3>4. Glows(sent[4][device], e) /\ sent[4][device].look = lamp[device].look
      BY <1>8, <2>4, <3>2
    <3> HIDE DEF e
    <3>5. Normalize(e, lights.all) = e
      <4>1. e.look # "" /\ lights.all \in Entry
        BY <3>2, <3>3, InvParts, LightsFields, NamesNamed
      <4> QED BY <3>3, <4>1, Normalized
    <3>6. dev[device] = "live" /\ device \notin drift'
            => /\ Glows(sent[4][device], Normalize(e, lights.all))
               /\ device \notin unsent' => sent[4][device].look = Normalize(e, lights.all).look
      BY <2>1, <2>4, <3>1, <3>3, <3>4, <3>5, ShownNow
    <3>7. drift \ {device} \subseteq drift' /\ unsent \ {device} \subseteq unsent'
      BY <2>1, <3>1
    <3>8. e.look \in Names \cup {""} /\ (e.on => e.look # "")
      BY <3>2, <3>3, NamesNamed
    <3> QED BY <1>1, <1>4, <2>1, <2>2, <2>4, <3>1, <3>3, <3>6, <3>7, <3>8, OneZoneStep
  <2>5. CASE device = "raw"
    <3>1. lights' = lights /\ drift' = drift \cup {"keyboard"}
      BY <2>1, <2>5, DeviceCases
    <3> QED BY <1>1, <1>4, <2>1, <2>2, <2>5, <3>1, RawStep
  <2> QED BY <2>3, <2>4, <2>5, DeviceCases
<1> QED BY <1>9, <1>10

LEMMA CommandStep ==
  ASSUME LightInv, NEW device \in Devices, LightingCommand(device)
  PROVE  LightInv'
  BY ApplyStep, OffStep, BrightnessStep DEF LightingCommand

-----------------------------------------------------------------------------
(* Restoring.                                                              *)

OpenedTyped(handles) == handles \in [Zones -> {"none", "live", "stale"}]

LEMMA OpenedIs ==
  /\ OpenedTyped(Opened)
  /\ Openable \subseteq Zones
  /\ \A z \in Zones : Opened[z] = "live" => z \in Openable
  /\ \A z \in Zones : Opened[z] = "live" => node[z] # "absent"
  BY DEF Opened, Openable, OpenedTyped

\* applyLightingState: the zones just opened show what is wanted on them, but
\* for those that failed; without a failure none is left in drift.
LEMMA RestoreShows ==
  ASSUME LightInv, NEW l \in LightsSet, Named(l), lights' = l, dev' = Opened,
         ApplyLightingState(l, Openable)
  PROVE  /\ lamp' \in [Zones -> LampSet]
         /\ drift' \subseteq Zones /\ unsent' \subseteq Zones
         /\ faults' \in 0..MaxFaults
         /\ Shown'
         /\ faults' = faults => drift' \cap Openable = {}
<1>1. PICK failing \in SUBSET Openable, n \in 0..3 :
        /\ IF failing = {} THEN n = 3 ELSE faults < MaxFaults
        /\ faults' = faults + (IF failing = {} THEN 0 ELSE 1)
        /\ lamp' = [z \in Zones |->
             IF z \in Written(Openable, failing) THEN Sent(4, z, lamp[z], Wanted(l, z))
             ELSE IF z \in failing THEN Sent(n, z, lamp[z], Wanted(l, z))
             ELSE lamp[z]]
        /\ drift' = (drift \ Openable) \cup failing
        /\ unsent' = {z \in unsent \cup Openable : z \notin Openable \/ ~Wanted(l, z).on}
  BY DEF ApplyLightingState
<1>2. \A z \in Zones : lamp[z] \in LampSet /\ Wanted(l, z) \in Entry /\ Wanted(l, z).look \in Names
  BY InvParts, WantedTyped
<1>3. n \in 0..4 /\ 4 \in 0..4
  OBVIOUS
<1>4. lamp' \in [Zones -> LampSet]
  <2>1. ASSUME NEW z \in Zones
        PROVE  Sent(4, z, lamp[z], Wanted(l, z)) \in LampSet /\ Sent(n, z, lamp[z], Wanted(l, z)) \in LampSet
    BY <1>2, <1>3, SentTyped
  <2> QED BY <1>1, <1>2, <2>1
<1>5. drift' \subseteq Zones /\ unsent' \subseteq Zones
  BY <1>1, InvParts, OpenedIs
<1>6. faults' \in 0..MaxFaults /\ (faults' = faults => failing = {})
  <2>1. faults \in 0..MaxFaults /\ MaxFaults \in Nat
    BY CountersTyped DEF Counted
  <2>2. CASE failing = {}
    <3>1. faults' = faults + 0
      BY <1>1, <2>2
    <3> QED BY <2>1, <2>2, <3>1
  <2>3. CASE failing # {}
    <3>1. faults' = faults + 1 /\ faults < MaxFaults
      BY <1>1, <2>3
    <3> QED BY <2>1, <3>1
  <2> QED BY <2>2, <2>3
<1>7. ASSUME NEW z \in Zones, dev'[z] = "live", z \notin drift'
      PROVE  /\ Glows(lamp'[z], Wanted(l, z))
             /\ z \notin unsent' => lamp'[z].look = Wanted(l, z).look
  <2>1. z \in Openable /\ z \notin failing
    BY <1>1, <1>7, OpenedIs
  <2>2. lamp'[z] = Sent(4, z, lamp[z], Wanted(l, z))
    BY <1>1, <2>1 DEF Written
  <2>3. Glows(lamp'[z], Wanted(l, z))
    BY <1>2, <2>2, SentGlows
  <2>4. z \notin unsent' => Wanted(l, z).on
    BY <1>1, <2>1
  <2>5. lamp'[z].look = IF Wanted(l, z).on THEN Wanted(l, z).look ELSE lamp[z].look
    BY <1>2, <2>2, SentAll
  <2> QED BY <2>3, <2>4, <2>5
<1>8. Shown'
  BY <1>7 DEF Shown, ZoneShown
<1>9. faults' = faults => drift' \cap Openable = {}
  BY <1>1, <1>6
<1> QED BY <1>4, <1>5, <1>6, <1>8, <1>9

\* reopenDeviceLocked and the restore, as the watcher and a resume call them.
LEMMA ReopenStep ==
  ASSUME LightInv, ReopenAndRestore, UNCHANGED <<node, lights, commands, outages>>,
         present' \in BOOLEAN, resuming' \in BOOLEAN
  PROVE  /\ LightInv'
         /\ Openable # {} /\ faults' = faults
              => \A z \in Zones : dev'[z] = "live" => z \notin drift'
<1>1. CASE Openable # {}
  <2>1. dev' = Opened /\ ApplyLightingState(lights, Openable)
    BY <1>1 DEF ReopenAndRestore
  <2>2. lights \in LightsSet /\ Named(lights) /\ OnNamed(lights)
    BY InvParts
  <2>3. /\ lamp' \in [Zones -> LampSet]
        /\ drift' \subseteq Zones /\ unsent' \subseteq Zones
        /\ faults' \in 0..MaxFaults
        /\ Shown'
        /\ faults' = faults => drift' \cap Openable = {}
    BY <2>1, <2>2, RestoreShows
  <2>4. Counted'
    BY <2>3, CountersTyped DEF Counted
  <2>5. LiveNode' /\ dev' \in [Zones -> {"none", "live", "stale"}]
    BY <2>1, OpenedIs DEF LiveNode, OpenedTyped
  <2>6. LightInv'
    BY <2>2, <2>3, <2>4, <2>5, InvParts, InvNext
  <2>7. \A z \in Zones : dev'[z] = "live" => z \in Openable
    BY <2>1, OpenedIs
  <2> QED BY <2>3, <2>6, <2>7
<1>2. CASE Openable = {}
  <2>1. UNCHANGED <<dev, lamp, drift, unsent, faults>>
    BY <1>2 DEF ReopenAndRestore, Dark
  <2> QED BY <1>2, <2>1 DEF LightInv, LightTypeOK, LiveNode, Shown, ZoneShown
<1> QED BY <1>1, <1>2

\* Nothing is written.
LEMMA DarkStep ==
  ASSUME LightInv, Dark, UNCHANGED <<node, lights, commands, outages>>,
         present' \in BOOLEAN, resuming' \in BOOLEAN
  PROVE  LightInv'
  BY DEF LightInv, LightTypeOK, LiveNode, Shown, ZoneShown, Dark

LEMMA HotplugStep ==
  ASSUME LightInv, HotplugTick
  PROVE  /\ LightInv'
         /\ ~present /\ present' => \A z \in Zones : dev'[z] = "live" => z \notin drift'
<1>1. UNCHANGED <<node, lights, commands, outages>> /\ resuming' \in BOOLEAN
  BY InvParts DEF HotplugTick
<1>2. CASE Attached /\ ~present
  <2>1. ReopenAndRestore /\ present' = Restored
    BY <1>2 DEF HotplugTick
  <2>2. present' \in BOOLEAN
    BY <2>1 DEF Restored
  <2>3. /\ LightInv'
        /\ Openable # {} /\ faults' = faults
             => \A z \in Zones : dev'[z] = "live" => z \notin drift'
    BY <1>1, <2>1, <2>2, ReopenStep
  <2> QED BY <2>1, <2>3 DEF Restored
<1>3. CASE ~(Attached /\ ~present)
  <2>1. Dark /\ present' = Attached
    BY <1>3 DEF HotplugTick
  <2>2. present' \in BOOLEAN
    BY <2>1 DEF Attached
  <2>3. LightInv'
    BY <1>1, <2>1, <2>2, DarkStep
  <2> QED BY <1>3, <2>1, <2>3
<1> QED BY <1>2, <1>3

LEMMA ResumeStep ==
  ASSUME LightInv, Resume
  PROVE  LightInv'
<1>1. UNCHANGED <<node, lights, commands, outages>> /\ present' \in BOOLEAN /\ resuming' \in BOOLEAN
  BY InvParts DEF Resume
<1>2. ReopenAndRestore \/ Dark
  BY DEF Resume
<1> QED BY <1>1, <1>2, ReopenStep, DarkStep

\* A start from what a file may hold.
LEMMA StartStep ==
  ASSUME LightInv, NEW l \in LightsSet, Named(l), Start(l), UNCHANGED node,
         commands' \in 0..MaxCommands, outages' \in 0..MaxOutages
  PROVE  LightInv'
<1> DEFINE R == Repaired(l)
<1>1. R \in LightsSet /\ Named(R) /\ OnNamed(R)
  BY RepairComplete
<1>2. lights' = R /\ dev' = Opened /\ present' \in BOOLEAN /\ resuming' \in BOOLEAN
  BY DEF Start, Attached
<1>3. IF Openable # {} THEN ApplyLightingState(R, Openable)
      ELSE UNCHANGED <<lamp, drift, unsent, faults>>
  BY DEF Start
<1> HIDE DEF R
<1>4. LiveNode' /\ dev' \in [Zones -> {"none", "live", "stale"}]
  BY <1>2, OpenedIs DEF LiveNode, OpenedTyped
<1>5. /\ lamp' \in [Zones -> LampSet]
      /\ drift' \subseteq Zones /\ unsent' \subseteq Zones
      /\ faults' \in 0..MaxFaults
      /\ Shown'
  <2>1. CASE Openable # {}
    BY <1>1, <1>2, <1>3, <2>1, RestoreShows
  <2>2. CASE Openable = {}
    <3>1. UNCHANGED <<lamp, drift, unsent, faults>>
      BY <1>3, <2>2
    <3>2. \A z \in Zones : dev'[z] # "live"
      BY <1>2, <2>2, OpenedIs
    <3>3. Shown'
      BY <3>2 DEF Shown, ZoneShown
    <3> QED BY <3>1, <3>3, InvParts, CountersTyped DEF Counted
  <2> QED BY <2>1, <2>2
<1>6. Counted'
  BY <1>5 DEF Counted
<1> QED BY <1>1, <1>2, <1>4, <1>5, <1>6, InvParts, InvNext

-----------------------------------------------------------------------------
(* The nodes and the sleep.                                                *)

LEMMA StaleIs ==
  ASSUME LightInv, NEW zones \in SUBSET Zones
  PROVE  /\ OpenedTyped(Stale(zones))
         /\ \A z \in Zones : Stale(zones)[z] = "live" => z \notin zones /\ dev[z] = "live"
  BY InvParts DEF Stale, OpenedTyped

LEMMA OutageCounted ==
  ASSUME LightInv, Outage, UNCHANGED <<commands, faults>>
  PROVE  Counted'
  BY CountersTyped DEF Outage, Counted

LEMMA SameCounted ==
  ASSUME LightInv, UNCHANGED <<commands, faults, outages>>
  PROVE  Counted'
  BY CountersTyped DEF Counted

\* Handles go stale, lamps of zones without a working handle change: the zones
\* that are left show what they showed.
LEMMA StillShown ==
  ASSUME LightInv, UNCHANGED <<lights, unsent>>, drift \subseteq drift',
         \A z \in Zones : dev'[z] = "live" /\ z \notin drift' => dev[z] = "live" /\ lamp'[z] = lamp[z]
  PROVE  Shown'
<1>1. ASSUME NEW z \in Zones PROVE ZoneShown(z)'
  BY ShownNow DEF ZoneShown
<1> QED BY <1>1 DEF Shown

LEMMA DetachStep ==
  ASSUME LightInv, Detach
  PROVE  LightInv'
<1>1. /\ Outage /\ node' = [node EXCEPT !["keyboard"] = "absent"]
      /\ dev' = Stale({"keyboard"})
      /\ UNCHANGED <<lamp, present, resuming, lights, drift, unsent, commands, faults>>
  BY DEF Detach, watch
<1>2. {"keyboard"} \in SUBSET Zones
  BY DEF Zones
<1>3. /\ OpenedTyped(dev')
      /\ \A z \in Zones : dev'[z] = "live" => z # "keyboard" /\ dev[z] = "live"
  BY <1>1, <1>2, StaleIs
<1>4. node' \in [Zones -> {"absent", "locked", "ready"}] /\ \A z \in Zones : z # "keyboard" => node'[z] = node[z]
  BY <1>1, InvParts
<1>5. LiveNode'
  BY <1>3, <1>4, InvParts DEF LiveNode
<1>6. Shown'
  BY <1>1, <1>3, StillShown
<1>7. Counted'
  BY <1>1, OutageCounted
<1> QED BY <1>1, <1>3, <1>4, <1>5, <1>6, <1>7, InvParts, InvNext DEF OpenedTyped

\* A keyboard that comes back has no handle that works yet.
LEMMA AttachStep ==
  ASSUME LightInv, Attach
  PROVE  LightInv'
<1>1. /\ node["keyboard"] = "absent"
      /\ node' = [node EXCEPT !["keyboard"] = "locked"]
      /\ lamp' = [lamp EXCEPT !["keyboard"] = FirmwareLamp]
      /\ UNCHANGED <<dev, present, resuming, lights, drift, unsent, commands, faults, outages>>
  BY DEF Attach, Attached, watch
<1>2. dev["keyboard"] # "live"
  BY <1>1, InvParts DEF LiveNode, Zones
<1>3. lamp' \in [Zones -> LampSet] /\ \A z \in Zones : z # "keyboard" => lamp'[z] = lamp[z]
  BY <1>1, InvParts, FirmwareTyped
<1>4. node' \in [Zones -> {"absent", "locked", "ready"}] /\ \A z \in Zones : z # "keyboard" => node'[z] = node[z]
  BY <1>1, InvParts
<1>5. LiveNode'
  BY <1>1, <1>2, <1>4, InvParts DEF LiveNode
<1>6. Shown'
  BY <1>1, <1>2, <1>3, StillShown
<1>7. Counted'
  BY <1>1, SameCounted
<1> QED BY <1>1, <1>3, <1>4, <1>5, <1>6, <1>7, InvParts, InvNext

LEMMA GiveAccessStep ==
  ASSUME LightInv, NEW z \in Zones, GiveAccess(z)
  PROVE  LightInv'
<1>1. /\ node[z] = "locked" /\ node' = [node EXCEPT ![z] = "ready"]
      /\ UNCHANGED <<lamp, dev, present, resuming, lights, drift, unsent, commands, faults, outages>>
  BY DEF GiveAccess, watch
<1>2. node' \in [Zones -> {"absent", "locked", "ready"}] /\ \A y \in Zones : y # z => node'[y] = node[y]
  BY <1>1, InvParts
<1>3. node'[z] # "absent"
  BY <1>1, InvParts
<1>4. LiveNode'
  BY <1>1, <1>2, <1>3, InvParts DEF LiveNode
<1>5. Shown'
  BY <1>1, StillShown
<1>6. Counted'
  BY <1>1, SameCounted
<1> QED BY <1>1, <1>2, <1>4, <1>5, <1>6, InvParts, InvNext

LEMMA SleepAndWakeStep ==
  ASSUME LightInv, SleepAndWake
  PROVE  LightInv'
<1>1. /\ Outage
      /\ node' = [z \in Zones |-> IF node[z] = "absent" THEN "absent" ELSE "locked"]
      /\ lamp' = [z \in Zones |-> IF node[z] = "absent" THEN lamp[z] ELSE FirmwareLamp]
      /\ dev' = Stale(Zones) /\ resuming' = TRUE
      /\ UNCHANGED <<present, lights, drift, unsent, commands, faults>>
  BY DEF SleepAndWake
<1>2. OpenedTyped(dev') /\ \A z \in Zones : dev'[z] # "live"
  BY <1>1, StaleIs
<1>3. lamp' \in [Zones -> LampSet]
  BY <1>1, InvParts, FirmwareTyped
<1>4. node' \in [Zones -> {"absent", "locked", "ready"}]
  BY <1>1
<1>5. LiveNode'
  BY <1>2 DEF LiveNode
<1>6. Shown'
  BY <1>1, <1>2, StillShown
<1>7. Counted'
  BY <1>1, OutageCounted
<1> QED BY <1>1, <1>2, <1>3, <1>4, <1>5, <1>6, <1>7, InvParts, InvNext DEF OpenedTyped

\* The lights go out before a sleep, and every zone with a handle is in drift
\* until they are restored.
LEMMA TurnOffStep ==
  ASSUME LightInv, TurnOffForSleep
  PROVE  LightInv'
<1>1. /\ Outage /\ resuming' = TRUE
      /\ lamp' = [z \in Zones |-> IF Reaches("") /\ z \in Targets("") THEN Sent(4, z, lamp[z], OffEntry)
                                  ELSE lamp[z]]
      /\ drift' = drift \cup Targets("")
      /\ UNCHANGED <<node, dev, present, lights, unsent, commands, faults>>
  BY DEF TurnOffForSleep
<1>2. Targets("") \subseteq Zones /\ \A z \in Zones : dev[z] = "live" => z \in Targets("")
  BY DEF Targets
<1>3. lamp' \in [Zones -> LampSet]
  <2>1. ~OffEntry.on
    BY DEF OffEntry
  <2>2. 4 \in 0..4
    OBVIOUS
  <2>3. \A z \in Zones : lamp[z] \in LampSet /\ Sent(4, z, lamp[z], OffEntry) \in LampSet
    BY <2>1, <2>2, FixedEntries, InvParts, SentTyped
  <2> QED BY <1>1, <2>3
<1>4. LiveNode'
  BY <1>1, InvParts DEF LiveNode
<1>5. Shown'
  BY <1>1, <1>2, StillShown
<1>6. Counted'
  BY <1>1, OutageCounted
<1>7. drift' \subseteq Zones
  BY <1>1, <1>2, InvParts
<1> QED BY <1>1, <1>3, <1>4, <1>5, <1>6, <1>7, InvParts, InvNext

LEMMA NodesStep ==
  ASSUME LightInv, Nodes
  PROVE  LightInv'
  BY DetachStep, AttachStep, SleepAndWakeStep, GiveAccessStep DEF Nodes

-----------------------------------------------------------------------------
(* The lighting alone.                                                     *)

\* A file of an earlier release, in which a dimmed zone may have lost its mode.
LEMMA FirstLightsNamed ==
  ASSUME NEW l \in FirstLights
  PROVE  l \in LightsSet /\ Named(l)
<1> DEFINE Dimmed == [OffEntry EXCEPT !.on = TRUE, !.level = Bright]
           Old == [z \in Zones |-> IF z = "lightbar" THEN Dimmed ELSE NoEntry]
           None == [z \in Zones |-> NoEntry]
<1>1. Dimmed \in Entry /\ Dimmed.look = ""
  BY LevelsAreNat DEF OffEntry, Entry, LevelSet
<1>2. l.all = Default /\ (l.zones = None \/ l.zones = Old) /\ l = [all |-> l.all, zones |-> l.zones]
  <2>1. l = [all |-> Default, zones |-> None] \/ l = [all |-> Default, zones |-> Old]
    BY DEF FirstLights
  <2> HIDE DEF None, Old
  <2> QED BY <2>1
<1> HIDE DEF Dimmed
<1>3. None \in [Zones -> Entry] /\ Old \in [Zones -> Entry]
  BY <1>1, FixedEntries
<1>4. \A z \in Zones : /\ None[z] = NoEntry
                       /\ Old[z] = NoEntry \/ Old[z].look = ""
  BY <1>1
<1> HIDE DEF None, Old
<1>5. l \in LightsSet
  BY <1>2, <1>3, FixedEntries DEF LightsSet
<1>6. Default.look \in Names
  BY NamesNamed DEF Default
<1> QED BY <1>2, <1>4, <1>5, <1>6 DEF Named

LEMMA LightStart ==
  ASSUME NEW l \in FirstLights, LightInit(l)
  PROVE  LightInv
<1>1. /\ node \in [Zones -> {"locked", "ready"}]
      /\ lights = Repaired(l) /\ dev = Opened
      /\ lamp = [z \in Zones |-> IF z \in Openable THEN Sent(4, z, FirmwareLamp, Wanted(lights, z))
                                 ELSE FirmwareLamp]
      /\ present = TRUE /\ resuming = FALSE
      /\ drift = {} /\ unsent = {z \in Openable : ~Wanted(lights, z).on}
      /\ commands = 0 /\ faults = 0 /\ outages = 0
  BY DEF LightInit
<1>2. lights \in LightsSet /\ Named(lights) /\ OnNamed(lights)
  BY <1>1, FirstLightsNamed, RepairComplete
<1>3. \A z \in Zones : Wanted(lights, z) \in Entry /\ Wanted(lights, z).look \in Names
  BY <1>2, WantedTyped
<1>4. lamp \in [Zones -> LampSet]
  <2>1. 4 \in 0..4
    OBVIOUS
  <2>2. \A z \in Zones : Sent(4, z, FirmwareLamp, Wanted(lights, z)) \in LampSet
    BY <1>3, <2>1, FirmwareTyped, SentTyped
  <2> QED BY <1>1, <2>2, FirmwareTyped
<1>5. Shown
  <2>1. ASSUME NEW z \in Zones, dev[z] = "live" PROVE ZoneShown(z)
    <3>1. z \in Openable
      BY <1>1, <2>1, OpenedIs
    <3>2. lamp[z] = Sent(4, z, FirmwareLamp, Wanted(lights, z))
      BY <1>1, <3>1
    <3>3. Glows(lamp[z], Wanted(lights, z))
      BY <1>3, <3>2, FirmwareTyped, SentGlows
    <3>4. z \notin unsent => Wanted(lights, z).on
      BY <1>1, <3>1
    <3>5. lamp[z].look = IF Wanted(lights, z).on THEN Wanted(lights, z).look ELSE FirmwareLamp.look
      BY <1>3, <3>2, FirmwareTyped, SentAll
    <3> QED BY <3>3, <3>4, <3>5 DEF ZoneShown
  <2> QED BY <2>1 DEF Shown, ZoneShown
<1>6. LiveNode /\ dev \in [Zones -> {"none", "live", "stale"}]
  BY <1>1, OpenedIs DEF LiveNode, OpenedTyped
<1>7. Counted
  <2>1. MaxCommands \in Nat /\ MaxFaults \in Nat /\ MaxOutages \in Nat
    BY LightingAssumption
  <2> QED BY <1>1, <2>1 DEF Counted
<1>8. unsent \subseteq Zones /\ drift \subseteq Zones
  BY <1>1, OpenedIs
<1>9. node \in [Zones -> {"absent", "locked", "ready"}]
  BY <1>1
<1> QED BY <1>1, <1>2, <1>4, <1>5, <1>6, <1>7, <1>8, <1>9
        DEF LightInv, LightTypeOK, LampSet, LightsSet, LevelSet, Counted

LEMMA RestartStep ==
  ASSUME LightInv, Restart
  PROVE  LightInv'
<1>1. Outage /\ Start(lights) /\ UNCHANGED <<node, commands>>
  BY DEF Restart
<1>2. commands' \in 0..MaxCommands /\ outages' \in 0..MaxOutages
  BY <1>1, CountersTyped DEF Outage, Counted
<1> QED BY <1>1, <1>2, InvParts, StartStep

\* What the invariant says to a reader.
LEMMA Consequences ==
  ASSUME LightInv
  PROVE  LampsMatch /\ Restorable
<1>1. LampsMatch
  <2>1. ASSUME NEW z \in Zones, dev[z] = "live", z \notin drift PROVE Shows(z)
    <3>1. Glows(lamp[z], Wanted(lights, z)) /\ (z \notin unsent => lamp[z].look = Wanted(lights, z).look)
      BY <2>1, ShownNow
    <3> QED BY <3>1 DEF Shows, Lit, Glows
  <2> QED BY <2>1 DEF LampsMatch
<1>2. Restorable
  BY InvParts, NamesNamed DEF Restorable, Named, OnNamed
<1> QED BY <1>1, <1>2

LEMMA LightStep ==
  ASSUME LightInv, [LightNext]_lightVars
  PROVE  LightInv'
<1>1. CASE LightCommands
  BY <1>1, CommandStep DEF LightCommands
<1>2. CASE HotplugTick
  BY <1>2, HotplugStep
<1>3. CASE TurnOffForSleep
  BY <1>3, TurnOffStep
<1>4. CASE Resume
  BY <1>4, ResumeStep
<1>5. CASE Nodes
  BY <1>5, NodesStep
<1>6. CASE Restart
  BY <1>6, RestartStep
<1>7. CASE UNCHANGED lightVars
  BY <1>7, LightsAlone, SameCounted DEF lightVars, hardware, watch
<1> QED BY <1>1, <1>2, <1>3, <1>4, <1>5, <1>6, <1>7 DEF LightNext

LEMMA LightInvariant == LightSpec => []LightInv
<1>1. LightInits => LightInv
  BY LightStart DEF LightInits
<1>2. LightInv /\ [LightNext]_lightVars => LightInv'
  BY LightStep
<1> QED BY <1>1, <1>2, PTL DEF LightSpec

\* LampsMatch: a zone whose handle works, and that is not known to have
\* drifted, shows what a restart would put there.
THEOREM LampsAlwaysMatch == LightSpec => []LampsMatch
  BY LightInvariant, Consequences, PTL

\* Restorable: every entry that is on names a mode.
THEOREM AlwaysRestorable == LightSpec => []Restorable
  BY LightInvariant, Consequences, PTL

\* The watcher's latch, when nothing but the watcher runs: the zones with a
\* handle show what is saved.
LEMMA LatchedShown ==
  ASSUME LightInv, HotplugTick, ~present, present'
  PROVE  \A z \in Zones : dev'[z] = "live" => Shows(z)'
<1>1. LightInv' /\ \A z \in Zones : dev'[z] = "live" => z \notin drift'
  BY HotplugStep
<1>2. LampsMatch'
  BY <1>1, Consequences, PTL
<1> QED BY <1>1, <1>2 DEF LampsMatch

\* An outage is counted.
LEMMA OutageMoves ==
  ASSUME LightInv, Outage
  PROVE  outages' # outages
<1>1. outages \in Nat /\ outages' = outages + 1
  BY CountersTyped DEF Outage, Counted
<1> QED BY <1>1

\* LatchedWhenShown: the watcher takes a keyboard that came back as restored
\* only when every zone it opened shows what was saved.
THEOREM LatchesWhatItShows == LightSpec => LatchedWhenShown
<1> DEFINE Latched == ~present /\ present' /\ outages' = outages
                        => \A z \in Zones : dev'[z] = "live" => Shows(z)'
<1>1. ASSUME LightInv, LightNext PROVE Latched
  <2>1. ASSUME LightCommands PROVE UNCHANGED present
    BY <2>1 DEF LightCommands, LightingCommand, HandleApply, HandleOff, HandleBrightness,
                Brightens, Receives, watch
  <2>2. CASE HotplugTick
    BY <1>1, <2>2, LatchedShown
  <2>3. ASSUME TurnOffForSleep \/ Resume \/ Nodes PROVE UNCHANGED present
    BY <2>3 DEF TurnOffForSleep, Resume, Nodes, Detach, Attach, GiveAccess, SleepAndWake, watch
  <2>4. ASSUME Restart PROVE outages' # outages
    BY <1>1, <2>4, OutageMoves DEF Restart
  <2> QED BY <1>1, <2>1, <2>2, <2>3, <2>4 DEF LightNext
<1>2. ASSUME LightInv, [LightNext]_lightVars PROVE [Latched]_lightVars
  BY <1>1, <1>2
<1>3. LightSpec => [][Latched]_lightVars
  BY <1>2, LightInvariant, PTL DEF LightSpec
<1> QED BY <1>3 DEF LatchedWhenShown

=============================================================================
