-------------------------- MODULE Undervolt_proofs --------------------------
(***************************************************************************)
(* The Active flags and the offset they stand for, for any profiles,       *)
(* requests and autoswitch targets, any number of failures, sleeps and     *)
(* crashes.                                                                *)
(***************************************************************************)
EXTENDS Undervolt, TLAPS

-----------------------------------------------------------------------------
(* The inductive invariant.                                                *)

Kinds == {"uv-set", "uv-reset", "set", "fancurve-reset", "tdp-reset"}

\* What holds hwMu is an edit as Resolve made it.
EditTyped ==
  edit # NoEdit =>
    /\ edit \in [kind : Kinds, value : Offsets \cup {NoOffset}, target : Target, profile : Profile]
    /\ edit.kind = "uv-set" => edit.value \in Offsets

\* The target of the edit is live as long as it holds hwMu: it is the active
\* profile, or the default one while a firmware profile is active.
TargetFresh ==
  edit # NoEdit =>
    /\ edit.target.live <=> (edit.target.name = st.profile \/ Implicit(edit.target))
    /\ Implicit(edit.target) => st.profile \in Stocks
    /\ edit.target.wasActive => edit.target.name = st.profile

DownIdle == power = "down" => edit = NoEdit /\ asked = {}

\* No flag is up beside no offset.
Flagged(s) == \A n \in DOMAIN s.saved : s.saved[n].active => s.saved[n].uv # NoOffset
FlagsSet == Flagged(st) /\ Flagged(disk)

\* An offset in force is the active profile's, and flagged there.
Owned(s, co) ==
  \/ co = StockCO
  \/ /\ s.profile \in DOMAIN s.saved
     /\ s.saved[s.profile].active
     /\ encodeCOValue(s.saved[s.profile].uv) = co

\* A flag that is up is the active profile's, and its offset is in force or
\* was lost in a sleep.
Lasting(s, co) ==
  \A n \in DOMAIN s.saved :
    s.saved[n].active => n = s.profile /\ co \in {StockCO, encodeCOValue(s.saved[n].uv)}

Exact(s, co) ==
  \A n \in DOMAIN s.saved :
    s.saved[n].active => n = s.profile /\ encodeCOValue(s.saved[n].uv) = co

\* What StockClean excepts.
Excuses == {"smu", "saveOver", "reapply", "unsaved"}

OwnedUnlessExcused == drift \cap Excuses = {} => Owned(st, smu.co)
LastingUnlessDrifted == drift = {} => Lasting(st, smu.co)

IInv ==
  /\ TypeOK /\ EditTyped /\ TargetFresh /\ SnapshotFresh /\ DownIdle
  /\ ActiveExists /\ FlagsSet
  /\ OwnedUnlessExcused /\ LastingUnlessDrifted /\ FlagsTellHardware

-----------------------------------------------------------------------------
(* The state and its profiles.                                             *)

LEMMA OffsetsTyped ==
  /\ Offsets \subseteq UVMinCPU..UVMaxCPU
  /\ Offsets \subseteq Int
  /\ NoOffset \notin Offsets
  /\ \A v \in Offsets : v = 0 \/ encodeCOValue(v) # StockCO
<1>1. Offsets \subseteq UVMinCPU..UVMaxCPU
  BY DEF Offsets
<1> QED BY <1>1 DEF UVMinCPU, UVMaxCPU, NoOffset, encodeCOValue, StockCO

LEMMA Counting ==
  /\ 0 \in 0..MaxFaults /\ 0 \in 0..MaxOutages
  /\ \A n \in 0..MaxFaults : n < MaxFaults => n + 1 \in 0..MaxFaults
  /\ \A n \in 0..MaxOutages : n < MaxOutages => n + 1 \in 0..MaxOutages
<1>1. MaxFaults \in Nat /\ MaxOutages \in Nat
  BY UndervoltAssumption
<1> QED BY <1>1

LEMMA NamesApart ==
  /\ Default \in Names /\ Balanced \in Stocks
  /\ \A n \in Names : n \notin Stocks
  /\ Targets \subseteq Names \cup Stocks
  BY UndervoltAssumption

LEMMA NewProfileTyped == NewProfile \in Profile /\ NewProfile.active = FALSE
  BY DEF NewProfile, Profile

LEMMA StateParts ==
  ASSUME NEW s \in State
  PROVE  /\ s = [profile |-> s.profile, saved |-> s.saved]
         /\ s.profile \in Names \cup Stocks
         /\ DOMAIN s.saved \subseteq Names
         /\ s.saved \in [DOMAIN s.saved -> Profile]
         /\ \A n \in DOMAIN s.saved : s.saved[n] \in Profile
  BY DEF State

LEMMA MakeState ==
  ASSUME NEW p \in Names \cup Stocks, NEW S \in SUBSET Names, NEW f \in [S -> Profile]
  PROVE  [profile |-> p, saved |-> f] \in State
  BY DEF State

LEMMA SavedTyped ==
  ASSUME NEW s \in State, NEW name \in Names
  PROVE  SavedProfile(s, name) \in Profile
  BY StateParts, NewProfileTyped DEF SavedProfile

LEMMA Cleared ==
  ASSUME NEW s \in State
  PROVE  /\ ClearActive(s) \in State
         /\ ClearActive(s).profile = s.profile
         /\ DOMAIN ClearActive(s).saved = DOMAIN s.saved
         /\ \A n \in DOMAIN s.saved : /\ ClearActive(s).saved[n].active = FALSE
                                      /\ ClearActive(s).saved[n].uv = s.saved[n].uv
<1> DEFINE f == [n \in DOMAIN s.saved |-> [s.saved[n] EXCEPT !.active = FALSE]]
<1>1. s = [profile |-> s.profile, saved |-> s.saved]
      /\ \A n \in DOMAIN s.saved : s.saved[n] \in Profile
  BY StateParts
<1>2. ClearActive(s) = [profile |-> s.profile, saved |-> f]
  <2>1. ClearActive(s) = [s EXCEPT !.saved = f]
    BY DEF ClearActive
  <2> HIDE DEF f
  <2> QED BY <1>1, <2>1
<1>3. \A n \in DOMAIN s.saved : /\ [s.saved[n] EXCEPT !.active = FALSE] \in Profile
                                /\ [s.saved[n] EXCEPT !.active = FALSE].active = FALSE
                                /\ [s.saved[n] EXCEPT !.active = FALSE].uv = s.saved[n].uv
  BY <1>1 DEF Profile
<1>4. f \in [DOMAIN s.saved -> Profile]
  BY <1>3
<1>5. [profile |-> s.profile, saved |-> f] \in State
  BY <1>4, StateParts, MakeState
<1> QED BY <1>2, <1>3, <1>5

LEMMA Deleted ==
  ASSUME NEW s \in State, NEW name
  PROVE  LET r == [s EXCEPT !.saved = [n \in DOMAIN @ \ {name} |-> @[n]]]
         IN  /\ r \in State
             /\ r.profile = s.profile
             /\ DOMAIN r.saved = DOMAIN s.saved \ {name}
             /\ \A n \in DOMAIN r.saved : r.saved[n] = s.saved[n]
<1> DEFINE f == [n \in DOMAIN s.saved \ {name} |-> s.saved[n]]
<1>1. [s EXCEPT !.saved = [n \in DOMAIN @ \ {name} |-> @[n]]] = [profile |-> s.profile, saved |-> f]
  BY StateParts
<1>2. f \in [DOMAIN s.saved \ {name} -> Profile]
  BY StateParts
<1>3. [profile |-> s.profile, saved |-> f] \in State
  BY <1>2, StateParts, MakeState
<1>4. DOMAIN f = DOMAIN s.saved \ {name} /\ \A n \in DOMAIN f : f[n] = s.saved[n]
  OBVIOUS
<1> HIDE DEF f
<1> QED BY <1>1, <1>3, <1>4

-----------------------------------------------------------------------------
(* The mailbox.                                                            *)

Codes == {encodeCOValue(v) : v \in Offsets \cup {0}}
Box == [probe : {"none", "ok", "failed"}, co : Codes,
        sent : SUBSET {"probe", "set", "reset"}, ok : BOOLEAN]

LEMMA CodesTyped ==
  /\ StockCO \in Codes
  /\ \A v \in Offsets \cup {0} : encodeCOValue(v) \in Codes
  BY DEF Codes, StockCO

LEMMA MailboxTyped ==
  ASSUME TypeOK
  PROVE  Mailbox \in Box
  BY DEF TypeOK, Mailbox, Box, Codes

\* The first call probes, and a probe that goes through resets the offset.
LEMMA ProbedIs ==
  ASSUME NEW m \in Box, NEW f
  PROVE  LET q == Probed(m, f)
         IN  /\ q \in Box
             /\ q.ok = m.ok
             /\ q.probe \in {"ok", "failed"}
             /\ q.co \in {m.co, StockCO}
             /\ q.sent \subseteq m.sent \cup {"probe"}
             /\ m.probe # "none" => q = m
             /\ m.probe = "none" => q.sent = m.sent \cup {"probe"}
             /\ m.probe = "none" /\ q.probe = "ok" => q.co = StockCO
<1>1. CASE m.probe # "none"
  BY <1>1 DEF Probed, Box
<1>2. CASE m.probe = "none" /\ f = "probe"
  BY <1>2 DEF Probed, Box
<1>3. CASE m.probe = "none" /\ f # "probe"
  BY <1>3, CodesTyped DEF Probed, Box
<1> QED BY <1>1, <1>2, <1>3

LEMMA SentIs ==
  ASSUME NEW m \in Box, m.ok, NEW what \in {"set", "reset"}, NEW v \in Offsets \cup {0}, NEW f
  PROVE  LET q == SendCommand(m, what, v, f)
         IN  /\ q \in Box
             /\ q.probe = m.probe
             /\ q.sent \subseteq m.sent \cup {what}
             /\ q.ok => q.probe # "failed" /\ q.co = encodeCOValue(v) /\ what \in q.sent
             /\ q.probe # "failed" /\ f # "lost" => q.co = encodeCOValue(v)
             /\ ~q.ok => q.probe = "failed" \/ f \in {"lost", "unread"}
<1>1. CASE m.probe = "failed"
  BY <1>1 DEF SendCommand, Box
<1>2. CASE m.probe # "failed"
  BY <1>2, CodesTyped DEF SendCommand, Box
<1> QED BY <1>1, <1>2

LEMMA SetIs ==
  ASSUME TypeOK, NEW v \in Offsets, NEW f
  PROVE  LET q == SetCurveOptimizer(Mailbox, v, f)
         IN  /\ q \in Box
             /\ q.ok => q.probe # "failed" /\ q.co = encodeCOValue(v)
             /\ ~q.ok => q.probe = "failed" \/ f \in {"lost", "unread"}
             /\ "reset" \notin q.sent
             /\ "probe" \in q.sent => "set" \in q.sent \/ q.probe = "failed"
<1> DEFINE p == Probed(Mailbox, f)
<1>1. p \in Box /\ p.ok = TRUE /\ p.sent \subseteq {"probe"}
  BY MailboxTyped, ProbedIs DEF Mailbox
<1>2. SetCurveOptimizer(Mailbox, v, f) = SendCommand(p, "set", v, f)
  BY DEF SetCurveOptimizer
<1>3. p.probe # "failed" => "set" \in SendCommand(p, "set", v, f).sent
  BY <1>1 DEF SendCommand, Box
<1> HIDE DEF p
<1> QED BY <1>1, <1>2, <1>3, SentIs

\* A reset that is due ends with the offset gone, unless the SMU failed; one
\* that is not due sends nothing.
LEMMA ResetIs ==
  ASSUME TypeOK, NEW s, NEW f
  PROVE  LET q == ResetIfApplied(Mailbox, s, f)
         IN  /\ q \in Box
             /\ ~undervoltActive(s) => q = Mailbox
             /\ undervoltActive(s) => q.co = StockCO \/ q.probe = "failed" \/ f = "lost"
             /\ ~q.ok => f \in {"lost", "unread"}
             /\ q.sent # {} => undervoltActive(s)
<1> DEFINE p == Probed(Mailbox, f)
           r == ResetCurveOptimizer(p, f)
<1>1. Mailbox \in Box /\ Mailbox.ok = TRUE /\ Mailbox.sent = {}
  BY MailboxTyped DEF Mailbox
<1>2. p \in Box /\ p.ok = TRUE /\ p.probe \in {"ok", "failed"}
  BY <1>1, ProbedIs
<1>3. p.probe = "ok" => Probed(p, f) = p
  BY <1>2, ProbedIs
<1>4. p.probe = "ok" => r = SendCommand(p, "reset", 0, f)
  BY <1>3 DEF ResetCurveOptimizer
<1>5. 0 \in Offsets \cup {0} /\ encodeCOValue(0) = StockCO
  BY DEF StockCO
<1> HIDE DEF p
<1>6. p.probe = "ok" => /\ r \in Box
                        /\ f # "lost" => r.co = StockCO
                        /\ ~r.ok => f \in {"lost", "unread"}
  BY <1>2, <1>4, <1>5, SentIs
<1>7. ResetIfApplied(Mailbox, s, f) =
        IF undervoltActive(s) THEN (IF p.probe = "ok" THEN r ELSE p) ELSE Mailbox
  BY DEF ResetIfApplied, p
<1> HIDE DEF r
<1> QED BY <1>1, <1>2, <1>6, <1>7

LEMMA PostedTyped ==
  ASSUME NEW q \in Box, Posted(q)
  PROVE  /\ smu' \in [probe : {"none", "ok", "failed"}, co : {encodeCOValue(v) : v \in Offsets \cup {0}}]
         /\ smu'.probe = q.probe /\ smu'.co = q.co
         /\ sent' = q.sent /\ sent' \subseteq {"probe", "set", "reset"}
  BY DEF Posted, Box, Codes

-----------------------------------------------------------------------------
(* Drift.                                                                  *)

LEMMA AgreeIs ==
  ASSUME NEW s, NEW co, Flagged(s)
  PROVE  Agree(s, co) <=> Exact(s, co) /\ Owned(s, co)
<1>1. ASSUME Agree(s, co) PROVE Exact(s, co) /\ Owned(s, co)
  <2>1. Exact(s, co)
    BY <1>1 DEF Agree, Exact
  <2>2. CASE undervoltActive(s)
    BY <1>1, <2>1, <2>2 DEF Agree, Owned, undervoltActive
  <2>3. CASE co = StockCO
    BY <2>1, <2>3 DEF Owned
  <2> QED BY <1>1, <2>2, <2>3 DEF Agree
<1>2. ASSUME Exact(s, co), Owned(s, co) PROVE Agree(s, co)
  BY <1>2 DEF Agree, Exact, Owned, undervoltActive, Flagged
<1> QED BY <1>1, <1>2

LEMMA ExactLasts ==
  ASSUME NEW s, NEW co, Exact(s, co)
  PROVE  Lasting(s, co)
  BY DEF Exact, Lasting

\* What an action must show of the flags and the offset it leaves, by the
\* causes it gives for a disagreement.
LEMMA DriftStep ==
  ASSUME IInv, NEW causes \in SUBSET Drifts, Drift(causes), Flagged(st'),
         (causes \cap Excuses = {} /\ smu'.probe # "failed" /\ Owned(st, smu.co))
           => Owned(st', smu'.co),
         (causes = {} /\ smu'.probe # "failed" /\ Owned(st, smu.co) /\ Lasting(st, smu.co))
           => Lasting(st', smu'.co),
         (causes = {} /\ smu'.probe # "failed" /\ Owned(st, smu.co) /\ Lasting(st, smu.co)
             /\ (power = "up" => Exact(st, smu.co)) /\ power' = "up")
           => Exact(st', smu'.co)
  PROVE  /\ drift' \subseteq Drifts
         /\ OwnedUnlessExcused' /\ LastingUnlessDrifted' /\ FlagsTellHardware'
<1>1. drift \subseteq Drifts /\ "smu" \in Drifts /\ "smu" \in Excuses
  BY DEF IInv, TypeOK, Drifts, Excuses
<1>2. CASE Agree(st', smu'.co)
  <2>1. drift' = {}
    BY <1>2 DEF Drift
  <2>2. Exact(st', smu'.co) /\ Owned(st', smu'.co)
    BY <1>2, AgreeIs
  <2> QED BY <1>2, <2>1, <2>2, ExactLasts
          DEF OwnedUnlessExcused, LastingUnlessDrifted, FlagsTellHardware
<1>3. CASE ~Agree(st', smu'.co)
  <2>1. drift' = drift \cup causes \cup IF smu'.probe = "failed" THEN {"smu"} ELSE {}
    BY <1>3 DEF Drift
  <2>2. drift' \subseteq Drifts
    BY <1>1, <2>1
  <2>3. ASSUME drift' \cap Excuses = {} PROVE Owned(st', smu'.co)
    <3>1. causes \cap Excuses = {} /\ smu'.probe # "failed" /\ drift \cap Excuses = {}
      BY <1>1, <2>1, <2>3
    <3> QED BY <3>1 DEF IInv, OwnedUnlessExcused
  <2>4. ASSUME drift' = {} 
        PROVE  /\ causes = {} /\ smu'.probe # "failed"
               /\ Owned(st, smu.co) /\ Lasting(st, smu.co)
               /\ power = "up" => Exact(st, smu.co)
    <3>1. causes = {} /\ smu'.probe # "failed" /\ drift = {}
      BY <2>1, <2>4
    <3>2. power = "up" => Agree(st, smu.co)
      BY <3>1 DEF IInv, FlagsTellHardware
    <3> QED BY <3>1, <3>2 DEF IInv, OwnedUnlessExcused, LastingUnlessDrifted, Agree, Exact
  <2>5. ASSUME drift' = {} PROVE Lasting(st', smu'.co)
    BY <2>4, <2>5
  <2>6. ASSUME drift' = {}, power' = "up" PROVE FALSE
    <3>1. Exact(st', smu'.co) /\ Owned(st', smu'.co)
      BY <2>3, <2>4, <2>6
    <3> QED BY <1>3, <3>1, AgreeIs
  <2> QED BY <2>2, <2>3, <2>5, <2>6
          DEF OwnedUnlessExcused, LastingUnlessDrifted, FlagsTellHardware
<1> QED BY <1>2, <1>3

-----------------------------------------------------------------------------
(* What the steps share: saving a state, and applying a profile.           *)

\* The part of the invariant that depends on the state and the hardware.
StateOK ==
  /\ {st, disk} \subseteq State
  /\ smu \in [probe : {"none", "ok", "failed"}, co : {encodeCOValue(v) : v \in Offsets \cup {0}}]
  /\ sent \subseteq {"probe", "set", "reset"}
  /\ drift \subseteq Drifts
  /\ ActiveExists /\ FlagsSet
  /\ OwnedUnlessExcused /\ LastingUnlessDrifted /\ FlagsTellHardware

LEMMA FaultsTyped ==
  ASSUME TypeOK, NEW f, MayFail(f)
  PROVE  faults' \in 0..MaxFaults
<1>1. faults \in 0..MaxFaults
  BY DEF TypeOK
<1> QED BY <1>1, Counting DEF MayFail

LEMMA OfFailureIs ==
  ASSUME NEW f
  PROVE  /\ OfFailure(f) \subseteq Drifts
         /\ OfFailure(f) \cap Excuses = {} => f \notin {"probe", "lost", "unread"}
  BY DEF OfFailure, Drifts, Excuses

LEMMA SaveKeeps ==
  ASSUME IInv, NEW s \in State, NEW f, Save(s, f),
         s.profile \in Stocks \cup DOMAIN s.saved, Flagged(s)
  PROVE  st' = s /\ {st', disk'} \subseteq State /\ ActiveExists' /\ FlagsSet'
<1>1. st' = s /\ disk' \in {disk, s}
  BY DEF Save
<1>2. {st, disk} \subseteq State /\ ActiveExists /\ FlagsSet
  BY DEF IInv, TypeOK
<1> QED BY <1>1, <1>2 DEF ActiveExists, FlagsSet

LEMMA UnchangedKeeps ==
  ASSUME IInv, UNCHANGED <<st, disk>>
  PROVE  {st', disk'} \subseteq State /\ ActiveExists' /\ FlagsSet'
  BY DEF IInv, TypeOK, ActiveExists, FlagsSet

\* The state an apply leaves: the profile active, its flag alone up, or none.
MarkedOn(s, name) == [ClearActive(s) EXCEPT !.profile = name, !.saved[name].active = TRUE]
MarkedOff(s, name) == [ClearActive(s) EXCEPT !.profile = name, !.saved[name].active = FALSE]

LEMMA MarkedOnIs ==
  ASSUME NEW s \in State, NEW name \in DOMAIN s.saved
  PROVE  /\ MarkedOn(s, name) \in State
         /\ MarkedOn(s, name).profile = name
         /\ DOMAIN MarkedOn(s, name).saved = DOMAIN s.saved
         /\ MarkedOn(s, name).saved[name].active = TRUE
         /\ MarkedOn(s, name).saved[name].uv = s.saved[name].uv
         /\ \A n \in DOMAIN s.saved : n # name => MarkedOn(s, name).saved[n].active = FALSE
<1> DEFINE c == ClearActive(s)
           f == [c.saved EXCEPT ![name].active = TRUE]
<1>1. /\ c \in State /\ DOMAIN c.saved = DOMAIN s.saved
      /\ \A n \in DOMAIN s.saved : c.saved[n].active = FALSE /\ c.saved[n].uv = s.saved[n].uv
  BY Cleared
<1>2. MarkedOn(s, name) = [c EXCEPT !.profile = name, !.saved = f]
  BY DEF MarkedOn
<1> HIDE DEF c
<1>3. /\ c = [profile |-> c.profile, saved |-> c.saved]
      /\ c.saved \in [DOMAIN s.saved -> Profile]
      /\ name \in Names /\ DOMAIN s.saved \subseteq Names
  BY <1>1, StateParts
<1>4. /\ f \in [DOMAIN s.saved -> Profile] /\ DOMAIN f = DOMAIN s.saved
      /\ f[name].active = TRUE /\ f[name].uv = c.saved[name].uv
      /\ \A n \in DOMAIN s.saved : n # name => f[n] = c.saved[n]
  BY <1>3 DEF Profile
<1> HIDE DEF f
<1>5. MarkedOn(s, name) = [profile |-> name, saved |-> f]
  BY <1>2, <1>3
<1>6. [profile |-> name, saved |-> f] \in State
  BY <1>3, <1>4, MakeState
<1> QED BY <1>1, <1>4, <1>5, <1>6

LEMMA MarkedOffIs ==
  ASSUME NEW s \in State, NEW name \in DOMAIN s.saved
  PROVE  /\ MarkedOff(s, name) \in State
         /\ MarkedOff(s, name).profile = name
         /\ DOMAIN MarkedOff(s, name).saved = DOMAIN s.saved
         /\ \A n \in DOMAIN s.saved : MarkedOff(s, name).saved[n].active = FALSE
<1> DEFINE c == ClearActive(s)
           f == [c.saved EXCEPT ![name].active = FALSE]
<1>1. /\ c \in State /\ DOMAIN c.saved = DOMAIN s.saved
      /\ \A n \in DOMAIN s.saved : c.saved[n].active = FALSE
  BY Cleared
<1>2. MarkedOff(s, name) = [c EXCEPT !.profile = name, !.saved = f]
  BY DEF MarkedOff
<1> HIDE DEF c
<1>3. /\ c = [profile |-> c.profile, saved |-> c.saved]
      /\ c.saved \in [DOMAIN s.saved -> Profile]
      /\ name \in Names /\ DOMAIN s.saved \subseteq Names
  BY <1>1, StateParts
<1>4. /\ f \in [DOMAIN s.saved -> Profile] /\ DOMAIN f = DOMAIN s.saved
      /\ \A n \in DOMAIN s.saved : f[n].active = FALSE
  BY <1>1, <1>3 DEF Profile
<1> HIDE DEF f
<1>5. MarkedOff(s, name) = [profile |-> name, saved |-> f]
  BY <1>2, <1>3
<1>6. [profile |-> name, saved |-> f] \in State
  BY <1>3, <1>4, MakeState
<1> QED BY <1>1, <1>4, <1>5, <1>6

\* The state a switch to a firmware profile leaves: every flag down.
UnmarkedIn(s, stock) == [ClearActive(s) EXCEPT !.profile = stock]

LEMMA Unmarked ==
  ASSUME NEW s \in State, NEW stock \in Stocks
  PROVE  LET r == UnmarkedIn(s, stock)
         IN  /\ r \in State
             /\ r.profile = stock
             /\ \A n \in DOMAIN r.saved : r.saved[n].active = FALSE
<1> DEFINE c == ClearActive(s)
<1>1. /\ c \in State /\ DOMAIN c.saved = DOMAIN s.saved
      /\ \A n \in DOMAIN s.saved : c.saved[n].active = FALSE
  BY Cleared
<1> HIDE DEF c
<1>2. /\ c = [profile |-> c.profile, saved |-> c.saved]
      /\ c.saved \in [DOMAIN c.saved -> Profile] /\ DOMAIN c.saved \subseteq Names
  BY <1>1, StateParts
<1>3. UnmarkedIn(s, stock) = [profile |-> stock, saved |-> c.saved]
  <2>1. UnmarkedIn(s, stock) = [c EXCEPT !.profile = stock]
    BY DEF UnmarkedIn, c
  <2> QED BY <1>2, <2>1
<1>4. [profile |-> stock, saved |-> c.saved] \in State
  BY <1>2, MakeState
<1> QED BY <1>1, <1>3, <1>4 DEF c

\* With every flag down, an offset that is owned is none.
LEMMA NothingOwned ==
  ASSUME NEW s, NEW co, Flagged(s), Owned(s, co), ~undervoltActive(s)
  PROVE  co = StockCO
  BY DEF Flagged, Owned, undervoltActive

\* An apply ends with its profile's flag telling the truth, whatever the flags
\* said before.
LEMMA ApplyKeeps ==
  ASSUME IInv, NEW name \in DOMAIN st.saved, NEW f, ApplyCustom(st, name, Mailbox, f)
  PROVE  StateOK'
<1> DEFINE p == st.saved[name]
           q == IF p.uv # NoOffset THEN SetCurveOptimizer(Mailbox, p.uv, f)
                ELSE ResetIfApplied(Mailbox, st, f)
           on == p.uv # NoOffset /\ q.ok
           r == IF on THEN MarkedOn(st, name) ELSE MarkedOff(st, name)
<1>1. TypeOK /\ st \in State /\ p \in Profile /\ Flagged(st)
  BY StateParts DEF IInv, TypeOK, FlagsSet
<1>2. Posted(q) /\ Save(r, f) /\ Drift(OfFailure(f))
  <2>1. Posted(q) /\ Drift(OfFailure(f))
    BY DEF ApplyCustom
  <2>2. Save([ClearActive(st) EXCEPT !.profile = name, !.saved[name].active = on], f)
    BY DEF ApplyCustom
  <2>3. on \in BOOLEAN
    OBVIOUS
  <2> HIDE DEF on
  <2>4. [ClearActive(st) EXCEPT !.profile = name, !.saved[name].active = on] = r
    <3>1. CASE on = TRUE
      BY <3>1 DEF MarkedOn
    <3>2. CASE on = FALSE
      BY <3>2 DEF MarkedOff
    <3> QED BY <2>3, <3>1, <3>2
  <2> QED BY <2>1, <2>2, <2>4
<1>3. p.uv # NoOffset => p.uv \in Offsets
  BY <1>1 DEF Profile
<1>4. q \in Box
  BY <1>1, <1>3, SetIs, ResetIs
<1>5. on => q.co = encodeCOValue(p.uv)
  BY <1>1, <1>3, SetIs
<1>6. f \notin {"probe", "lost", "unread"} /\ q.probe # "failed" /\ Owned(st, smu.co)
        => on \/ q.co = StockCO
  <2>1. CASE p.uv # NoOffset
    BY <1>1, <1>3, <2>1, SetIs
  <2>2. CASE p.uv = NoOffset /\ undervoltActive(st)
    BY <1>1, <2>2, ResetIs
  <2>3. CASE p.uv = NoOffset /\ ~undervoltActive(st)
    <3>1. q = Mailbox /\ Mailbox.co = smu.co
      BY <1>1, <2>3, ResetIs DEF Mailbox
    <3> QED BY <1>1, <2>3, <3>1, NothingOwned
  <2> QED BY <2>1, <2>2, <2>3
<1>7. on \in BOOLEAN /\ (on => p.uv # NoOffset)
  BY <1>4 DEF Box
<1> HIDE DEF q, on
<1>8. /\ r \in State /\ r.profile = name /\ DOMAIN r.saved = DOMAIN st.saved
      /\ (on => r.saved[name].active /\ r.saved[name].uv = p.uv)
      /\ (~on => ~r.saved[name].active)
      /\ \A n \in DOMAIN st.saved : n # name => r.saved[n].active = FALSE
  <2>1. CASE on
    <3> DEFINE z == MarkedOn(st, name)
    <3>1. z \in State /\ z.profile = name /\ DOMAIN z.saved = DOMAIN st.saved
      BY <1>1, MarkedOnIs
    <3>2. z.saved[name].active = TRUE /\ z.saved[name].uv = p.uv
      BY <1>1, MarkedOnIs
    <3>3. \A n \in DOMAIN st.saved : n # name => z.saved[n].active = FALSE
      BY <1>1, MarkedOnIs
    <3>4. r = z
      BY <2>1
    <3> HIDE DEF r, z
    <3> QED BY <2>1, <3>1, <3>2, <3>3, <3>4
  <2>2. CASE ~on
    <3>1. r = MarkedOff(st, name)
      BY <2>2
    <3> HIDE DEF r, p
    <3>2. /\ r \in State /\ r.profile = name /\ DOMAIN r.saved = DOMAIN st.saved
          /\ \A n \in DOMAIN st.saved : r.saved[n].active = FALSE
      BY <1>1, <3>1, MarkedOffIs
    <3> QED BY <2>2, <3>2
  <2> QED BY <2>1, <2>2
<1> HIDE DEF r, p
<1>9. Flagged(r)
  BY <1>7, <1>8 DEF Flagged
<1>10. st' = r /\ {st', disk'} \subseteq State /\ ActiveExists' /\ FlagsSet'
  BY <1>2, <1>8, <1>9, SaveKeeps
<1>11. smu'.co = q.co /\ smu'.probe = q.probe
  BY <1>2, <1>4, PostedTyped
<1>12. Exact(st', smu'.co)
  BY <1>5, <1>8, <1>10, <1>11 DEF Exact
<1>13. OfFailure(f) \cap Excuses = {} /\ smu'.probe # "failed" /\ Owned(st, smu.co)
         => Owned(st', smu'.co)
  BY <1>5, <1>6, <1>8, <1>10, <1>11, OfFailureIs DEF Owned
<1>14. drift' \subseteq Drifts /\ OwnedUnlessExcused' /\ LastingUnlessDrifted' /\ FlagsTellHardware'
  BY <1>2, <1>9, <1>10, <1>12, <1>13, ExactLasts, OfFailureIs, DriftStep
<1> QED BY <1>2, <1>4, <1>10, <1>14, PostedTyped DEF StateOK

\* So does a switch to a firmware profile, with the offset of the state it
\* leaves reset on the way.
LEMMA ToStockKeeps ==
  ASSUME IInv, NEW stock \in Stocks, NEW s \in State, NEW f, ToStock(stock, s, f)
  PROVE  StateOK'
<1> DEFINE q == ResetIfApplied(Mailbox, st, f)
           r == UnmarkedIn(s, stock)
<1>1. TypeOK /\ Flagged(st)
  BY DEF IInv, FlagsSet
<1>2. Posted(q)
  BY DEF ToStock
<1>3. q \in Box
  BY <1>1, ResetIs
<1>4. f \notin {"probe", "lost", "unread"} /\ q.probe # "failed" /\ Owned(st, smu.co)
        => q.co = StockCO
  <2>1. CASE undervoltActive(st)
    BY <1>1, <2>1, ResetIs
  <2>2. CASE ~undervoltActive(st)
    <3>1. q = Mailbox /\ Mailbox.co = smu.co
      BY <1>1, <2>2, ResetIs DEF Mailbox
    <3> QED BY <1>1, <2>2, <3>1, NothingOwned
  <2> QED BY <2>1, <2>2
<1> HIDE DEF q
<1>5. smu'.co = q.co /\ smu'.probe = q.probe
  BY <1>2, <1>3, PostedTyped
<1>6. CASE f = "profile" /\ UNCHANGED <<st, disk>> /\ Drift({"profile"})
  <2>1. {st', disk'} \subseteq State /\ ActiveExists' /\ FlagsSet'
    BY <1>6, UnchangedKeeps
  <2>2. smu'.probe # "failed" /\ Owned(st, smu.co) => Owned(st', smu'.co)
    BY <1>4, <1>5, <1>6 DEF Owned
  <2>3. {"profile"} \in SUBSET Drifts /\ {"profile"} # {} /\ Flagged(st')
    BY <1>1, <1>6 DEF Drifts
  <2>4. drift' \subseteq Drifts /\ OwnedUnlessExcused' /\ LastingUnlessDrifted' /\ FlagsTellHardware'
    BY <1>6, <2>2, <2>3, DriftStep
  <2> QED BY <1>2, <1>3, <2>1, <2>4, PostedTyped DEF StateOK
<1>7. CASE Save(r, f) /\ Drift(OfFailure(f))
  <2>1. r \in State /\ r.profile = stock /\ \A n \in DOMAIN r.saved : r.saved[n].active = FALSE
    BY Unmarked
  <2> HIDE DEF r
  <2>2. Flagged(r)
    BY <2>1 DEF Flagged
  <2>3. st' = r /\ {st', disk'} \subseteq State /\ ActiveExists' /\ FlagsSet'
    BY <1>7, <2>1, <2>2, SaveKeeps
  <2>4. Exact(st', smu'.co)
    BY <2>1, <2>3 DEF Exact
  <2>5. OfFailure(f) \cap Excuses = {} /\ smu'.probe # "failed" /\ Owned(st, smu.co)
          => Owned(st', smu'.co)
    BY <1>4, <1>5, OfFailureIs DEF Owned
  <2>6. drift' \subseteq Drifts /\ OwnedUnlessExcused' /\ LastingUnlessDrifted' /\ FlagsTellHardware'
    BY <1>7, <2>2, <2>3, <2>4, <2>5, ExactLasts, OfFailureIs, DriftStep
  <2> QED BY <1>2, <1>3, <2>3, <2>6, PostedTyped DEF StateOK
<1> QED BY <1>6, <1>7 DEF ToStock, UnmarkedIn

-----------------------------------------------------------------------------
(* Putting a profile back.                                                 *)

\* r is s with profile p put at name and profile a active.
IsPut(s, r, name, p, a) ==
  /\ r \in State
  /\ r.profile = a
  /\ DOMAIN r.saved = DOMAIN s.saved \cup {name}
  /\ r.saved[name] = p
  /\ \A n \in DOMAIN s.saved : n # name => r.saved[n] = s.saved[n]

\* PutProfile, with the active profile it may also change.
PutAndRun(s, name, p, a) == [PutProfile(s, name, p) EXCEPT !.profile = a]

LEMMA PutIs ==
  ASSUME NEW s \in State, NEW name \in Names, NEW p \in Profile, NEW a \in {s.profile, name}
  PROVE  /\ IsPut(s, PutAndRun(s, name, p, a), name, p, a)
         /\ a = s.profile => PutProfile(s, name, p) = PutAndRun(s, name, p, a)
<1> DEFINE S == DOMAIN s.saved \cup {name}
           f == [n \in S |-> IF n = name THEN p ELSE s.saved[n]]
<1>1. s = [profile |-> s.profile, saved |-> s.saved] /\ a \in Names \cup Stocks /\ S \subseteq Names
  BY StateParts
<1>2. f \in [S -> Profile]
  BY StateParts
<1>3. PutProfile(s, name, p) = [profile |-> s.profile, saved |-> f]
  BY <1>1 DEF PutProfile
<1>4. PutAndRun(s, name, p, a) = [profile |-> a, saved |-> f]
  BY <1>3 DEF PutAndRun
<1>5. [profile |-> a, saved |-> f] \in State
  BY <1>1, <1>2, MakeState
<1> HIDE DEF f
<1>6. DOMAIN f = S /\ f[name] = p /\ \A n \in DOMAIN s.saved : n # name => f[n] = s.saved[n]
  BY DEF f
<1> QED BY <1>3, <1>4, <1>5, <1>6 DEF IsPut

\* p has the offset and the flag of the profile it replaces.
SameOffset(s, name, p) ==
  p.uv = SavedProfile(s, name).uv /\ p.active = SavedProfile(s, name).active

LEMMA PutFlagged ==
  ASSUME NEW s, NEW r, NEW name, NEW p, NEW a, IsPut(s, r, name, p, a), Flagged(s),
         p.active => p.uv # NoOffset
  PROVE  Flagged(r)
  BY DEF IsPut, Flagged

LEMMA SameFlagged ==
  ASSUME NEW s, NEW name, NEW p, Flagged(s), SameOffset(s, name, p)
  PROVE  p.active => p.uv # NoOffset
  BY DEF Flagged, SameOffset, SavedProfile, NewProfile

\* With a firmware profile active, a flag that is up is already wrong.
LEMMA StockUnflagged ==
  ASSUME NEW s \in State, NEW co, Lasting(s, co), s.profile \in Stocks
  PROVE  \A n \in DOMAIN s.saved : ~s.saved[n].active
  BY StateParts, NamesApart DEF Lasting

LEMMA StockUnowned ==
  ASSUME NEW s \in State, NEW co, Owned(s, co), s.profile \in Stocks
  PROVE  co = StockCO
  BY StateParts, NamesApart DEF Owned

LEMMA PutAside ==
  ASSUME NEW s, NEW r, NEW name, NEW p, NEW co,
         IsPut(s, r, name, p, s.profile), name # s.profile, ~p.active
  PROVE  /\ Owned(s, co) => Owned(r, co)
         /\ Lasting(s, co) => Lasting(r, co)
         /\ Exact(s, co) => Exact(r, co)
<1>1. Owned(s, co) => Owned(r, co)
  BY DEF IsPut, Owned
<1>2. Lasting(s, co) => Lasting(r, co)
  BY DEF IsPut, Lasting
<1>3. Exact(s, co) => Exact(r, co)
  BY DEF IsPut, Exact
<1> QED BY <1>1, <1>2, <1>3

LEMMA PutSame ==
  ASSUME NEW s \in State, NEW r, NEW name, NEW p, NEW a, NEW co,
         IsPut(s, r, name, p, a), SameOffset(s, name, p),
         a = s.profile \/ (a = name /\ s.profile \in Stocks)
  PROVE  /\ Owned(s, co) => Owned(r, co)
         /\ Lasting(s, co) => Lasting(r, co)
         /\ Exact(s, co) => Exact(r, co)
<1>1. name \in DOMAIN s.saved => p.uv = s.saved[name].uv /\ p.active = s.saved[name].active
  BY DEF SameOffset, SavedProfile
<1>2. name \notin DOMAIN s.saved => p.active = FALSE
  BY DEF SameOffset, SavedProfile, NewProfile
<1>3. \A n \in DOMAIN r.saved : r.saved[n].active =>
        /\ n \in DOMAIN s.saved /\ s.saved[n].active
        /\ s.saved[n].uv = r.saved[n].uv
  BY <1>1, <1>2 DEF IsPut
<1>4. CASE a = s.profile
  <2>1. Owned(s, co) => Owned(r, co)
    <3>1. s.profile \in DOMAIN s.saved =>
            /\ s.profile \in DOMAIN r.saved
            /\ r.saved[s.profile].active = s.saved[s.profile].active
            /\ r.saved[s.profile].uv = s.saved[s.profile].uv
      BY <1>1 DEF IsPut
    <3> QED BY <1>4, <3>1 DEF Owned, IsPut
  <2>2. Lasting(s, co) => Lasting(r, co)
    BY <1>3, <1>4 DEF Lasting, IsPut
  <2>3. Exact(s, co) => Exact(r, co)
    BY <1>3, <1>4 DEF Exact, IsPut
  <2> QED BY <2>1, <2>2, <2>3
<1>5. CASE s.profile \in Stocks
  <2>1. Owned(s, co) => Owned(r, co)
    BY <1>5, StockUnowned DEF Owned
  <2>2. Exact(s, co) => Lasting(s, co)
    BY ExactLasts
  <2>3. Lasting(s, co) => Lasting(r, co) /\ Exact(r, co)
    <3>1. Lasting(s, co) => \A n \in DOMAIN s.saved : ~s.saved[n].active
      BY <1>5, StockUnflagged
    <3> QED BY <1>3, <3>1 DEF Lasting, Exact
  <2> QED BY <2>1, <2>2, <2>3
<1> QED BY <1>4, <1>5

\* Clearing the running profile's offset leaves no flag up.
LEMMA PutClear ==
  ASSUME NEW s, NEW r, NEW p, NEW co, NEW now,
         IsPut(s, r, s.profile, p, s.profile), ~p.active, Lasting(s, co)
  PROVE  Exact(r, now)
  BY DEF IsPut, Lasting, Exact

\* The offset that was set is the running profile's, and the only one flagged.
LEMMA PutSet ==
  ASSUME NEW s \in State, NEW r, NEW name, NEW p, NEW co, NEW now,
         IsPut(s, r, name, p, name), name = s.profile \/ s.profile \in Stocks,
         p.active, encodeCOValue(p.uv) = now
  PROVE  /\ Owned(r, now)
         /\ Lasting(s, co) => Exact(r, now)
<1>1. Owned(r, now)
  BY DEF IsPut, Owned
<1>2. ASSUME Lasting(s, co) PROVE Exact(r, now)
  <2>1. \A n \in DOMAIN s.saved : n # name => ~s.saved[n].active
    <3>1. CASE name = s.profile
      BY <1>2, <3>1 DEF Lasting
    <3>2. CASE s.profile \in Stocks
      BY <1>2, <3>2, StockUnflagged
    <3> QED BY <3>1, <3>2
  <2> QED BY <2>1 DEF IsPut, Exact
<1> QED BY <1>1, <1>2

\* An edit is committed to its target, which becomes the active profile when
\* it is live.
LEMMA Committed ==
  ASSUME IInv, edit # NoEdit, NEW p \in Profile, NEW q, NEW f, NEW cause, Commit(p, q, f, cause),
         p.active => p.uv # NoOffset
  PROVE  LET t == edit.target
             a == IF t.live THEN t.name ELSE st.profile
         IN  /\ IsPut(st, st', t.name, p, a)
             /\ Flagged(st')
             /\ {st', disk'} \subseteq State /\ ActiveExists' /\ FlagsSet'
<1> DEFINE t == edit.target
           a == IF t.live THEN t.name ELSE st.profile
           r == PutAndRun(st, t.name, p, a)
<1>1. st \in State /\ ActiveExists /\ Flagged(st) /\ t.name \in Names
  BY DEF IInv, TypeOK, FlagsSet, EditTyped, Target
<1>2. a \in {st.profile, t.name}
  OBVIOUS
<1>3. Save(r, f)
  <2>1. CASE t.live
    BY <2>1 DEF Commit, PutAndRun
  <2>2. CASE ~t.live
    BY <1>1, <2>2, PutIs DEF Commit
  <2> QED BY <2>1, <2>2
<1>4. t.name \in Names /\ a \in {st.profile, t.name}
  BY <1>1
<1> HIDE DEF a
<1>5. IsPut(st, r, t.name, p, a)
  BY <1>1, <1>4, PutIs
<1> HIDE DEF r
<1>6. Flagged(r)
  BY <1>1, <1>5, PutFlagged
<1>7. r.profile \in Stocks \cup DOMAIN r.saved
  <2>1. a \in Stocks \cup DOMAIN st.saved \cup {t.name}
    BY <1>1, <1>2 DEF ActiveExists
  <2> QED BY <1>5, <2>1 DEF IsPut
<1>8. st' = r /\ {st', disk'} \subseteq State /\ ActiveExists' /\ FlagsSet'
  BY <1>3, <1>5, <1>6, <1>7, SaveKeeps DEF IsPut
<1> QED BY <1>5, <1>6, <1>8 DEF a

\* The commits that leave the offset and its flag alone write no hardware.
LEMMA CommitSameKeeps ==
  ASSUME IInv, edit # NoEdit, NEW p \in Profile, NEW f, SameOffset(st, edit.target.name, p),
         Commit(p, Mailbox, f, {}), power' = power
  PROVE  StateOK'
<1> DEFINE t == edit.target
           a == IF t.live THEN t.name ELSE st.profile
<1>1. TypeOK /\ st \in State /\ Flagged(st)
  BY DEF IInv, TypeOK, FlagsSet
<1>2. p.active => p.uv # NoOffset
  BY <1>1, SameFlagged
<1>3. /\ IsPut(st, st', t.name, p, a)
      /\ Flagged(st')
      /\ {st', disk'} \subseteq State /\ ActiveExists' /\ FlagsSet'
  BY <1>2, Committed
<1>4. a = st.profile \/ (a = t.name /\ st.profile \in Stocks)
  BY DEF IInv, TargetFresh
<1>5. Posted(Mailbox) /\ Drift({})
  BY DEF Commit
<1>6. smu'.co = smu.co /\ smu'.probe = smu.probe
  BY <1>5 DEF Posted, Mailbox
<1> HIDE DEF a
<1>7. /\ Owned(st, smu.co) => Owned(st', smu.co)
      /\ Lasting(st, smu.co) => Lasting(st', smu.co)
      /\ Exact(st, smu.co) => Exact(st', smu.co)
  BY <1>1, <1>3, <1>4, PutSame
<1>8. drift' \subseteq Drifts /\ OwnedUnlessExcused' /\ LastingUnlessDrifted' /\ FlagsTellHardware'
  BY <1>3, <1>5, <1>6, <1>7, DriftStep
<1> QED BY <1>1, <1>3, <1>5, <1>8, MailboxTyped, PostedTyped DEF StateOK

\* A refused edit that wrote nothing.
LEMMA RefusedKeeps ==
  ASSUME IInv, NEW f, Refused(Mailbox, f), power' = power
  PROVE  StateOK'
<1>1. TypeOK /\ Flagged(st)
  BY DEF IInv, FlagsSet
<1>2. Posted(Mailbox) /\ UNCHANGED <<st, disk>> /\ Drift(OfFailure(f))
  BY DEF Refused
<1>3. smu'.co = smu.co
  BY <1>2 DEF Posted, Mailbox
<1>4. {st', disk'} \subseteq State /\ ActiveExists' /\ FlagsSet'
  BY <1>2, UnchangedKeeps
<1>5. drift' \subseteq Drifts /\ OwnedUnlessExcused' /\ LastingUnlessDrifted' /\ FlagsTellHardware'
  BY <1>1, <1>2, <1>3, OfFailureIs, DriftStep
<1> QED BY <1>1, <1>2, <1>4, <1>5, MailboxTyped, PostedTyped DEF StateOK

LEMMA SetUndervoltKeeps ==
  ASSUME IInv, edit # NoEdit, NEW f, edit.kind = "uv-set", SetUndervolt(f), power' = power
  PROVE  StateOK'
<1> DEFINE t == edit.target
           v == edit.value
           q == IF t.live THEN SetCurveOptimizer(Mailbox, v, f) ELSE Mailbox
           p == [edit.profile EXCEPT !.uv = v, !.active = t.live]
<1>1. TypeOK /\ st \in State /\ Flagged(st)
  BY DEF IInv, TypeOK, FlagsSet
<1>2. v \in Offsets /\ t \in Target /\ edit.profile \in Profile
  BY DEF IInv, EditTyped
<1>3. p \in Profile /\ p.uv = v /\ p.active = t.live /\ (p.active => p.uv # NoOffset)
  BY <1>2, OffsetsTyped DEF Target, Profile
<1>4. /\ q \in Box
      /\ t.live /\ q.ok => q.co = encodeCOValue(v)
      /\ ~q.ok => q.probe = "failed" \/ f \in {"lost", "unread"}
      /\ ~t.live => q = Mailbox
  BY <1>1, <1>2, SetIs, MailboxTyped DEF Mailbox
<1>5. Posted(q)
  BY DEF SetUndervolt, Commit, Refused
<1>6. CASE ~q.ok
  <2>1. UNCHANGED <<st, disk>> /\ Drift(OfFailure(f))
    BY <1>6 DEF SetUndervolt, Refused
  <2> HIDE DEF q
  <2>2. {st', disk'} \subseteq State /\ ActiveExists' /\ FlagsSet'
    BY <2>1, UnchangedKeeps
  <2>3. smu'.probe # "failed" => OfFailure(f) = {"smu"}
    BY <1>4, <1>5, <1>6, PostedTyped DEF OfFailure
  <2>4. drift' \subseteq Drifts /\ OwnedUnlessExcused' /\ LastingUnlessDrifted' /\ FlagsTellHardware'
    BY <1>1, <2>1, <2>3, OfFailureIs, DriftStep DEF Excuses
  <2> QED BY <1>4, <1>5, <2>2, <2>4, PostedTyped DEF StateOK
<1>7. CASE q.ok
  <2>1. Commit(p, q, f, {})
    BY <1>7 DEF SetUndervolt
  <2> DEFINE a == IF t.live THEN t.name ELSE st.profile
  <2> HIDE DEF q, p
  <2>2. /\ IsPut(st, st', t.name, p, a)
        /\ Flagged(st')
        /\ {st', disk'} \subseteq State /\ ActiveExists' /\ FlagsSet'
    BY <1>3, <2>1, Committed
  <2>3. Drift({})
    BY <2>1 DEF Commit
  <2>4. smu'.co = q.co
    BY <1>4, <1>5, PostedTyped
  <2>5. t.live => t.name = st.profile \/ st.profile \in Stocks
    BY DEF IInv, TargetFresh
  <2>6. ~t.live => t.name # st.profile
    BY DEF IInv, TargetFresh
  <2>7. /\ Owned(st, smu.co) => Owned(st', smu'.co)
        /\ Lasting(st, smu.co) => Lasting(st', smu'.co)
        /\ Lasting(st, smu.co) /\ Exact(st, smu.co) => Exact(st', smu'.co)
    <3>1. CASE t.live
      <4>1. p.active /\ encodeCOValue(p.uv) = smu'.co /\ a = t.name
        BY <1>3, <1>4, <1>7, <2>4, <3>1
      <4>2. Owned(st', smu'.co) /\ (Lasting(st, smu.co) => Exact(st', smu'.co))
        BY <1>1, <2>2, <2>5, <3>1, <4>1, PutSet
      <4> QED BY <4>2, ExactLasts
    <3>2. CASE ~t.live
      <4>1. smu'.co = smu.co /\ a = st.profile /\ ~p.active
        BY <1>3, <1>4, <2>4, <3>2 DEF Mailbox
      <4> QED BY <2>2, <2>6, <3>2, <4>1, PutAside
    <3> QED BY <3>1, <3>2
  <2>8. Owned(st, smu.co) /\ Lasting(st, smu.co) /\ (power = "up" => Exact(st, smu.co)) /\ power' = "up"
          => Exact(st', smu'.co)
    BY <2>7
  <2>9. drift' \subseteq Drifts /\ OwnedUnlessExcused' /\ LastingUnlessDrifted' /\ FlagsTellHardware'
    BY <2>2, <2>3, <2>7, <2>8, DriftStep
  <2> QED BY <1>4, <1>5, <2>2, <2>9, PostedTyped DEF StateOK
<1> QED BY <1>6, <1>7

\* With a firmware profile active an undervolt reset finds no flag to clear,
\* and edits nothing.
LEMMA ResetUndervoltKeeps ==
  ASSUME IInv, edit # NoEdit, NEW f, ResetUndervolt(f), power' = power
  PROVE  StateOK'
<1> DEFINE t == edit.target
           q == IF t.live THEN ResetIfApplied(Mailbox, st, f) ELSE Mailbox
           p == [edit.profile EXCEPT !.uv = NoOffset, !.active = FALSE]
<1>1. TypeOK /\ st \in State /\ Flagged(st)
  BY DEF IInv, TypeOK, FlagsSet
<1>2. edit.profile \in Profile
  BY DEF IInv, EditTyped
<1>3. p \in Profile /\ p.active = FALSE
  BY <1>2 DEF Profile
<1>4. /\ q \in Box
      /\ ~q.ok => f \in {"lost", "unread"}
      /\ ~t.live => q = Mailbox /\ q.ok
      /\ ~undervoltActive(st) => q = Mailbox
      /\ t.live /\ undervoltActive(st) => q.co = StockCO \/ q.probe = "failed" \/ f = "lost"
  <2>1. CASE t.live
    BY <1>1, <2>1, ResetIs
  <2>2. CASE ~t.live
    BY <1>1, <2>2, MailboxTyped DEF Mailbox
  <2> QED BY <2>1, <2>2
<1>5. Posted(q)
  BY DEF ResetUndervolt, Commit, Refused
<1>6. CASE ~q.ok \/ Implicit(t)
  <2>1. UNCHANGED <<st, disk>> /\ Drift(OfFailure(f))
    BY <1>6 DEF ResetUndervolt, Refused
  <2> HIDE DEF q, p
  <2>2. {st', disk'} \subseteq State /\ ActiveExists' /\ FlagsSet'
    BY <2>1, UnchangedKeeps
  <2>3. smu'.co = q.co /\ smu'.probe = q.probe
    BY <1>4, <1>5, PostedTyped
  <2>4. OfFailure(f) \cap Excuses = {} /\ smu'.probe # "failed" => q.co \in {smu.co, StockCO}
    BY <1>4, <2>3, OfFailureIs DEF Mailbox
  <2>5. OfFailure(f) \cap Excuses = {} /\ smu'.probe # "failed" /\ Owned(st, smu.co)
          => Owned(st', smu'.co)
    BY <2>1, <2>3, <2>4 DEF Owned
  <2>6. OfFailure(f) = {} /\ smu'.probe # "failed" /\ Lasting(st, smu.co)
          => Lasting(st', smu'.co)
    BY <2>1, <2>3, <2>4 DEF Lasting
  <2>7. OfFailure(f) = {} /\ Lasting(st, smu.co) => Exact(st', smu'.co)
    <3>1. OfFailure(f) = {} => f \notin {"lost", "unread"}
      BY OfFailureIs
    <3>2. OfFailure(f) = {} => st.profile \in Stocks
      BY <1>4, <1>6, <3>1 DEF IInv, TargetFresh
    <3> QED BY <1>1, <2>1, <3>2, StockUnflagged DEF Exact
  <2>8. drift' \subseteq Drifts /\ OwnedUnlessExcused' /\ LastingUnlessDrifted' /\ FlagsTellHardware'
    BY <1>1, <2>1, <2>5, <2>6, <2>7, OfFailureIs, DriftStep
  <2> QED BY <1>4, <1>5, <2>2, <2>8, PostedTyped DEF StateOK
<1>7. CASE q.ok /\ ~Implicit(t)
  <2>1. Commit(p, q, f, OfFailure(f))
    BY <1>7 DEF ResetUndervolt
  <2> DEFINE a == IF t.live THEN t.name ELSE st.profile
  <2> HIDE DEF q, p
  <2>2. /\ IsPut(st, st', t.name, p, a)
        /\ Flagged(st')
        /\ {st', disk'} \subseteq State /\ ActiveExists' /\ FlagsSet'
    BY <1>3, <2>1, Committed
  <2>3. Drift(OfFailure(f))
    BY <2>1 DEF Commit
  <2>4. smu'.co = q.co /\ smu'.probe = q.probe
    BY <1>4, <1>5, PostedTyped
  <2>5. (t.live <=> t.name = st.profile) /\ a = st.profile
    BY <1>7 DEF IInv, TargetFresh
  <2>6. OfFailure(f) \cap Excuses = {} /\ smu'.probe # "failed" /\ Owned(st, smu.co)
          => Owned(st', smu'.co)
    <3>1. CASE t.live /\ undervoltActive(st)
      BY <1>4, <2>4, <3>1, OfFailureIs DEF Owned
    <3>2. CASE ~undervoltActive(st)
      <4>1. q.co = smu.co
        BY <1>4, <3>2 DEF Mailbox
      <4> QED BY <1>1, <2>4, <3>2, <4>1, NothingOwned DEF Owned
    <3>3. CASE ~t.live
      <4>1. q.co = smu.co /\ t.name # st.profile
        BY <1>4, <2>5, <3>3 DEF Mailbox
      <4> QED BY <1>3, <2>2, <2>4, <2>5, <4>1, PutAside
    <3> QED BY <3>1, <3>2, <3>3
  <2>7. /\ Lasting(st, smu.co) => Lasting(st', smu'.co)
        /\ Lasting(st, smu.co) /\ Exact(st, smu.co) => Exact(st', smu'.co)
    <3>1. CASE t.live
      BY <1>3, <2>2, <2>5, <3>1, PutClear, ExactLasts
    <3>2. CASE ~t.live
      <4>1. q.co = smu.co /\ t.name # st.profile
        BY <1>4, <2>5, <3>2 DEF Mailbox
      <4> QED BY <1>3, <2>2, <2>4, <2>5, <4>1, PutAside
    <3> QED BY <3>1, <3>2
  <2>8. Lasting(st, smu.co) /\ (power = "up" => Exact(st, smu.co)) /\ power' = "up"
          => Exact(st', smu'.co)
    BY <2>7
  <2>9. drift' \subseteq Drifts /\ OwnedUnlessExcused' /\ LastingUnlessDrifted' /\ FlagsTellHardware'
    BY <2>2, <2>3, <2>6, <2>7, <2>8, OfFailureIs, DriftStep
  <2> QED BY <1>4, <1>5, <2>2, <2>9, PostedTyped DEF StateOK
<1> QED BY <1>6, <1>7

-----------------------------------------------------------------------------
(* The steps.                                                              *)

\* A step that leaves no edit under way.
LEMMA Idle ==
  ASSUME StateOK', edit' = NoEdit, power' \in {"up", "resuming", "wedged", "down"},
         asked' \subseteq [name : Names \cup {""}, value : Offsets],
         power' = "down" => asked' = {},
         faults' \in 0..MaxFaults, outages' \in 0..MaxOutages
  PROVE  IInv'
  BY DEF IInv, StateOK, TypeOK, EditTyped, TargetFresh, SnapshotFresh, DownIdle

\* The same for a handler or a restore: it leaves the machine running and the
\* waiting commands as they were.
LEMMA HandlerStep ==
  ASSUME IInv, StateOK', edit' = NoEdit, asked' = asked, outages' = outages,
         power' \in {"up", "resuming", "wedged"}, faults' \in 0..MaxFaults
  PROVE  IInv'
<1>1. asked \subseteq [name : Names \cup {""}, value : Offsets] /\ outages \in 0..MaxOutages
  BY DEF IInv, TypeOK
<1> QED BY <1>1, Idle

LEMMA Running ==
  ASSUME IInv, power # "down"
  PROVE  power \in {"up", "resuming", "wedged"}
  BY DEF IInv, TypeOK

LEMMA NotEmptyIsSaved ==
  ASSUME NEW s, NEW name, ~Empty(SavedProfile(s, name))
  PROVE  name \in DOMAIN s.saved
  BY DEF Empty, SavedProfile, NewProfile

\* A step that writes nothing, and only lets the machine come up.
LEMMA NothingWritten ==
  ASSUME IInv, UNCHANGED <<st, disk, smu>>, Drift({}), sent' = {},
         power # "up" /\ power' = "up" /\ Owned(st, smu.co) /\ Lasting(st, smu.co) => Exact(st, smu.co)
  PROVE  StateOK'
<1>1. TypeOK /\ Flagged(st)
  BY DEF IInv, FlagsSet
<1>2. {st', disk'} \subseteq State /\ ActiveExists' /\ FlagsSet'
  BY UnchangedKeeps
<1>3. Owned(st, smu.co) /\ Lasting(st, smu.co) /\ (power = "up" => Exact(st, smu.co)) /\ power' = "up"
        => Exact(st', smu'.co)
  OBVIOUS
<1>4. drift' \subseteq Drifts /\ OwnedUnlessExcused' /\ LastingUnlessDrifted' /\ FlagsTellHardware'
  BY <1>1, <1>3, DriftStep
<1> QED BY <1>1, <1>2, <1>4 DEF StateOK, TypeOK

LEMMA HandleProfileStep ==
  ASSUME IInv, NEW name, HandleProfile(name)
  PROVE  IInv'
<1>1. PICK f \in SomeFailure :
        /\ MayFail(f)
        /\ \/ name \in Stocks /\ ToStock(name, st, f)
           \/ /\ IsCustom(st, name) /\ ~Empty(SavedProfile(st, name))
              /\ f # "profile"
              /\ ApplyCustom(st, name, Mailbox, f)
  BY DEF HandleProfile
<1>2. edit' = NoEdit /\ asked' = asked /\ outages' = outages /\ power' = power /\ power # "down"
  BY DEF HandleProfile, hwMuFree
<1>3. st \in State /\ TypeOK
  BY DEF IInv, TypeOK
<1>4. StateOK'
  <2>1. CASE name \in Stocks /\ ToStock(name, st, f)
    BY <1>3, <2>1, ToStockKeeps
  <2>2. CASE ~Empty(SavedProfile(st, name)) /\ ApplyCustom(st, name, Mailbox, f)
    <3>1. name \in DOMAIN st.saved
      BY <2>2, NotEmptyIsSaved
    <3> QED BY <2>2, <3>1, ApplyKeeps
  <2> QED BY <1>1, <2>1, <2>2
<1>5. faults' \in 0..MaxFaults
  BY <1>1, <1>3, FaultsTyped
<1> QED BY <1>2, <1>4, <1>5, HandlerStep, Running

\* A handler that only edits the saved profiles: what it puts aside is not
\* running, or excused.
LEMMA ProfilesStep ==
  ASSUME IInv, hwMuFree, NEW s \in State, ProfilesOnly(s), NEW causes \in SUBSET Drifts, Drift(causes),
         Flagged(s), s.profile \in Stocks \cup DOMAIN s.saved,
         causes \cap Excuses = {} =>
           /\ Owned(st, smu.co) => Owned(s, smu.co)
           /\ Lasting(st, smu.co) => Lasting(s, smu.co)
           /\ Exact(st, smu.co) => Exact(s, smu.co)
  PROVE  IInv'
<1>1. PICK f \in {"none", "save"} : MayFail(f) /\ Save(s, f)
  BY DEF ProfilesOnly
<1>2. sent' = {} /\ UNCHANGED <<smu, power, asked, edit, outages>> /\ edit = NoEdit /\ power # "down"
  BY DEF ProfilesOnly, hwMuFree
<1>3. TypeOK
  BY DEF IInv
<1>4. st' = s /\ {st', disk'} \subseteq State /\ ActiveExists' /\ FlagsSet'
  BY <1>1, SaveKeeps
<1>5. /\ causes \cap Excuses = {} /\ Owned(st, smu.co) => Owned(st', smu'.co)
      /\ causes = {} /\ Lasting(st, smu.co) => Lasting(st', smu'.co)
      /\ causes = {} /\ (power = "up" => Exact(st, smu.co)) /\ power' = "up" => Exact(st', smu'.co)
  BY <1>2, <1>4
<1>6. drift' \subseteq Drifts /\ OwnedUnlessExcused' /\ LastingUnlessDrifted' /\ FlagsTellHardware'
  BY <1>4, <1>5, DriftStep
<1>7. StateOK'
  BY <1>2, <1>3, <1>4, <1>6 DEF StateOK, TypeOK
<1>8. faults' \in 0..MaxFaults
  BY <1>1, <1>3, FaultsTyped
<1> QED BY <1>2, <1>7, <1>8, HandlerStep, Running

LEMMA HandleProfileCreateStep ==
  ASSUME IInv, NEW name \in Names, HandleProfileCreate(name)
  PROVE  IInv'
<1> DEFINE r == PutAndRun(st, name, NewProfile, st.profile)
<1>1. st \in State /\ Flagged(st) /\ st.profile \in Stocks \cup DOMAIN st.saved
  BY DEF IInv, TypeOK, FlagsSet, ActiveExists
<1>2. PutProfile(st, name, NewProfile) = r /\ IsPut(st, r, name, NewProfile, st.profile)
  BY <1>1, NewProfileTyped, PutIs
<1>3. hwMuFree /\ ProfilesOnly(r) /\ Drift({}) /\ name # st.profile
  BY <1>1, <1>2, NamesApart DEF HandleProfileCreate
<1> HIDE DEF r
<1>4. r \in State /\ Flagged(r) /\ r.profile \in Stocks \cup DOMAIN r.saved
  BY <1>1, <1>2, NewProfileTyped, PutFlagged DEF IsPut
<1>5. /\ Owned(st, smu.co) => Owned(r, smu.co)
      /\ Lasting(st, smu.co) => Lasting(r, smu.co)
      /\ Exact(st, smu.co) => Exact(r, smu.co)
  BY <1>2, <1>3, NewProfileTyped, PutAside
<1> QED BY <1>3, <1>4, <1>5, ProfilesStep

LEMMA HandleProfileSaveStep ==
  ASSUME IInv, NEW name \in Names, HandleProfileSave(name)
  PROVE  IInv'
<1> DEFINE p == [SavedProfile(st, st.profile) EXCEPT !.active = FALSE]
           r == PutAndRun(st, name, p, st.profile)
           causes == IF name = st.profile THEN {"saveOver"} ELSE {}
<1>1. st \in State /\ Flagged(st) /\ st.profile \in Stocks \cup DOMAIN st.saved
  BY DEF IInv, TypeOK, FlagsSet, ActiveExists
<1>2. SavedProfile(st, st.profile) \in Profile
  BY <1>1, StateParts, NewProfileTyped DEF SavedProfile
<1>3. p \in Profile /\ p.active = FALSE
  BY <1>2 DEF Profile
<1>4. hwMuFree /\ ProfilesOnly(PutProfile(st, name, p)) /\ Drift(causes)
  BY DEF HandleProfileSave
<1> HIDE DEF p
<1>5. PutProfile(st, name, p) = r /\ IsPut(st, r, name, p, st.profile)
  BY <1>1, <1>3, PutIs
<1> HIDE DEF r
<1>6. r \in State /\ Flagged(r) /\ r.profile \in Stocks \cup DOMAIN r.saved
  BY <1>1, <1>3, <1>5, PutFlagged DEF IsPut
<1>7. causes \in SUBSET Drifts /\ (causes \cap Excuses = {} => name # st.profile)
  BY DEF Drifts, Excuses
<1> HIDE DEF causes
<1>8. causes \cap Excuses = {} =>
        /\ Owned(st, smu.co) => Owned(r, smu.co)
        /\ Lasting(st, smu.co) => Lasting(r, smu.co)
        /\ Exact(st, smu.co) => Exact(r, smu.co)
  BY <1>3, <1>5, <1>7, PutAside
<1> QED BY <1>4, <1>5, <1>6, <1>7, <1>8, ProfilesStep

LEMMA HandleProfileDeleteStep ==
  ASSUME IInv, NEW name \in Names, HandleProfileDelete(name)
  PROVE  IInv'
<1> DEFINE r == [st EXCEPT !.saved = [n \in DOMAIN @ \ {name} |-> @[n]]]
<1>1. st \in State /\ Flagged(st) /\ st.profile \in Stocks \cup DOMAIN st.saved
  BY DEF IInv, TypeOK, FlagsSet, ActiveExists
<1>2. /\ r \in State /\ r.profile = st.profile /\ DOMAIN r.saved = DOMAIN st.saved \ {name}
      /\ \A n \in DOMAIN r.saved : r.saved[n] = st.saved[n]
  BY <1>1, Deleted
<1>3. hwMuFree /\ ProfilesOnly(r) /\ Drift({}) /\ name # st.profile
  BY DEF HandleProfileDelete, MayDelete
<1> HIDE DEF r
<1>4. Flagged(r) /\ r.profile \in Stocks \cup DOMAIN r.saved
  BY <1>1, <1>2, <1>3 DEF Flagged
<1>5. /\ Owned(st, smu.co) => Owned(r, smu.co)
      /\ Lasting(st, smu.co) => Lasting(r, smu.co)
      /\ Exact(st, smu.co) => Exact(r, smu.co)
  BY <1>2, <1>3 DEF Owned, Lasting, Exact
<1> QED BY <1>2, <1>3, <1>4, <1>5, ProfilesStep

\* The probe resets an offset of the CPU, and tells no flag.
LEMMA ProbeUndervoltStep ==
  ASSUME IInv, NEW name \in Names \cup {""}, NEW value \in Requests, ProbeUndervolt(name, value)
  PROVE  IInv'
<1>1. PICK f \in {"none", "probe"} :
        /\ MayFail(f)
        /\ Posted(Probed(Mailbox, f))
        /\ asked' = IF Probed(Mailbox, f).probe = "ok" /\ value \in Offsets
                    THEN {[name |-> name, value |-> value]} ELSE {}
        /\ UNCHANGED st
        /\ Drift(sent')
  BY DEF ProbeUndervolt
<1>2. UNCHANGED <<disk, power, edit, outages>> /\ power # "down"
  BY DEF ProbeUndervolt
<1> DEFINE q == Probed(Mailbox, f)
<1>3. TypeOK /\ Mailbox \in Box /\ Mailbox.co = smu.co /\ Mailbox.probe = smu.probe /\ Mailbox.sent = {}
  BY MailboxTyped DEF IInv, Mailbox
<1>4. /\ q \in Box /\ q.co \in {smu.co, StockCO}
      /\ q.sent \subseteq {"probe"}
      /\ q.sent = {} => q = Mailbox
  <2>1. /\ q \in Box /\ q.co \in {Mailbox.co, StockCO} /\ q.sent \subseteq Mailbox.sent \cup {"probe"}
        /\ Mailbox.probe # "none" => q = Mailbox
        /\ Mailbox.probe = "none" => q.sent = Mailbox.sent \cup {"probe"}
    BY <1>3, ProbedIs
  <2> HIDE DEF q
  <2> QED BY <1>3, <2>1
<1>5. Posted(q)
  BY <1>1
<1> HIDE DEF q
<1>6. smu'.co = q.co /\ sent' = q.sent /\ sent' \in SUBSET Drifts
  BY <1>4, <1>5, PostedTyped DEF Drifts
<1>7. {st', disk'} \subseteq State /\ ActiveExists' /\ FlagsSet'
  BY <1>1, <1>2, UnchangedKeeps
<1>8. /\ Owned(st, smu.co) => Owned(st', smu'.co)
      /\ Lasting(st, smu.co) => Lasting(st', smu'.co)
      /\ sent' = {} => smu'.co = smu.co
  BY <1>1, <1>3, <1>4, <1>6 DEF Owned, Lasting
<1>9. sent' = {} /\ (power = "up" => Exact(st, smu.co)) /\ power' = "up" => Exact(st', smu'.co)
  BY <1>1, <1>2, <1>8
<1>10. drift' \subseteq Drifts /\ OwnedUnlessExcused' /\ LastingUnlessDrifted' /\ FlagsTellHardware'
  <2>1. Flagged(st') /\ Drift(sent')
    BY <1>1, <1>7 DEF FlagsSet
  <2> QED BY <1>6, <1>8, <1>9, <2>1, DriftStep
<1>11. StateOK'
  BY <1>4, <1>5, <1>7, <1>10, PostedTyped DEF StateOK
<1>12. faults' \in 0..MaxFaults /\ asked' \subseteq [name : Names \cup {""}, value : Offsets]
  <2>1. faults' \in 0..MaxFaults
    BY <1>1, <1>3, FaultsTyped
  <2>2. asked' = {} \/ (value \in Offsets /\ asked' = {[name |-> name, value |-> value]})
    BY <1>1
  <2> DEFINE Waiting == [name : Names \cup {""}, value : Offsets]
  <2>3. value \in Offsets => [name |-> name, value |-> value] \in Waiting
    OBVIOUS
  <2> HIDE DEF Waiting
  <2>4. asked' \subseteq Waiting
    BY <2>2, <2>3
  <2> QED BY <2>1, <2>4 DEF Waiting
<1>13. TypeOK'
  BY <1>2, <1>3, <1>11, <1>12 DEF StateOK, TypeOK
<1>14. EditTyped' /\ TargetFresh' /\ SnapshotFresh' /\ DownIdle'
  BY <1>1, <1>2 DEF IInv, EditTyped, TargetFresh, SnapshotFresh, DownIdle
<1> QED BY <1>11, <1>13, <1>14 DEF IInv, StateOK

\* What an edit is given is the profile as it is, and whether it is running.
LEMMA ResolveStep ==
  ASSUME IInv, NEW kind \in Kinds, NEW name \in Names \cup {""}, NEW value \in Offsets \cup {NoOffset},
         kind = "uv-set" => value \in Offsets, Resolve(kind, name, value),
         asked' \subseteq asked
  PROVE  IInv'
<1> DEFINE t == Resolved(name)
<1>1. /\ hwMuFree /\ Resolvable(name)
      /\ edit' = [kind |-> kind, value |-> value, target |-> t, profile |-> SavedProfile(st, t.name)]
      /\ sent' = {} /\ UNCHANGED <<st, disk, smu, power, drift, faults, outages>>
  BY DEF Resolve
<1>2. TypeOK /\ st \in State /\ st.profile \in Stocks \cup DOMAIN st.saved /\ DOMAIN st.saved \subseteq Names
  BY StateParts DEF IInv, TypeOK, ActiveExists
<1>3. /\ t \in Target
      /\ t.live <=> (t.name = st.profile \/ (t.live /\ ~t.wasActive))
      /\ t.live /\ ~t.wasActive => st.profile \in Stocks
      /\ t.wasActive => t.name = st.profile
  <2>1. CASE name = "" /\ IsCustom(st, st.profile)
    <3>1. st.profile \in Names
      BY <1>2, <2>1, NamesApart DEF IsCustom
    <3> QED BY <2>1, <3>1 DEF Resolved, Target
  <2>2. CASE name = "" /\ ~IsCustom(st, st.profile)
    BY <1>2, <2>2, NamesApart DEF Resolved, Target, IsCustom
  <2>3. CASE name # ""
    BY <2>3 DEF Resolved, Target
  <2> QED BY <2>1, <2>2, <2>3
<1>4. SavedProfile(st, t.name) \in Profile
  BY <1>2, <1>3, SavedTyped DEF Target
<1> HIDE DEF t
<1>5. /\ edit'.target = t /\ edit'.profile = SavedProfile(st, t.name)
      /\ edit' \in [kind : Kinds, value : Offsets \cup {NoOffset}, target : Target, profile : Profile]
      /\ edit'.kind = "uv-set" => edit'.value \in Offsets
  BY <1>1, <1>3, <1>4
<1>6. EditTyped'
  BY <1>5 DEF EditTyped
<1>7. TargetFresh' /\ SnapshotFresh'
  BY <1>1, <1>3, <1>5 DEF TargetFresh, SnapshotFresh, Implicit
<1>8. DownIdle' /\ TypeOK'
  BY <1>1, <1>2 DEF hwMuFree, DownIdle, TypeOK
<1>9. ActiveExists' /\ FlagsSet' /\ OwnedUnlessExcused' /\ LastingUnlessDrifted' /\ FlagsTellHardware'
  BY <1>1 DEF IInv, ActiveExists, FlagsSet, OwnedUnlessExcused, LastingUnlessDrifted, FlagsTellHardware
<1> QED BY <1>6, <1>7, <1>8, <1>9 DEF IInv

LEMMA ResolveUndervoltStep ==
  ASSUME IInv, ResolveUndervolt
  PROVE  IInv'
<1>1. PICK a \in asked :
        /\ Resolve("uv-set", a.name, a.value) \/ RefuseUndervolt(a)
        /\ asked' = asked \ {a}
  BY DEF ResolveUndervolt
<1>2. a.name \in Names \cup {""} /\ a.value \in Offsets
  BY DEF IInv, TypeOK
<1>3. CASE Resolve("uv-set", a.name, a.value)
  BY <1>1, <1>2, <1>3, ResolveStep DEF Kinds
<1>4. CASE RefuseUndervolt(a)
  <2>1. /\ UNCHANGED <<st, disk, smu, power, edit, drift, faults, outages>>
        /\ sent' = {} /\ asked' \subseteq asked /\ power # "down"
    BY <1>1, <1>4 DEF RefuseUndervolt, hwMuFree
  <2>2. TypeOK' /\ EditTyped' /\ TargetFresh' /\ SnapshotFresh' /\ DownIdle'
    BY <2>1 DEF IInv, TypeOK, EditTyped, TargetFresh, SnapshotFresh, Implicit, DownIdle, SavedProfile
  <2>3. ActiveExists' /\ FlagsSet' /\ OwnedUnlessExcused' /\ LastingUnlessDrifted' /\ FlagsTellHardware'
    BY <2>1 DEF IInv, ActiveExists, FlagsSet, OwnedUnlessExcused, LastingUnlessDrifted, FlagsTellHardware
  <2> QED BY <2>2, <2>3 DEF IInv
<1> QED BY <1>1, <1>3, <1>4

LEMMA ResolveOtherStep ==
  ASSUME IInv, NEW name \in Names \cup {""},
         NEW kind \in {"uv-reset", "set", "fancurve-reset", "tdp-reset"}, ResolveOther(kind, name)
  PROVE  IInv'
  BY ResolveStep DEF ResolveOther, Kinds

LEMMA EditTarget ==
  ASSUME IInv, edit # NoEdit
  PROVE  /\ edit.target.name \in Names /\ edit.profile \in Profile /\ st \in State
         /\ edit.profile = SavedProfile(st, edit.target.name)
  BY DEF IInv, TypeOK, EditTyped, Target, SnapshotFresh

\* Another setting of the profile is edited, its offset and flag kept.
LEMMA OtherEdit ==
  ASSUME IInv, edit # NoEdit, NEW left \in BOOLEAN
  PROVE  /\ [edit.profile EXCEPT !.rest = left] \in Profile
         /\ SameOffset(st, edit.target.name, [edit.profile EXCEPT !.rest = left])
  BY EditTarget DEF Profile, SameOffset

LEMMA ResetTDPKeeps ==
  ASSUME IInv, edit # NoEdit, NEW f, ResetTDP(f), power' = power
  PROVE  StateOK'
<1> DEFINE p == [edit.profile EXCEPT !.rest = FALSE]
           s == IF Implicit(edit.target) THEN st ELSE PutProfile(st, edit.target.name, p)
<1>1. CASE edit.target.live
  <2>1. p \in Profile /\ edit.target.name \in Names /\ st \in State
    BY EditTarget, OtherEdit
  <2>2. ToStock(Balanced, s, f)
    BY <1>1 DEF ResetTDP
  <2> HIDE DEF p
  <2>3. PutProfile(st, edit.target.name, p) \in State
    <3>1. IsPut(st, PutProfile(st, edit.target.name, p), edit.target.name, p, st.profile)
      BY <2>1, PutIs
    <3> QED BY <3>1 DEF IsPut
  <2>4. s \in State
    BY <2>1, <2>3
  <2> QED BY <2>2, <2>4, ToStockKeeps, NamesApart
<1>2. CASE ~edit.target.live
  <2>1. PICK left \in {edit.profile.rest, FALSE} :
          Commit([edit.profile EXCEPT !.rest = left], Mailbox, f, {})
    BY <1>2 DEF ResetTDP
  <2>2. left \in BOOLEAN
    BY EditTarget DEF Profile
  <2> QED BY <2>1, <2>2, OtherEdit, CommitSameKeeps
<1> QED BY <1>1, <1>2

LEMMA ResetFanCurveKeeps ==
  ASSUME IInv, edit # NoEdit, NEW f, ResetFanCurve(f), power' = power
  PROVE  StateOK'
<1>1. CASE Implicit(edit.target)
  BY <1>1, RefusedKeeps DEF ResetFanCurve
<1>2. CASE ~Implicit(edit.target)
  <2>1. PICK left \in {edit.profile.rest, FALSE} :
          Commit([edit.profile EXCEPT !.rest = left], Mailbox, f, {})
    BY <1>2 DEF ResetFanCurve
  <2>2. left \in BOOLEAN
    BY EditTarget DEF Profile
  <2> QED BY <2>1, <2>2, OtherEdit, CommitSameKeeps
<1> QED BY <1>1, <1>2

LEMMA SetOtherKeeps ==
  ASSUME IInv, edit # NoEdit, NEW f, SetOther(f), power' = power
  PROVE  StateOK'
  BY OtherEdit, CommitSameKeeps DEF SetOther

LEMMA FinishEditStep ==
  ASSUME IInv, FinishEdit
  PROVE  IInv'
<1>1. PICK f \in SomeFailure :
        /\ MayFail(f)
        /\ \/ edit.kind = "uv-set" /\ SetUndervolt(f)
           \/ edit.kind = "uv-reset" /\ ResetUndervolt(f)
           \/ edit.kind = "set" /\ SetOther(f)
           \/ edit.kind = "fancurve-reset" /\ ResetFanCurve(f)
           \/ edit.kind \in {"set", "fancurve-reset"} /\ f = "none" /\ Refused(Mailbox, f)
           \/ edit.kind = "tdp-reset" /\ ResetTDP(f)
  BY DEF FinishEdit
<1>2. edit # NoEdit /\ edit' = NoEdit /\ UNCHANGED <<power, asked, outages>>
  BY DEF FinishEdit
<1>3. StateOK'
  <2>1. CASE edit.kind = "uv-set" /\ SetUndervolt(f)
    BY <1>2, <2>1, SetUndervoltKeeps
  <2>2. CASE ResetUndervolt(f)
    BY <1>2, <2>2, ResetUndervoltKeeps
  <2>3. CASE SetOther(f)
    BY <1>2, <2>3, SetOtherKeeps
  <2>4. CASE ResetFanCurve(f)
    BY <1>2, <2>4, ResetFanCurveKeeps
  <2>5. CASE Refused(Mailbox, f)
    BY <1>2, <2>5, RefusedKeeps
  <2>6. CASE ResetTDP(f)
    BY <1>2, <2>6, ResetTDPKeeps
  <2> QED BY <1>1, <2>1, <2>2, <2>3, <2>4, <2>5, <2>6
<1>4. faults' \in 0..MaxFaults /\ power # "down"
  BY <1>1, <1>2, FaultsTyped DEF IInv, DownIdle
<1> QED BY <1>2, <1>3, <1>4, HandlerStep, Running

LEMMA SuspendStep ==
  ASSUME IInv, Suspend
  PROVE  IInv'
<1>1. PICK co \in {smu.co, StockCO} : smu' = [smu EXCEPT !.co = co]
  BY DEF Suspend
<1>2. /\ outages < MaxOutages /\ outages' = outages + 1 /\ power = "up" /\ power' = "resuming" /\ sent' = {}
      /\ UNCHANGED <<st, disk, asked, edit, drift, faults>>
  BY DEF Suspend
<1>3. /\ smu' \in [probe : {"none", "ok", "failed"}, co : {encodeCOValue(v) : v \in Offsets \cup {0}}]
      /\ smu'.co = co
  BY <1>1, CodesTyped DEF IInv, TypeOK, Codes
<1>4. outages' \in 0..MaxOutages
  <2>1. outages \in 0..MaxOutages
    BY DEF IInv, TypeOK
  <2> QED BY <1>2, <2>1, Counting
<1>5. TypeOK'
  BY <1>2, <1>3, <1>4 DEF IInv, TypeOK
<1>6. Owned(st, smu.co) => Owned(st', smu'.co)
  BY <1>2, <1>3 DEF Owned
<1>7. Lasting(st, smu.co) => Lasting(st', smu'.co)
  BY <1>2, <1>3 DEF Lasting
<1>8. OwnedUnlessExcused' /\ LastingUnlessDrifted' /\ FlagsTellHardware'
  BY <1>2, <1>6, <1>7 DEF IInv, OwnedUnlessExcused, LastingUnlessDrifted, FlagsTellHardware
<1>9. EditTyped' /\ TargetFresh' /\ SnapshotFresh' /\ DownIdle' /\ ActiveExists' /\ FlagsSet'
  BY <1>2 DEF IInv, EditTyped, TargetFresh, SnapshotFresh, DownIdle, ActiveExists, FlagsSet
<1> QED BY <1>5, <1>8, <1>9 DEF IInv

\* Nothing is restored when nothing is saved for the active profile, and then
\* no flag is up.
LEMMA NothingToRestore ==
  ASSUME IInv, Lasting(st, smu.co),
         Empty(SavedProfile(st, st.profile)) \/ ~IsCustom(st, st.profile)
  PROVE  Exact(st, smu.co)
  BY DEF IInv, FlagsSet, Flagged, Lasting, Exact, Empty, SavedProfile, IsCustom

LEMMA RestoreProfileStep ==
  ASSUME IInv, power \in {"resuming", "wedged"}, hwMuFree, RestoreProfile
  PROVE  IInv'
<1>1. power' = "up" /\ UNCHANGED <<asked, edit, outages>> /\ edit = NoEdit
  BY DEF RestoreProfile, hwMuFree
<1>2. CASE ActiveToRestore
  <2>1. PICK f \in SomeFailure \ {"profile"} :
          MayFail(f) /\ ApplyCustom(st, st.profile, Mailbox, f)
    BY <1>2 DEF RestoreProfile
  <2>2. st.profile \in DOMAIN st.saved
    BY <1>2, NotEmptyIsSaved DEF ActiveToRestore
  <2>3. StateOK'
    BY <2>1, <2>2, ApplyKeeps
  <2>4. faults' \in 0..MaxFaults
    BY <2>1, FaultsTyped DEF IInv
  <2> QED BY <1>1, <2>3, <2>4, HandlerStep
<1>3. CASE ~ActiveToRestore
  <2>1. sent' = {} /\ UNCHANGED <<st, smu, disk, faults>> /\ Drift({})
    BY <1>3 DEF RestoreProfile
  <2>2. Lasting(st, smu.co) => Exact(st, smu.co)
    BY <1>3, NothingToRestore DEF ActiveToRestore
  <2>3. StateOK'
    BY <2>1, <2>2, NothingWritten
  <2>4. faults' \in 0..MaxFaults
    BY <2>1 DEF IInv, TypeOK
  <2> QED BY <1>1, <2>3, <2>4, HandlerStep
<1> QED BY <1>2, <1>3

LEMMA ResumeWedgedStep ==
  ASSUME IInv, ResumeWedged
  PROVE  IInv'
  BY DEF ResumeWedged, IInv, TypeOK, EditTyped, TargetFresh, SnapshotFresh, DownIdle, ActiveExists,
         FlagsSet, OwnedUnlessExcused, LastingUnlessDrifted, FlagsTellHardware

LEMMA StartWedgedStep ==
  ASSUME IInv, StartWedged
  PROVE  IInv'
  BY DEF StartWedged, IInv, TypeOK, EditTyped, TargetFresh, SnapshotFresh, DownIdle, ActiveExists,
         FlagsSet, OwnedUnlessExcused, LastingUnlessDrifted, FlagsTellHardware

\* The watcher sends the saved offset, but an offset of 0, which a sleep
\* loses and keeps alike.
LEMMA StaleResumeStep ==
  ASSUME IInv, StaleResume
  PROVE  IInv'
<1> DEFINE uv == SavedProfile(st, st.profile).uv
<1>1. power = "resuming" /\ power' = "up" /\ UNCHANGED <<disk, asked, edit, outages>> /\ edit = NoEdit
  BY DEF StaleResume, hwMuFree
<1>2. TypeOK /\ st \in State /\ Flagged(st)
  BY DEF IInv, TypeOK, FlagsSet
<1>3. CASE IsCustom(st, st.profile) /\ uv \notin {NoOffset, 0}
  <2>1. PICK f \in SMUFailures :
          /\ MayFail(f)
          /\ Posted(SetCurveOptimizer(Mailbox, st.saved[st.profile].uv, f))
          /\ UNCHANGED st
          /\ Drift(OfFailure(f) \cup {"reapply"})
    BY <1>3 DEF StaleResume
  <2>2. st.profile \in DOMAIN st.saved
    BY <1>3 DEF SavedProfile, NewProfile
  <2>3. st.saved[st.profile].uv \in Offsets
    BY <1>2, <1>3, <2>2, StateParts DEF SavedProfile, Profile
  <2>4. SetCurveOptimizer(Mailbox, st.saved[st.profile].uv, f) \in Box
    BY <1>2, <2>3, SetIs
  <2>5. {st', disk'} \subseteq State /\ ActiveExists' /\ FlagsSet' /\ Flagged(st')
    BY <1>1, <1>2, <2>1, UnchangedKeeps
  <2> DEFINE causes == OfFailure(f) \cup {"reapply"}
  <2>6. causes \in SUBSET Drifts /\ causes \cap Excuses # {} /\ causes # {}
    BY OfFailureIs DEF Drifts, Excuses
  <2>7. Drift(causes)
    BY <2>1
  <2> HIDE DEF causes
  <2>8. drift' \subseteq Drifts /\ OwnedUnlessExcused' /\ LastingUnlessDrifted' /\ FlagsTellHardware'
    BY <2>5, <2>6, <2>7, DriftStep
  <2>9. StateOK'
    BY <2>1, <2>4, <2>5, <2>8, PostedTyped DEF StateOK
  <2>10. faults' \in 0..MaxFaults
    BY <1>2, <2>1, FaultsTyped
  <2> QED BY <1>1, <2>9, <2>10, HandlerStep
<1>4. CASE ~IsCustom(st, st.profile) \/ uv \in {NoOffset, 0}
  <2>1. sent' = {} /\ UNCHANGED <<st, smu, faults>> /\ Drift({})
    BY <1>4 DEF StaleResume
  <2>2. Lasting(st, smu.co) => Exact(st, smu.co)
    BY <1>2, <1>4 DEF Flagged, Lasting, Exact, SavedProfile, IsCustom, StockCO
  <2>3. StateOK'
    BY <1>1, <2>1, <2>2, NothingWritten
  <2>4. faults' \in 0..MaxFaults
    BY <1>2, <2>1 DEF TypeOK
  <2> QED BY <1>1, <2>3, <2>4, HandlerStep
<1> QED BY <1>3, <1>4

\* A restart knows of the state only what was saved.
LEMMA CrashStep ==
  ASSUME IInv, NEW reboot \in BOOLEAN, Crash(reboot)
  PROVE  IInv'
<1> DEFINE causes == IF st # disk THEN {"unsaved"} ELSE {}
<1>1. /\ power' = "down" /\ st' = disk /\ disk' = disk /\ asked' = {} /\ edit' = NoEdit /\ sent' = {}
      /\ outages < MaxOutages /\ outages' = outages + 1 /\ faults' = faults
      /\ Drift(causes)
  BY DEF Crash
<1>2. smu' = [probe |-> "none", co |-> IF reboot THEN StockCO ELSE smu.co]
  BY DEF Crash
<1>3. TypeOK
  BY DEF IInv
<1>4. /\ smu' \in [probe : {"none", "ok", "failed"}, co : {encodeCOValue(v) : v \in Offsets \cup {0}}]
      /\ smu'.co \in {smu.co, StockCO}
  BY <1>2, <1>3, CodesTyped DEF TypeOK, Codes
<1>5. {st', disk'} \subseteq State /\ ActiveExists' /\ FlagsSet' /\ Flagged(st')
  BY <1>1, <1>3 DEF IInv, TypeOK, ActiveExists, FlagsSet
<1>6. causes \in SUBSET Drifts /\ (causes \cap Excuses = {} => st' = st)
  BY <1>1 DEF Drifts, Excuses
<1> HIDE DEF causes
<1>7. /\ causes \cap Excuses = {} /\ Owned(st, smu.co) => Owned(st', smu'.co)
      /\ causes \cap Excuses = {} /\ Lasting(st, smu.co) => Lasting(st', smu'.co)
  BY <1>4, <1>6 DEF Owned, Lasting
<1>8. drift' \subseteq Drifts /\ OwnedUnlessExcused' /\ LastingUnlessDrifted' /\ FlagsTellHardware'
  BY <1>1, <1>5, <1>6, <1>7, DriftStep
<1>9. StateOK'
  BY <1>1, <1>4, <1>5, <1>8 DEF StateOK
<1>10. outages' \in 0..MaxOutages /\ faults' \in 0..MaxFaults
  <2>1. outages \in 0..MaxOutages /\ faults \in 0..MaxFaults
    BY <1>3 DEF TypeOK
  <2> QED BY <1>1, <2>1, Counting
<1> QED BY <1>1, <1>9, <1>10, Idle

\* Leaving a custom profile at startup resets its offset; a flag it leaves up
\* is told by drift.
LEMMA StartOnStock ==
  ASSUME IInv, power' = "up", NEW target \in Stocks, NEW f,
         Posted(IF st.profile # target /\ IsCustom(st, st.profile)
                THEN ResetIfApplied(Mailbox, st, f) ELSE Mailbox),
         Save([st EXCEPT !.profile = target], f),
         Drift(OfFailure(f) \cup IF undervoltActive(st) THEN {"startup"} ELSE {})
  PROVE  StateOK'
<1> DEFINE q == IF st.profile # target /\ IsCustom(st, st.profile)
                THEN ResetIfApplied(Mailbox, st, f) ELSE Mailbox
           r == [st EXCEPT !.profile = target]
           causes == OfFailure(f) \cup IF undervoltActive(st) THEN {"startup"} ELSE {}
<1>1. TypeOK /\ st \in State /\ Flagged(st)
  BY DEF IInv, TypeOK, FlagsSet
<1>2. Posted(q) /\ Save(r, f) /\ Drift(causes)
  OBVIOUS
<1>3. r = [profile |-> target, saved |-> st.saved] /\ r \in State
  <2>1. r = [profile |-> target, saved |-> st.saved]
    BY <1>1, StateParts
  <2>2. DOMAIN st.saved \subseteq Names /\ st.saved \in [DOMAIN st.saved -> Profile]
    BY <1>1, StateParts
  <2>3. [profile |-> target, saved |-> st.saved] \in State
    BY <2>2, MakeState
  <2> QED BY <2>1, <2>3
<1> HIDE DEF r
<1>4. Flagged(r) /\ r.profile = target
  BY <1>1, <1>3 DEF Flagged
<1>5. st' = r /\ {st', disk'} \subseteq State /\ ActiveExists' /\ FlagsSet'
  BY <1>2, <1>3, <1>4, SaveKeeps
<1>6. q \in Box
  BY <1>1, MailboxTyped, ResetIs
<1>7. Owned(st, smu.co) /\ f \notin {"probe", "lost", "unread"} /\ q.probe # "failed"
        => q.co = StockCO
  <2>1. CASE st.profile # target /\ IsCustom(st, st.profile) /\ undervoltActive(st)
    BY <1>1, <2>1, ResetIs
  <2>2. CASE ~undervoltActive(st)
    <3>1. q = Mailbox /\ Mailbox.co = smu.co
      BY <1>1, <2>2, ResetIs DEF Mailbox
    <3> QED BY <1>1, <2>2, <3>1, NothingOwned
  <2>3. CASE st.profile = target \/ ~IsCustom(st, st.profile)
    <3>1. q = Mailbox /\ Mailbox.co = smu.co
      BY <2>3 DEF Mailbox
    <3> QED BY <1>1, <2>3, <3>1, StockUnowned DEF Owned, IsCustom
  <2> QED BY <2>1, <2>2, <2>3
<1> HIDE DEF q
<1>8. smu'.co = q.co /\ smu'.probe = q.probe
  BY <1>2, <1>6, PostedTyped
<1>9. /\ causes \in SUBSET Drifts
      /\ causes \cap Excuses = {} => f \notin {"probe", "lost", "unread"}
      /\ causes = {} => ~undervoltActive(st)
  BY OfFailureIs DEF Drifts
<1> HIDE DEF causes
<1>10. causes \cap Excuses = {} /\ smu'.probe # "failed" /\ Owned(st, smu.co)
         => Owned(st', smu'.co)
  BY <1>7, <1>8, <1>9 DEF Owned
<1>11. causes = {} => Exact(st', smu'.co)
  BY <1>1, <1>3, <1>5, <1>9 DEF Exact, Flagged, undervoltActive
<1>12. drift' \subseteq Drifts /\ OwnedUnlessExcused' /\ LastingUnlessDrifted' /\ FlagsTellHardware'
  BY <1>2, <1>4, <1>5, <1>9, <1>10, <1>11, ExactLasts, DriftStep
<1> QED BY <1>2, <1>5, <1>6, <1>12, PostedTyped DEF StateOK

LEMMA StartStep ==
  ASSUME IInv, NEW target \in Names \cup Stocks, Start(target)
  PROVE  IInv'
<1>1. power = "down" /\ power' = "up" /\ UNCHANGED <<asked, edit, outages>> /\ edit = NoEdit
  BY DEF Start, IInv, DownIdle
<1>2. PICK f \in SomeFailure \ {"profile"} :
       /\ MayFail(f)
       /\ IF target \in Names
          THEN IF IsCustom(st, target) /\ ~Empty(SavedProfile(st, target))
               THEN ApplyCustom(st, target, Mailbox, f)
               ELSE /\ Posted(Mailbox)
                    /\ UNCHANGED <<st, disk>>
                    /\ Drift({})
          ELSE /\ Posted(IF st.profile # target /\ IsCustom(st, st.profile)
                         THEN ResetIfApplied(Mailbox, st, f) ELSE Mailbox)
               /\ Save([st EXCEPT !.profile = target], f)
               /\ Drift(OfFailure(f) \cup IF undervoltActive(st) THEN {"startup"} ELSE {})
  BY DEF Start
<1>3. TypeOK
  BY DEF IInv
<1>4. StateOK'
  <2>1. CASE target \in Names /\ IsCustom(st, target) /\ ~Empty(SavedProfile(st, target))
    <3>1. target \in DOMAIN st.saved
      BY <2>1, NotEmptyIsSaved
    <3>2. ApplyCustom(st, target, Mailbox, f)
      BY <1>2, <2>1
    <3> QED BY <3>1, <3>2, ApplyKeeps
  <2>2. CASE target \in Names /\ ~(IsCustom(st, target) /\ ~Empty(SavedProfile(st, target)))
    <3>1. Posted(Mailbox) /\ UNCHANGED <<st, disk>> /\ Drift({})
      BY <1>2, <2>2
    <3>2. sent' = {} /\ smu' = smu
      BY <1>3, <3>1 DEF Posted, Mailbox, TypeOK
    <3>3. target = st.profile
      BY <2>2, NamesApart DEF Start, Switchable
    <3>4. Lasting(st, smu.co) => Exact(st, smu.co)
      BY <2>2, <3>3, NothingToRestore
    <3> QED BY <3>1, <3>2, <3>4, NothingWritten
  <2>3. CASE target \notin Names
    <3>1. target \in Stocks
      BY <2>3
    <3> QED BY <1>1, <1>2, <2>3, <3>1, StartOnStock
  <2> QED BY <2>1, <2>2, <2>3
<1>5. faults' \in 0..MaxFaults
  BY <1>2, <1>3, FaultsTyped
<1> QED BY <1>1, <1>4, <1>5, HandlerStep

-----------------------------------------------------------------------------
(* The theorems.                                                           *)

LEMMA Start0 == Init => IInv
<1> SUFFICES ASSUME Init PROVE IInv
  OBVIOUS
<1>1. st = [profile |-> Balanced, saved |-> [n \in {} |-> NewProfile]] /\ disk = st
      /\ smu = [probe |-> "none", co |-> StockCO] /\ sent = {} /\ power = "up"
      /\ asked = {} /\ edit = NoEdit /\ drift = {} /\ faults = 0 /\ outages = 0
  BY DEF Init
<1>2. [n \in {} |-> NewProfile] \in [{} -> Profile] /\ Balanced \in Stocks
  BY NamesApart
<1> DEFINE none == [n \in {} |-> NewProfile]
<1>3. DOMAIN none = {}
  OBVIOUS
<1> HIDE DEF none
<1>4. st \in State /\ st.profile = Balanced /\ DOMAIN st.saved = {}
  <2>1. none \in [{} -> Profile] /\ st = [profile |-> Balanced, saved |-> none]
    BY <1>1, <1>2 DEF none
  <2> QED BY <1>2, <1>3, <2>1, MakeState
<1>5. TypeOK
  <2>1. smu \in [probe : {"none", "ok", "failed"}, co : {encodeCOValue(v) : v \in Offsets \cup {0}}]
    BY <1>1, CodesTyped DEF Codes
  <2>2. faults \in 0..MaxFaults /\ outages \in 0..MaxOutages
    BY <1>1, Counting
  <2> QED BY <1>1, <1>4, <2>1, <2>2 DEF TypeOK
<1>6. EditTyped /\ TargetFresh /\ SnapshotFresh /\ DownIdle
  BY <1>1 DEF EditTyped, TargetFresh, SnapshotFresh, DownIdle
<1>7. ActiveExists /\ FlagsSet
  BY <1>1, <1>2, <1>4 DEF ActiveExists, FlagsSet, Flagged
<1>8. OwnedUnlessExcused /\ LastingUnlessDrifted /\ FlagsTellHardware
  BY <1>1, <1>4 DEF OwnedUnlessExcused, LastingUnlessDrifted, FlagsTellHardware, Owned, Lasting, Agree
<1> QED BY <1>5, <1>6, <1>7, <1>8 DEF IInv

LEMMA Inductive == IInv /\ [Next]_vars => IInv'
<1> SUFFICES ASSUME IInv, [Next]_vars PROVE IInv'
  OBVIOUS
<1>1. ASSUME NEW name \in Names \cup Stocks, HandleProfile(name) PROVE IInv'
  BY <1>1, HandleProfileStep
<1>2. ASSUME NEW name \in Names,
             HandleProfileCreate(name) \/ HandleProfileSave(name) \/ HandleProfileDelete(name)
      PROVE  IInv'
  BY <1>2, HandleProfileCreateStep, HandleProfileSaveStep, HandleProfileDeleteStep
<1>3. ASSUME NEW name \in Names \cup {""}, NEW value \in Requests, ProbeUndervolt(name, value)
      PROVE  IInv'
  BY <1>3, ProbeUndervoltStep
<1>4. CASE ResolveUndervolt
  BY <1>4, ResolveUndervoltStep
<1>5. ASSUME NEW name \in Names \cup {""}, NEW kind \in {"uv-reset", "set", "fancurve-reset", "tdp-reset"},
             ResolveOther(kind, name)
      PROVE  IInv'
  BY <1>5, ResolveOtherStep
<1>6. CASE FinishEdit
  BY <1>6, FinishEditStep
<1>7. CASE Suspend
  BY <1>7, SuspendStep
<1>8. CASE Resume \/ RecoverEC
  BY <1>8, RestoreProfileStep DEF Resume, RecoverEC
<1>9. CASE ResumeWedged
  BY <1>9, ResumeWedgedStep
<1>10. CASE StaleResume
  BY <1>10, StaleResumeStep
<1>11. ASSUME NEW reboot \in BOOLEAN, Crash(reboot) PROVE IInv'
  BY <1>11, CrashStep
<1>12. CASE StartWedged
  BY <1>12, StartWedgedStep
<1>13. ASSUME NEW target \in Names \cup Stocks, Start(target) PROVE IInv'
  BY <1>13, StartStep
<1>14. CASE UNCHANGED vars
  BY <1>14 DEF vars, IInv, TypeOK, EditTyped, TargetFresh, SnapshotFresh, DownIdle, ActiveExists,
               FlagsSet, OwnedUnlessExcused, LastingUnlessDrifted, FlagsTellHardware
<1> QED BY <1>1, <1>2, <1>3, <1>4, <1>5, <1>6, <1>7, <1>8, <1>9, <1>10, <1>11, <1>12, <1>13, <1>14
        DEF Next, Commands, Outages

\* The inductive invariant, from which the rest follows.
THEOREM Invariant == Spec => []IInv
  BY Start0, Inductive, PTL DEF Spec

\* The state, the file, the mailbox and the commands that wait for hwMu keep
\* their types, whatever profiles and offsets there are.
THEOREM TypeCorrect == Spec => []TypeOK
<1>1. IInv => TypeOK
  BY DEF IInv
<1> QED BY <1>1, Invariant, PTL

\* The active profile exists in memory and in the file a restart loads: none
\* of the commands, and no failed save, leaves it naming a deleted profile
\* (profile.go:470-472).
THEOREM ActiveAlwaysExists == Spec => []ActiveExists
<1>1. IInv => ActiveExists
  BY DEF IInv
<1> QED BY <1>1, Invariant, PTL

\* An edit commits what it was built on: no other command changed, deleted or
\* created its target since hwMu was taken (profile.go:404-409).
THEOREM SnapshotsAreFresh == Spec => []SnapshotFresh
<1>1. IInv => SnapshotFresh
  BY DEF IInv
<1> QED BY <1>1, Invariant, PTL

\* The Active flags tell the offset the CPU runs with, unless one of the
\* seven events that drift names came between (profile.go:172-180).
THEOREM FlagsAreTrue == Spec => []FlagsTellHardware
<1>1. IInv => FlagsTellHardware
  BY DEF IInv
<1> QED BY <1>1, Invariant, PTL

\* No custom offset runs under a firmware profile, but for the four events
\* that lose or overwrite the record (profile.go:188-190).
THEOREM StockRunsClean == Spec => []StockClean
<1>1. ASSUME IInv PROVE StockClean
  <2>1. st \in State /\ OwnedUnlessExcused
    BY <1>1 DEF IInv, TypeOK
  <2> QED BY <2>1, StockUnowned DEF StockClean, OwnedUnlessExcused, Excuses
<1> QED BY <1>1, Invariant, PTL

-----------------------------------------------------------------------------
(* What is sent to the mailbox.                                            *)

\* A reset is sent only with a flag up, a probe only ahead of a set or a reset.
Due(q) ==
  /\ "reset" \in q.sent => undervoltActive(st)
  /\ "probe" \in q.sent => "set" \in q.sent \/ undervoltActive(st) \/ q.probe = "failed"

\* The one probe that leads to nothing.
RefusedProbe ==
  \E name \in Names \cup {""}, value \in Requests \ Offsets : ProbeUndervolt(name, value)

DueStep ==
  /\ "reset" \in sent' => undervoltActive(st)
  /\ "probe" \in sent' => asked' # {} \/ "set" \in sent' \/ undervoltActive(st) \/ smu'.probe = "failed"

LEMMA DuePosted ==
  ASSUME NEW q \in Box, Posted(q), Due(q)
  PROVE  DueStep
  BY PostedTyped DEF Due, DueStep

LEMMA DueNothing ==
  ASSUME TypeOK
  PROVE  Mailbox \in Box /\ Due(Mailbox)
  BY MailboxTyped DEF Due, Mailbox

LEMMA DueSet ==
  ASSUME TypeOK, NEW v \in Offsets, NEW f
  PROVE  SetCurveOptimizer(Mailbox, v, f) \in Box /\ Due(SetCurveOptimizer(Mailbox, v, f))
  BY SetIs DEF Due

LEMMA DueReset ==
  ASSUME TypeOK, NEW f
  PROVE  ResetIfApplied(Mailbox, st, f) \in Box /\ Due(ResetIfApplied(Mailbox, st, f))
  BY ResetIs DEF Due

LEMMA DueToStock ==
  ASSUME TypeOK, NEW stock, NEW s, NEW f, ToStock(stock, s, f)
  PROVE  DueStep
  BY DueReset, DuePosted DEF ToStock

LEMMA DueApply ==
  ASSUME TypeOK, NEW name \in DOMAIN st.saved, NEW f, ApplyCustom(st, name, Mailbox, f)
  PROVE  DueStep
<1> DEFINE uv == st.saved[name].uv
           q == IF uv # NoOffset THEN SetCurveOptimizer(Mailbox, uv, f)
                ELSE ResetIfApplied(Mailbox, st, f)
<1>1. uv \in Offsets \cup {NoOffset}
  BY StateParts DEF TypeOK, Profile
<1>2. Posted(q)
  BY DEF ApplyCustom
<1>3. q \in Box /\ Due(q)
  BY <1>1, DueSet, DueReset
<1> QED BY <1>2, <1>3, DuePosted

LEMMA DueCommit ==
  ASSUME NEW p, NEW q \in Box, NEW f, NEW cause, Due(q), Commit(p, q, f, cause) \/ Refused(q, f)
  PROVE  DueStep
  BY DuePosted DEF Commit, Refused

LEMMA DueEdit ==
  ASSUME IInv, FinishEdit
  PROVE  DueStep
<1>1. TypeOK /\ Mailbox \in Box /\ Due(Mailbox) /\ edit # NoEdit
  BY DueNothing DEF IInv, FinishEdit
<1>2. PICK f \in SomeFailure :
        \/ edit.kind = "uv-set" /\ SetUndervolt(f)
        \/ edit.kind = "uv-reset" /\ ResetUndervolt(f)
        \/ edit.kind = "set" /\ SetOther(f)
        \/ edit.kind = "fancurve-reset" /\ ResetFanCurve(f)
        \/ edit.kind \in {"set", "fancurve-reset"} /\ f = "none" /\ Refused(Mailbox, f)
        \/ edit.kind = "tdp-reset" /\ ResetTDP(f)
  BY DEF FinishEdit
<1>3. CASE edit.kind = "uv-set" /\ SetUndervolt(f)
  <2> DEFINE q == IF edit.target.live THEN SetCurveOptimizer(Mailbox, edit.value, f) ELSE Mailbox
  <2>1. edit.value \in Offsets
    BY <1>1, <1>3 DEF IInv, EditTyped
  <2>2. q \in Box /\ Due(q)
    BY <1>1, <2>1, DueSet
  <2>3. Posted(q)
    BY <1>3 DEF SetUndervolt, Commit, Refused
  <2> QED BY <2>2, <2>3, DuePosted
<1>4. CASE ResetUndervolt(f)
  <2> DEFINE q == IF edit.target.live THEN ResetIfApplied(Mailbox, st, f) ELSE Mailbox
  <2>1. q \in Box /\ Due(q)
    BY <1>1, DueReset
  <2>2. Posted(q)
    BY <1>4 DEF ResetUndervolt, Commit, Refused
  <2> QED BY <2>1, <2>2, DuePosted
<1>5. CASE SetOther(f)
  BY <1>1, <1>5, DueCommit DEF SetOther
<1>6. CASE ResetFanCurve(f)
  BY <1>1, <1>6, DueCommit DEF ResetFanCurve
<1>7. CASE Refused(Mailbox, f)
  BY <1>1, <1>7, DueCommit
<1>8. CASE ResetTDP(f)
  BY <1>1, <1>8, DueCommit, DueToStock DEF ResetTDP
<1> QED BY <1>2, <1>3, <1>4, <1>5, <1>6, <1>7, <1>8

LEMMA DueSilent ==
  ASSUME sent' = {}
  PROVE  DueStep
  BY DEF DueStep

\* A probe leads a set, unless its value is one that is refused.
LEMMA DueProbe ==
  ASSUME IInv, NEW name, NEW value, ProbeUndervolt(name, value), value \in Offsets
  PROVE  DueStep
<1>1. PICK f \in {"none", "probe"} :
        /\ Posted(Probed(Mailbox, f))
        /\ asked' = IF Probed(Mailbox, f).probe = "ok" /\ value \in Offsets
                    THEN {[name |-> name, value |-> value]} ELSE {}
  BY DEF ProbeUndervolt
<1> DEFINE q == Probed(Mailbox, f)
<1>2. q \in Box /\ q.sent \subseteq {"probe"} /\ q.probe \in {"ok", "failed"}
  <2>1. Mailbox \in Box /\ Mailbox.sent = {}
    BY MailboxTyped DEF IInv, Mailbox
  <2> QED BY <2>1, ProbedIs
<1>3. Posted(q) /\ (q.probe = "ok" => asked' # {})
  BY <1>1
<1> HIDE DEF q
<1>4. sent' = q.sent /\ smu'.probe = q.probe
  BY <1>2, <1>3, PostedTyped
<1> QED BY <1>2, <1>3, <1>4 DEF DueStep

LEMMA DueRestore ==
  ASSUME IInv, RestoreProfile
  PROVE  DueStep
<1>1. CASE ActiveToRestore
  <2>1. PICK f \in SomeFailure \ {"profile"} : ApplyCustom(st, st.profile, Mailbox, f)
    BY <1>1 DEF RestoreProfile
  <2>2. st.profile \in DOMAIN st.saved
    BY <1>1, NotEmptyIsSaved DEF ActiveToRestore
  <2> QED BY <2>1, <2>2, DueApply DEF IInv
<1>2. CASE ~ActiveToRestore
  BY <1>2, DueSilent DEF RestoreProfile
<1> QED BY <1>1, <1>2

LEMMA DueStale ==
  ASSUME IInv, StaleResume
  PROVE  DueStep
<1>1. TypeOK /\ st \in State
  BY DEF IInv, TypeOK
<1>2. CASE IsCustom(st, st.profile) /\ SavedProfile(st, st.profile).uv \notin {NoOffset, 0}
  <2>1. PICK f \in SMUFailures : Posted(SetCurveOptimizer(Mailbox, st.saved[st.profile].uv, f))
    BY <1>2 DEF StaleResume
  <2>2. st.profile \in DOMAIN st.saved
    BY <1>2 DEF SavedProfile, NewProfile
  <2>3. st.saved[st.profile].uv \in Offsets
    BY <1>1, <1>2, <2>2, StateParts DEF SavedProfile, Profile
  <2> QED BY <1>1, <2>1, <2>3, DueSet, DuePosted
<1>3. CASE ~(IsCustom(st, st.profile) /\ SavedProfile(st, st.profile).uv \notin {NoOffset, 0})
  BY <1>3, DueSilent DEF StaleResume
<1> QED BY <1>2, <1>3

LEMMA DueStart ==
  ASSUME IInv, NEW target, Start(target)
  PROVE  DueStep
<1>1. TypeOK /\ Mailbox \in Box /\ Due(Mailbox)
  BY DueNothing DEF IInv
<1>2. PICK f \in SomeFailure \ {"profile"} :
       IF target \in Names
       THEN IF IsCustom(st, target) /\ ~Empty(SavedProfile(st, target))
            THEN ApplyCustom(st, target, Mailbox, f)
            ELSE Posted(Mailbox)
       ELSE Posted(IF st.profile # target /\ IsCustom(st, st.profile)
                   THEN ResetIfApplied(Mailbox, st, f) ELSE Mailbox)
  BY DEF Start
<1>3. CASE ~Empty(SavedProfile(st, target)) /\ ApplyCustom(st, target, Mailbox, f)
  <2>1. target \in DOMAIN st.saved
    BY <1>3, NotEmptyIsSaved
  <2> QED BY <1>1, <1>3, <2>1, DueApply
<1>4. CASE Posted(Mailbox)
  BY <1>1, <1>4, DuePosted
<1>5. CASE Posted(ResetIfApplied(Mailbox, st, f))
  BY <1>1, <1>5, DueReset, DuePosted
<1> QED BY <1>2, <1>3, <1>4, <1>5

LEMMA NextIsDue ==
  ASSUME IInv, Next
  PROVE  DueStep \/ RefusedProbe
<1>1. TypeOK
  BY DEF IInv
<1>2. ASSUME NEW name \in Names \cup Stocks, HandleProfile(name) PROVE DueStep
  <2>1. PICK f \in SomeFailure :
          \/ ToStock(name, st, f)
          \/ ~Empty(SavedProfile(st, name)) /\ ApplyCustom(st, name, Mailbox, f)
    BY <1>2 DEF HandleProfile
  <2>2. CASE ToStock(name, st, f)
    BY <1>1, <2>2, DueToStock
  <2>3. CASE ~Empty(SavedProfile(st, name)) /\ ApplyCustom(st, name, Mailbox, f)
    BY <1>1, <2>3, NotEmptyIsSaved, DueApply
  <2> QED BY <2>1, <2>2, <2>3
<1>3. ASSUME NEW name \in Names,
             HandleProfileCreate(name) \/ HandleProfileSave(name) \/ HandleProfileDelete(name)
      PROVE  DueStep
  BY <1>3, DueSilent
     DEF HandleProfileCreate, HandleProfileSave, HandleProfileDelete, ProfilesOnly
<1>4. ASSUME NEW name \in Names \cup {""}, NEW value \in Requests, ProbeUndervolt(name, value)
      PROVE  DueStep \/ RefusedProbe
  BY <1>4, DueProbe DEF RefusedProbe
<1>5. CASE ResolveUndervolt
  BY <1>5, DueSilent DEF ResolveUndervolt, Resolve, RefuseUndervolt
<1>6. ASSUME NEW name \in Names \cup {""}, NEW kind \in {"uv-reset", "set", "fancurve-reset", "tdp-reset"},
             ResolveOther(kind, name)
      PROVE  DueStep
  BY <1>6, DueSilent DEF ResolveOther, Resolve
<1>7. CASE FinishEdit
  BY <1>7, DueEdit
<1>8. CASE Resume \/ RecoverEC
  BY <1>8, DueRestore DEF Resume, RecoverEC
<1>9. CASE Suspend \/ ResumeWedged \/ StartWedged
  BY <1>9, DueSilent DEF Suspend, ResumeWedged, StartWedged
<1>10. CASE StaleResume
  BY <1>10, DueStale
<1>11. ASSUME NEW reboot \in BOOLEAN, Crash(reboot) PROVE DueStep
  BY <1>11, DueSilent DEF Crash
<1>12. ASSUME NEW target \in Names \cup Stocks, Start(target) PROVE DueStep
  BY <1>12, DueStart
<1> QED BY <1>2, <1>3, <1>4, <1>5, <1>6, <1>7, <1>8, <1>9, <1>10, <1>11, <1>12
        DEF Next, Commands, Outages

\* The probe of a set that is refused sends no reset beside it.
LEMMA RefusedSendsNoReset ==
  ASSUME IInv, RefusedProbe
  PROVE  "reset" \notin sent'
<1>1. PICK name \in Names \cup {""}, value \in Requests \ Offsets : ProbeUndervolt(name, value)
  BY DEF RefusedProbe
<1>2. PICK f \in {"none", "probe"} : Posted(Probed(Mailbox, f))
  BY <1>1 DEF ProbeUndervolt
<1> DEFINE q == Probed(Mailbox, f)
<1>3. q \in Box /\ q.sent \subseteq {"probe"}
  <2>1. Mailbox \in Box /\ Mailbox.sent = {}
    BY MailboxTyped DEF IInv, Mailbox
  <2> QED BY <2>1, ProbedIs
<1> HIDE DEF q
<1>4. sent' = q.sent
  BY <1>2, <1>3, PostedTyped DEF q
<1> QED BY <1>3, <1>4

\* A flag that is up and true stands for an offset in force, or for one of 0.
LEMMA ActiveMeans ==
  ASSUME IInv, power = "up", drift = {}, undervoltActive(st)
  PROVE  smu.co # StockCO \/ \E n \in DOMAIN st.saved : st.saved[n].active /\ st.saved[n].uv = 0
<1>1. Agree(st, smu.co)
  BY DEF IInv, FlagsTellHardware
<1>2. PICK n \in DOMAIN st.saved : st.saved[n].uv # NoOffset /\ st.saved[n].active
  BY DEF undervoltActive
<1>3. st.saved[n].uv \in Offsets
  <2>1. st.saved[n] \in Profile
    BY StateParts DEF IInv, TypeOK
  <2> QED BY <1>2, <2>1 DEF Profile
<1>4. encodeCOValue(st.saved[n].uv) = smu.co
  BY <1>1, <1>2 DEF Agree
<1>5. st.saved[n].uv = 0 \/ encodeCOValue(st.saved[n].uv) # StockCO
  BY <1>3, OffsetsTyped
<1> QED BY <1>2, <1>4, <1>5

\* The mailbox is never written on a machine that has nothing to write: a
\* reset follows an offset that is applied (server.go:696-716), a probe leads
\* a set that was asked for or a reset that is due, or is that of a set which
\* is refused for its value after it (server.go:991-1007).
THEOREM NeverSpeculative == Spec => NoSpeculativeWrite
<1> DEFINE A == power = "up" /\ drift = {} =>
       /\ "reset" \in sent' =>
            smu.co # StockCO \/ \E n \in DOMAIN st.saved : st.saved[n].active /\ st.saved[n].uv = 0
       /\ "probe" \in sent' =>
            \/ asked' # {} \/ "set" \in sent' \/ undervoltActive(st)
            \/ smu'.probe = "failed"
            \/ \E name \in Names \cup {""}, value \in Requests \ Offsets :
                 ProbeUndervolt(name, value)
<1>1. ASSUME IInv, [Next]_vars PROVE [A]_vars
  <2>1. CASE DueStep
    BY <1>1, <2>1, ActiveMeans DEF DueStep
  <2>2. CASE RefusedProbe
    BY <1>1, <2>2, RefusedSendsNoReset DEF RefusedProbe
  <2>3. CASE UNCHANGED vars
    BY <2>3
  <2> QED BY <1>1, <2>1, <2>2, <2>3, NextIsDue
<1>2. []IInv /\ [][Next]_vars => [][A]_vars
  BY <1>1, PTL
<1> QED BY <1>2, Invariant, PTL DEF Spec, NoSpeculativeWrite

=============================================================================
