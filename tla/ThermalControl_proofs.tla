----------------------- MODULE ThermalControl_proofs -----------------------
(***************************************************************************)
(* ThermalControl for every set of profiles, curves and limits: its types, *)
(* that power is raised only over the floor and fans are released only     *)
(* below it, and what holds between operations: a firmware profile's limit *)
(* is low, a high limit has its floor, and a lost limit shows. The first   *)
(* invariant says what shape the calls of an operation have and what the   *)
(* hardware must look like when the next step is a dangerous one; the      *)
(* later ones say what the calls that remain will make good.               *)
(***************************************************************************)
EXTENDS ThermalControl, FanFloor_proofs

GoodStep ==
  { s \in Step : /\ s.do = "curve" => s.curve \in FanCurve
                 /\ s.do \in {"profile", "restore"} => s.name \in StockProfiles }

High(s) == s.do = "limit" /\ s.watts > TDPMaxSafe
FreeRelease(s) == s.do = "release" /\ s.watts <= TDPMaxSafe

\* A call, started or not: a high limit comes after the readback of a curve
\* that meets the floor, a release inside a call after its guard.
Call ==
  { k \in Seq(GoodStep) :
      /\ k # <<>>
      /\ \A i \in 2..Len(k) :
           /\ High(k[i]) =>
                \/ k[i - 1].do = "verify"
                \/ k[i - 1].do = "release" /\ ~FreeRelease(k[i - 1])
           /\ k[i].do = "release" => k[i - 1].do = "guard"
           /\ (k[i].do = "verify" /\ i < Len(k)) =>
                k[i - 1].do = "curve" /\ MeetsFloor(k[i - 1].curve) }

\* A call that has not started begins with neither a high limit nor a readback.
QueuedCall == { k \in Call : ~High(k[1]) /\ k[1].do # "verify" }
\* ... and gives the fans back only after CheckFanFloorRelease.
GuardedCall == { k \in QueuedCall : ~FreeRelease(k[1]) }
LowCall == { k \in Seq(GoodStep) : \A i \in 1..Len(k) : ~High(k[i]) }

Shape(t) == t \in Seq(Call) /\ (t # <<>> => Tail(t) \in Seq(QueuedCall))

FloorOnFans == \A i \in Fan : MeetsFloor(fan[i].curve)
FloorEnabled == \A i \in Fan : fan[i].mode = 1 \/ pending \/ policyWritten \/ ~watching

\* What the hardware looks like when the next step is a dangerous one.
NextStepSafe ==
  todo # <<>> =>
    LET k == Head(todo) IN
    /\ (k[1].do = "verify" /\ Len(k) > 1) => FloorOnFans
    /\ High(k[1]) => FloorOnFans /\ FloorEnabled
    /\ FreeRelease(k[1]) => inForce <= TDPMaxSafe

\* An unguarded release still to come: no high limit comes with it, and the
\* limit is low already or is about to be lowered, on pain of returning.
ReleaseToComeSafe ==
  todo # <<>> =>
    \/ Tail(todo) \in Seq(GuardedCall)
    \/ /\ todo \in Seq(LowCall)
       /\ \/ inForce <= TDPMaxSafe
          \/ LET k == Head(todo)
             IN  Len(k) = 1 /\ k[1].do = "limit" /\ k[1].must

\* The attribute shows every high limit: the firmware lowers limits behind it,
\* and never raises one above TDPMaxSafe.
HighLimitShown == inForce > TDPMaxSafe => cache = inForce

IInv == TypeOK /\ Shape(todo) /\ NextStepSafe /\ ReleaseToComeSafe /\ HighLimitShown

-----------------------------------------------------------------------------
(* The calls the operations are made of.                                   *)

LEMMA Bounds == TDPMaxSafe = 75 /\ Limit = 0..93 /\ NoName \in MaybeProfile
  BY DEF TDPMaxSafe, Limit, TDPMaxForced, MaybeProfile

\* Every constructor builds a well-typed step.
LEMMA Steps ==
  /\ \A c \in FanCurve, must \in BOOLEAN :
       CurveStep(c, must) \in GoodStep
  /\ \A w \in Limit, must \in BOOLEAN :
       LimitStep(w, must) \in GoodStep
  /\ \A w \in Limit, must \in BOOLEAN :
       ReleaseStep(w, must) \in GoodStep
  /\ \A must \in BOOLEAN : VerifyStep(must) \in GoodStep
  /\ Do("guard") \in GoodStep
  /\ Do("save") \in GoodStep
  /\ \A p \in StockProfiles, must \in BOOLEAN :
       [Do("profile") EXCEPT !.name = p, !.must = must] \in GoodStep
  /\ \A p \in StockProfiles : [Do("restore") EXCEPT !.name = p] \in GoodStep
  /\ \A c \in MaybeCurve : [Do("reconcile") EXCEPT !.curve = c] \in GoodStep
  /\ \A n \in MaybeProfile, c \in MaybeCurve, w \in Limit, a \in MaybeProfile :
       [Do("commit") EXCEPT !.name = n, !.curve = c, !.watts = w, !.active = a]
         \in GoodStep
<1> USE DEF Do, CurveStep, VerifyStep, LimitStep, ReleaseStep, GoodStep, Step
<1>1. NoCurve \in MaybeCurve /\ 0 \in Limit /\ FanCurve \subseteq MaybeCurve
      /\ StockProfiles \subseteq MaybeProfile /\ NoName \in MaybeProfile
  BY Bounds DEF MaybeCurve, MaybeProfile, Profiles
<1>2. \A c \in FanCurve, must \in BOOLEAN :
        CurveStep(c, must) \in GoodStep
  BY <1>1
<1>3. \A w \in Limit, must \in BOOLEAN :
        /\ LimitStep(w, must) \in GoodStep
        /\ ReleaseStep(w, must) \in GoodStep
  BY <1>1
<1>4. /\ \A must \in BOOLEAN : VerifyStep(must) \in GoodStep
      /\ Do("guard") \in GoodStep
      /\ Do("save") \in GoodStep
  BY <1>1
<1>5. /\ \A p \in StockProfiles, must \in BOOLEAN :
           [Do("profile") EXCEPT !.name = p, !.must = must] \in GoodStep
      /\ \A p \in StockProfiles : [Do("restore") EXCEPT !.name = p] \in GoodStep
  BY <1>1
<1>6. \A c \in MaybeCurve : [Do("reconcile") EXCEPT !.curve = c] \in GoodStep
  BY <1>1
<1>7. \A n \in MaybeProfile, c \in MaybeCurve, w \in Limit, a \in MaybeProfile :
        [Do("commit") EXCEPT !.name = n, !.curve = c, !.watts = w, !.active = a]
          \in GoodStep
  BY <1>1
<1> HIDE DEF Do, CurveStep, VerifyStep, LimitStep, ReleaseStep, GoodStep, Step
<1> QED BY <1>2, <1>3, <1>4, <1>5, <1>6, <1>7

\* A call of one step, neither dangerous nor a readback.
LEMMA SingleCall ==
  ASSUME NEW s \in GoodStep, ~High(s), s.do # "verify"
  PROVE  /\ <<s>> \in QueuedCall
         /\ <<s>> \in LowCall
         /\ ~FreeRelease(s) => <<s>> \in GuardedCall
<1>1. <<s>> \in Seq(GoodStep) /\ Len(<<s>>) = 1 /\ <<s>>[1] = s
  OBVIOUS
<1>2. <<s>> \in Call
  BY <1>1 DEF Call
<1> QED BY <1>1, <1>2 DEF QueuedCall, LowCall, GuardedCall

LEMMA CurveCall ==
  ASSUME NEW c \in FanCurve, NEW must \in BOOLEAN
  PROVE  SetBothFanCurves(c, must) \in GuardedCall \cap LowCall
<1> DEFINE s1 == CurveStep(c, must)
           s2 == VerifyStep(must)
<1>1. s1 \in GoodStep /\ s2 \in GoodStep
  BY Steps
<1>2. s1.do = "curve" /\ s2.do = "verify"
  BY DEF Do, CurveStep, VerifyStep, LimitStep, ReleaseStep
<1>3. SetBothFanCurves(c, must) = <<s1, s2>>
  BY DEF SetBothFanCurves
<1> HIDE DEF s1, s2
<1>4. <<s1, s2>> \in Call
  BY <1>1, <1>2 DEF Call, High
<1> QED BY <1>1, <1>2, <1>3, <1>4 DEF GuardedCall, QueuedCall, LowCall, High, FreeRelease

LEMMA LimitCall ==
  ASSUME NEW w \in Limit, NEW must \in BOOLEAN, w <= TDPMaxSafe
  PROVE  SetTDPState(w, must) \in GuardedCall \cap LowCall
<1> DEFINE s1 == LimitStep(w, must)
<1>1. s1 \in GoodStep
  BY Steps
<1>2. s1.do = "limit" /\ s1.watts = w
  BY DEF Do, CurveStep, VerifyStep, LimitStep, ReleaseStep
<1>3. SetTDPState(w, must) = <<s1>>
  BY DEF SetTDPState
<1> HIDE DEF s1
<1>4. ~High(s1) /\ ~FreeRelease(s1)
  BY <1>2, Bounds DEF High, FreeRelease
<1> QED BY <1>1, <1>2, <1>3, <1>4, SingleCall

\* ApplyTDPSafely puts the floor before a high limit.
LEMMA ApplyCall ==
  ASSUME NEW w \in Limit, NEW want \in MaybeCurve, NEW must \in BOOLEAN
  PROVE  /\ ApplyTDPSafely(w, want, must) \in GuardedCall
         /\ w <= TDPMaxSafe => ApplyTDPSafely(w, want, must) = SetTDPState(w, must)
<1> DEFINE c == FanCurveForTDP(w, want)
<1>1. w \in Int /\ want \in FanCurve \cup {NoCurve}
  BY Bounds DEF MaybeCurve
<1>2. CASE w <= TDPMaxSafe
  BY <1>1, <1>2, FloorForTDP, LimitCall DEF ApplyTDPSafely, SetTDPState
<1>3. CASE w > TDPMaxSafe
  <2>1. c \in FanCurve /\ MeetsFloor(c) /\ c # NoCurve
    BY <1>1, <1>3, FloorForTDP, NoCurveIsNone
  <2> DEFINE s1 == CurveStep(c, must)
             s2 == VerifyStep(must)
             s3 == LimitStep(w, must)
  <2>2. ApplyTDPSafely(w, want, must) = <<s1, s2, s3>>
    BY <2>1 DEF ApplyTDPSafely
  <2>3. s1 \in GoodStep /\ s2 \in GoodStep /\ s3 \in GoodStep
    BY <2>1, Steps
  <2>4. /\ s1.do = "curve" /\ s1.curve = c
        /\ s2.do = "verify"
        /\ s3.do = "limit"
    BY DEF Do, CurveStep, VerifyStep, LimitStep, ReleaseStep
  <2> HIDE DEF s1, s2, s3, c
  <2>5. <<s1, s2, s3>> \in Call
    BY <2>1, <2>3, <2>4 DEF Call, High
  <2> QED
    BY <1>1, <1>3, <2>2, <2>4, <2>5, Bounds DEF GuardedCall, QueuedCall, High, FreeRelease
<1> QED BY <1>1, <1>2, <1>3, Bounds

\* ReleaseFans refuses a high keep; otherwise its release is unguarded.
LEMMA ReleaseCall ==
  ASSUME NEW keep \in Limit, NEW must \in BOOLEAN
  PROVE  /\ ReleaseFans(keep, must) \in QueuedCall
         /\ keep <= TDPMaxSafe => ReleaseFans(keep, must) \in LowCall
         /\ keep > TDPMaxSafe => ReleaseFans(keep, must) \in GuardedCall
<1> DEFINE s1 == ReleaseStep(keep, must)
           s2 == LimitStep(keep, must)
<1>1. s1 \in GoodStep /\ s2 \in GoodStep
  BY Steps
<1>2. /\ s1.do = "release" /\ s1.watts = keep
      /\ s2.do = "limit" /\ s2.watts = keep
  BY DEF Do, CurveStep, VerifyStep, LimitStep, ReleaseStep
<1>3. ReleaseFans(keep, must) = IF keep = 0 THEN <<s1>> ELSE <<s1, s2>>
  BY DEF ReleaseFans
<1> HIDE DEF s1, s2
<1>4. /\ High(s2) <=> keep > TDPMaxSafe
      /\ FreeRelease(s1) <=> keep <= TDPMaxSafe
      /\ ~High(s1)
  BY <1>2, Bounds DEF High, FreeRelease
<1>5. CASE keep = 0
  BY <1>1, <1>2, <1>3, <1>4, <1>5, SingleCall, Bounds
<1>6. CASE keep # 0
  <2>1. High(s2) => ~FreeRelease(s1)
    BY <1>4, Bounds
  <2>2. <<s1, s2>> \in Call
    BY <1>1, <1>2, <2>1 DEF Call
  <2> QED
    BY <1>1, <1>2, <1>3, <1>4, <1>6, <2>2, Bounds DEF QueuedCall, LowCall, GuardedCall
<1> QED BY <1>5, <1>6

LEMMA GuardedReleaseCall ==
  ASSUME NEW keep \in Limit, keep <= TDPMaxSafe
  PROVE  GuardedRelease(keep) \in GuardedCall \cap LowCall
<1> DEFINE s0 == Do("guard")
           s1 == ReleaseStep(keep, FALSE)
           s2 == LimitStep(keep, FALSE)
<1>1. s0 \in GoodStep /\ s1 \in GoodStep /\ s2 \in GoodStep
  BY Steps
<1>2. /\ s0.do = "guard"
      /\ s1.do = "release" /\ s1.watts = keep
      /\ s2.do = "limit" /\ s2.watts = keep
  BY DEF Do, CurveStep, VerifyStep, LimitStep, ReleaseStep
<1>3. GuardedRelease(keep) = IF keep = 0 THEN <<s0, s1>> ELSE <<s0, s1, s2>>
  BY DEF GuardedRelease
<1> HIDE DEF s0, s1, s2
<1>4. ~High(s0) /\ ~High(s1) /\ ~High(s2) /\ ~FreeRelease(s0)
  BY <1>2, Bounds DEF High, FreeRelease
<1>5. <<s0, s1>> \in Call /\ <<s0, s1, s2>> \in Call
  BY <1>1, <1>2, <1>4 DEF Call
<1> QED
  BY <1>1, <1>2, <1>3, <1>4, <1>5 DEF QueuedCall, LowCall, GuardedCall

LEMMA HandBackCalls ==
  ASSUME NEW p \in StockProfiles
  PROVE  HandBackToFirmware(p) \in Seq(GuardedCall) \cap Seq(LowCall)
<1>1. Firmware[p] \in Limit /\ Firmware[p] <= TDPMaxSafe /\ 0 \in Limit /\ 0 <= TDPMaxSafe
  BY PowerAssumption, Bounds
<1> DEFINE k1 == SetTDPState(Firmware[p], FALSE)
           k2 == GuardedRelease(0)
<1>2. k1 \in GuardedCall \cap LowCall
  BY <1>1, LimitCall
<1>3. k2 \in GuardedCall \cap LowCall
  BY <1>1, GuardedReleaseCall
<1>4. HandBackToFirmware(p) = <<k1, k2>>
  BY DEF HandBackToFirmware
<1> HIDE DEF k1, k2
<1> QED BY <1>2, <1>3, <1>4

LEMMA CommitCalls ==
  ASSUME NEW n \in MaybeProfile, NEW c \in MaybeCurve, NEW w \in Limit,
         NEW a \in MaybeProfile
  PROVE  CommitAndSave(n, c, w, a) \in Seq(GuardedCall) \cap Seq(LowCall)
<1> DEFINE s1 == [Do("commit") EXCEPT !.name = n, !.curve = c, !.watts = w, !.active = a]
           s2 == Do("save")
<1>1. s1 \in GoodStep /\ s2 \in GoodStep
  BY Steps
<1>2. s1.do = "commit" /\ s2.do = "save"
  BY DEF Do, CurveStep, VerifyStep, LimitStep, ReleaseStep
<1>3. CommitAndSave(n, c, w, a) = << <<s1>>, <<s2>> >>
  BY DEF CommitAndSave
<1> HIDE DEF s1, s2
<1>4. /\ <<s1>> \in GuardedCall \cap LowCall
      /\ <<s2>> \in GuardedCall \cap LowCall
  BY <1>1, <1>2, SingleCall DEF High, FreeRelease
<1> QED BY <1>3, <1>4

\* The other one-step calls.
LEMMA StepCalls ==
  /\ << Do("save") >> \in GuardedCall
  /\ \A p \in StockProfiles, must \in BOOLEAN : SetProfile(p, must) \in GuardedCall
  /\ \A p \in StockProfiles : Restore(p) \in GuardedCall
  /\ \A c \in MaybeCurve :
       << [Do("reconcile") EXCEPT !.curve = c] >> \in GuardedCall
<1>1. << Do("save") >> \in GuardedCall
  <2>1. Do("save") \in GoodStep /\ Do("save").do = "save"
    BY Steps DEF Do
  <2> QED BY <2>1, SingleCall DEF High, FreeRelease
<1>2. ASSUME NEW p \in StockProfiles, NEW must \in BOOLEAN
      PROVE  SetProfile(p, must) \in GuardedCall
  <2> DEFINE s == [Do("profile") EXCEPT !.name = p, !.must = must]
  <2>1. s \in GoodStep /\ s.do = "profile"
    BY Steps DEF Do
  <2> HIDE DEF s
  <2>2. <<s>> \in GuardedCall
    BY <2>1, SingleCall DEF High, FreeRelease
  <2> QED BY <2>2 DEF SetProfile, s
<1>3. ASSUME NEW p \in StockProfiles PROVE Restore(p) \in GuardedCall
  <2> DEFINE s == [Do("restore") EXCEPT !.name = p]
  <2>1. s \in GoodStep /\ s.do = "restore"
    BY Steps DEF Do
  <2> HIDE DEF s
  <2>2. <<s>> \in GuardedCall
    BY <2>1, SingleCall DEF High, FreeRelease
  <2> QED BY <2>2 DEF Restore, s
<1>4. ASSUME NEW c \in MaybeCurve
      PROVE  << [Do("reconcile") EXCEPT !.curve = c] >> \in GuardedCall
  <2> DEFINE s == [Do("reconcile") EXCEPT !.curve = c]
  <2>1. s \in GoodStep /\ s.do = "reconcile"
    BY Steps DEF Do
  <2> HIDE DEF s
  <2>2. <<s>> \in GuardedCall
    BY <2>1, SingleCall DEF High, FreeRelease
  <2> QED BY <2>2 DEF s
<1> QED BY <1>1, <1>2, <1>3, <1>4

\* The calls of a custom profile's apply.
LEMMA ApplyCustomCalls ==
  ASSUME NEW settings \in Settings, NEW p \in StockProfiles
  PROVE  ApplyCustomHW(settings, p) \in Seq(GuardedCall)
<1> DEFINE c == settings.curve
           w == settings.tdp
           k1 == IF w = 0 THEN HandBackToFirmware(p) ELSE <<>>
           k2 == IF c = NoCurve THEN <<>> ELSE << SetBothFanCurves(c, FALSE) >>
           k3 == IF w = 0 THEN <<>> ELSE << ApplyTDPSafely(w, c, FALSE) >>
           k4 == IF w # 0 /\ c = NoCurve /\ w <= TDPMaxSafe
                 THEN << GuardedRelease(w) >> ELSE <<>>
<1>1. c \in MaybeCurve /\ w \in Limit
  BY DEF Settings
<1>2. k1 \in Seq(GuardedCall)
  BY HandBackCalls
<1>3. k2 \in Seq(GuardedCall)
  <2>1. CASE c = NoCurve BY <2>1
  <2>2. CASE c # NoCurve
    <3>1. SetBothFanCurves(c, FALSE) \in GuardedCall
      BY <1>1, <2>2, CurveCall DEF MaybeCurve
    <3> DEFINE k == SetBothFanCurves(c, FALSE)
    <3>2. k2 = <<k>> /\ k \in GuardedCall
      BY <2>2, <3>1
    <3> HIDE DEF k, k2
    <3> QED BY <3>2
  <2> QED BY <2>1, <2>2
<1>4. k3 \in Seq(GuardedCall)
  <2>1. ApplyTDPSafely(w, c, FALSE) \in GuardedCall
    BY <1>1, ApplyCall
  <2> DEFINE k == ApplyTDPSafely(w, c, FALSE)
  <2>2. k3 = IF w = 0 THEN <<>> ELSE <<k>>
    OBVIOUS
  <2>3. k \in GuardedCall
    BY <2>1
  <2> HIDE DEF k, k3
  <2> QED BY <2>2, <2>3
<1>5. k4 \in Seq(GuardedCall)
  <2>1. w <= TDPMaxSafe => GuardedRelease(w) \in GuardedCall
    BY <1>1, GuardedReleaseCall
  <2> QED BY <2>1
<1>6. << << Do("save") >> >> \in Seq(GuardedCall)
  BY StepCalls
<1>7. ApplyCustomHW(settings, p) = k1 \o k2 \o k3 \o k4 \o << << Do("save") >> >>
  BY DEF ApplyCustomHW
<1> HIDE DEF k1, k2, k3, k4
<1> QED BY <1>2, <1>3, <1>4, <1>5, <1>6, <1>7

-----------------------------------------------------------------------------
(* The queue of calls, and how a step moves it on.                         *)

\* The queue once the step under way has succeeded.
Rest(t) == IF Len(Head(t)) > 1 THEN <<Tail(Head(t))>> \o Tail(t) ELSE Tail(t)

LEMMA Cons ==
  ASSUME NEW S, NEW x \in S, NEW r \in Seq(S)
  PROVE  /\ <<x>> \o r \in Seq(S)
         /\ <<x>> \o r # <<>>
         /\ Head(<<x>> \o r) = x
         /\ Tail(<<x>> \o r) = r
<1>1. <<x>> \o r \in Seq(S) /\ Len(<<x>> \o r) = 1 + Len(r)
  OBVIOUS
<1>2. <<x>> \o r # <<>> /\ Head(<<x>> \o r) = x
  BY <1>1
<1>3. /\ Tail(<<x>> \o r) \in Seq(S)
      /\ Len(Tail(<<x>> \o r)) = Len(r)
      /\ \A i \in 1..Len(r) : Tail(<<x>> \o r)[i] = r[i]
  BY <1>1, <1>2
<1> QED BY <1>1, <1>2, <1>3

LEMMA Widen ==
  /\ \A t : t \in Seq(GuardedCall) => t \in Seq(QueuedCall)
  /\ \A t : t \in Seq(QueuedCall) => t \in Seq(Call)
<1>1. GuardedCall \subseteq QueuedCall /\ QueuedCall \subseteq Call
  BY DEF GuardedCall, QueuedCall
<1> QED BY <1>1

LEMMA CallTail ==
  ASSUME NEW k \in Call, Len(k) > 1
  PROVE  /\ Tail(k) \in Call
         /\ Tail(k)[1] = k[2]
         /\ Len(Tail(k)) = Len(k) - 1
         /\ k \in LowCall => Tail(k) \in LowCall
<1>1. k \in Seq(GoodStep) /\ k # <<>> /\ Len(k) \in Nat
  BY DEF Call
<1>2. /\ Tail(k) \in Seq(GoodStep)
      /\ Len(Tail(k)) = Len(k) - 1
      /\ \A i \in 1..Len(Tail(k)) : Tail(k)[i] = k[i + 1]
  BY <1>1
<1>3. Tail(k) # <<>> /\ Tail(k)[1] = k[2]
  <2>1. Tail(k) # <<>>
    <3>1. Len(Tail(k)) # 0
      BY <1>1, <1>2
    <3>2. Len(<<>>) = 0
      OBVIOUS
    <3> QED BY <3>1, <3>2, Zenon
  <2>2. 1 \in 1..Len(Tail(k)) /\ 1 + 1 = 2
    BY <1>1, <1>2
  <2>3. Tail(k)[1] = k[1 + 1]
    BY <1>2, <2>2, Zenon
  <2> QED BY <2>1, <2>2, <2>3
<1>4. ASSUME NEW i \in 2..Len(Tail(k))
      PROVE  /\ High(Tail(k)[i]) =>
                  \/ Tail(k)[i - 1].do = "verify"
                  \/ Tail(k)[i - 1].do = "release" /\ ~FreeRelease(Tail(k)[i - 1])
             /\ Tail(k)[i].do = "release" => Tail(k)[i - 1].do = "guard"
             /\ (Tail(k)[i].do = "verify" /\ i < Len(Tail(k))) =>
                  Tail(k)[i - 1].do = "curve" /\ MeetsFloor(Tail(k)[i - 1].curve)
  <2>1. /\ Tail(k)[i] = k[i + 1]
        /\ Tail(k)[i - 1] = k[i]
        /\ i + 1 \in 2..Len(k) /\ (i + 1) - 1 = i
        /\ i < Len(Tail(k)) <=> i + 1 < Len(k)
    BY <1>1, <1>2
  <2> QED BY <2>1 DEF Call
<1>5. ASSUME k \in LowCall PROVE Tail(k) \in LowCall
  <2>1. ASSUME NEW i \in 1..Len(Tail(k)) PROVE ~High(Tail(k)[i])
    <3>1. Tail(k)[i] = k[i + 1] /\ i + 1 \in 1..Len(k)
      BY <1>1, <1>2
    <3> QED BY <1>5, <3>1, Zenon DEF LowCall
  <2> QED BY <1>2, <2>1, Zenon DEF LowCall
<1> QED BY <1>2, <1>3, <1>4, <1>5 DEF Call

\* What the second step of a call tells about the first.
LEMMA SecondStep ==
  ASSUME NEW k \in Call, Len(k) > 1
  PROVE  /\ High(k[2]) =>
              \/ k[1].do = "verify"
              \/ k[1].do = "release" /\ ~FreeRelease(k[1])
         /\ FreeRelease(k[2]) => k[1].do = "guard"
         /\ (k[2].do = "verify" /\ Len(k) > 2) =>
              k[1].do = "curve" /\ MeetsFloor(k[1].curve)
<1>1. Len(k) \in Nat
  BY DEF Call
<1>2. 2 \in 2..Len(k) /\ 2 - 1 = 1 /\ (2 < Len(k) <=> Len(k) > 2)
  BY <1>1
<1>3. FreeRelease(k[2]) => k[2].do = "release"
  BY DEF FreeRelease
<1> QED BY <1>2, <1>3 DEF Call

\* The state of a started operation, taken apart.
LEMMA Started ==
  ASSUME Shape(todo), todo # <<>>
  PROVE  /\ Head(todo) \in Call
         /\ Tail(todo) \in Seq(QueuedCall)
         /\ Len(Head(todo)) \in Nat \ {0}
         /\ Now = Head(todo)[1]
         /\ Now \in GoodStep
<1>1. Head(todo) \in Call /\ Tail(todo) \in Seq(QueuedCall)
  BY DEF Shape
<1>2. Head(todo) \in Seq(GoodStep) /\ Head(todo) # <<>>
  BY <1>1 DEF Call
<1> QED BY <1>1, <1>2 DEF Now

\* A queue of calls none of which has started.
LEMMA QueuedSafe ==
  ASSUME todo' \in Seq(QueuedCall),
         todo' \in Seq(GuardedCall) \/ (todo' \in Seq(LowCall) /\ inForce' <= TDPMaxSafe)
  PROVE  Shape(todo') /\ NextStepSafe' /\ ReleaseToComeSafe'
<1>1. Shape(todo')
  BY Widen DEF Shape
<1>2. NextStepSafe'
  <2> SUFFICES ASSUME todo' # <<>> PROVE NextStepSafe'
    BY DEF NextStepSafe
  <2>1. Head(todo') \in QueuedCall
    OBVIOUS
  <2>2. ~High(Head(todo')[1]) /\ Head(todo')[1].do # "verify"
    BY <2>1 DEF QueuedCall
  <2>3. FreeRelease(Head(todo')[1]) => inForce' <= TDPMaxSafe
    <3>1. todo' \in Seq(GuardedCall) => Head(todo') \in GuardedCall
      OBVIOUS
    <3> QED BY <3>1 DEF GuardedCall
  <2> QED BY <2>2, <2>3 DEF NextStepSafe
<1>3. ReleaseToComeSafe'
  <2>1. (todo' # <<>> /\ todo' \in Seq(GuardedCall)) => Tail(todo') \in Seq(GuardedCall)
    OBVIOUS
  <2> QED BY <2>1 DEF ReleaseToComeSafe
<1> QED BY <1>1, <1>2, <1>3

LEMMA GuardedSafe ==
  ASSUME todo' \in Seq(GuardedCall)
  PROVE  Shape(todo') /\ NextStepSafe' /\ ReleaseToComeSafe'
BY Widen, QueuedSafe

\* What the rest of the queue is, once the call under way has ended.
LEMMA RestQueued ==
  ASSUME Shape(todo), todo # <<>>, ReleaseToComeSafe
  PROVE  /\ Tail(todo) \in Seq(QueuedCall)
         /\ \/ Tail(todo) \in Seq(GuardedCall)
            \/ /\ todo \in Seq(LowCall) /\ Tail(todo) \in Seq(LowCall)
               /\ \/ inForce <= TDPMaxSafe
                  \/ Len(Head(todo)) = 1 /\ Now.do = "limit" /\ Now.must
<1>1. todo \in Seq(LowCall) => Tail(todo) \in Seq(LowCall)
  OBVIOUS
<1> QED BY <1>1, Started DEF ReleaseToComeSafe

\* An operation goes on after a step that failed.
LEMMA FailedSafe ==
  ASSUME Shape(todo), todo # <<>>, ReleaseToComeSafe, Failed,
         (todo \in Seq(LowCall) /\ inForce <= TDPMaxSafe) => inForce' <= TDPMaxSafe
  PROVE  Shape(todo') /\ NextStepSafe' /\ ReleaseToComeSafe'
<1>1. CASE Now.must
  BY <1>1, GuardedSafe DEF Failed
<1>2. CASE ~Now.must
  BY <1>2, RestQueued, QueuedSafe DEF Failed
<1> QED BY <1>1, <1>2

\* An operation goes on after a step that succeeded, when the next step of
\* its call is safe.
LEMMA DoneSafe ==
  ASSUME Shape(todo), todo # <<>>, ReleaseToComeSafe, Done,
         (todo \in Seq(LowCall) /\ (inForce <= TDPMaxSafe \/ Now.do = "limit"))
           => inForce' <= TDPMaxSafe,
         Len(Head(todo)) > 1 =>
           LET s == Head(todo)[2] IN
           /\ (s.do = "verify" /\ Len(Head(todo)) > 2) => FloorOnFans'
           /\ High(s) => FloorOnFans' /\ FloorEnabled'
           /\ FreeRelease(s) => inForce' <= TDPMaxSafe
  PROVE  Shape(todo') /\ NextStepSafe' /\ ReleaseToComeSafe'
<1> DEFINE k == Head(todo)
           r == Tail(todo)
<1>1. CASE Len(k) > 1
  <2>1. k \in Call /\ r \in Seq(QueuedCall) /\ Len(k) \in Nat
    BY Started
  <2>2. /\ Tail(k) \in Call /\ Tail(k)[1] = k[2] /\ Len(Tail(k)) = Len(k) - 1
        /\ k \in LowCall => Tail(k) \in LowCall
    BY <1>1, <2>1, CallTail
  <2>3. todo' = <<Tail(k)>> \o r
    BY <1>1 DEF Done
  <2>4. /\ todo' \in Seq(Call) /\ todo' # <<>>
        /\ Head(todo') = Tail(k) /\ Tail(todo') = r
    <3>1. r \in Seq(Call)
      BY <2>1, Widen
    <3> HIDE DEF k, r
    <3> QED BY <2>2, <2>3, <3>1, Cons
  <2>5. Shape(todo')
    BY <2>1, <2>4 DEF Shape
  <2>6. NextStepSafe'
    <3>1. Len(Tail(k)) > 1 <=> Len(k) > 2
      BY <2>1, <2>2
    <3> QED BY <1>1, <2>2, <2>4, <3>1 DEF NextStepSafe
  <2>7. ReleaseToComeSafe'
    <3>1. CASE r \in Seq(GuardedCall)
      BY <2>4, <3>1 DEF ReleaseToComeSafe
    <3>2. CASE todo \in Seq(LowCall) /\ (inForce <= TDPMaxSafe \/ Now.do = "limit")
      <4>1. k \in LowCall /\ r \in Seq(LowCall)
        BY <3>2
      <4>2. todo' \in Seq(LowCall)
        <5> HIDE DEF k, r
        <5> QED BY <2>2, <2>3, <4>1, Cons
      <4> QED BY <3>2, <4>2 DEF ReleaseToComeSafe
    <3> QED BY <3>1, <3>2, RestQueued
  <2> QED BY <2>5, <2>6, <2>7
<1>2. CASE ~(Len(k) > 1)
  <2>1. todo' = r
    BY <1>2 DEF Done
  <2> QED BY <2>1, RestQueued, QueuedSafe
<1> QED BY <1>1, <1>2

\* A step that puts calls of its own in the place of its call.
LEMMA ReplacedSafe ==
  ASSUME Shape(todo), todo # <<>>, ReleaseToComeSafe, inForce' = inForce,
         Now.do # "limit",
         NEW q \in Seq(GuardedCall), q \in Seq(LowCall), todo' = q \o Tail(todo)
  PROVE  Shape(todo') /\ NextStepSafe' /\ ReleaseToComeSafe'
<1> DEFINE r == Tail(todo)
<1>1. r \in Seq(QueuedCall) /\ q \in Seq(QueuedCall)
  BY RestQueued, Widen
<1>2. todo' \in Seq(QueuedCall)
  <2> HIDE DEF r
  <2> QED BY <1>1 DEF r
<1>3. r \in Seq(GuardedCall) => todo' \in Seq(GuardedCall)
  OBVIOUS
<1>4. r \in Seq(LowCall) => todo' \in Seq(LowCall)
  OBVIOUS
<1> QED BY <1>2, <1>3, <1>4, RestQueued, QueuedSafe

\* The machine moves between two steps without lowering its defences.
LEMMA StillSafe ==
  ASSUME Shape(todo), NextStepSafe, ReleaseToComeSafe, UNCHANGED todo,
         inForce <= TDPMaxSafe => inForce' <= TDPMaxSafe,
         FloorOnFans => FloorOnFans', FloorEnabled => FloorEnabled'
  PROVE  Shape(todo') /\ NextStepSafe' /\ ReleaseToComeSafe'
<1>1. Shape(todo')
  OBVIOUS
<1>2. NextStepSafe'
  BY DEF NextStepSafe
<1>3. ReleaseToComeSafe'
  BY DEF ReleaseToComeSafe
<1> QED BY <1>1, <1>2, <1>3

-----------------------------------------------------------------------------
(* Every step preserves the invariant.                                     *)

LEMMA ShapeTyped == \A t : Shape(t) => t \in Seq(Seq(Step))
<1>1. GoodStep \subseteq Step
  BY DEF GoodStep
<1>2. Call \subseteq Seq(Step)
  BY <1>1 DEF Call
<1> QED BY <1>2 DEF Shape

\* What a started step carries.
LEMMA NowTyped ==
  ASSUME Now \in GoodStep
  PROVE  /\ Now.watts \in Limit
         /\ Now.curve \in MaybeCurve
         /\ Now.name \in MaybeProfile
         /\ Now.active \in MaybeProfile
         /\ Now.must \in BOOLEAN
         /\ Now.do = "curve" => Now.curve \in FanCurve
         /\ Now.do \in {"profile", "restore"} => Now.name \in StockProfiles
<1> DEFINE s == Now
<1>1. s \in GoodStep
  OBVIOUS
<1> HIDE DEF s
<1>2. /\ s.watts \in Limit
      /\ s.curve \in MaybeCurve
      /\ s.name \in MaybeProfile
      /\ s.active \in MaybeProfile
      /\ s.must \in BOOLEAN
  BY <1>1 DEF GoodStep, Step
<1>3. /\ s.do = "curve" => s.curve \in FanCurve
      /\ s.do \in {"profile", "restore"} => s.name \in StockProfiles
  BY <1>1 DEF GoodStep
<1> QED BY <1>2, <1>3 DEF s

\* A curve has the registers' type, whole or torn, and a torn one no PWM of
\* its own.
LEMMA CurveRegisters == FanCurve \subseteq Registers
  BY DEF FanCurve, Registers

LEMMA TornRegisters ==
  ASSUME NEW old \in Registers, NEW new \in Registers, NEW n \in TornAt
  PROVE  /\ TornCurve(old, new, n) \in Registers
         /\ \A j \in Index : TornCurve(old, new, n)[j].pwm \in {old[j].pwm, new[j].pwm}
<1>1. \A j \in Index : old[j] \in Point /\ new[j] \in Point
  BY DEF Registers
<1>2. ASSUME NEW t \in 0..120, NEW q \in 0..255 PROVE [temp |-> t, pwm |-> q] \in Point
  BY DEF Point
<1>3. \A j \in Index : TornCurve(old, new, n)[j] \in Point
  <2> TAKE j \in Index
  <2>1. /\ old[j].temp \in 0..120 /\ new[j].temp \in 0..120
        /\ old[j].pwm \in 0..255 /\ new[j].pwm \in 0..255
    BY <1>1 DEF Point
  <2> QED BY <1>2, <2>1 DEF TornCurve
<1>4. TornCurve(old, new, n) \in Registers
  BY <1>3 DEF TornCurve, Registers
<1> QED BY <1>4 DEF TornCurve

\* What a curve write that fails, or is cut short, leaves on each fan.
LEMMA WriteCurveTorn ==
  ASSUME TypeOK, PartOfCurve, NEW i \in Fan
  PROVE  /\ fan' = [k \in Fan |-> fan'[k]]
         /\ fan'[i] = [mode |-> fan'[i].mode, curve |-> fan'[i].curve]
         /\ fan'[i].mode \in {1, fan[i].mode}
         /\ \/ fan'[i].curve \in {fan[i].curve, Now.curve}
            \/ \E n \in TornAt : fan'[i].curve = TornCurve(fan[i].curve, Now.curve, n)
<1>1. CASE \E f \in Fan, n \in TornAt :
             fan' = [k \in Fan |->
                       [mode  |-> fan[k].mode,
                        curve |-> IF k < f THEN Now.curve
                                  ELSE IF k = f THEN TornCurve(fan[k].curve, Now.curve, n)
                                  ELSE fan[k].curve]]
  BY <1>1
<1>2. CASE \E f \in Fan :
             fan' = [k \in Fan |-> [mode  |-> IF k < f THEN 1 ELSE fan[k].mode,
                                   curve |-> Now.curve]]
  BY <1>2
<1> QED BY <1>1, <1>2 DEF PartOfCurve

LEMMA WriteCurveTyped ==
  ASSUME TypeOK, PartOfCurve, Now.curve \in FanCurve
  PROVE  fan' \in [Fan -> [mode : {1, 2}, curve : Registers]]
<1> DEFINE c == Now.curve
           One == [mode : {1, 2}, curve : Registers]
<1>1. c \in Registers /\ \A j \in Fan : fan[j].mode \in {1, 2} /\ fan[j].curve \in Registers
  BY CurveRegisters DEF TypeOK
<1>2. ASSUME NEW j \in Fan PROVE fan'[j] \in One
  <2>1. /\ fan'[j] = [mode |-> fan'[j].mode, curve |-> fan'[j].curve]
        /\ fan'[j].mode \in {1, fan[j].mode}
        /\ \/ fan'[j].curve \in {fan[j].curve, c}
           \/ \E n \in TornAt : fan'[j].curve = TornCurve(fan[j].curve, c, n)
    BY WriteCurveTorn
  <2> HIDE DEF c
  <2>2. fan'[j].mode \in {1, 2}
    BY <1>1, <2>1
  <2>3. fan'[j].curve \in Registers
    <3> DEFINE old == fan[j].curve
    <3>1. old \in Registers
      BY <1>1
    <3>2. \A n \in TornAt : TornCurve(old, c, n) \in Registers
      <4> HIDE DEF old
      <4> QED BY <1>1, <3>1, TornRegisters
    <3> QED BY <1>1, <2>1, <3>1, <3>2, Zenon
  <2>4. \A m \in {1, 2}, r \in Registers : [mode |-> m, curve |-> r] \in One
    OBVIOUS
  <2> QED BY <2>1, <2>2, <2>3, <2>4, Zenon
<1>3. fan' = [j \in Fan |-> fan'[j]]
  BY WriteCurveTorn DEF Fan
<1> QED BY <1>2, <1>3

\* A policy write leaves the points and a limit below the floor's.
LEMMA TakenOver ==
  ASSUME TypeOK, NEW p \in StockProfiles, FirmwareTakesOver(p)
  PROVE  /\ platform' \in StockProfiles
         /\ fan' \in [Fan -> [mode : {1, 2}, curve : Registers]]
         /\ inForce' \in Limit /\ inForce' <= TDPMaxSafe
         /\ pending' \in BOOLEAN /\ cache' = cache
         /\ \A j \in Fan : fan'[j].curve = fan[j].curve
         /\ FloorOnFans => FloorOnFans'
         /\ UNCHANGED watching => FloorEnabled'
<1>1. inForce' \in Limit /\ inForce' <= TDPMaxSafe
  <2>1. inForce' \in 1..TDPMaxSafe
    BY PowerAssumption DEF FirmwareTakesOver
  <2> QED BY <2>1, Bounds
<1>2. ASSUME NEW j \in Fan
      PROVE  /\ fan'[j] \in [mode : {1, 2}, curve : Registers]
             /\ fan'[j].curve = fan[j].curve
  <2> DEFINE f == fan[j]
  <2>1. f \in [mode : {1, 2}, curve : Registers]
    BY DEF TypeOK
  <2>2. fan'[j] = [f EXCEPT !.mode = 2]
    BY DEF FirmwareTakesOver
  <2> HIDE DEF f
  <2>3. /\ [f EXCEPT !.mode = 2] \in [mode : {1, 2}, curve : Registers]
        /\ [f EXCEPT !.mode = 2].curve = f.curve
    BY <2>1
  <2> QED BY <2>2, <2>3, Zenon DEF f
<1>3. \A j \in Fan : fan'[j].curve = fan[j].curve
  BY <1>2
<1>4. fan' \in [Fan -> [mode : {1, 2}, curve : Registers]]
  <2>1. fan' = [j \in Fan |-> fan'[j]]
    BY DEF FirmwareTakesOver
  <2> QED BY <1>2, <2>1
<1>5. FloorOnFans => FloorOnFans'
  BY <1>3, Zenon DEF FloorOnFans
<1>6. pending' = watching /\ watching \in BOOLEAN
  BY DEF FirmwareTakesOver, TypeOK
<1>7. UNCHANGED watching => FloorEnabled'
  BY <1>6 DEF FloorEnabled
<1> QED BY <1>1, <1>3, <1>4, <1>5, <1>6, <1>7 DEF FirmwareTakesOver

LEMMA WriteCurveSafe ==
  ASSUME IInv, WriteCurve \/ WriteCurveFails
  PROVE  IInv'
<1> USE DEF IInv
<1>1. todo # <<>> /\ Now.do = "curve" /\ Now \in GoodStep /\ Now = Head(todo)[1]
  BY Started DEF WriteCurve, WriteCurveFails, Doing
<1>2. Now.curve \in FanCurve
  BY <1>1, NowTyped
<1>3. UNCHANGED <<platform, cache, inForce, pending, memory, disk, latches>>
  BY DEF WriteCurve, WriteCurveFails
<1>4. fan' \in [Fan -> [mode : {1, 2}, curve : Registers]]
  <2> DEFINE c == Now.curve
             One == [mode : {1, 2}, curve : Registers]
  <2>1. c \in Registers /\ \A j \in Fan : fan[j].mode \in {1, 2} /\ fan[j].curve \in Registers
    BY <1>2, CurveRegisters DEF TypeOK
  <2>2. CASE WriteCurve
    <3>1. fan' = [j \in Fan |-> [mode |-> 1, curve |-> c]]
      BY <2>2 DEF WriteCurve
    <3>2. [mode |-> 1, curve |-> c] \in One
      BY <2>1
    <3> QED BY <3>1, <3>2
  <2>3. CASE WriteCurveFails
    BY <1>2, <2>3, WriteCurveTyped DEF WriteCurveFails
  <2> QED BY <2>2, <2>3
<1>5. Shape(todo') /\ NextStepSafe' /\ ReleaseToComeSafe'
  <2>1. CASE WriteCurve
    <3> DEFINE k == Head(todo)
    <3>1. ASSUME Len(k) > 1
          PROVE  /\ (k[2].do = "verify" /\ Len(k) > 2) => FloorOnFans'
                 /\ ~High(k[2])
                 /\ ~FreeRelease(k[2])
      <4>1. k \in Call
        BY <1>1, Started
      <4>2. \A j \in Fan : fan'[j].curve = Now.curve
        BY <2>1 DEF WriteCurve
      <4>3. MeetsFloor(Now.curve) => FloorOnFans'
        BY <4>2, Zenon DEF FloorOnFans
      <4> QED BY <1>1, <3>1, <4>1, <4>3, SecondStep
    <3>2. Done
      BY <2>1 DEF WriteCurve
    <3> QED BY <1>1, <1>3, <3>1, <3>2, DoneSafe
  <2>2. CASE WriteCurveFails
    <3>1. Failed
      BY <2>2 DEF WriteCurveFails
    <3> QED BY <1>1, <1>3, <3>1, FailedSafe
  <2> QED BY <2>1, <2>2
<1>6. TypeOK'
  BY <1>3, <1>4, <1>5, ShapeTyped DEF TypeOK, memory, latches, StateInMemory
<1>7. HighLimitShown'
  BY <1>3 DEF HighLimitShown
<1> QED BY <1>5, <1>6, <1>7

LEMMA VerifySafe ==
  ASSUME IInv, VerifyFanCurveActive
  PROVE  IInv'
<1> USE DEF IInv
<1>1. todo # <<>> /\ Now.do = "verify" /\ Now = Head(todo)[1]
  BY Started DEF VerifyFanCurveActive, Doing
<1>2. UNCHANGED <<hardware, memory, disk, latches>>
  BY DEF VerifyFanCurveActive
<1>3. FloorOnFans => FloorOnFans'
  BY <1>2 DEF FloorOnFans, hardware
<1>4. Shape(todo') /\ NextStepSafe' /\ ReleaseToComeSafe'
  <2>1. inForce' = inForce
    BY <1>2 DEF hardware
  <2>2. CASE \A j \in Fan : fan[j].mode = 1
    <3> DEFINE k == Head(todo)
    <3>1. Done
      BY <2>2 DEF VerifyFanCurveActive
    <3>2. FloorEnabled'
      BY <1>2, <2>2 DEF FloorEnabled, hardware
    <3>3. ASSUME Len(k) > 1
          PROVE  /\ ~(k[2].do = "verify" /\ Len(k) > 2)
                 /\ High(k[2]) => FloorOnFans' /\ FloorEnabled'
                 /\ ~FreeRelease(k[2])
      <4>1. FloorOnFans
        BY <1>1, <3>3 DEF NextStepSafe
      <4>2. k \in Call
        BY <1>1, Started
      <4> QED BY <1>1, <1>3, <3>2, <3>3, <4>1, <4>2, SecondStep
    <3> QED BY <1>1, <2>1, <3>1, <3>3, DoneSafe
  <2>3. CASE ~(\A j \in Fan : fan[j].mode = 1)
    <3>1. Failed
      BY <2>3 DEF VerifyFanCurveActive
    <3> QED BY <1>1, <2>1, <3>1, FailedSafe
  <2> QED BY <2>2, <2>3
<1>5. TypeOK'
  BY <1>2, <1>4, ShapeTyped DEF TypeOK, hardware, memory, latches
<1>6. HighLimitShown'
  BY <1>2 DEF HighLimitShown, hardware
<1> QED BY <1>4, <1>5, <1>6

\* In an operation made of low calls only, a limit is a low one.
LEMMA LowLimit ==
  ASSUME Shape(todo), todo # <<>>, todo \in Seq(LowCall), Now.do = "limit"
  PROVE  Now.watts <= TDPMaxSafe
<1>1. Head(todo) \in LowCall /\ Now = Head(todo)[1] /\ Now \in GoodStep
      /\ Len(Head(todo)) \in Nat \ {0}
  BY Started
<1>2. ~High(Now)
  BY <1>1 DEF LowCall
<1>3. Now.watts \in Limit
  BY <1>1, NowTyped
<1> DEFINE w == Now.watts
<1>4. w \in 0..93 /\ ~(w > TDPMaxSafe)
  BY <1>2, <1>3, Bounds, Zenon DEF High
<1> HIDE DEF w
<1>5. w <= TDPMaxSafe
  BY <1>4, Bounds
<1> QED BY <1>5 DEF w

\* Steps that no dangerous step may follow.
LEMMA DullStep ==
  ASSUME Shape(todo), todo # <<>>, Now.do \notin {"curve", "verify", "guard"},
         ~(Now.do = "release" /\ ~FreeRelease(Now)), Len(Head(todo)) > 1
  PROVE  LET s == Head(todo)[2] IN
         /\ ~(s.do = "verify" /\ Len(Head(todo)) > 2)
         /\ ~High(s)
         /\ ~FreeRelease(s)
BY Started, SecondStep

LEMMA WriteLimitSafe ==
  ASSUME IInv, WriteLimit \/ WriteLimitFails
  PROVE  IInv'
<1> USE DEF IInv
<1>1. todo # <<>> /\ Now.do = "limit" /\ Now \in GoodStep
  BY Started DEF WriteLimit, WriteLimitFails, Doing
<1>2. Now.watts \in Limit
  BY <1>1, NowTyped
<1>3. UNCHANGED <<platform, fan, pending, memory, disk, lastHW, policyWritten, watching>>
  BY DEF WriteLimit, WriteLimitFails, latches
<1>4. \/ cache' = Now.watts /\ inForce' = Now.watts
      \/ WriteLimitFails /\ UNCHANGED <<cache, inForce>>
  BY DEF WriteLimit, WriteLimitFails
<1>5. floorLimit' \in Limit
  BY <1>2, Bounds DEF WriteLimit, WriteLimitFails, TypeOK, latches
<1>6. Shape(todo') /\ NextStepSafe' /\ ReleaseToComeSafe'
  <2>1. CASE WriteLimit
    <3>1. Done /\ inForce' = Now.watts
      BY <2>1 DEF WriteLimit
    <3>2. ~FreeRelease(Now)
      BY <1>1 DEF FreeRelease
    <3> QED BY <1>1, <3>1, <3>2, LowLimit, DullStep, DoneSafe
  <2>2. CASE WriteLimitFails
    <3>1. Failed
      BY <2>2 DEF WriteLimitFails
    <3> QED BY <1>1, <1>4, <3>1, LowLimit, FailedSafe
  <2> QED BY <2>1, <2>2
<1>7. TypeOK'
  BY <1>2, <1>3, <1>4, <1>5, <1>6, ShapeTyped DEF TypeOK, memory
<1>8. HighLimitShown'
  BY <1>4 DEF HighLimitShown
<1> QED BY <1>6, <1>7, <1>8

LEMMA GuardSafe ==
  ASSUME IInv, CheckFanFloorRelease
  PROVE  IInv'
<1> USE DEF IInv
<1>1. todo # <<>> /\ Now.do = "guard" /\ Now = Head(todo)[1]
  BY Started DEF CheckFanFloorRelease, Doing
<1>2. UNCHANGED <<hardware, memory, disk, latches>>
  BY DEF CheckFanFloorRelease
<1>3. inForce' = inForce
  BY <1>2 DEF hardware
<1>4. Shape(todo') /\ NextStepSafe' /\ ReleaseToComeSafe'
  <2>1. CASE CheckFanFloorReleaseAt(cache)
    <3>1. Done
      BY <2>1 DEF CheckFanFloorRelease
    <3>2. inForce' <= TDPMaxSafe
      BY <1>3, <2>1, Bounds DEF CheckFanFloorReleaseAt, HighLimitShown, TypeOK
    <3>3. ASSUME Len(Head(todo)) > 1
          PROVE  /\ ~(Head(todo)[2].do = "verify" /\ Len(Head(todo)) > 2)
                 /\ ~High(Head(todo)[2])
      BY <1>1, <3>3, Started, SecondStep
    <3> QED BY <1>1, <1>3, <3>1, <3>2, <3>3, DoneSafe
  <2>2. CASE ~CheckFanFloorReleaseAt(cache)
    <3>1. Failed
      BY <2>2 DEF CheckFanFloorRelease
    <3> QED BY <1>1, <1>3, <3>1, FailedSafe
  <2> QED BY <2>1, <2>2
<1>5. TypeOK'
  BY <1>2, <1>4, ShapeTyped DEF TypeOK, hardware, memory, latches
<1>6. HighLimitShown'
  BY <1>2 DEF HighLimitShown, hardware
<1> QED BY <1>4, <1>5, <1>6

LEMMA ReleaseSafe ==
  ASSUME IInv, RefuseRelease \/ Release \/ ReleaseFails
  PROVE  IInv'
<1> USE DEF IInv
<1>1. todo # <<>> /\ Now.do = "release"
  BY DEF RefuseRelease, Release, ReleaseFails, Doing
<1>2. UNCHANGED <<memory, disk, latches>>
  BY DEF RefuseRelease, Release, ReleaseFails
<1>3. platform \in StockProfiles
  BY DEF TypeOK
<1>4. \/ FirmwareTakesOver(platform)
      \/ (RefuseRelease \/ ReleaseFails) /\ UNCHANGED hardware
  BY DEF RefuseRelease, Release, ReleaseFails
<1>5. inForce <= TDPMaxSafe => inForce' <= TDPMaxSafe
  BY <1>3, <1>4, TakenOver DEF hardware
<1>6. Shape(todo') /\ NextStepSafe' /\ ReleaseToComeSafe'
  <2>1. CASE Release
    <3>1. Done /\ FreeRelease(Now) /\ inForce' <= TDPMaxSafe
      BY <1>1, <1>3, <2>1, TakenOver DEF Release, FreeRelease
    <3> QED BY <1>1, <3>1, DullStep, DoneSafe
  <2>2. CASE RefuseRelease \/ ReleaseFails
    <3>1. Failed
      BY <2>2 DEF RefuseRelease, ReleaseFails
    <3> QED BY <1>1, <1>5, <3>1, FailedSafe
  <2> QED BY <2>1, <2>2
<1>7. TypeOK'
  <2>1. CASE FirmwareTakesOver(platform)
    BY <1>2, <1>3, <1>6, <2>1, TakenOver, ShapeTyped DEF TypeOK, memory, latches
  <2>2. CASE UNCHANGED hardware
    BY <1>2, <1>6, <2>2, ShapeTyped DEF TypeOK, hardware, memory, latches
  <2> QED BY <1>4, <2>1, <2>2
<1>8. HighLimitShown'
  <2>1. CASE FirmwareTakesOver(platform)
    <3>1. inForce' \in Limit /\ inForce' <= TDPMaxSafe
      BY <1>3, <2>1, TakenOver
    <3> QED BY <3>1, Bounds DEF HighLimitShown
  <2>2. CASE UNCHANGED hardware
    BY <2>2 DEF HighLimitShown, hardware
  <2> QED BY <1>4, <2>1, <2>2
<1> QED BY <1>6, <1>7, <1>8

LEMMA WriteProfileSafe ==
  ASSUME IInv, WriteProfile \/ WriteProfileFails
  PROVE  IInv'
<1> USE DEF IInv
<1>1. todo # <<>> /\ Now.do = "profile" /\ Now \in GoodStep
  BY Started DEF WriteProfile, WriteProfileFails, Doing
<1>2. UNCHANGED <<memory, disk, latches>>
  BY DEF WriteProfile, WriteProfileFails
<1>3. Now.name \in StockProfiles
  BY <1>1, NowTyped
<1>4. CASE WriteProfile
  <2>1. FirmwareTakesOver(Now.name) /\ Done
    BY <1>4 DEF WriteProfile
  <2>2. ~(Now.do = "release")
    BY <1>1
  <2>3. inForce' \in Limit /\ inForce' <= TDPMaxSafe
    BY <1>3, <2>1, TakenOver
  <2>4. Shape(todo') /\ NextStepSafe' /\ ReleaseToComeSafe'
    BY <1>1, <2>1, <2>2, <2>3, DullStep, DoneSafe
  <2>5. TypeOK'
    BY <1>2, <1>3, <2>1, <2>4, TakenOver, ShapeTyped DEF TypeOK, memory, latches
  <2>6. HighLimitShown'
    BY <2>3, Bounds DEF HighLimitShown
  <2> QED BY <2>4, <2>5, <2>6
<1>5. CASE WriteProfileFails
  <2>1. Failed /\ UNCHANGED hardware
    BY <1>5 DEF WriteProfileFails
  <2>2. Shape(todo') /\ NextStepSafe' /\ ReleaseToComeSafe'
    BY <1>1, <2>1, FailedSafe DEF hardware
  <2>3. TypeOK'
    BY <1>2, <2>1, <2>2, ShapeTyped DEF TypeOK, hardware, memory, latches
  <2>4. HighLimitShown'
    BY <2>1 DEF HighLimitShown, hardware
  <2> QED BY <2>2, <2>3, <2>4
<1> QED BY <1>4, <1>5

LEMMA HardwareStepSafe ==
  ASSUME IInv, HardwareStep
  PROVE  IInv'
BY WriteCurveSafe, VerifySafe, WriteLimitSafe, GuardSafe, ReleaseSafe, WriteProfileSafe
   DEF HardwareStep

LEMMA ChooseRestoreSafe ==
  ASSUME IInv, ChooseRestore
  PROVE  IInv'
<1> USE DEF IInv
<1>1. todo # <<>> /\ Now.do = "restore" /\ Now \in GoodStep
  BY Started DEF ChooseRestore, Doing
<1>2. UNCHANGED <<hardware, memory, disk, latches>>
  BY DEF ChooseRestore
<1> DEFINE p == Now.name
           q == IF \A j \in Fan : fan[j].mode = 2
                THEN HandBackToFirmware(p)
                ELSE << SetTDPState(Firmware[p], FALSE) >>
<1>3. p \in StockProfiles
  BY <1>1, NowTyped
<1>4. q \in Seq(GuardedCall) /\ q \in Seq(LowCall)
  <2>1. HandBackToFirmware(p) \in Seq(GuardedCall) \cap Seq(LowCall)
    BY <1>3, HandBackCalls
  <2>2. Firmware[p] \in Limit /\ Firmware[p] <= TDPMaxSafe
    BY <1>3, PowerAssumption, Bounds
  <2> DEFINE k == SetTDPState(Firmware[p], FALSE)
  <2>3. k \in GuardedCall \cap LowCall
    BY <2>2, LimitCall
  <2> HIDE DEF k
  <2>4. <<k>> \in Seq(GuardedCall) /\ <<k>> \in Seq(LowCall)
    BY <2>3
  <2> QED BY <2>1, <2>4 DEF k
<1>5. todo' = q \o Tail(todo)
  BY DEF ChooseRestore
<1>6. inForce' = inForce
  BY <1>2 DEF hardware
<1> HIDE DEF q
<1>7. Shape(todo') /\ NextStepSafe' /\ ReleaseToComeSafe'
  BY <1>1, <1>4, <1>5, <1>6, ReplacedSafe
<1>8. TypeOK'
  BY <1>2, <1>7, ShapeTyped DEF TypeOK, hardware, memory, latches
<1>9. HighLimitShown'
  BY <1>2 DEF HighLimitShown, hardware
<1> QED BY <1>7, <1>8, <1>9

LEMMA ReconcileCurveSafe ==
  ASSUME IInv, ReconcileCurve
  PROVE  IInv'
<1> USE DEF IInv
<1>1. todo # <<>> /\ Now.do = "reconcile" /\ Now \in GoodStep
  BY Started DEF ReconcileCurve, Doing
<1>2. UNCHANGED <<hardware, memory, disk, lastHW, policyWritten, watching>>
  BY DEF ReconcileCurve
<1> DEFINE c == ReconcileCurveFor(floorLimit, Now.curve)
           q == IF c = NoCurve THEN <<>> ELSE << SetBothFanCurves(c, FALSE) >>
<1>3. c \in MaybeCurve
  <2>1. floorLimit \in Int /\ Now.curve \in FanCurve \cup {NoCurve}
    BY <1>1, NowTyped, Bounds DEF TypeOK, MaybeCurve
  <2>2. FanCurveForTDP(floorLimit, Now.curve) \in FanCurve \cup {NoCurve}
    BY <2>1, FloorForTDP, Bounds
  <2> QED BY <2>1, <2>2 DEF ReconcileCurveFor, MaybeCurve
<1>4. q \in Seq(GuardedCall) /\ q \in Seq(LowCall)
  <2>1. CASE c = NoCurve
    BY <2>1
  <2>2. CASE c # NoCurve
    <3> DEFINE k == SetBothFanCurves(c, FALSE)
    <3>1. k \in GuardedCall \cap LowCall
      BY <1>3, <2>2, CurveCall DEF MaybeCurve
    <3>2. q = <<k>>
      BY <2>2
    <3> HIDE DEF k, q
    <3> QED BY <3>1, <3>2
  <2> QED BY <2>1, <2>2
<1>5. todo' = q \o Tail(todo)
  BY DEF ReconcileCurve
<1>6. inForce' = inForce
  BY <1>2 DEF hardware
<1>7. floorLimit' \in Limit
  BY Bounds DEF ReconcileCurve
<1> HIDE DEF q, c
<1>8. Shape(todo') /\ NextStepSafe' /\ ReleaseToComeSafe'
  BY <1>1, <1>4, <1>5, <1>6, ReplacedSafe
<1>9. TypeOK'
  BY <1>2, <1>7, <1>8, ShapeTyped DEF TypeOK, hardware, memory
<1>10. HighLimitShown'
  BY <1>2 DEF HighLimitShown, hardware
<1> QED BY <1>8, <1>9, <1>10

LEMMA SaveSafe ==
  ASSUME IInv, Commit \/ Save \/ SaveFails
  PROVE  IInv'
<1> USE DEF IInv
<1>1. todo # <<>> /\ Now.do \in {"commit", "save"} /\ Now \in GoodStep /\ Done
  BY Started DEF Commit, Save, SaveFails, Doing
<1>2. UNCHANGED <<hardware, latches>>
  BY DEF Commit, Save, SaveFails
<1>3. Shape(todo') /\ NextStepSafe' /\ ReleaseToComeSafe'
  <2>1. inForce' = inForce
    BY <1>2 DEF hardware
  <2> QED BY <1>1, <2>1, DullStep, DoneSafe
<1>4. active' \in MaybeProfile /\ saved' \in [Names -> Settings] /\ disk' \in Memory
  <2>1. active \in MaybeProfile /\ saved \in [Names -> Settings] /\ disk \in Memory
    BY DEF TypeOK
  <2>2. CASE Commit
    <3> DEFINE new == [curve |-> Now.curve, tdp |-> Now.watts]
    <3>1. /\ saved' = [n \in Names |-> IF n = Now.name THEN new ELSE saved[n]]
          /\ active' = IF Now.active = NoName THEN active ELSE Now.active
          /\ disk' = disk
      BY <2>2 DEF Commit
    <3>2. new \in Settings /\ Now.active \in MaybeProfile
      BY <1>1, NowTyped DEF Settings
    <3> HIDE DEF new
    <3>3. saved' \in [Names -> Settings]
      BY <2>1, <3>1, <3>2
    <3> QED BY <2>1, <3>1, <3>2, <3>3
  <2>3. CASE Save \/ SaveFails
    <3>1. /\ active' = active /\ saved' = saved
          /\ disk' = disk \/ disk' = StateInMemory
      BY <2>3 DEF Save, SaveFails, memory
    <3>2. StateInMemory \in Memory
      BY <2>1 DEF StateInMemory, Memory
    <3> QED BY <2>1, <3>1, <3>2
  <2> QED BY <2>2, <2>3 DEF Commit, Save, SaveFails
<1>5. TypeOK'
  BY <1>2, <1>3, <1>4, ShapeTyped DEF TypeOK, hardware, latches
<1>6. HighLimitShown'
  BY <1>2 DEF HighLimitShown, hardware
<1> QED BY <1>3, <1>5, <1>6

LEMMA StateStepSafe ==
  ASSUME IInv, StateStep
  PROVE  IInv'
BY ChooseRestoreSafe, ReconcileCurveSafe, SaveSafe DEF StateStep

\* An operation starts: the calls it is made of, with the hardware as it was.
LEMMA OperationSafe ==
  ASSUME IInv, UNCHANGED <<hardware, saved, disk, latches>>,
         active' \in MaybeProfile,
         Shape(todo'), NextStepSafe', ReleaseToComeSafe'
  PROVE  IInv'
<1>1. TypeOK'
  BY ShapeTyped DEF IInv, TypeOK, hardware, latches
<1>2. HighLimitShown'
  BY DEF IInv, HighLimitShown, hardware
<1> QED BY <1>1, <1>2 DEF IInv

\* The profile an edit lands on, and what it holds.
LEMMA EditTarget ==
  ASSUME TypeOK, NEW n \in Names \cup {NoName}
  PROVE  /\ Target(n) \in Names /\ Target(n) \in MaybeProfile
         /\ saved[Target(n)].curve \in MaybeCurve
         /\ saved[Target(n)].tdp \in Limit
         /\ n \in MaybeProfile /\ NoName \in MaybeProfile
<1>1. Target(n) \in Names
  BY ProfileAssumption DEF Target
<1>2. saved[Target(n)] \in Settings
  BY <1>1 DEF TypeOK
<1> DEFINE s == saved[Target(n)]
<1>3. s \in Settings
  BY <1>2
<1> HIDE DEF s
<1>4. s.curve \in MaybeCurve /\ s.tdp \in Limit
  BY <1>3 DEF Settings
<1> QED BY <1>1, <1>4 DEF s, MaybeProfile, Profiles

LEMMA SelectSafe ==
  ASSUME IInv,
         \/ \E p \in StockProfiles : SelectStock(p)
         \/ \E n \in Names : SelectCustom(n)
  PROVE  IInv'
<1> USE DEF IInv
<1>1. active \in MaybeProfile /\ platform \in StockProfiles
  BY DEF TypeOK
<1>2. ASSUME NEW p \in StockProfiles, SelectStock(p) PROVE IInv'
  <2> DEFINE q1 == << SetProfile(p, TRUE) >>
             q2 == HandBackToFirmware(p)
             q3 == CommitAndSave(NoName, NoCurve, 0, p)
  <2>1. q1 \in Seq(GuardedCall)
    <3> DEFINE k == SetProfile(p, TRUE)
    <3>1. k \in GuardedCall
      BY StepCalls
    <3>2. q1 = <<k>>
      OBVIOUS
    <3> HIDE DEF k, q1
    <3> QED BY <3>1, <3>2
  <2>2. q2 \in Seq(GuardedCall)
    BY HandBackCalls
  <2>3. q3 \in Seq(GuardedCall)
    <3>1. p \in MaybeProfile /\ NoName \in MaybeProfile /\ NoCurve \in MaybeCurve
          /\ 0 \in Limit
      BY Bounds DEF MaybeProfile, Profiles, MaybeCurve
    <3> QED BY <3>1, CommitCalls
  <2>4. todo' = q1 \o q2 \o q3 /\ UNCHANGED <<hardware, memory, disk, latches>>
    BY <1>2 DEF SelectStock
  <2> HIDE DEF q1, q2, q3
  <2>5. todo' \in Seq(GuardedCall)
    BY <2>1, <2>2, <2>3, <2>4
  <2> QED BY <1>1, <2>4, <2>5, GuardedSafe, OperationSafe DEF memory
<1>3. ASSUME NEW n \in Names, SelectCustom(n) PROVE IInv'
  <2>1. saved[n] \in Settings
    BY DEF TypeOK
  <2>2. todo' \in Seq(GuardedCall)
    BY <1>1, <1>3, <2>1, ApplyCustomCalls DEF SelectCustom
  <2>3. active' \in MaybeProfile
    BY <1>3 DEF SelectCustom, MaybeProfile, Profiles
  <2>4. UNCHANGED <<hardware, saved, disk, latches>>
    BY <1>3 DEF SelectCustom
  <2> QED BY <2>2, <2>3, <2>4, GuardedSafe, OperationSafe
<1> QED BY <1>2, <1>3

LEMMA SetFanCurveSafe ==
  ASSUME IInv, NEW n \in Names \cup {NoName}, NEW points \in UserCurves,
         SetFanCurve(n, points)
  PROVE  IInv'
<1> USE DEF IInv
<1> DEFINE act == IF Live(n) THEN Target(n) ELSE NoName
           k == SetBothFanCurves(points, TRUE)
           q1 == IF Live(n) THEN << k >> ELSE <<>>
           q2 == CommitAndSave(Target(n), points, saved[Target(n)].tdp, act)
<1>1. points \in FanCurve /\ points \in MaybeCurve
  BY CurveAssumption DEF MaybeCurve
<1>2. q1 \in Seq(GuardedCall)
  <2>1. k \in GuardedCall
    BY <1>1, CurveCall
  <2> HIDE DEF k
  <2> QED BY <2>1
<1>3. q2 \in Seq(GuardedCall)
  <2>1. act \in MaybeProfile
    BY EditTarget
  <2> HIDE DEF act
  <2> QED BY <1>1, <2>1, EditTarget, CommitCalls
<1>4. todo' = q1 \o q2 /\ UNCHANGED <<hardware, memory, disk, latches>>
  BY DEF SetFanCurve
<1> HIDE DEF q1, q2
<1>5. todo' \in Seq(GuardedCall)
  BY <1>2, <1>3, <1>4
<1> QED BY <1>4, <1>5, GuardedSafe, OperationSafe DEF memory, TypeOK

LEMMA ResetFanCurveSafe ==
  ASSUME IInv, NEW n \in Names \cup {NoName}, ResetFanCurve(n)
  PROVE  IInv'
<1> USE DEF IInv
<1> DEFINE act == IF Live(n) THEN Target(n) ELSE NoName
           keep == IF Implicit(n) THEN 0 ELSE saved[Target(n)].tdp
           k == ReleaseFans(keep, TRUE)
           q1 == IF Live(n) THEN << k >> ELSE <<>>
           q2 == IF Implicit(n) THEN <<>>
                 ELSE CommitAndSave(Target(n), NoCurve, saved[Target(n)].tdp, act)
<1>1. /\ todo' = q1 \o q2
      /\ CheckFanFloorReleaseAt(FloorLimitFor(n))
      /\ UNCHANGED <<hardware, memory, disk, latches>>
  BY DEF ResetFanCurve
<1>2. keep \in Limit
  BY EditTarget, Bounds
<1>3. q2 \in Seq(GuardedCall) /\ q2 \in Seq(LowCall)
  <2>1. act \in MaybeProfile /\ NoCurve \in MaybeCurve
    BY EditTarget DEF MaybeCurve
  <2> HIDE DEF act
  <2> QED BY <2>1, EditTarget, CommitCalls
<1>4. q1 \in Seq(GuardedCall) \/ (q1 \in Seq(LowCall) /\ inForce' <= TDPMaxSafe)
  <2>1. CASE ~Live(n)
    BY <2>1
  <2>2. CASE Live(n)
    <3>1. inForce' <= TDPMaxSafe
      <4>1. cache <= TDPMaxSafe
        BY <1>1, <2>2 DEF CheckFanFloorReleaseAt, FloorLimitFor
      <4>2. inForce' = inForce
        BY <1>1 DEF hardware
      <4> QED BY <4>1, <4>2, Bounds DEF HighLimitShown, TypeOK
    <3>2. k \in GuardedCall \/ k \in LowCall
      <4> HIDE DEF keep
      <4>1. keep <= TDPMaxSafe \/ keep > TDPMaxSafe
        BY <1>2, Bounds
      <4>2. /\ keep <= TDPMaxSafe => k \in LowCall
            /\ keep > TDPMaxSafe => k \in GuardedCall
        BY <1>2, ReleaseCall
      <4> QED BY <4>1, <4>2
    <3>3. q1 = <<k>>
      BY <2>2
    <3> HIDE DEF k, q1
    <3> QED BY <3>1, <3>2, <3>3
  <2> QED BY <2>1, <2>2
<1>5. q1 \in Seq(QueuedCall)
  <2>1. k \in QueuedCall
    <3> HIDE DEF keep
    <3> QED BY <1>2, ReleaseCall
  <2> HIDE DEF k
  <2> QED BY <2>1
<1> HIDE DEF q1, q2
<1>6. todo' \in Seq(QueuedCall)
  <2>1. q2 \in Seq(QueuedCall)
    BY <1>3, Widen
  <2> QED BY <1>1, <1>5, <2>1
<1>7. todo' \in Seq(GuardedCall) \/ (todo' \in Seq(LowCall) /\ inForce' <= TDPMaxSafe)
  BY <1>1, <1>3, <1>4
<1> QED BY <1>1, <1>6, <1>7, QueuedSafe, OperationSafe DEF memory, TypeOK

\* handleTDP: a low limit comes first and must succeed, so the release that
\* ends the operation finds it in force; a high one ends without a release.
LEMMA SetTDPSafe ==
  ASSUME IInv, NEW n \in Names \cup {NoName}, NEW w \in Watts, NEW pl1,
         SetTDP(n, w, pl1)
  PROVE  IInv'
<1> USE DEF IInv
<1> DEFINE c == saved[Target(n)].curve
           act == IF Live(n) THEN Target(n) ELSE NoName
           k1 == ApplyTDPSafely(w, c, TRUE)
           k3 == IF c = NoCurve THEN ReleaseFans(w, FALSE) ELSE SetBothFanCurves(c, FALSE)
           q1 == IF Live(n) THEN << k1 >> ELSE <<>>
           q2 == CommitAndSave(Target(n), c, w, act)
           q3 == IF Live(n) /\ pl1 <= TDPMaxSafe THEN << k3 >> ELSE <<>>
<1>1. /\ todo' = q1 \o q2 \o q3
      /\ UNCHANGED <<hardware, memory, disk, latches>>
  BY DEF SetTDP
<1>2. w \in Limit /\ c \in MaybeCurve
  BY PowerAssumption, EditTarget, Bounds DEF TDPMin, TDPMaxForced
<1>3. k1 \in GuardedCall
  <2> HIDE DEF c
  <2> QED BY <1>2, ApplyCall
<1>4. q2 \in Seq(GuardedCall) /\ q2 \in Seq(LowCall)
  <2>1. act \in MaybeProfile /\ Target(n) \in MaybeProfile
    BY EditTarget
  <2> HIDE DEF act, c
  <2> QED BY <1>2, <2>1, CommitCalls
<1>5. /\ k3 \in QueuedCall
      /\ k3 \in GuardedCall \/ (w <= TDPMaxSafe /\ c = NoCurve /\ k3 \in LowCall)
  <2> HIDE DEF c
  <2>1. CASE c = NoCurve
    <3>1. w <= TDPMaxSafe \/ w > TDPMaxSafe
      BY <1>2, Bounds
    <3>2. k3 = ReleaseFans(w, FALSE)
      BY <2>1
    <3> QED BY <1>2, <2>1, <3>1, <3>2, ReleaseCall
  <2>2. CASE c # NoCurve
    <3>1. k3 = SetBothFanCurves(c, FALSE) /\ c \in FanCurve
      BY <1>2, <2>2 DEF MaybeCurve
    <3> QED BY <3>1, CurveCall DEF GuardedCall
  <2> QED BY <2>1, <2>2
<1>6. CASE k3 \in GuardedCall
  <2>1. q1 \in Seq(GuardedCall) /\ q3 \in Seq(GuardedCall)
    <3> HIDE DEF k1, k3
    <3> QED BY <1>3, <1>6
  <2> HIDE DEF q1, q2, q3
  <2>2. todo' \in Seq(GuardedCall)
    BY <1>1, <1>4, <2>1
  <2> QED BY <1>1, <2>2, GuardedSafe, OperationSafe DEF memory, TypeOK
<1>7. CASE ~Live(n)
  <2>1. q1 = <<>> /\ q3 = <<>>
    BY <1>7
  <2> HIDE DEF q1, q2, q3
  <2>2. todo' \in Seq(GuardedCall)
    BY <1>1, <1>4, <2>1
  <2> QED BY <1>1, <2>2, GuardedSafe, OperationSafe DEF memory, TypeOK
<1>8. CASE Live(n) /\ w <= TDPMaxSafe /\ c = NoCurve /\ k3 \in LowCall
  <2> DEFINE s == LimitStep(w, TRUE)
  <2>1. k1 = <<s>> /\ <<s>> \in LowCall
    <3>1. k1 = SetTDPState(w, TRUE)
      BY <1>2, <1>8, ApplyCall
    <3>2. SetTDPState(w, TRUE) \in LowCall
      BY <1>2, <1>8, LimitCall
    <3> QED BY <3>1, <3>2 DEF SetTDPState
  <2>2. s.do = "limit" /\ s.must
    BY DEF LimitStep, Do
  <2>3. q1 = << k1 >>
    BY <1>8
  <2>4. q3 \in Seq(QueuedCall) /\ q3 \in Seq(LowCall)
    <3> HIDE DEF k3
    <3> QED BY <1>5, <1>8
  <2>5. q2 \in Seq(QueuedCall)
    BY <1>4, Widen
  <2> HIDE DEF s, k1, k3, q1, q2, q3
  <2> DEFINE r == q2 \o q3
  <2>6. r \in Seq(QueuedCall) /\ r \in Seq(LowCall)
    BY <1>4, <2>4, <2>5
  <2>7. todo' = <<k1>> \o r
    BY <1>1, <1>4, <2>3, <2>4, <2>5
  <2>8. k1 \in QueuedCall /\ k1 \in LowCall
    BY <1>3, <2>1 DEF GuardedCall
  <2> HIDE DEF r
  <2>9. /\ todo' \in Seq(QueuedCall) /\ todo' \in Seq(LowCall)
        /\ todo' # <<>> /\ Head(todo') = k1
    BY <2>6, <2>7, <2>8, Cons
  <2>10. k1[1] = s /\ Len(k1) = 1
    BY <2>1
  <2>11. Shape(todo')
    BY <2>9, Widen DEF Shape
  <2>12. NextStepSafe'
    <3>1. ~High(s) /\ ~FreeRelease(s) /\ s.do # "verify"
      BY <1>3, <2>2, <2>8, <2>10 DEF GuardedCall, QueuedCall
    <3> QED BY <2>9, <2>10, <3>1 DEF NextStepSafe
  <2>13. ReleaseToComeSafe'
    BY <2>2, <2>9, <2>10 DEF ReleaseToComeSafe
  <2> QED BY <1>1, <2>11, <2>12, <2>13, OperationSafe DEF memory, TypeOK
<1> QED BY <1>5, <1>6, <1>7, <1>8

LEMMA ResetTDPSafe ==
  ASSUME IInv, NEW n \in Names \cup {NoName}, ResetTDP(n)
  PROVE  IInv'
<1> USE DEF IInv
<1>1. UNCHANGED <<hardware, memory, disk, latches>>
  BY DEF ResetTDP
<1>2. NoCurve \in MaybeCurve /\ 0 \in Limit /\ "balanced" \in StockProfiles
      /\ "balanced" \in MaybeProfile
  <2>1. NoCurve \in MaybeCurve /\ 0 \in Limit
    BY Bounds DEF MaybeCurve
  <2>2. "balanced" \in StockProfiles
    BY ProfileAssumption
  <2> QED BY <2>1, <2>2 DEF MaybeProfile, Profiles
<1>3. CASE Live(n)
  <2> DEFINE k == SetProfile("balanced", TRUE)
             q1 == << k >>
             q2 == HandBackToFirmware("balanced")
             m == IF Implicit(n) THEN NoName ELSE Target(n)
             q3 == CommitAndSave(m, NoCurve, 0, "balanced")
  <2>1. q1 \in Seq(GuardedCall)
    <3>1. k \in GuardedCall
      BY <1>2, StepCalls
    <3> HIDE DEF k
    <3> QED BY <3>1
  <2>2. q2 \in Seq(GuardedCall)
    BY <1>2, HandBackCalls
  <2>3. q3 \in Seq(GuardedCall)
    <3>1. m \in MaybeProfile
      BY EditTarget
    <3> HIDE DEF m
    <3> QED BY <1>2, <3>1, CommitCalls
  <2>4. todo' = q1 \o q2 \o q3
    BY <1>3 DEF ResetTDP
  <2> HIDE DEF q1, q2, q3
  <2>5. todo' \in Seq(GuardedCall)
    BY <2>1, <2>2, <2>3, <2>4
  <2> QED BY <1>1, <2>5, GuardedSafe, OperationSafe DEF memory, TypeOK
<1>4. CASE ~Live(n)
  <2>1. Target(n) = n /\ todo' = CommitAndSave(n, saved[n].curve, 0, NoName)
    BY <1>4 DEF ResetTDP, Live, Target
  <2>2. n \in MaybeProfile /\ NoName \in MaybeProfile /\ saved[n].curve \in MaybeCurve
    BY <2>1, EditTarget
  <2>3. todo' \in Seq(GuardedCall)
    BY <1>2, <2>1, <2>2, CommitCalls
  <2> QED BY <1>1, <2>3, GuardedSafe, OperationSafe DEF memory, TypeOK
<1> QED BY <1>3, <1>4

LEMMA UserOperationSafe ==
  ASSUME IInv, UserOperation
  PROVE  IInv'
BY SelectSafe, SetFanCurveSafe, ResetFanCurveSafe, SetTDPSafe, ResetTDPSafe
   DEF UserOperation

LEMMA ReconcileTickSafe ==
  ASSUME IInv, ReconcileTick
  PROVE  IInv'
<1> USE DEF IInv
<1>1. /\ todo = <<>>
      /\ lastHW' = platform /\ policyWritten' = FALSE
      /\ UNCHANGED <<hardware, memory, disk, watching>>
  BY DEF ReconcileTick, Idle
<1>2. todo' \in Seq(GuardedCall) /\ floorLimit' \in Limit
  <2>1. CASE active \in Names
    <3> DEFINE s == saved[active]
               k1 == ApplyTDPSafely(s.tdp, s.curve, FALSE)
               k2 == << [Do("reconcile") EXCEPT !.curve = s.curve] >>
               q1 == IF LimitLost(s) THEN << k1 >> ELSE <<>>
               q2 == IF CurveDropped(s.curve) THEN << k2 >> ELSE <<>>
    <3>1. s.curve \in MaybeCurve /\ s.tdp \in Limit
      <4>1. s \in Settings
        BY <2>1 DEF TypeOK
      <4> HIDE DEF s
      <4> QED BY <4>1 DEF Settings
    <3>2. k1 \in GuardedCall
      <4> HIDE DEF s
      <4> QED BY <3>1, ApplyCall
    <3>3. k2 \in GuardedCall
      <4> HIDE DEF s
      <4> QED BY <3>1, StepCalls
    <3>4. q1 \in Seq(GuardedCall) /\ q2 \in Seq(GuardedCall)
      <4> HIDE DEF k1, k2
      <4> QED BY <3>2, <3>3
    <3>5. todo' = q1 \o q2
      BY <2>1 DEF ReconcileTick
    <3>6. floorLimit' = IF CurveDropped(s.curve) THEN cache ELSE 0
      BY <2>1 DEF ReconcileTick
    <3>7. floorLimit' \in Limit
      BY <3>6, Bounds DEF TypeOK
    <3> HIDE DEF q1, q2
    <3> QED BY <3>4, <3>5, <3>7
  <2>2. CASE active \notin Names
    <3>1. todo' = <<>> /\ floorLimit' = floorLimit
      BY <1>1, <2>2 DEF ReconcileTick
    <3> QED BY <3>1 DEF TypeOK
  <2> QED BY <2>1, <2>2
<1>3. Shape(todo') /\ NextStepSafe' /\ ReleaseToComeSafe'
  BY <1>2, GuardedSafe
<1>4. TypeOK'
  BY <1>1, <1>2, <1>3, ShapeTyped DEF TypeOK, hardware, memory
<1>5. HighLimitShown'
  BY <1>1 DEF HighLimitShown, hardware
<1> QED BY <1>3, <1>4, <1>5

LEMMA WatcherSafe ==
  ASSUME IInv, Notify \/ StartWatchers
  PROVE  IInv'
<1> USE DEF IInv
<1>1. UNCHANGED <<platform, fan, cache, inForce, memory, disk, todo, floorLimit, lastHW>>
  BY DEF Notify, StartWatchers, hardware
<1>2. pending' \in BOOLEAN /\ policyWritten' \in BOOLEAN /\ watching' \in BOOLEAN
  BY DEF Notify, StartWatchers, TypeOK, hardware
<1>3. FloorOnFans => FloorOnFans'
  BY <1>1 DEF FloorOnFans
<1>4. Shape(todo') /\ NextStepSafe' /\ ReleaseToComeSafe'
  <2>1. CASE Notify
    <3>1. FloorEnabled => FloorEnabled'
      BY <2>1 DEF Notify, FloorEnabled
    <3> QED BY <1>1, <1>3, <3>1, StillSafe
  <2>2. CASE StartWatchers
    <3>1. todo' = <<>>
      BY <2>2 DEF StartWatchers, Idle
    <3> QED BY <3>1, GuardedSafe
  <2> QED BY <2>1, <2>2
<1>5. TypeOK'
  BY <1>1, <1>2, <1>4, ShapeTyped DEF TypeOK, memory
<1>6. HighLimitShown'
  BY <1>1 DEF HighLimitShown
<1> QED BY <1>4, <1>5, <1>6

LEMMA OutsideSafe ==
  ASSUME IInv,
         \/ \E p \in StockProfiles : OutsidePolicy(p)
         \/ \E w \in OutsideLimits : OutsideLimit(w)
         \/ OtherSave
  PROVE  IInv'
<1> USE DEF IInv
<1>1. ASSUME NEW p \in StockProfiles, OutsidePolicy(p) PROVE IInv'
  <2>1. FirmwareTakesOver(p) /\ UNCHANGED <<memory, disk, todo, latches>>
    BY <1>1 DEF OutsidePolicy
  <2>2. UNCHANGED watching
    BY <2>1 DEF latches
  <2>3. Shape(todo') /\ NextStepSafe' /\ ReleaseToComeSafe'
    BY <2>1, <2>2, TakenOver, StillSafe
  <2>4. TypeOK'
    BY <2>1, <2>3, TakenOver, ShapeTyped DEF TypeOK, memory, latches
  <2>5. HighLimitShown'
    <3>1. inForce' \in Limit /\ inForce' <= TDPMaxSafe
      BY <2>1, TakenOver
    <3> QED BY <3>1, Bounds DEF HighLimitShown
  <2> QED BY <2>3, <2>4, <2>5
<1>2. ASSUME NEW w \in OutsideLimits, OutsideLimit(w) PROVE IInv'
  <2>1. /\ cache' = w /\ inForce' = w
        /\ UNCHANGED <<platform, fan, pending, memory, disk, todo, latches>>
    BY <1>2 DEF OutsideLimit
  <2>2. w \in Limit /\ w <= TDPMaxSafe
    <3>1. w \in 1..TDPMaxSafe
      BY PowerAssumption
    <3> QED BY <3>1, Bounds
  <2>3. Shape(todo') /\ NextStepSafe' /\ ReleaseToComeSafe'
    <3>1. FloorOnFans => FloorOnFans'
      BY <2>1 DEF FloorOnFans
    <3>2. FloorEnabled => FloorEnabled'
      BY <2>1 DEF FloorEnabled, latches
    <3> QED BY <2>1, <2>2, <3>1, <3>2, StillSafe
  <2>4. TypeOK'
    BY <2>1, <2>2, <2>3, ShapeTyped DEF TypeOK, memory, latches
  <2>5. HighLimitShown'
    BY <2>1 DEF HighLimitShown
  <2> QED BY <2>3, <2>4, <2>5
<1>3. ASSUME OtherSave PROVE IInv'
  <2>1. disk' = StateInMemory /\ UNCHANGED <<hardware, memory, todo, latches>>
    BY <1>3 DEF OtherSave
  <2>2. disk' \in Memory
    BY <2>1 DEF StateInMemory, Memory, TypeOK
  <2>3. Shape(todo') /\ NextStepSafe' /\ ReleaseToComeSafe'
    <3>1. FloorOnFans => FloorOnFans'
      BY <2>1 DEF FloorOnFans, hardware
    <3>2. FloorEnabled => FloorEnabled'
      BY <2>1 DEF FloorEnabled, hardware, latches
    <3>3. inForce' = inForce
      BY <2>1 DEF hardware
    <3> QED BY <2>1, <3>1, <3>2, <3>3, StillSafe
  <2>4. TypeOK'
    BY <2>1, <2>2, <2>3, ShapeTyped DEF TypeOK, hardware, memory, latches
  <2>5. HighLimitShown'
    BY <2>1 DEF HighLimitShown, hardware
  <2> QED BY <2>3, <2>4, <2>5
<1> QED BY <1>1, <1>2, <1>3

\* The startup restore is an operation like any other.
LEMMA StartSafe ==
  ASSUME TypeOK, NEW target \in AutoTargets \cup {NoName}, StartDaemon(target),
         platform' \in StockProfiles
  PROVE  /\ todo' \in Seq(GuardedCall)
         /\ active' \in MaybeProfile
         /\ saved' \in [Names -> Settings]
         /\ disk' \in Memory
         /\ floorLimit' \in Limit
         /\ lastHW' \in StockProfiles \cup {NoName}
         /\ policyWritten' \in BOOLEAN
         /\ watching' \in BOOLEAN
<1> DEFINE switched == AutoswitchTarget(disk, target)
           leftCustom == switched /\ disk.active \in Names /\ target \in StockProfiles
           act == IF switched THEN target ELSE disk.active
<1>1. disk \in Memory /\ disk.active \in MaybeProfile /\ disk.saved \in [Names -> Settings]
  BY DEF TypeOK, Memory
<1>2. act \in MaybeProfile
  BY <1>1, ProfileAssumption DEF MaybeProfile, Profiles
<1>3. /\ active' = act /\ saved' = disk.saved /\ disk' = disk
      /\ floorLimit' = 0 /\ lastHW' = NoName
      /\ policyWritten' = FALSE /\ watching' = FALSE
  BY DEF StartDaemon
<1>4. todo' =
        IF act \in StockProfiles
        THEN (IF platform' # act THEN << SetProfile(act, FALSE) >> ELSE <<>>)
             \o (IF leftCustom THEN HandBackToFirmware(act) ELSE << Restore(act) >>)
             \o (IF switched THEN << <<Do("save")>> >> ELSE <<>>)
        ELSE IF act \in Names /\ disk.saved[act] # Nothing
             THEN ApplyCustomHW(disk.saved[act], platform')
             ELSE <<>>
  BY DEF StartDaemon
<1> HIDE DEF act, switched, leftCustom
<1>5. todo' \in Seq(GuardedCall)
  <2>1. CASE act \in StockProfiles
    <3> DEFINE k1 == SetProfile(act, FALSE)
               k2 == Restore(act)
               k3 == <<Do("save")>>
               q2 == HandBackToFirmware(act)
    <3>1. k1 \in GuardedCall /\ k2 \in GuardedCall /\ k3 \in GuardedCall
      BY <2>1, StepCalls
    <3>2. q2 \in Seq(GuardedCall)
      BY <2>1, HandBackCalls
    <3>3. todo' = (IF platform' # act THEN << k1 >> ELSE <<>>)
                  \o (IF leftCustom THEN q2 ELSE << k2 >>)
                  \o (IF switched THEN << k3 >> ELSE <<>>)
      BY <1>4, <2>1
    <3> HIDE DEF k1, k2, k3, q2
    <3>4. /\ (IF platform' # act THEN << k1 >> ELSE <<>>) \in Seq(GuardedCall)
          /\ (IF leftCustom THEN q2 ELSE << k2 >>) \in Seq(GuardedCall)
          /\ (IF switched THEN << k3 >> ELSE <<>>) \in Seq(GuardedCall)
      BY <3>1, <3>2
    <3> QED BY <3>3, <3>4
  <2>2. CASE act \notin StockProfiles /\ act \in Names /\ disk.saved[act] # Nothing
    <3>1. disk.saved[act] \in Settings
      BY <1>1, <2>2
    <3>2. todo' = ApplyCustomHW(disk.saved[act], platform')
      BY <1>4, <2>2
    <3> QED BY <3>1, <3>2, ApplyCustomCalls
  <2>3. CASE act \notin StockProfiles /\ ~(act \in Names /\ disk.saved[act] # Nothing)
    <3>1. todo' = <<>>
      BY <1>4, <2>3
    <3> QED BY <3>1
  <2> QED BY <2>1, <2>2, <2>3
<1>6. floorLimit' \in Limit
  BY <1>3, Bounds
<1> QED BY <1>1, <1>2, <1>3, <1>5, <1>6

LEMMA RestartSafe ==
  ASSUME IInv, RestartDaemon \/ Reboot
  PROVE  IInv'
<1> USE DEF IInv
<1>1. platform' \in StockProfiles /\ pending' = FALSE
  BY DEF RestartDaemon, Reboot, TypeOK
<1>2. PICK target \in AutoTargets \cup {NoName} : StartDaemon(target)
  BY DEF RestartDaemon, Reboot
<1>3. /\ todo' \in Seq(GuardedCall)
      /\ active' \in MaybeProfile
      /\ saved' \in [Names -> Settings]
      /\ disk' \in Memory
      /\ floorLimit' \in Limit
      /\ lastHW' \in StockProfiles \cup {NoName}
      /\ policyWritten' \in BOOLEAN
      /\ watching' \in BOOLEAN
  BY <1>1, <1>2, StartSafe
<1>4. Shape(todo') /\ NextStepSafe' /\ ReleaseToComeSafe'
  BY <1>3, GuardedSafe
<1>5. CASE RestartDaemon
  <2>1. UNCHANGED <<platform, cache, inForce>>
    BY <1>5 DEF RestartDaemon
  <2>2. fan' \in [Fan -> [mode : {1, 2}, curve : Registers]]
    <3>1. CASE UNCHANGED fan
      BY <3>1 DEF TypeOK
    <3>2. CASE Doing("curve") /\ PartOfCurve
      <4>1. Now.curve \in FanCurve
        BY <3>2, Started, NowTyped DEF Doing
      <4> QED BY <3>2, <4>1, WriteCurveTyped
    <3> QED BY <1>5, <3>1, <3>2 DEF RestartDaemon
  <2>4. TypeOK'
    BY <1>1, <1>3, <1>4, <2>1, <2>2, ShapeTyped DEF TypeOK
  <2>3. HighLimitShown'
    BY <2>1 DEF HighLimitShown
  <2> QED BY <1>4, <2>3, <2>4
<1>6. CASE Reboot
  <2>1. fan' = [i \in Fan |-> [mode |-> 2, curve |-> FactoryCurve]]
        /\ cache' = TDPMin /\ inForce' = Firmware[platform']
    BY <1>6 DEF Reboot
  <2>2. fan' \in [Fan -> [mode : {1, 2}, curve : Registers]]
    BY <2>1, CurveAssumption, CurveRegisters
  <2>3. inForce' \in Limit /\ inForce' <= TDPMaxSafe /\ cache' \in Limit
    <3>1. inForce' \in 1..TDPMaxSafe
      BY <1>1, <2>1, PowerAssumption
    <3> QED BY <2>1, <3>1, Bounds DEF TDPMin
  <2>4. TypeOK'
    BY <1>1, <1>3, <1>4, <2>2, <2>3, ShapeTyped DEF TypeOK
  <2>5. HighLimitShown'
    BY <2>3, Bounds DEF HighLimitShown
  <2> QED BY <1>4, <2>4, <2>5
<1> QED BY <1>5, <1>6

LEMMA Initial == Init => IInv
<1> SUFFICES ASSUME Init PROVE IInv
  OBVIOUS
<1>1. todo = <<>> /\ platform \in StockProfiles
  BY DEF Init
<1>2. inForce \in Limit /\ inForce <= TDPMaxSafe /\ cache \in Limit
  <2>1. inForce \in 1..TDPMaxSafe
    BY <1>1, PowerAssumption DEF Init
  <2>2. cache = TDPMin
    BY DEF Init
  <2> QED BY <2>1, <2>2, Bounds DEF TDPMin
<1>3. fan \in [Fan -> [mode : {1, 2}, curve : Registers]]
  BY CurveAssumption, CurveRegisters DEF Init
<1>4. active \in MaybeProfile /\ saved \in [Names -> Settings] /\ disk \in Memory
  <2>1. Nothing \in Settings
    BY Bounds DEF Nothing, Settings, MaybeCurve
  <2>2. active \in MaybeProfile /\ saved \in [Names -> Settings]
    BY <2>1, Bounds DEF Init
  <2> QED BY <2>2 DEF Init, StateInMemory, Memory
<1>5. TypeOK
  <2>1. floorLimit \in Limit
    BY Bounds DEF Init
  <2>2. lastHW \in StockProfiles \cup {NoName} /\ policyWritten \in BOOLEAN
        /\ watching \in BOOLEAN /\ pending \in BOOLEAN
    BY DEF Init
  <2>3. todo \in Seq(Seq(Step))
    BY <1>1
  <2> QED BY <1>1, <1>2, <1>3, <1>4, <2>1, <2>2, <2>3 DEF TypeOK
<1>6. Shape(todo) /\ NextStepSafe /\ ReleaseToComeSafe
  BY <1>1 DEF Shape, NextStepSafe, ReleaseToComeSafe
<1>7. HighLimitShown
  BY <1>2, Bounds DEF HighLimitShown
<1> QED BY <1>5, <1>6, <1>7 DEF IInv

LEMMA Inductive == IInv /\ [Next]_vars => IInv'
<1> SUFFICES ASSUME IInv, [Next]_vars PROVE IInv'
  OBVIOUS
<1>1. CASE Daemon
  BY <1>1, HardwareStepSafe, StateStepSafe, ReconcileTickSafe, WatcherSafe DEF Daemon
<1>2. CASE UserOperation
  BY <1>2, UserOperationSafe
<1>3. CASE Environment
  BY <1>3, OutsideSafe, RestartSafe DEF Environment
<1>4. CASE UNCHANGED vars
  <2>1. UNCHANGED <<hardware, memory, disk, todo, latches>>
    BY <1>4 DEF vars
  <2> QED
    BY <2>1 DEF IInv, TypeOK, NextStepSafe, ReleaseToComeSafe, HighLimitShown,
                FloorOnFans, FloorEnabled, hardware, memory, latches
<1> QED BY <1>1, <1>2, <1>3, <1>4 DEF Next

-----------------------------------------------------------------------------
(* The theorems.                                                           *)

LEMMA Invariance == Spec => []IInv
BY Initial, Inductive, PTL DEF Spec

\* Every variable keeps its type, whatever users, other programs, faults and
\* restarts do: the calls the daemon makes never hold an ill-formed curve, a
\* limit out of range or a profile of the wrong kind.
THEOREM TypeCorrect == Spec => []TypeOK
<1>1. IInv => TypeOK
  BY DEF IInv
<1> QED BY <1>1, Invariance, PTL

\* A step that raises the limit above TDPMaxSafe is a limit write, and the
\* fans carry the floor by then.
LEMMA RaiseStep ==
  ASSUME IInv, [Next]_vars, inForce' > inForce, inForce' > TDPMaxSafe
  PROVE  \A i \in Fan : /\ MeetsFloor(fan[i].curve)
                        /\ fan[i].mode = 1 \/ pending \/ policyWritten \/ ~watching
<1>1. inForce \in Limit /\ platform \in StockProfiles /\ TypeOK
  BY DEF IInv, TypeOK
<1>2. ~(inForce' = inForce)
  BY <1>1, Bounds
<1>3. ~(inForce' \in 1..TDPMaxSafe)
  BY Bounds
<1>4. ASSUME NEW p \in StockProfiles PROVE ~FirmwareTakesOver(p)
  BY <1>3, PowerAssumption DEF FirmwareTakesOver
<1>5. ~Release /\ ~ReleaseFails
  BY <1>1, <1>2, <1>4 DEF Release, ReleaseFails, hardware
<1>6. ~WriteProfile
  <2> SUFFICES ASSUME WriteProfile PROVE FALSE
    OBVIOUS
  <2>1. Now.name \in StockProfiles
    BY Started, NowTyped DEF IInv, WriteProfile, Doing
  <2> QED BY <1>4, <2>1 DEF WriteProfile
<1>7. ~Environment
  <2>1. ~RestartDaemon
    BY <1>2 DEF RestartDaemon
  <2>2. ~Reboot
    BY <1>3, PowerAssumption DEF Reboot
  <2>3. ~(\E p \in StockProfiles : OutsidePolicy(p))
    BY <1>4 DEF OutsidePolicy
  <2>4. ~(\E w \in OutsideLimits : OutsideLimit(w))
    BY <1>3, PowerAssumption DEF OutsideLimit
  <2>5. ~OtherSave
    BY <1>2 DEF OtherSave, hardware
  <2> QED BY <2>1, <2>2, <2>3, <2>4, <2>5 DEF Environment
<1>8. ~UserOperation
  BY <1>2 DEF UserOperation, SelectStock, SelectCustom, SetFanCurve, ResetFanCurve,
              SetTDP, ResetTDP, hardware
<1>9. ~StateStep /\ ~ReconcileTick /\ ~Notify /\ ~StartWatchers
  BY <1>2 DEF StateStep, ChooseRestore, ReconcileCurve, Commit, Save, SaveFails,
              ReconcileTick, Notify, StartWatchers, hardware
<1>10. WriteLimit \/ WriteLimitFails
  <2>1. HardwareStep
    <3>1. ~UNCHANGED vars
      BY <1>2 DEF vars, hardware
    <3> QED BY <1>7, <1>8, <1>9, <3>1 DEF Next, Daemon
  <2>2. ~WriteCurve /\ ~WriteCurveFails /\ ~VerifyFanCurveActive
        /\ ~CheckFanFloorRelease /\ ~RefuseRelease /\ ~WriteProfileFails
    BY <1>2 DEF WriteCurve, WriteCurveFails, VerifyFanCurveActive,
                CheckFanFloorRelease, RefuseRelease, WriteProfileFails, hardware
  <2> QED BY <1>5, <1>6, <2>1, <2>2 DEF HardwareStep
<1>11. todo # <<>> /\ Now.do = "limit" /\ inForce' = Now.watts
  BY <1>2, <1>10 DEF WriteLimit, WriteLimitFails, Doing
<1>12. High(Head(todo)[1])
  BY <1>11, Started DEF IInv, High
<1>13. FloorOnFans /\ FloorEnabled
  BY <1>11, <1>12 DEF IInv, NextStepSafe
<1> QED BY <1>13 DEF FloorOnFans, FloorEnabled

\* ApplyTDPSafely's promise, "If that fan write fails, the TDP is NOT applied",
\* for every profile, curve and limit, with write failures and restarts
\* between any two steps: power is never raised above TDPMaxSafe on fans that
\* are below the floor.
THEOREM RaiseSafe == Spec => RaiseOnlyOverFloor
<1>1. IInv /\ [Next]_vars =>
        [(inForce' > inForce /\ inForce' > TDPMaxSafe) =>
           \A i \in Fan : /\ MeetsFloor(fan[i].curve)
                          /\ fan[i].mode = 1 \/ pending \/ policyWritten \/ ~watching]_vars
  BY RaiseStep
<1> QED BY <1>1, Invariance, PTL DEF Spec, RaiseOnlyOverFloor

\* The cached limit the release guard reads is as good as the real one: a
\* release never meets a limit that needs the floor.
THEOREM ReleaseOnlyBelowSafe == Spec => ReleaseBelowSafe
<1>1. IInv => ((Release \/ ReleaseFails) => inForce <= TDPMaxSafe)
  <2> SUFFICES ASSUME IInv, Release \/ ReleaseFails PROVE inForce <= TDPMaxSafe
    OBVIOUS
  <2>1. todo # <<>> /\ Now.do = "release" /\ Now.watts <= TDPMaxSafe
    BY DEF Release, ReleaseFails, Doing
  <2>2. FreeRelease(Head(todo)[1])
    BY <2>1, Started DEF IInv, FreeRelease
  <2> QED BY <2>1, <2>2 DEF IInv, NextStepSafe
<1>2. IInv /\ [Next]_vars =>
        [(Release \/ ReleaseFails) => inForce <= TDPMaxSafe]_vars
  BY <1>1
<1> QED BY <1>2, Invariance, PTL DEF Spec, ReleaseBelowSafe

-----------------------------------------------------------------------------
(* Between operations.  What an operation must not leave behind depends on *)
(* the steps it still has to make: the next section says, for a set S of   *)
(* steps, that all of them are in S.                                       *)

Queue(S) == Seq(Seq(S) \ {<<>>})

LEMMA QueueNext ==
  ASSUME NEW S, NEW t \in Queue(S), t # <<>>
  PROVE  /\ Head(t) \in Seq(S) /\ Head(t) # <<>> /\ Len(Head(t)) \in Nat \ {0}
         /\ Head(t)[1] \in S /\ Head(Head(t)) = Head(t)[1]
         /\ Tail(t) \in Queue(S) /\ Rest(t) \in Queue(S)
         /\ Len(Head(t)) = 1 => Rest(t) = Tail(t)
         /\ Len(Head(t)) > 1 =>
              /\ Rest(t) # <<>>
              /\ Head(Rest(t)) = Tail(Head(t)) /\ Tail(Rest(t)) = Tail(t)
              /\ Tail(Head(t)) \in Seq(S) /\ Len(Tail(Head(t))) = Len(Head(t)) - 1
              /\ \A i \in 1..(Len(Head(t)) - 1) : Tail(Head(t))[i] = Head(t)[i + 1]
<1> DEFINE C == Seq(S) \ {<<>>}
           k == Head(t)
           r == Tail(t)
<1>1. k \in C /\ r \in Seq(C)
  BY DEF Queue
<1>2. k \in Seq(S) /\ k # <<>> /\ Len(k) \in Nat \ {0} /\ k[1] \in S /\ Head(k) = k[1]
  BY <1>1
<1>3. ASSUME Len(k) > 1
      PROVE  /\ Tail(k) \in C /\ Len(Tail(k)) = Len(k) - 1
             /\ \A i \in 1..(Len(k) - 1) : Tail(k)[i] = k[i + 1]
  <2>1. /\ Tail(k) \in Seq(S) /\ Len(Tail(k)) = Len(k) - 1
        /\ \A i \in 1..(Len(k) - 1) : Tail(k)[i] = k[i + 1]
    BY <1>2, <1>3
  <2>2. Len(Tail(k)) # 0
    <3>1. Len(Tail(k)) = Len(k) - 1 /\ Len(k) \in Nat \ {0} /\ k \in Seq(S)
      BY <1>2, <2>1
    <3> HIDE DEF k
    <3> QED BY <1>3, <3>1
  <2>3. Tail(k) # <<>>
    <3>1. Len(<<>>) = 0
      OBVIOUS
    <3> QED BY <2>2, <3>1, Zenon
  <2> QED BY <2>1, <2>3
<1>4. ASSUME Len(k) > 1
      PROVE  /\ Rest(t) = <<Tail(k)>> \o r
             /\ Rest(t) \in Seq(C) /\ Rest(t) # <<>>
             /\ Head(Rest(t)) = Tail(k) /\ Tail(Rest(t)) = r
  <2>1. Rest(t) = <<Tail(k)>> \o r
    BY <1>4 DEF Rest
  <2> HIDE DEF k, r, C
  <2> QED BY <1>1, <1>3, <1>4, <2>1, Cons
<1>5. ~(Len(k) > 1) => Rest(t) = r
  BY DEF Rest
<1> HIDE DEF k, r, C
<1>6. Rest(t) \in Seq(C) /\ (Len(k) = 1 => Rest(t) = r)
  BY <1>1, <1>2, <1>4, <1>5
<1>7. r \in Queue(S) /\ Rest(t) \in Queue(S)
  BY <1>1, <1>6 DEF Queue, C
<1> QED BY <1>1, <1>2, <1>3, <1>4, <1>6, <1>7 DEF k, r, C

LEMMA QueueMoves ==
  ASSUME NEW S, todo \in Queue(S), todo # <<>>, Done \/ Failed
  PROVE  todo' \in Queue(S)
<1>1. <<>> \in Queue(S)
  BY DEF Queue
<1>2. Done => todo' = Rest(todo)
  BY DEF Done, Rest
<1>3. Failed => todo' \in {<<>>, Tail(todo)}
  BY DEF Failed
<1>4. Tail(todo) \in Queue(S) /\ Rest(todo) \in Queue(S)
  BY QueueNext
<1> QED BY <1>1, <1>2, <1>3, <1>4

LEMMA QueueParts ==
  ASSUME NEW S
  PROVE  /\ <<>> \in Queue(S)
         /\ \A k \in Seq(S) : k # <<>> => <<k>> \in Queue(S)
         /\ \A p, q \in Queue(S) : p \o q \in Queue(S)
<1> DEFINE C == Seq(S) \ {<<>>}
<1>1. ASSUME NEW k \in C PROVE <<k>> \in Seq(C)
  OBVIOUS
<1>2. ASSUME NEW p \in Seq(C), NEW q \in Seq(C) PROVE p \o q \in Seq(C)
  OBVIOUS
<1> QED BY <1>1, <1>2 DEF Queue

LEMMA QueueWiden ==
  ASSUME NEW S, NEW T, S \subseteq T, NEW t \in Queue(S)
  PROVE  t \in Queue(T)
<1> DEFINE C == Seq(S) \ {<<>>}
           D == Seq(T) \ {<<>>}
<1>1. C \subseteq D
  OBVIOUS
<1> HIDE DEF C, D
<1>2. t \in Seq(C) => t \in Seq(D)
  BY <1>1
<1> QED BY <1>2 DEF Queue, C, D

\* The first call of a queue that is put together.
LEMMA QueueFirst ==
  ASSUME NEW S, NEW k \in Seq(S), k # <<>>, NEW r \in Queue(S)
  PROVE  /\ <<k>> \o r \in Queue(S) /\ <<k>> \o r # <<>>
         /\ Head(<<k>> \o r) = k /\ Tail(<<k>> \o r) = r
<1> DEFINE C == Seq(S) \ {<<>>}
<1>1. k \in C /\ r \in Seq(C)
  BY DEF Queue
<1> HIDE DEF C
<1>2. /\ <<k>> \o r \in Seq(C) /\ <<k>> \o r # <<>>
      /\ Head(<<k>> \o r) = k /\ Tail(<<k>> \o r) = r
  BY <1>1, Cons
<1> QED BY <1>2 DEF Queue, C

\* The steps that calls are made of, by name.
ProfileStep(p, must) == [Do("profile") EXCEPT !.name = p, !.must = must]
RestoreStep(p) == [Do("restore") EXCEPT !.name = p]
ReconcileStep(c) == [Do("reconcile") EXCEPT !.curve = c]
CommitStep(n, c, w, a) ==
  [Do("commit") EXCEPT !.name = n, !.curve = c, !.watts = w, !.active = a]

LEMMA Kinds ==
  /\ \A c, must : LET s == CurveStep(c, must) IN
       s.do = "curve" /\ s.curve = c /\ s.must = must
  /\ \A must : LET s == VerifyStep(must) IN s.do = "verify" /\ s.must = must
  /\ \A w, must : LET s == LimitStep(w, must) IN
       s.do = "limit" /\ s.watts = w /\ s.must = must
  /\ \A w, must : LET s == ReleaseStep(w, must) IN
       s.do = "release" /\ s.watts = w /\ s.must = must
  /\ \A p, must : LET s == ProfileStep(p, must) IN
       s.do = "profile" /\ s.name = p /\ s.must = must
  /\ \A p : RestoreStep(p).do = "restore" /\ RestoreStep(p).name = p
  /\ \A c : ReconcileStep(c).do = "reconcile" /\ ReconcileStep(c).curve = c
  /\ \A n, c, w, a : LET s == CommitStep(n, c, w, a) IN
       /\ s.do = "commit" /\ s.name = n /\ s.curve = c /\ s.watts = w
       /\ s.active = a
  /\ Do("guard").do = "guard" /\ Do("save").do = "save"
BY DEF Do, CurveStep, VerifyStep, LimitStep, ReleaseStep, ProfileStep, RestoreStep,
       ReconcileStep, CommitStep

LEMMA GoodSteps ==
  /\ \A c \in FanCurve, must \in BOOLEAN : CurveStep(c, must) \in GoodStep
  /\ \A w \in Limit, must \in BOOLEAN : LimitStep(w, must) \in GoodStep
  /\ \A w \in Limit, must \in BOOLEAN : ReleaseStep(w, must) \in GoodStep
  /\ \A must \in BOOLEAN : VerifyStep(must) \in GoodStep
  /\ Do("guard") \in GoodStep
  /\ Do("save") \in GoodStep
  /\ \A p \in StockProfiles, must \in BOOLEAN : ProfileStep(p, must) \in GoodStep
  /\ \A p \in StockProfiles : RestoreStep(p) \in GoodStep
  /\ \A c \in MaybeCurve : ReconcileStep(c) \in GoodStep
  /\ \A n \in MaybeProfile, c \in MaybeCurve, w \in Limit, a \in MaybeProfile :
       CommitStep(n, c, w, a) \in GoodStep
BY Steps DEF ProfileStep, RestoreStep, ReconcileStep, CommitStep

\* The calls, made of steps of a set S.
LEMMA CurveIn ==
  ASSUME NEW S, NEW c, NEW must, CurveStep(c, must) \in S, VerifyStep(must) \in S
  PROVE  /\ SetBothFanCurves(c, must) \in Seq(S) /\ SetBothFanCurves(c, must) # <<>>
         /\ << SetBothFanCurves(c, must) >> \in Queue(S)
<1> DEFINE s1 == CurveStep(c, must)
           s2 == VerifyStep(must)
           k == SetBothFanCurves(c, must)
<1>1. k = <<s1, s2>> /\ s1 \in S /\ s2 \in S
  BY DEF SetBothFanCurves
<1> HIDE DEF s1, s2, k
<1>2. k \in Seq(S) /\ k # <<>>
  BY <1>1
<1> QED BY <1>2, QueueParts DEF k

LEMMA LimitIn ==
  ASSUME NEW S, NEW w, NEW must, LimitStep(w, must) \in S
  PROVE  /\ SetTDPState(w, must) \in Seq(S) /\ SetTDPState(w, must) # <<>>
         /\ << SetTDPState(w, must) >> \in Queue(S)
<1> DEFINE s1 == LimitStep(w, must)
           k == SetTDPState(w, must)
<1>1. k = <<s1>> /\ s1 \in S
  BY DEF SetTDPState
<1> HIDE DEF s1, k
<1>2. k \in Seq(S) /\ k # <<>>
  BY <1>1
<1> QED BY <1>2, QueueParts DEF k

LEMMA ApplyIn ==
  ASSUME NEW S, NEW w, NEW want, NEW must, LimitStep(w, must) \in S,
         FanCurveForTDP(w, want) # NoCurve =>
           CurveStep(FanCurveForTDP(w, want), must) \in S /\ VerifyStep(must) \in S
  PROVE  /\ ApplyTDPSafely(w, want, must) \in Seq(S)
         /\ ApplyTDPSafely(w, want, must) # <<>>
         /\ << ApplyTDPSafely(w, want, must) >> \in Queue(S)
<1> DEFINE c == FanCurveForTDP(w, want)
           s1 == CurveStep(c, must)
           s2 == VerifyStep(must)
           s3 == LimitStep(w, must)
           k == ApplyTDPSafely(w, want, must)
<1>1. /\ k = IF c = NoCurve THEN <<s3>> ELSE <<s1, s2, s3>>
      /\ s3 \in S /\ (c # NoCurve => s1 \in S /\ s2 \in S)
  BY DEF ApplyTDPSafely
<1> HIDE DEF s1, s2, s3, c, k
<1>2. k \in Seq(S) /\ k # <<>>
  BY <1>1
<1> QED BY <1>2, QueueParts DEF k

LEMMA ReleaseIn ==
  ASSUME NEW S, NEW keep, NEW must, ReleaseStep(keep, must) \in S,
         keep # 0 => LimitStep(keep, must) \in S
  PROVE  /\ ReleaseFans(keep, must) \in Seq(S) /\ ReleaseFans(keep, must) # <<>>
         /\ << ReleaseFans(keep, must) >> \in Queue(S)
<1> DEFINE s1 == ReleaseStep(keep, must)
           s2 == LimitStep(keep, must)
           k == ReleaseFans(keep, must)
<1>1. k = (IF keep = 0 THEN <<s1>> ELSE <<s1, s2>>) /\ s1 \in S /\ (keep # 0 => s2 \in S)
  BY DEF ReleaseFans
<1> HIDE DEF s1, s2, k
<1>2. k \in Seq(S) /\ k # <<>>
  BY <1>1
<1> QED BY <1>2, QueueParts DEF k

LEMMA GuardedIn ==
  ASSUME NEW S, NEW keep, Do("guard") \in S, ReleaseStep(keep, FALSE) \in S,
         keep # 0 => LimitStep(keep, FALSE) \in S
  PROVE  /\ GuardedRelease(keep) \in Seq(S) /\ GuardedRelease(keep) # <<>>
         /\ << GuardedRelease(keep) >> \in Queue(S)
<1> DEFINE s0 == Do("guard")
           s1 == ReleaseStep(keep, FALSE)
           s2 == LimitStep(keep, FALSE)
           k == GuardedRelease(keep)
<1>1. /\ k = IF keep = 0 THEN <<s0, s1>> ELSE <<s0, s1, s2>>
      /\ s0 \in S /\ s1 \in S /\ (keep # 0 => s2 \in S)
  BY DEF GuardedRelease
<1> HIDE DEF s0, s1, s2, k
<1>2. k \in Seq(S) /\ k # <<>>
  BY <1>1
<1> QED BY <1>2, QueueParts DEF k

LEMMA HandBackIn ==
  ASSUME NEW S, NEW p, LimitStep(Firmware[p], FALSE) \in S, Do("guard") \in S,
         ReleaseStep(0, FALSE) \in S
  PROVE  /\ HandBackToFirmware(p) \in Queue(S) /\ HandBackToFirmware(p) # <<>>
         /\ Head(HandBackToFirmware(p)) = << LimitStep(Firmware[p], FALSE) >>
<1> DEFINE k1 == SetTDPState(Firmware[p], FALSE)
           k2 == GuardedRelease(0)
<1>1. /\ k1 \in Seq(S) /\ k1 # <<>>
      /\ k2 \in Seq(S) /\ k2 # <<>>
  BY LimitIn, GuardedIn
<1>2. HandBackToFirmware(p) = <<k1, k2>>
  BY DEF HandBackToFirmware
<1>3. k1 = << LimitStep(Firmware[p], FALSE) >>
  BY DEF SetTDPState
<1> HIDE DEF k1, k2
<1>4. <<k1, k2>> \in Queue(S)
  BY <1>1 DEF Queue
<1>5. <<k1, k2>> # <<>> /\ Head(<<k1, k2>>) = k1
  OBVIOUS
<1> QED BY <1>2, <1>3, <1>4, <1>5

LEMMA CommitIn ==
  ASSUME NEW S, NEW n, NEW c, NEW w, NEW a, CommitStep(n, c, w, a) \in S, Do("save") \in S
  PROVE  /\ CommitAndSave(n, c, w, a) \in Queue(S) /\ CommitAndSave(n, c, w, a) # <<>>
         /\ Head(CommitAndSave(n, c, w, a)) = << CommitStep(n, c, w, a) >>
         /\ Tail(CommitAndSave(n, c, w, a)) = << <<Do("save")>> >>
<1> DEFINE s1 == CommitStep(n, c, w, a)
           s2 == Do("save")
<1>1. CommitAndSave(n, c, w, a) = << <<s1>>, <<s2>> >> /\ s1 \in S /\ s2 \in S
  BY DEF CommitAndSave, CommitStep
<1> HIDE DEF s1, s2
<1>2. <<s1>> \in Seq(S) /\ <<s1>> # <<>> /\ <<s2>> \in Seq(S) /\ <<s2>> # <<>>
  BY <1>1
<1> DEFINE k1 == <<s1>>
           k2 == <<s2>>
<1> HIDE DEF k1, k2
<1>3. <<k1, k2>> \in Queue(S) /\ <<k1, k2>> # <<>> /\ Head(<<k1, k2>>) = k1
      /\ Tail(<<k1, k2>>) = <<k2>>
  BY <1>2 DEF Queue, k1, k2
<1> QED BY <1>1, <1>3 DEF k1, k2, s1, s2

\* A queue whose first call is the step s alone.
BeginsWith(t, s) == t # <<>> /\ Head(t) = << s >>

LEMMA ApplyCustomIn ==
  ASSUME NEW S, NEW settings, NEW p, Do("save") \in S,
         settings.tdp = 0 =>
           /\ LimitStep(Firmware[p], FALSE) \in S /\ Do("guard") \in S
           /\ ReleaseStep(0, FALSE) \in S,
         settings.curve # NoCurve =>
           CurveStep(settings.curve, FALSE) \in S /\ VerifyStep(FALSE) \in S,
         settings.tdp # 0 =>
           /\ LimitStep(settings.tdp, FALSE) \in S
           /\ FanCurveForTDP(settings.tdp, settings.curve) # NoCurve =>
                /\ CurveStep(FanCurveForTDP(settings.tdp, settings.curve), FALSE) \in S
                /\ VerifyStep(FALSE) \in S
           /\ settings.tdp <= TDPMaxSafe =>
                Do("guard") \in S /\ ReleaseStep(settings.tdp, FALSE) \in S
  PROVE  /\ ApplyCustomHW(settings, p) \in Queue(S)
         /\ settings.tdp = 0 =>
              BeginsWith(ApplyCustomHW(settings, p), LimitStep(Firmware[p], FALSE))
         /\ (settings.tdp # 0 /\ settings.curve = NoCurve) =>
              \E r \in Queue(S) :
                ApplyCustomHW(settings, p)
                  = << ApplyTDPSafely(settings.tdp, settings.curve, FALSE) >> \o r
         /\ (settings.tdp # 0 /\ settings.curve # NoCurve) =>
              ApplyCustomHW(settings, p)
                = << SetBothFanCurves(settings.curve, FALSE) >>
                  \o (<< ApplyTDPSafely(settings.tdp, settings.curve, FALSE) >>
                      \o << <<Do("save")>> >>)
<1> DEFINE c == settings.curve
           w == settings.tdp
           a == << SetBothFanCurves(c, FALSE) >>
           b == << ApplyTDPSafely(w, c, FALSE) >>
           d == << GuardedRelease(w) >>
           e == << <<Do("save")>> >>
           h == HandBackToFirmware(p)
           k2 == IF c = NoCurve THEN <<>> ELSE a
           k4 == IF c = NoCurve /\ w <= TDPMaxSafe THEN d ELSE <<>>
<1>1. w = 0 => h \in Queue(S) /\ h # <<>> /\ Head(h) = << LimitStep(Firmware[p], FALSE) >>
  BY HandBackIn
<1>2. c # NoCurve => a \in Queue(S)
  BY CurveIn
<1>3. w # 0 => b \in Queue(S)
  BY ApplyIn
<1>4. (w # 0 /\ w <= TDPMaxSafe) => d \in Queue(S)
  BY GuardedIn
<1>5. e \in Queue(S)
  <2> DEFINE k == <<Do("save")>>
  <2>1. k \in Seq(S) /\ k # <<>>
    OBVIOUS
  <2> HIDE DEF k
  <2>2. <<k>> \in Queue(S)
    BY <2>1, QueueParts
  <2> QED BY <2>2 DEF k
<1>6. /\ w = 0 => ApplyCustomHW(settings, p) = h \o k2 \o <<>> \o <<>> \o e
      /\ w # 0 => ApplyCustomHW(settings, p) = <<>> \o k2 \o b \o k4 \o e
  BY DEF ApplyCustomHW
<1>7. <<>> \in Queue(S) /\ \A x, y \in Queue(S) : x \o y \in Queue(S)
  BY QueueParts
<1>8. \A x \in Queue(S) : <<>> \o x = x /\ x \o <<>> = x
  BY DEF Queue
<1>9. \A x, y, z \in Queue(S) : (x \o y) \o z = x \o (y \o z)
  BY DEF Queue
<1> HIDE DEF a, b, d, e, h, c, w
<1>13. k2 \in Queue(S) /\ (w # 0 => k4 \in Queue(S))
  BY <1>2, <1>4, <1>7
<1>14. (c = NoCurve => k2 = <<>>) /\ (c # NoCurve => k2 = a /\ k4 = <<>>)
  OBVIOUS
<1> HIDE DEF k2, k4
<1>10. CASE w = 0
  <2>1. ApplyCustomHW(settings, p) = h \o (k2 \o e)
    <3>1. h \o k2 \in Queue(S)
      BY <1>1, <1>7, <1>10, <1>13
    <3>2. (h \o k2) \o <<>> = h \o k2
      BY <1>8, <3>1, Zenon
    <3>3. (h \o k2) \o e = h \o (k2 \o e)
      BY <1>1, <1>5, <1>9, <1>10, <1>13, Zenon
    <3>4. ApplyCustomHW(settings, p) = (((h \o k2) \o <<>>) \o <<>>) \o e
      BY <1>6, <1>10, Zenon
    <3> QED BY <3>2, <3>3, <3>4, Zenon
  <2>3. h \in Queue(S) /\ k2 \o e \in Queue(S)
    BY <1>1, <1>5, <1>7, <1>10, <1>13
  <2>2. ASSUME NEW x \in Queue(S), NEW y \in Queue(S), x # <<>>
        PROVE  x \o y # <<>> /\ Head(x \o y) = Head(x)
    BY <2>2 DEF Queue
  <2>4. h \o (k2 \o e) # <<>> /\ Head(h \o (k2 \o e)) = << LimitStep(Firmware[p], FALSE) >>
    BY <1>1, <1>10, <2>2, <2>3
  <2> QED BY <1>7, <1>10, <2>1, <2>3, <2>4 DEF w, BeginsWith
<1>11. CASE w # 0 /\ c = NoCurve
  <2>1. k4 \o e \in Queue(S) /\ b \in Queue(S)
    BY <1>3, <1>5, <1>7, <1>11, <1>13
  <2>2. ApplyCustomHW(settings, p) = b \o (k4 \o e)
    <3>1. ApplyCustomHW(settings, p) = (((<<>> \o <<>>) \o b) \o k4) \o e
      BY <1>6, <1>11, <1>14, Zenon
    <3>2. <<>> \o <<>> = <<>> /\ <<>> \o b = b
      BY <1>7, <1>8, <2>1, Zenon
    <3>3. (b \o k4) \o e = b \o (k4 \o e)
      BY <1>5, <1>9, <1>11, <1>13, <2>1, Zenon
    <3> QED BY <3>1, <3>2, <3>3, Zenon
  <2> QED BY <1>7, <1>11, <2>1, <2>2 DEF w, c, b
<1>12. CASE w # 0 /\ c # NoCurve
  <2>1. b \o e \in Queue(S) /\ a \in Queue(S) /\ b \in Queue(S) /\ a \o b \in Queue(S)
    BY <1>2, <1>3, <1>5, <1>7, <1>12
  <2>2. ApplyCustomHW(settings, p) = a \o (b \o e)
    <3>1. ApplyCustomHW(settings, p) = (((<<>> \o a) \o b) \o <<>>) \o e
      BY <1>6, <1>12, <1>14, Zenon
    <3>2. <<>> \o a = a /\ (a \o b) \o <<>> = a \o b
      BY <1>8, <2>1, Zenon
    <3>3. (a \o b) \o e = a \o (b \o e)
      BY <1>5, <1>9, <2>1, Zenon
    <3> QED BY <3>1, <3>2, <3>3, Zenon
  <2> QED BY <1>7, <1>12, <2>1, <2>2 DEF w, c, a, b, e
<1> QED BY <1>10, <1>11, <1>12

-----------------------------------------------------------------------------
(* The operations, made of steps of a set S.                               *)

\* The calls that end on the firmware profile p.
Land(p, n) == << SetProfile(p, TRUE) >> \o HandBackToFirmware(p)
                \o CommitAndSave(n, NoCurve, 0, p)

LEMMA LandIn ==
  ASSUME NEW S, NEW p, NEW n, ProfileStep(p, TRUE) \in S,
         LimitStep(Firmware[p], FALSE) \in S, Do("guard") \in S,
         ReleaseStep(0, FALSE) \in S, CommitStep(n, NoCurve, 0, p) \in S, Do("save") \in S
  PROVE  /\ Land(p, n) \in Queue(S) /\ Land(p, n) # <<>>
         /\ Head(Land(p, n)) = << ProfileStep(p, TRUE) >>
         /\ Tail(Land(p, n)) \in Queue(S) /\ Tail(Land(p, n)) # <<>>
         /\ Head(Tail(Land(p, n))) = << LimitStep(Firmware[p], FALSE) >>
<1> DEFINE s == ProfileStep(p, TRUE)
           k == << s >>
           h == HandBackToFirmware(p)
           e == CommitAndSave(n, NoCurve, 0, p)
<1>1. /\ h \in Queue(S) /\ h # <<>> /\ Head(h) = << LimitStep(Firmware[p], FALSE) >>
      /\ e \in Queue(S)
  BY HandBackIn, CommitIn
<1>2. k \in Seq(S) /\ k # <<>>
  <2>1. s \in S
    OBVIOUS
  <2> HIDE DEF s
  <2> QED BY <2>1
<1>3. Land(p, n) = (<<k>> \o h) \o e
  BY DEF Land, SetProfile, ProfileStep
<1> HIDE DEF s, k, h, e
<1>4. <<k>> \in Queue(S) /\ h \o e \in Queue(S)
  BY <1>1, <1>2, QueueParts
<1>5. Land(p, n) = <<k>> \o (h \o e)
  <2>1. \A x, y, z \in Queue(S) : (x \o y) \o z = x \o (y \o z)
    BY DEF Queue
  <2> QED BY <1>1, <1>3, <1>4, <2>1, Zenon
<1>6. h \o e # <<>> /\ Head(h \o e) = Head(h)
  BY <1>1 DEF Queue
<1>7. /\ Land(p, n) \in Queue(S) /\ Land(p, n) # <<>>
      /\ Head(Land(p, n)) = k /\ Tail(Land(p, n)) = h \o e
  BY <1>2, <1>4, <1>5, QueueFirst
<1> QED BY <1>1, <1>4, <1>6, <1>7 DEF k, s, h

LEMMA SelectStockIn ==
  ASSUME NEW p, SelectStock(p)
  PROVE  todo' = Land(p, NoName)
BY DEF SelectStock, Land

LEMMA ResetTDPIn ==
  ASSUME NEW n, ResetTDP(n)
  PROVE  /\ Live(n) => todo' = Land("balanced", IF Implicit(n) THEN NoName ELSE Target(n))
         /\ ~Live(n) => todo' = CommitAndSave(n, saved[n].curve, 0, NoName)
BY DEF ResetTDP, Land

\* The profile an edit of n leaves active: NoName leaves that alone.
Activates(n) == IF Live(n) THEN Target(n) ELSE NoName

LEMMA SetFanCurveIn ==
  ASSUME NEW S, NEW n, NEW points, SetFanCurve(n, points),
         Live(n) => CurveStep(points, TRUE) \in S /\ VerifyStep(TRUE) \in S,
         CommitStep(Target(n), points, saved[Target(n)].tdp, Activates(n)) \in S,
         Do("save") \in S
  PROVE  todo' \in Queue(S)
<1> DEFINE q1 == << SetBothFanCurves(points, TRUE) >>
           q2 == CommitAndSave(Target(n), points, saved[Target(n)].tdp, Activates(n))
<1>1. todo' = (IF Live(n) THEN q1 ELSE <<>>) \o q2
  BY DEF SetFanCurve, Activates
<1>2. q2 \in Queue(S) /\ (Live(n) => q1 \in Queue(S))
  BY CurveIn, CommitIn
<1> HIDE DEF q1, q2
<1> QED BY <1>1, <1>2, QueueParts

LEMMA ResetFanCurveIn ==
  ASSUME NEW S, NEW n, NEW keep, ResetFanCurve(n),
         keep = IF Implicit(n) THEN 0 ELSE saved[Target(n)].tdp,
         Live(n) => ReleaseStep(keep, TRUE) \in S,
         (Live(n) /\ keep # 0) => LimitStep(keep, TRUE) \in S,
         ~Implicit(n) =>
           CommitStep(Target(n), NoCurve, saved[Target(n)].tdp, Activates(n)) \in S,
         Do("save") \in S
  PROVE  /\ todo' \in Queue(S)
         /\ Live(n) => todo' # <<>> /\ Head(Head(todo')) = ReleaseStep(keep, TRUE)
<1> DEFINE k == ReleaseFans(keep, TRUE)
           q1 == << k >>
           q2 == CommitAndSave(Target(n), NoCurve, saved[Target(n)].tdp, Activates(n))
           q == IF Implicit(n) THEN <<>> ELSE q2
<1>1. todo' = (IF Live(n) THEN q1 ELSE <<>>) \o q
  BY DEF ResetFanCurve, Activates
<1>2. q \in Queue(S)
  <2>1. ~Implicit(n) => q2 \in Queue(S)
    BY CommitIn
  <2> HIDE DEF q2
  <2> QED BY <2>1, QueueParts
<1>3. Live(n) => k \in Seq(S) /\ k # <<>>
  BY ReleaseIn
<1>4. Head(k) = ReleaseStep(keep, TRUE)
  <2> DEFINE s1 == ReleaseStep(keep, TRUE)
             s2 == LimitStep(keep, TRUE)
  <2>1. k = IF keep = 0 THEN <<s1>> ELSE <<s1, s2>>
    BY DEF ReleaseFans
  <2> HIDE DEF s1, s2, k
  <2>2. Head(k) = s1
    BY <2>1
  <2> QED BY <2>2 DEF s1
<1> HIDE DEF k, q
<1>5. CASE Live(n)
  <2>1. todo' = <<k>> \o q
    BY <1>1, <1>5
  <2> QED BY <1>2, <1>3, <1>4, <1>5, <2>1, QueueFirst
<1>6. CASE ~Live(n)
  <2>1. todo' = <<>> \o q
    BY <1>1, <1>6
  <2> QED BY <1>2, <1>6, <2>1, QueueParts
<1> QED BY <1>5, <1>6

\* A queue that begins with the call k, then the step s.
Starts(t, k, s) == t # <<>> /\ Tail(t) # <<>> /\ Head(t) = k /\ Head(Tail(t)) = << s >>

LEMMA SetTDPIn ==
  ASSUME NEW S, NEW n, NEW w, NEW pl1, NEW c, SetTDP(n, w, pl1), c = saved[Target(n)].curve,
         Live(n) =>
           /\ LimitStep(w, TRUE) \in S
           /\ FanCurveForTDP(w, c) # NoCurve =>
                CurveStep(FanCurveForTDP(w, c), TRUE) \in S /\ VerifyStep(TRUE) \in S,
         (Live(n) /\ pl1 <= TDPMaxSafe) =>
           /\ c = NoCurve => ReleaseStep(w, FALSE) \in S /\ (w # 0 => LimitStep(w, FALSE) \in S)
           /\ c # NoCurve => CurveStep(c, FALSE) \in S /\ VerifyStep(FALSE) \in S,
         CommitStep(Target(n), c, w, Activates(n)) \in S, Do("save") \in S
  PROVE  /\ todo' \in Queue(S)
         /\ Live(n) => Starts(todo', ApplyTDPSafely(w, c, TRUE),
                              CommitStep(Target(n), c, w, Activates(n)))
<1> DEFINE k == ApplyTDPSafely(w, c, TRUE)
           e == CommitAndSave(Target(n), c, w, Activates(n))
           k3 == IF c = NoCurve THEN ReleaseFans(w, FALSE) ELSE SetBothFanCurves(c, FALSE)
           f == IF Live(n) /\ pl1 <= TDPMaxSafe THEN << k3 >> ELSE <<>>
<1>1. todo' = (IF Live(n) THEN << k >> ELSE <<>>) \o e \o f
  BY DEF SetTDP, Activates
<1>2. Live(n) => k \in Seq(S) /\ k # <<>>
  BY ApplyIn
<1>3. /\ e \in Queue(S) /\ e # <<>>
      /\ Head(e) = << CommitStep(Target(n), c, w, Activates(n)) >>
  BY CommitIn
<1>4. f \in Queue(S)
  <2>1. (Live(n) /\ pl1 <= TDPMaxSafe) => k3 \in Seq(S) /\ k3 # <<>>
    <3>1. (Live(n) /\ pl1 <= TDPMaxSafe /\ c = NoCurve) =>
            ReleaseFans(w, FALSE) \in Seq(S) /\ ReleaseFans(w, FALSE) # <<>>
      BY ReleaseIn
    <3>2. (Live(n) /\ pl1 <= TDPMaxSafe /\ c # NoCurve) =>
            SetBothFanCurves(c, FALSE) \in Seq(S) /\ SetBothFanCurves(c, FALSE) # <<>>
      BY CurveIn
    <3> QED BY <3>1, <3>2
  <2> HIDE DEF k3
  <2> QED BY <2>1, QueueParts
<1> HIDE DEF k, e, f
<1>5. e \o f \in Queue(S) /\ e \o f # <<>> /\ Head(e \o f) = Head(e)
  <2>1. e \o f # <<>> /\ Head(e \o f) = Head(e)
    BY <1>3, <1>4 DEF Queue
  <2> QED BY <1>3, <1>4, <2>1, QueueParts
<1>6. CASE Live(n)
  <2>1. todo' = <<k>> \o (e \o f)
    <3>1. <<k>> \in Queue(S)
      BY <1>2, <1>6, QueueParts
    <3>2. \A x, y, z \in Queue(S) : (x \o y) \o z = x \o (y \o z)
      BY DEF Queue
    <3>3. todo' = (<<k>> \o e) \o f
      BY <1>1, <1>6
    <3> QED BY <1>3, <1>4, <3>1, <3>2, <3>3, Zenon
  <2>2. /\ todo' \in Queue(S) /\ todo' # <<>>
        /\ Head(todo') = k /\ Tail(todo') = e \o f
    BY <1>2, <1>5, <1>6, <2>1, QueueFirst
  <2> QED BY <1>3, <1>5, <2>2 DEF k, Starts
<1>7. CASE ~Live(n)
  <2>1. todo' = (<<>> \o e) \o f
    BY <1>1, <1>7
  <2>2. <<>> \o e = e
    BY <1>3 DEF Queue
  <2> QED BY <1>5, <1>7, <2>1, <2>2
<1> QED BY <1>6, <1>7

LEMMA TickIn ==
  ASSUME NEW S, ReconcileTick, active \in Names, NEW s, s = saved[active],
         LimitLost(s) =>
           /\ LimitStep(s.tdp, FALSE) \in S
           /\ FanCurveForTDP(s.tdp, s.curve) # NoCurve =>
                /\ CurveStep(FanCurveForTDP(s.tdp, s.curve), FALSE) \in S
                /\ VerifyStep(FALSE) \in S,
         CurveDropped(s.curve) => ReconcileStep(s.curve) \in S
  PROVE  /\ todo' \in Queue(S)
         /\ floorLimit' = IF CurveDropped(s.curve) THEN cache ELSE 0
         /\ LimitLost(s) =>
              /\ todo' # <<>> /\ Head(todo') = ApplyTDPSafely(s.tdp, s.curve, FALSE)
              /\ CurveDropped(s.curve) => Tail(todo') = << << ReconcileStep(s.curve) >> >>
              /\ ~CurveDropped(s.curve) => Tail(todo') = <<>>
         /\ (~LimitLost(s) /\ CurveDropped(s.curve)) =>
              todo' = << << ReconcileStep(s.curve) >> >>
         /\ (~LimitLost(s) /\ ~CurveDropped(s.curve)) => todo' = <<>>
<1> DEFINE k == ApplyTDPSafely(s.tdp, s.curve, FALSE)
           r == << ReconcileStep(s.curve) >>
<1>1. /\ todo' = (IF LimitLost(s) THEN << k >> ELSE <<>>)
                  \o (IF CurveDropped(s.curve) THEN << r >> ELSE <<>>)
      /\ floorLimit' = IF CurveDropped(s.curve) THEN cache ELSE 0
  BY DEF ReconcileTick, ReconcileStep
<1>2. LimitLost(s) => k \in Seq(S) /\ k # <<>>
  BY ApplyIn
<1>3. CurveDropped(s.curve) => r \in Seq(S) /\ r # <<>>
  OBVIOUS
<1>4. <<>> \in Queue(S) /\ (CurveDropped(s.curve) => << r >> \in Queue(S))
  <2> HIDE DEF r
  <2> QED BY <1>3, QueueParts
<1> HIDE DEF k, r
<1> DEFINE q == IF CurveDropped(s.curve) THEN << r >> ELSE <<>>
<1>5. q \in Queue(S)
  BY <1>4
<1>6. CASE LimitLost(s)
  <2>1. todo' = << k >> \o q
    BY <1>1, <1>6
  <2> HIDE DEF q
  <2>2. todo' \in Queue(S) /\ todo' # <<>> /\ Head(todo') = k /\ Tail(todo') = q
    BY <1>2, <1>5, <1>6, <2>1, QueueFirst
  <2> QED BY <1>1, <1>6, <2>2 DEF q, k, r
<1>7. CASE ~LimitLost(s)
  <2>1. todo' = q
    BY <1>1, <1>7
  <2> HIDE DEF q
  <2> QED BY <1>1, <1>5, <1>7, <2>1 DEF q, r
<1> QED BY <1>6, <1>7

-----------------------------------------------------------------------------
(* Operations that stay low.                                               *)

LowStep == { s \in GoodStep : ~High(s) }

\* The limit in force needs no floor, and nothing to come raises it ...
StaysLow == inForce <= TDPMaxSafe /\ todo \in Queue(LowStep)

\* ... or the next step lowers it.
LowersFirst(t) ==
  t # <<>> /\ t \in Queue(LowStep) /\ Head(Head(t)).do \in {"limit", "profile", "restore"}

Low == StaysLow \/ LowersFirst(todo)

LEMMA LowSteps ==
  /\ LowStep \subseteq GoodStep
  /\ \A c \in FanCurve, must \in BOOLEAN : CurveStep(c, must) \in LowStep
  /\ \A w \in Limit, must \in BOOLEAN : w <= TDPMaxSafe => LimitStep(w, must) \in LowStep
  /\ \A w \in Limit, must \in BOOLEAN : ReleaseStep(w, must) \in LowStep
  /\ \A must \in BOOLEAN : VerifyStep(must) \in LowStep
  /\ Do("guard") \in LowStep
  /\ Do("save") \in LowStep
  /\ \A p \in StockProfiles, must \in BOOLEAN : ProfileStep(p, must) \in LowStep
  /\ \A p \in StockProfiles : RestoreStep(p) \in LowStep
  /\ \A c \in MaybeCurve : ReconcileStep(c) \in LowStep
  /\ \A n \in MaybeProfile, c \in MaybeCurve, w \in Limit, a \in MaybeProfile :
       CommitStep(n, c, w, a) \in LowStep
<1>1. ASSUME NEW w \in Limit, NEW must \in BOOLEAN, w <= TDPMaxSafe
      PROVE  LimitStep(w, must) \in LowStep
  <2>1. ~(w > TDPMaxSafe)
    BY <1>1, Bounds
  <2>2. ~High(LimitStep(w, must))
    BY <2>1, Kinds DEF High
  <2> QED BY <2>2, GoodSteps DEF LowStep
<1>2. \A s \in GoodStep : s.do # "limit" => s \in LowStep
  BY DEF LowStep, High
<1> QED BY <1>1, <1>2, GoodSteps, Kinds DEF LowStep

LEMMA FirmwareLow ==
  ASSUME NEW p \in StockProfiles
  PROVE  Firmware[p] \in Limit /\ Firmware[p] <= TDPMaxSafe /\ Firmware[p] # 0
<1>1. Firmware[p] \in 1..TDPMaxSafe
  BY PowerAssumption
<1> QED BY <1>1, Bounds

LEMMA LowLimitStep ==
  ASSUME NEW s \in LowStep, s.do = "limit"
  PROVE  s.watts \in Limit /\ s.watts <= TDPMaxSafe
<1>1. s.watts \in Limit
  BY DEF LowStep, GoodStep, Step
<1>2. ~(s.watts > TDPMaxSafe)
  BY DEF LowStep, High
<1> DEFINE w == s.watts
<1>3. w \in Limit /\ ~(w > TDPMaxSafe)
  BY <1>1, <1>2
<1> HIDE DEF w
<1>4. w <= TDPMaxSafe
  BY <1>3, Bounds
<1> QED BY <1>1, <1>4 DEF w

\* A row written, then the rest of the queue.
LEMMA RowFirst ==
  ASSUME NEW p \in StockProfiles, NEW r \in Queue(LowStep)
  PROVE  /\ LowersFirst(HandBackToFirmware(p) \o r)
         /\ LowersFirst(<< SetTDPState(Firmware[p], FALSE) >> \o r)
<1> DEFINE s == LimitStep(Firmware[p], FALSE)
           h == HandBackToFirmware(p)
           k == SetTDPState(Firmware[p], FALSE)
<1>1. s \in LowStep /\ s.do = "limit"
  <2>1. Firmware[p] \in Limit /\ Firmware[p] <= TDPMaxSafe /\ FALSE \in BOOLEAN
    BY FirmwareLow
  <2>2. s \in LowStep
    BY <2>1, LowSteps
  <2>3. s.do = "limit"
    BY DEF LimitStep, Do
  <2> QED BY <2>2, <2>3
<1>2. /\ h \in Queue(LowStep) /\ h # <<>> /\ Head(h) = << s >>
      /\ k \in Seq(LowStep) /\ k # <<>> /\ k = << s >>
  <2>1. 0 \in Limit /\ FALSE \in BOOLEAN
    BY Bounds
  <2>2. Do("guard") \in LowStep /\ ReleaseStep(0, FALSE) \in LowStep
    BY <2>1, LowSteps
  <2>3. h \in Queue(LowStep) /\ h # <<>> /\ Head(h) = << s >>
    BY <1>1, <2>2, HandBackIn
  <2>4. k \in Seq(LowStep) /\ k # <<>>
    BY <1>1, LimitIn
  <2> QED BY <2>3, <2>4 DEF SetTDPState
<1> HIDE DEF h, k, s
<1>3. /\ h \o r \in Queue(LowStep) /\ h \o r # <<>> /\ Head(h \o r) = << s >>
  <2>1. h \o r # <<>> /\ Head(h \o r) = Head(h)
    BY <1>2 DEF Queue
  <2> QED BY <1>2, <2>1, QueueParts
<1>4. /\ <<k>> \o r \in Queue(LowStep) /\ <<k>> \o r # <<>> /\ Head(<<k>> \o r) = << s >>
  BY <1>2, QueueFirst
<1>5. Head(<< s >>) = s
  OBVIOUS
<1> QED BY <1>1, <1>3, <1>4, <1>5 DEF LowersFirst, h, k

\* A low limit stays so while nothing to come raises it, also when a write fails
\* part way.
LEMMA LowStays ==
  ASSUME IInv, HardwareStep \/ StateStep, StaysLow
  PROVE  StaysLow'
<1>1. todo # <<>>
  BY DEF HardwareStep, StateStep, Doing, WriteCurve, WriteCurveFails, VerifyFanCurveActive,
         WriteLimit, WriteLimitFails, CheckFanFloorRelease, RefuseRelease, Release,
         ReleaseFails, WriteProfile, WriteProfileFails, ChooseRestore, ReconcileCurve,
         Commit, Save, SaveFails
<1>2. todo \in Queue(LowStep) /\ inForce <= TDPMaxSafe /\ TypeOK
  BY DEF StaysLow, IInv
<1>3. Now \in LowStep /\ Tail(todo) \in Queue(LowStep)
  <2>1. todo \in Queue(LowStep)
    BY <1>2
  <2> QED BY <1>1, <2>1, QueueNext DEF Now
<1>4. Done \/ Failed => todo' \in Queue(LowStep)
  BY <1>1, <1>2, QueueMoves
<1>5. CASE WriteLimit \/ WriteLimitFails
  <2>1. Now.do = "limit" /\ inForce' \in {inForce, Now.watts} /\ (Done \/ Failed)
    BY <1>5 DEF WriteLimit, WriteLimitFails, Doing
  <2>2. Now.watts <= TDPMaxSafe
    BY <1>3, <2>1, LowLimitStep
  <2> QED BY <1>2, <1>4, <2>1, <2>2 DEF StaysLow
<1>6. CASE Release \/ ReleaseFails \/ WriteProfile
  <2>1. Now.do = "profile" => Now.name \in StockProfiles
    BY <1>3, LowSteps, NowTyped
  <2>2. platform \in StockProfiles
    BY <1>2 DEF TypeOK
  <2>3. inForce' <= TDPMaxSafe /\ (Done \/ Failed)
    BY <1>2, <1>6, <2>1, <2>2, TakenOver DEF Release, ReleaseFails, WriteProfile, Doing, hardware
  <2> QED BY <1>4, <2>3 DEF StaysLow
<1>7. CASE ChooseRestore
  <2> DEFINE p == Now.name
  <2>1. p \in StockProfiles
    BY <1>3, <1>7, LowSteps, NowTyped DEF ChooseRestore, Doing
  <2>2. /\ \/ todo' = HandBackToFirmware(p) \o Tail(todo)
           \/ todo' = << SetTDPState(Firmware[p], FALSE) >> \o Tail(todo)
        /\ inForce' = inForce
    BY <1>7 DEF ChooseRestore, hardware
  <2>3. LowersFirst(todo')
    <3> HIDE DEF p
    <3> QED BY <1>3, <2>1, <2>2, RowFirst
  <2> QED BY <1>2, <2>2, <2>3 DEF LowersFirst, StaysLow
<1>8. CASE ReconcileCurve
  <2> DEFINE c == ReconcileCurveFor(floorLimit, Now.curve)
  <2>1. inForce' = inForce
    BY <1>8 DEF ReconcileCurve, hardware
  <2>2. c \in MaybeCurve
    <3>1. floorLimit \in Int /\ Now.curve \in FanCurve \cup {NoCurve}
      BY <1>2, <1>3, LowSteps, NowTyped, Bounds DEF TypeOK, MaybeCurve
    <3>2. FanCurveForTDP(floorLimit, Now.curve) \in FanCurve \cup {NoCurve}
      BY <3>1, FloorForTDP, Bounds
    <3> QED BY <3>1, <3>2 DEF ReconcileCurveFor, MaybeCurve
  <2>3. todo' = (IF c = NoCurve THEN <<>> ELSE << SetBothFanCurves(c, FALSE) >>) \o Tail(todo)
    BY <1>8 DEF ReconcileCurve
  <2> HIDE DEF c
  <2>4. c # NoCurve => << SetBothFanCurves(c, FALSE) >> \in Queue(LowStep)
    BY <2>2, LowSteps, CurveIn DEF MaybeCurve
  <2>5. todo' \in Queue(LowStep)
    BY <1>3, <2>3, <2>4, QueueParts
  <2> QED BY <1>2, <2>1, <2>5 DEF StaysLow
<1>9. CASE WriteCurve \/ WriteCurveFails \/ VerifyFanCurveActive \/ CheckFanFloorRelease
           \/ RefuseRelease \/ WriteProfileFails \/ Commit \/ Save \/ SaveFails
  <2>1. inForce' = inForce /\ (Done \/ Failed)
    BY <1>9 DEF WriteCurve, WriteCurveFails, VerifyFanCurveActive, CheckFanFloorRelease,
                RefuseRelease, WriteProfileFails, Commit, Save, SaveFails, hardware
  <2> QED BY <1>2, <1>4, <2>1 DEF StaysLow
<1> QED BY <1>5, <1>6, <1>7, <1>8, <1>9 DEF HardwareStep, StateStep

LEMMA LowStepSafe ==
  ASSUME IInv, WriteFaults = FALSE, HardwareStep \/ StateStep, Low
  PROVE  Low'
<1>1. CASE StaysLow
  BY <1>1, LowStays DEF Low
<1>2. CASE LowersFirst(todo)
  <2>1. /\ todo # <<>> /\ todo \in Queue(LowStep) /\ TypeOK
        /\ Now.do \in {"limit", "profile", "restore"}
    BY <1>2 DEF LowersFirst, Now, IInv
  <2>2. Now \in LowStep /\ Tail(todo) \in Queue(LowStep)
    <3>1. /\ Head(Head(todo)) = Head(todo)[1] /\ Head(todo)[1] \in LowStep
          /\ Tail(todo) \in Queue(LowStep)
      BY <2>1, QueueNext, Zenon
    <3> QED BY <3>1 DEF Now
  <2>3. Done \/ Failed => todo' \in Queue(LowStep)
    BY <2>1, QueueMoves
  <2>4. CASE WriteLimit
    BY <2>2, <2>3, <2>4, LowLimitStep DEF WriteLimit, Doing, Low, StaysLow
  <2>5. CASE WriteProfile
    <3>1. Now.name \in StockProfiles
      BY <2>2, <2>5, LowSteps, NowTyped DEF WriteProfile, Doing
    <3>2. inForce' <= TDPMaxSafe /\ Done
      BY <2>1, <2>5, <3>1, TakenOver DEF WriteProfile
    <3> QED BY <2>3, <3>2 DEF Low, StaysLow
  <2>6. CASE ChooseRestore
    <3> DEFINE p == Now.name
    <3>1. p \in StockProfiles
      BY <2>2, <2>6, LowSteps, NowTyped DEF ChooseRestore, Doing
    <3>2. \/ todo' = HandBackToFirmware(p) \o Tail(todo)
          \/ todo' = << SetTDPState(Firmware[p], FALSE) >> \o Tail(todo)
      BY <2>6 DEF ChooseRestore
    <3>3. LowersFirst(todo')
      <4> HIDE DEF p
      <4> QED BY <2>2, <3>1, <3>2, RowFirst
    <3> QED BY <3>3 DEF Low
  <2> QED BY <2>1, <2>4, <2>5, <2>6
          DEF HardwareStep, StateStep, Doing, WriteCurve, WriteCurveFails,
              VerifyFanCurveActive, WriteLimitFails, CheckFanFloorRelease, RefuseRelease,
              Release, ReleaseFails, WriteProfileFails, ReconcileCurve, Commit, Save,
              SaveFails
<1> QED BY <1>1, <1>2 DEF Low

\* What others do to the limit never raises it over TDPMaxSafe.
LEMMA OutsideLow ==
  ASSUME IInv, Environment, ~RestartDaemon, ~Reboot
  PROVE  /\ inForce' = inForce \/ inForce' <= TDPMaxSafe
         /\ UNCHANGED <<todo, active, saved, floorLimit, watching>>
<1>1. ASSUME NEW p \in StockProfiles, OutsidePolicy(p) PROVE inForce' <= TDPMaxSafe
  <2>1. FirmwareTakesOver(p)
    BY <1>1 DEF OutsidePolicy
  <2> QED BY <2>1, FirmwareLow DEF FirmwareTakesOver
<1>2. ASSUME NEW w \in OutsideLimits, OutsideLimit(w) PROVE inForce' <= TDPMaxSafe
  BY <1>2, PowerAssumption, Bounds DEF OutsideLimit
<1> QED BY <1>1, <1>2 DEF Environment, OutsidePolicy, OutsideLimit, OtherSave,
                          hardware, memory, latches

-----------------------------------------------------------------------------
(* Operations that only edit, and those that end on a custom profile.      *)

EditStep == { s \in GoodStep : s.do # "commit" }

LEMMA EditSteps ==
  /\ \A c \in FanCurve, must \in BOOLEAN : CurveStep(c, must) \in EditStep
  /\ \A w \in Limit, must \in BOOLEAN : LimitStep(w, must) \in EditStep
  /\ \A w \in Limit, must \in BOOLEAN : ReleaseStep(w, must) \in EditStep
  /\ \A must \in BOOLEAN : VerifyStep(must) \in EditStep
  /\ Do("guard") \in EditStep
  /\ Do("save") \in EditStep
  /\ \A p \in StockProfiles, must \in BOOLEAN : ProfileStep(p, must) \in EditStep
  /\ \A p \in StockProfiles : RestoreStep(p) \in EditStep
  /\ \A c \in MaybeCurve : ReconcileStep(c) \in EditStep
BY GoodSteps, Kinds DEF EditStep

\* The curve a limit asks for is one the fans can be given.
LEMMA FloorCurve ==
  ASSUME NEW w \in Limit, NEW want \in MaybeCurve
  PROVE  /\ FanCurveForTDP(w, want) \in MaybeCurve
         /\ w > TDPMaxSafe => FanCurveForTDP(w, want) \in FanCurve
                              /\ MeetsFloor(FanCurveForTDP(w, want))
         /\ w <= TDPMaxSafe => FanCurveForTDP(w, want) = NoCurve
<1>1. w \in Int /\ want \in FanCurve \cup {NoCurve}
  BY Bounds DEF MaybeCurve
<1>2. w <= TDPMaxSafe \/ w > TDPMaxSafe
  BY <1>1, Bounds
<1> QED BY <1>1, <1>2, FloorForTDP DEF MaybeCurve

LEMMA ApplyEdits ==
  ASSUME NEW w \in Limit, NEW want \in MaybeCurve, NEW must \in BOOLEAN
  PROVE  /\ LimitStep(w, must) \in EditStep
         /\ FanCurveForTDP(w, want) # NoCurve =>
              /\ CurveStep(FanCurveForTDP(w, want), must) \in EditStep
              /\ VerifyStep(must) \in EditStep
<1>1. FanCurveForTDP(w, want) # NoCurve => FanCurveForTDP(w, want) \in FanCurve
  BY FloorCurve DEF MaybeCurve
<1> QED BY <1>1, EditSteps

\* A profile's apply commits nothing.
LEMMA ApplyCustomEdits ==
  ASSUME NEW settings \in Settings, NEW p \in StockProfiles
  PROVE  ApplyCustomHW(settings, p) \in Queue(EditStep)
<1> DEFINE c == settings.curve
           w == settings.tdp
<1>1. c \in MaybeCurve /\ w \in Limit /\ 0 \in Limit /\ FALSE \in BOOLEAN
  BY Bounds DEF Settings
<1>2. LimitStep(Firmware[p], FALSE) \in EditStep
  BY FirmwareLow, EditSteps
<1>3. /\ Do("guard") \in EditStep /\ Do("save") \in EditStep
      /\ ReleaseStep(0, FALSE) \in EditStep /\ ReleaseStep(w, FALSE) \in EditStep
      /\ VerifyStep(FALSE) \in EditStep
  BY <1>1, EditSteps
<1>4. c # NoCurve => CurveStep(c, FALSE) \in EditStep
  <2>1. c # NoCurve => c \in FanCurve
    BY <1>1 DEF MaybeCurve
  <2> QED BY <1>1, <2>1, EditSteps
<1>5. /\ LimitStep(w, FALSE) \in EditStep
      /\ FanCurveForTDP(w, c) # NoCurve => CurveStep(FanCurveForTDP(w, c), FALSE) \in EditStep
  <2> HIDE DEF c, w
  <2> QED BY <1>1, ApplyEdits
<1> QED BY <1>2, <1>3, <1>4, <1>5, ApplyCustomIn

KeepsCustom == { s \in GoodStep : s.do = "commit" => s.active \notin StockProfiles }
MustStep == { s \in GoodStep : s.do \in {"curve", "verify", "limit"} /\ s.must }

\* A call whose failure ends the operation, with its limit last.
MustCall ==
  { k \in Seq(MustStep) : k # <<>> /\ \A i \in 1..Len(k) : k[i].do = "limit" => i = Len(k) }

StaysCustom == active \notin StockProfiles /\ todo \in Queue(KeepsCustom)

\* The next step makes a custom profile the active one ...
Claims(t) ==
  /\ t # <<>> /\ t \in Queue(KeepsCustom)
  /\ Len(Head(t)) = 1 /\ Head(Head(t)).do = "commit" /\ Head(Head(t)).active \in Names

\* ... once the limit it asked for is written, on pain of returning.
ClaimsNext ==
  /\ todo # <<>> /\ inForce <= TDPMaxSafe
  /\ Head(todo) \in MustCall /\ Claims(Tail(todo))

StockInv == Low \/ StaysCustom \/ ClaimsNext \/ Claims(todo)

LEMMA KeepsCustomSteps ==
  /\ EditStep \subseteq KeepsCustom
  /\ KeepsCustom \subseteq GoodStep
  /\ \A n \in MaybeProfile, c \in MaybeCurve, w \in Limit, a \in MaybeProfile \ StockProfiles :
       CommitStep(n, c, w, a) \in KeepsCustom
<1>1. ASSUME NEW n \in MaybeProfile, NEW c \in MaybeCurve, NEW w \in Limit,
             NEW a \in MaybeProfile \ StockProfiles
      PROVE  CommitStep(n, c, w, a) \in KeepsCustom
  <2>1. CommitStep(n, c, w, a) \in GoodStep
    BY GoodSteps
  <2>2. CommitStep(n, c, w, a).active = a
    BY Kinds
  <2> HIDE DEF CommitStep
  <2> QED BY <2>1, <2>2 DEF KeepsCustom
<1> QED BY <1>1 DEF EditStep, KeepsCustom

\* ApplyTDPSafely is such a call.
LEMMA ApplyMust ==
  ASSUME NEW w \in Limit, NEW want \in MaybeCurve
  PROVE  ApplyTDPSafely(w, want, TRUE) \in MustCall
<1> DEFINE c == FanCurveForTDP(w, want)
           s1 == CurveStep(c, TRUE)
           s2 == VerifyStep(TRUE)
           s3 == LimitStep(w, TRUE)
           k == ApplyTDPSafely(w, want, TRUE)
<1>1. c # NoCurve => c \in FanCurve
  BY FloorCurve DEF MaybeCurve
<1> HIDE DEF c
<1>2. s3 \in GoodStep /\ s2 \in GoodStep /\ (c # NoCurve => s1 \in GoodStep)
  BY <1>1, GoodSteps
<1>3. /\ s1.do = "curve" /\ s1.must /\ s2.do = "verify" /\ s2.must
      /\ s3.do = "limit" /\ s3.must
  BY DEF CurveStep, VerifyStep, LimitStep, Do
<1>4. k = IF c = NoCurve THEN <<s3>> ELSE <<s1, s2, s3>>
  BY DEF ApplyTDPSafely, c
<1> HIDE DEF s1, s2, s3, k
<1>5. s3 \in MustStep /\ s2 \in MustStep /\ (c # NoCurve => s1 \in MustStep)
  BY <1>2, <1>3 DEF MustStep
<1>6. CASE c = NoCurve
  <2>1. k = <<s3>>
    BY <1>4, <1>6
  <2>2. k \in Seq(MustStep) /\ k # <<>> /\ Len(k) = 1
    BY <1>5, <2>1
  <2>3. \A i \in 1..1 : i = 1
    OBVIOUS
  <2> QED BY <2>2, <2>3 DEF MustCall, k
<1>7. CASE c # NoCurve
  <2>1. k = <<s1, s2, s3>>
    BY <1>4, <1>7
  <2>2. k \in Seq(MustStep) /\ k # <<>> /\ Len(k) = 3 /\ k[1] = s1 /\ k[2] = s2
    BY <1>5, <1>7, <2>1
  <2>3. \A i \in 1..3 : i = 1 \/ i = 2 \/ i = 3
    OBVIOUS
  <2> QED BY <1>3, <2>2, <2>3 DEF MustCall, k
<1> QED BY <1>6, <1>7

\* The steps that may replace the one under way by several calls.
LEMMA EditsReplaced ==
  ASSUME IInv, ChooseRestore \/ ReconcileCurve
  PROVE  /\ todo # <<>>
         /\ \E r \in Queue(EditStep) : todo' = r \o Tail(todo)
         /\ UNCHANGED <<hardware, memory, disk, lastHW, policyWritten, watching>>
<1>1. todo # <<>> /\ UNCHANGED <<hardware, memory, disk, lastHW, policyWritten, watching>>
  BY DEF ChooseRestore, ReconcileCurve, Doing, latches
<1>2. Now \in GoodStep /\ TypeOK
  BY <1>1, Started DEF IInv
<1>3. CASE ChooseRestore
  <2> DEFINE p == Now.name
             h == HandBackToFirmware(p)
             k == << SetTDPState(Firmware[p], FALSE) >>
  <2>1. p \in StockProfiles
    BY <1>2, <1>3, NowTyped DEF ChooseRestore, Doing
  <2>2. todo' = (IF \A i \in Fan : fan[i].mode = 2 THEN h ELSE k) \o Tail(todo)
    BY <1>3 DEF ChooseRestore
  <2>3. h \in Queue(EditStep) /\ k \in Queue(EditStep)
    <3>1. 0 \in Limit /\ FALSE \in BOOLEAN /\ Firmware[p] \in Limit
      BY <2>1, Bounds, FirmwareLow
    <3>2. LimitStep(Firmware[p], FALSE) \in EditStep /\ Do("guard") \in EditStep
          /\ ReleaseStep(0, FALSE) \in EditStep
      BY <3>1, EditSteps
    <3> QED BY <3>2, HandBackIn, LimitIn
  <2> HIDE DEF p, h, k
  <2> QED BY <1>1, <2>2, <2>3
<1>4. CASE ReconcileCurve
  <2> DEFINE c == ReconcileCurveFor(floorLimit, Now.curve)
             q == IF c = NoCurve THEN <<>> ELSE << SetBothFanCurves(c, FALSE) >>
  <2>1. c \in MaybeCurve
    <3>1. floorLimit \in Limit /\ Now.curve \in MaybeCurve
      BY <1>2, NowTyped DEF TypeOK
    <3>2. FanCurveForTDP(floorLimit, Now.curve) \in MaybeCurve
      BY <3>1, FloorCurve
    <3> QED BY <3>1, <3>2 DEF ReconcileCurveFor
  <2>2. todo' = q \o Tail(todo)
    BY <1>4 DEF ReconcileCurve
  <2> HIDE DEF c
  <2>3. c # NoCurve => << SetBothFanCurves(c, FALSE) >> \in Queue(EditStep)
    <3>1. c # NoCurve => c \in FanCurve
      BY <2>1 DEF MaybeCurve
    <3> QED BY <3>1, EditSteps, CurveIn
  <2>4. q \in Queue(EditStep)
    BY <2>3, QueueParts
  <2> HIDE DEF q
  <2> QED BY <1>1, <2>2, <2>4
<1> QED BY <1>3, <1>4

LEMMA StaysCustomSafe ==
  ASSUME IInv, HardwareStep \/ StateStep, StaysCustom
  PROVE  StaysCustom'
<1>1. todo # <<>>
  BY DEF HardwareStep, StateStep, Doing, WriteCurve, WriteCurveFails, VerifyFanCurveActive,
         WriteLimit, WriteLimitFails, CheckFanFloorRelease, RefuseRelease, Release,
         ReleaseFails, WriteProfile, WriteProfileFails, ChooseRestore, ReconcileCurve,
         Commit, Save, SaveFails
<1>2. Now \in KeepsCustom /\ Tail(todo) \in Queue(KeepsCustom)
  BY <1>1, QueueNext DEF StaysCustom, Now
<1>3. Done \/ Failed => todo' \in Queue(KeepsCustom)
  BY <1>1, QueueMoves DEF StaysCustom
<1>4. CASE ChooseRestore \/ ReconcileCurve
  <2>1. PICK r \in Queue(EditStep) : todo' = r \o Tail(todo)
    BY <1>4, EditsReplaced
  <2>2. r \in Queue(KeepsCustom)
    BY KeepsCustomSteps, QueueWiden
  <2>3. UNCHANGED active
    BY <1>4, EditsReplaced DEF memory
  <2> QED BY <1>2, <2>1, <2>2, <2>3, QueueParts DEF StaysCustom
<1>5. CASE Commit
  <2>1. Now.do = "commit" /\ Done /\ active' = IF Now.active = NoName THEN active ELSE Now.active
    BY <1>5 DEF Commit, Doing
  <2>2. Now.active \notin StockProfiles
    BY <1>2, <2>1 DEF KeepsCustom
  <2> QED BY <1>3, <2>1, <2>2 DEF StaysCustom
<1>6. CASE ~Commit /\ ~ChooseRestore /\ ~ReconcileCurve
  <2>1. (Done \/ Failed) /\ UNCHANGED active
    BY <1>6 DEF HardwareStep, StateStep, WriteCurve, WriteCurveFails, VerifyFanCurveActive,
         WriteLimit, WriteLimitFails, CheckFanFloorRelease, RefuseRelease, Release,
         ReleaseFails, WriteProfile, WriteProfileFails, Save, SaveFails, memory
  <2> QED BY <1>3, <2>1 DEF StaysCustom
<1> QED BY <1>4, <1>5, <1>6

LEMMA ClaimsSafe ==
  ASSUME HardwareStep \/ StateStep, Claims(todo)
  PROVE  StaysCustom'
<1>1. todo # <<>> /\ todo \in Queue(KeepsCustom) /\ Now.do = "commit" /\ Now.active \in Names
      /\ Len(Head(todo)) = 1
  BY DEF Claims, Now
<1>2. Commit
  BY <1>1 DEF HardwareStep, StateStep, Doing, WriteCurve, WriteCurveFails, VerifyFanCurveActive,
         WriteLimit, WriteLimitFails, CheckFanFloorRelease, RefuseRelease, Release,
         ReleaseFails, WriteProfile, WriteProfileFails, ChooseRestore, ReconcileCurve,
         Save, SaveFails
<1>3. Done /\ active' = Now.active
  <2>1. Now.active # NoName
    BY <1>1, ProfileAssumption DEF NoName
  <2> QED BY <1>2, <2>1 DEF Commit
<1>4. todo' \in Queue(KeepsCustom)
  BY <1>1, <1>3, QueueMoves
<1> QED BY <1>1, <1>3, <1>4, ProfileAssumption DEF StaysCustom

\* The rest of a call of several steps.
LEMMA CallRest ==
  ASSUME NEW S, NEW k \in Seq(S), Len(k) > 1
  PROVE  /\ Tail(k) \in Seq(S) /\ Tail(k) # <<>> /\ Len(Tail(k)) = Len(k) - 1
         /\ \A i \in 1..(Len(k) - 1) : Tail(k)[i] = k[i + 1]
<1> DEFINE n == Len(k)
           m == Len(Tail(k))
<1>1. Len(<<>>) = 0
  OBVIOUS
<1>2. n \in Nat /\ n > 1
  OBVIOUS
<1>3. k # <<>>
  <2> HIDE DEF n
  <2>1. n # 0
    BY <1>2
  <2> QED BY <1>1, <2>1, Zenon DEF n
<1>4. /\ Tail(k) \in Seq(S) /\ m = n - 1
      /\ \A i \in 1..(n - 1) : Tail(k)[i] = k[i + 1]
  BY <1>3
<1>5. Tail(k) # <<>>
  <2> HIDE DEF n, m
  <2>1. m # 0
    BY <1>2, <1>4
  <2> QED BY <1>1, <2>1, Zenon DEF m
<1> QED BY <1>4, <1>5

\* A call that must succeed, and what is left of it.
LEMMA MustCalls ==
  ASSUME NEW k \in MustCall
  PROVE  /\ k[1] \in MustStep /\ Head(k) = k[1] /\ Len(k) \in Nat \ {0} /\ k \in Seq(MustStep)
         /\ k[1].do = "limit" => Len(k) = 1
         /\ Len(k) > 1 => Tail(k) \in MustCall
<1>1. k \in Seq(MustStep) /\ k # <<>>
  BY DEF MustCall
<1>2. Len(k) \in Nat \ {0} /\ k[1] \in MustStep /\ Head(k) = k[1]
  BY <1>1
<1>3. k[1].do = "limit" => Len(k) = 1
  <2>1. 1 \in 1..Len(k)
    BY <1>2
  <2>2. \A i \in 1..Len(k) : k[i].do = "limit" => i = Len(k)
    BY DEF MustCall
  <2> QED BY <2>1, <2>2, Zenon
<1>4. ASSUME Len(k) > 1 PROVE Tail(k) \in MustCall
  <2>1. /\ Tail(k) \in Seq(MustStep) /\ Tail(k) # <<>> /\ Len(Tail(k)) = Len(k) - 1
        /\ \A i \in 1..(Len(k) - 1) : Tail(k)[i] = k[i + 1]
    BY <1>1, <1>4, CallRest
  <2>2. ASSUME NEW i \in 1..Len(Tail(k)), Tail(k)[i].do = "limit" PROVE i = Len(Tail(k))
    <3>1. i + 1 \in 1..Len(k) /\ k[i + 1].do = "limit"
      BY <1>2, <2>1, <2>2
    <3>2. i + 1 = Len(k)
      BY <3>1 DEF MustCall
    <3>3. Len(k) \in Int /\ i \in Int /\ Len(Tail(k)) = Len(k) - 1
      BY <1>2, <2>1, <2>2
    <3> QED BY <3>2, <3>3
  <2> QED BY <2>1, <2>2 DEF MustCall
<1> QED BY <1>1, <1>2, <1>3, <1>4

\* A step of a call that must succeed.
LEMMA MustMoves ==
  ASSUME WriteFaults = FALSE, HardwareStep \/ StateStep, todo # <<>>,
         Head(todo) \in MustCall, Tail(todo) \in Queue(GoodStep)
  PROVE  /\ UNCHANGED <<active, saved, pending, policyWritten, watching>>
         /\ WriteLimit \/ UNCHANGED <<cache, inForce>>
         /\ \/ todo' = Tail(todo)
            \/ todo' = <<>> /\ ~WriteLimit
            \/ /\ todo' # <<>> /\ Head(todo') \in MustCall /\ Tail(todo') = Tail(todo)
               /\ ~WriteLimit
<1> DEFINE k == Head(todo)
<1>1. k \in MustCall
  OBVIOUS
<1>2. /\ Now = k[1] /\ k[1] \in MustStep /\ Len(k) \in Nat \ {0} /\ k \in Seq(MustStep)
      /\ k[1].do = "limit" => Len(k) = 1
  <2> HIDE DEF k
  <2> QED BY <1>1, MustCalls DEF Now, k
<1>3. Now.do \in {"curve", "verify", "limit"} /\ Now.must
  BY <1>2 DEF MustStep
<1>4. WriteCurve \/ VerifyFanCurveActive \/ WriteLimit
  BY <1>3 DEF HardwareStep, StateStep, Doing, WriteCurveFails,
         WriteLimitFails, CheckFanFloorRelease, RefuseRelease, Release,
         ReleaseFails, WriteProfile, WriteProfileFails, ChooseRestore, ReconcileCurve,
         Commit, Save, SaveFails
<1>5. /\ UNCHANGED <<active, saved, pending, policyWritten, watching>>
      /\ WriteLimit \/ UNCHANGED <<cache, inForce>>
      /\ Done \/ (Failed /\ ~WriteLimit)
      /\ WriteLimit => Done /\ Now.do = "limit"
  <2>1. CASE WriteCurve
    BY <2>1 DEF WriteCurve, WriteLimit, Doing, memory, latches
  <2>2. CASE VerifyFanCurveActive
    BY <2>2 DEF VerifyFanCurveActive, WriteLimit, Doing, hardware, memory, latches
  <2>3. CASE WriteLimit
    BY <2>3 DEF WriteLimit, Doing, memory
  <2> QED BY <1>4, <2>1, <2>2, <2>3
<1>6. CASE Done /\ Len(k) = 1
  BY <1>5, <1>6 DEF Done
<1>7. CASE Done /\ Len(k) # 1
  <2>1. todo' = <<Tail(k)>> \o Tail(todo) /\ Len(k) > 1
    BY <1>2, <1>7 DEF Done
  <2>2. Tail(k) \in MustCall
    BY <1>1, <2>1, MustCalls
  <2>3. todo' # <<>> /\ Head(todo') = Tail(k) /\ Tail(todo') = Tail(todo)
    <3>1. Tail(k) \in Seq(GoodStep) /\ Tail(k) # <<>>
      BY <2>2 DEF MustCall, MustStep
    <3> HIDE DEF k
    <3> QED BY <2>1, <3>1, QueueFirst
  <2>4. ~WriteLimit
    BY <1>2, <1>5, <1>7
  <2> QED BY <1>5, <2>2, <2>3, <2>4
<1>8. CASE ~Done
  <2>1. Failed /\ ~WriteLimit
    BY <1>5, <1>8
  <2> QED BY <1>3, <1>5, <2>1 DEF Failed
<1> QED BY <1>6, <1>7, <1>8

LEMMA ClaimsNextSafe ==
  ASSUME WriteFaults = FALSE, HardwareStep \/ StateStep, ClaimsNext
  PROVE  StockInv'
<1>1. todo # <<>> /\ inForce <= TDPMaxSafe /\ Head(todo) \in MustCall /\ Claims(Tail(todo))
  BY DEF ClaimsNext
<1>2. Tail(todo) \in Queue(GoodStep)
  <2>1. Tail(todo) \in Queue(KeepsCustom)
    BY <1>1 DEF Claims
  <2> QED BY <2>1, KeepsCustomSteps, QueueWiden
<1>3. /\ \/ todo' = Tail(todo)
         \/ todo' = <<>> /\ ~WriteLimit
         \/ /\ todo' # <<>> /\ Head(todo') \in MustCall /\ Tail(todo') = Tail(todo)
            /\ ~WriteLimit
      /\ WriteLimit \/ inForce' = inForce
  BY <1>1, <1>2, MustMoves
<1>4. CASE todo' = Tail(todo)
  BY <1>1, <1>4 DEF StockInv, Claims
<1>5. CASE todo' = <<>> /\ ~WriteLimit
  BY <1>1, <1>3, <1>5, QueueParts DEF StockInv, Low, StaysLow
<1>6. CASE todo' # <<>> /\ Head(todo') \in MustCall /\ Tail(todo') = Tail(todo) /\ ~WriteLimit
  <2>1. ClaimsNext'
    BY <1>1, <1>3, <1>6 DEF ClaimsNext, Claims
  <2> QED BY <2>1 DEF StockInv
<1> QED BY <1>3, <1>4, <1>5, <1>6

LEMMA StockStepSafe ==
  ASSUME IInv, WriteFaults = FALSE, HardwareStep \/ StateStep, StockInv
  PROVE  StockInv'
BY LowStepSafe, StaysCustomSafe, ClaimsSafe, ClaimsNextSafe DEF StockInv

\* Nothing under way: what the invariant says then.
LEMMA StockIdle ==
  ASSUME StockInv, todo = <<>>
  PROVE  active \in StockProfiles => inForce <= TDPMaxSafe
BY DEF StockInv, Low, StaysLow, LowersFirst, StaysCustom, ClaimsNext, Claims

\* Landing on a firmware profile lowers the limit before anything else.
LEMMA LandsLow ==
  ASSUME NEW p \in StockProfiles, NEW n \in MaybeProfile
  PROVE  /\ LowersFirst(Land(p, n))
         /\ Head(Head(Land(p, n))).do = "profile" /\ Head(Head(Land(p, n))).must
<1>1. /\ 0 \in Limit /\ FALSE \in BOOLEAN /\ TRUE \in BOOLEAN /\ NoCurve \in MaybeCurve
      /\ p \in MaybeProfile
  BY Bounds DEF MaybeCurve, MaybeProfile, Profiles
<1>2. /\ ProfileStep(p, TRUE) \in LowStep /\ LimitStep(Firmware[p], FALSE) \in LowStep
      /\ Do("guard") \in LowStep /\ ReleaseStep(0, FALSE) \in LowStep
      /\ CommitStep(n, NoCurve, 0, p) \in LowStep /\ Do("save") \in LowStep
  BY <1>1, FirmwareLow, LowSteps
<1>3. /\ Land(p, n) \in Queue(LowStep) /\ Land(p, n) # <<>>
      /\ Head(Land(p, n)) = << ProfileStep(p, TRUE) >>
  BY <1>2, LandIn
<1>4. ProfileStep(p, TRUE).do = "profile" /\ ProfileStep(p, TRUE).must
  BY DEF ProfileStep, Do
<1>5. Head(<< ProfileStep(p, TRUE) >>) = ProfileStep(p, TRUE)
  OBVIOUS
<1> QED BY <1>3, <1>4, <1>5 DEF LowersFirst

\* An edit made while a firmware profile is active, or one that leaves a
\* custom profile active.
LEMMA EditKeeps ==
  ASSUME IInv, NEW n \in Names \cup {NoName}, NEW c \in MaybeCurve, NEW w \in Limit
  PROVE  /\ CommitStep(Target(n), c, w, Activates(n)) \in KeepsCustom
         /\ CommitStep(Target(n), c, w, Activates(n)) \in LowStep
<1>1. Target(n) \in MaybeProfile /\ Target(n) \in Names
  BY EditTarget DEF IInv
<1>2. Activates(n) \in MaybeProfile \ StockProfiles
  <2>1. NoName \notin StockProfiles
    BY ProfileAssumption DEF NoName
  <2>2. Target(n) \notin StockProfiles
    BY <1>1, ProfileAssumption
  <2> QED BY <1>1, <2>1, <2>2, Bounds DEF Activates
<1> QED BY <1>1, <1>2, KeepsCustomSteps, LowSteps

\* A custom profile is active before anything else of it applies.
LEMMA SelectsCustom ==
  ASSUME IInv, NEW n \in Names, SelectCustom(n)
  PROVE  StaysCustom'
<1>1. saved[n] \in Settings /\ platform \in StockProfiles
  BY DEF IInv, TypeOK
<1>2. todo' \in Queue(KeepsCustom)
  BY <1>1, ApplyCustomEdits, KeepsCustomSteps, QueueWiden DEF SelectCustom
<1>3. active' \notin StockProfiles
  BY ProfileAssumption DEF SelectCustom
<1> QED BY <1>2, <1>3 DEF StaysCustom

LEMMA SelectStocks ==
  ASSUME IInv, StockInv,
         \/ \E p \in StockProfiles : SelectStock(p)
         \/ \E n \in Names : SelectCustom(n)
  PROVE  StockInv'
<1>1. ASSUME NEW p \in StockProfiles, SelectStock(p) PROVE StockInv'
  <2>1. LowersFirst(todo')
    BY <1>1, SelectStockIn, LandsLow, Bounds
  <2> QED BY <2>1 DEF StockInv, Low
<1>2. ASSUME NEW n \in Names, SelectCustom(n) PROVE StockInv'
  BY <1>2, SelectsCustom DEF StockInv
<1> QED BY <1>1, <1>2

LEMMA SetFanCurveQueues ==
  ASSUME IInv, NEW n \in Names \cup {NoName}, NEW points \in UserCurves,
         SetFanCurve(n, points)
  PROVE  /\ todo = <<>> /\ UNCHANGED <<active, inForce>>
         /\ todo' \in Queue(LowStep) /\ todo' \in Queue(KeepsCustom)
<1>1. todo = <<>> /\ UNCHANGED <<active, inForce>>
  BY DEF SetFanCurve, Idle, memory, hardware
<1>2. points \in FanCurve /\ points \in MaybeCurve /\ TRUE \in BOOLEAN
      /\ saved[Target(n)].tdp \in Limit
  BY CurveAssumption, EditTarget DEF IInv, MaybeCurve
<1>3. /\ CurveStep(points, TRUE) \in LowStep /\ VerifyStep(TRUE) \in LowStep
      /\ Do("save") \in LowStep
      /\ CurveStep(points, TRUE) \in KeepsCustom /\ VerifyStep(TRUE) \in KeepsCustom
      /\ Do("save") \in KeepsCustom
  BY <1>2, LowSteps, EditSteps, KeepsCustomSteps
<1>4. todo' \in Queue(LowStep) /\ todo' \in Queue(KeepsCustom)
  BY <1>2, <1>3, EditKeeps, SetFanCurveIn
<1> QED BY <1>1, <1>4

LEMMA SetFanCurveStocks ==
  ASSUME IInv, StockInv, NEW n \in Names \cup {NoName}, NEW points \in UserCurves,
         SetFanCurve(n, points)
  PROVE  StockInv'
BY SetFanCurveQueues, StockIdle DEF StockInv, Low, StaysLow, StaysCustom

LEMMA ResetFanCurveQueues ==
  ASSUME IInv, NEW n \in Names \cup {NoName}, ResetFanCurve(n)
  PROVE  /\ todo = <<>> /\ UNCHANGED <<active, inForce>>
         /\ todo' \in Queue(KeepsCustom)
         /\ active \in StockProfiles => todo' \in Queue(LowStep)
<1> DEFINE keep == IF Implicit(n) THEN 0 ELSE saved[Target(n)].tdp
<1>1. todo = <<>> /\ UNCHANGED <<active, inForce>>
  BY DEF ResetFanCurve, Idle, memory, hardware
<1>2. /\ saved[Target(n)].tdp \in Limit /\ keep \in Limit /\ NoCurve \in MaybeCurve
      /\ TRUE \in BOOLEAN
  BY EditTarget, Bounds DEF IInv, MaybeCurve
<1>3. active \in StockProfiles /\ Live(n) => keep = 0
  <2>1. active \in StockProfiles => active \notin Names
    BY ProfileAssumption
  <2> QED BY <2>1 DEF Live, Implicit
<1> HIDE DEF keep
<1>4. /\ ReleaseStep(keep, TRUE) \in LowStep /\ Do("save") \in LowStep
      /\ ReleaseStep(keep, TRUE) \in KeepsCustom /\ LimitStep(keep, TRUE) \in KeepsCustom
      /\ Do("save") \in KeepsCustom
  BY <1>2, LowSteps, EditSteps, KeepsCustomSteps
<1>5. /\ CommitStep(Target(n), NoCurve, saved[Target(n)].tdp, Activates(n)) \in KeepsCustom
      /\ CommitStep(Target(n), NoCurve, saved[Target(n)].tdp, Activates(n)) \in LowStep
  BY <1>2, EditKeeps
<1>6. keep = IF Implicit(n) THEN 0 ELSE saved[Target(n)].tdp
  BY DEF keep
<1>7. todo' \in Queue(KeepsCustom)
  BY <1>4, <1>5, <1>6, ResetFanCurveIn
<1>8. active \in StockProfiles => todo' \in Queue(LowStep)
  BY <1>3, <1>4, <1>5, <1>6, ResetFanCurveIn
<1> QED BY <1>1, <1>7, <1>8

LEMMA ResetFanCurveStocks ==
  ASSUME IInv, StockInv, NEW n \in Names \cup {NoName}, ResetFanCurve(n)
  PROVE  StockInv'
BY ResetFanCurveQueues, StockIdle DEF StockInv, Low, StaysLow, StaysCustom

LEMMA SetTDPQueues ==
  ASSUME IInv, NEW n \in Names \cup {NoName}, NEW w \in Watts, NEW pl1,
         SetTDP(n, w, pl1)
  PROVE  /\ todo = <<>> /\ UNCHANGED <<active, inForce>>
         /\ todo' \in Queue(KeepsCustom)
         /\ ~Live(n) => todo' \in Queue(LowStep)
         /\ Live(n) =>
              /\ todo' # <<>> /\ Claims(Tail(todo'))
              /\ Head(todo') = ApplyTDPSafely(w, saved[Target(n)].curve, TRUE)
<1> DEFINE c == saved[Target(n)].curve
           t == CommitStep(Target(n), c, w, Activates(n))
<1>1. todo = <<>> /\ UNCHANGED <<active, inForce>>
  BY DEF SetTDP, Idle, memory, hardware
<1>2. w \in Limit /\ c \in MaybeCurve /\ TRUE \in BOOLEAN /\ FALSE \in BOOLEAN
  BY PowerAssumption, EditTarget, Bounds DEF IInv, TDPMin, TDPMaxForced
<1>3. t \in KeepsCustom /\ t \in LowStep
  <2> HIDE DEF c
  <2> QED BY <1>2, EditKeeps
<1>4. c = saved[Target(n)].curve
  OBVIOUS
<1> HIDE DEF c
<1>5. /\ LimitStep(w, TRUE) \in EditStep /\ LimitStep(w, FALSE) \in EditStep
      /\ FanCurveForTDP(w, c) # NoCurve =>
           CurveStep(FanCurveForTDP(w, c), TRUE) \in EditStep /\ VerifyStep(TRUE) \in EditStep
      /\ ReleaseStep(w, FALSE) \in EditStep /\ VerifyStep(FALSE) \in EditStep
      /\ c # NoCurve => CurveStep(c, FALSE) \in EditStep
      /\ Do("save") \in EditStep
  <2>1. c # NoCurve => c \in FanCurve
    BY <1>2 DEF MaybeCurve
  <2> QED BY <1>2, <2>1, ApplyEdits, EditSteps
<1>6. /\ todo' \in Queue(KeepsCustom)
      /\ Live(n) => /\ todo' # <<>> /\ Tail(todo') # <<>>
                    /\ Head(todo') = ApplyTDPSafely(w, c, TRUE)
                    /\ Head(Tail(todo')) = << t >>
  <2>1. EditStep \subseteq KeepsCustom
    BY KeepsCustomSteps
  <2>2. Live(n) =>
          /\ LimitStep(w, TRUE) \in KeepsCustom
          /\ FanCurveForTDP(w, c) # NoCurve =>
               CurveStep(FanCurveForTDP(w, c), TRUE) \in KeepsCustom
               /\ VerifyStep(TRUE) \in KeepsCustom
    BY <1>5, <2>1
  <2>3. (Live(n) /\ pl1 <= TDPMaxSafe) =>
          /\ c = NoCurve =>
               ReleaseStep(w, FALSE) \in KeepsCustom
               /\ (w # 0 => LimitStep(w, FALSE) \in KeepsCustom)
          /\ c # NoCurve =>
               CurveStep(c, FALSE) \in KeepsCustom /\ VerifyStep(FALSE) \in KeepsCustom
    BY <1>5, <2>1
  <2>4. CommitStep(Target(n), c, w, Activates(n)) \in KeepsCustom
    BY <1>3
  <2>5. Do("save") \in KeepsCustom
    BY <1>5, <2>1
  <2>6. /\ todo' \in Queue(KeepsCustom)
        /\ Live(n) => Starts(todo', ApplyTDPSafely(w, c, TRUE),
                             CommitStep(Target(n), c, w, Activates(n)))
    <3> HIDE DEF t
    <3> QED BY <1>4, <2>2, <2>3, <2>4, <2>5, SetTDPIn
  <2> QED BY <2>6 DEF Starts
<1>7. ~Live(n) => todo' \in Queue(LowStep)
  <2>1. Do("save") \in LowStep
    BY LowSteps
  <2> QED BY <1>3, <1>4, <2>1, SetTDPIn
<1>8. Live(n) => Claims(Tail(todo'))
  <2> SUFFICES ASSUME Live(n) PROVE Claims(Tail(todo'))
    OBVIOUS
  <2>1. Tail(todo') \in Queue(KeepsCustom)
    BY <1>6, QueueNext
  <2>2. t.do = "commit" /\ t.active \in Names
    <3>1. t.do = "commit" /\ t.active = Activates(n)
      BY DEF CommitStep, Do
    <3>2. Activates(n) \in Names
      BY EditTarget DEF Activates, IInv
    <3> QED BY <3>1, <3>2
  <2> HIDE DEF t
  <2>3. Len(<< t >>) = 1 /\ Head(<< t >>) = t
    OBVIOUS
  <2> QED BY <1>6, <2>1, <2>2, <2>3 DEF Claims
<1> QED BY <1>1, <1>4, <1>6, <1>7, <1>8

LEMMA SetTDPStocks ==
  ASSUME IInv, StockInv, NEW n \in Names \cup {NoName}, NEW w \in Watts, NEW pl1,
         SetTDP(n, w, pl1)
  PROVE  StockInv'
<1>1. CASE active \notin StockProfiles
  BY <1>1, SetTDPQueues DEF StockInv, StaysCustom
<1>2. CASE active \in StockProfiles /\ ~Live(n)
  BY <1>2, SetTDPQueues, StockIdle DEF StockInv, Low, StaysLow
<1>3. CASE active \in StockProfiles /\ Live(n)
  <2>1. w \in Limit /\ saved[Target(n)].curve \in MaybeCurve
    BY PowerAssumption, EditTarget, Bounds DEF IInv, TDPMin, TDPMaxForced
  <2>2. Head(todo') \in MustCall
    BY <1>3, <2>1, SetTDPQueues, ApplyMust
  <2>3. ClaimsNext'
    BY <1>3, <2>2, SetTDPQueues, StockIdle DEF ClaimsNext
  <2> QED BY <2>3 DEF StockInv
<1> QED BY <1>1, <1>2, <1>3

LEMMA ResetTDPStocks ==
  ASSUME IInv, StockInv, NEW n \in Names \cup {NoName}, ResetTDP(n)
  PROVE  StockInv'
<1>1. todo = <<>> /\ UNCHANGED <<active, inForce>>
  BY DEF ResetTDP, Idle, memory, hardware
<1>2. CASE Live(n)
  <2> DEFINE m == IF Implicit(n) THEN NoName ELSE Target(n)
  <2>1. m \in MaybeProfile /\ "balanced" \in StockProfiles
    BY EditTarget, ProfileAssumption DEF IInv
  <2>2. todo' = Land("balanced", m)
    BY <1>2, ResetTDPIn
  <2> HIDE DEF m
  <2>3. LowersFirst(todo')
    BY <2>1, <2>2, LandsLow
  <2> QED BY <2>3 DEF StockInv, Low
<1>3. CASE ~Live(n)
  <2>1. n \in Names /\ Target(n) = n /\ Activates(n) = NoName
    BY <1>3 DEF Live, Target, Activates
  <2>2. saved[n].curve \in MaybeCurve /\ 0 \in Limit
    BY <2>1, EditTarget, Bounds DEF IInv
  <2>3. /\ CommitStep(n, saved[n].curve, 0, NoName) \in KeepsCustom
        /\ CommitStep(n, saved[n].curve, 0, NoName) \in LowStep
    BY <2>1, <2>2, EditKeeps
  <2>4. Do("save") \in KeepsCustom /\ Do("save") \in LowStep
    BY LowSteps, EditSteps, KeepsCustomSteps
  <2>5. todo' \in Queue(KeepsCustom) /\ todo' \in Queue(LowStep)
    BY <1>3, <2>3, <2>4, ResetTDPIn, CommitIn
  <2> QED BY <1>1, <2>5, StockIdle DEF StockInv, Low, StaysLow, StaysCustom
<1> QED BY <1>2, <1>3

LEMMA TickQueues ==
  ASSUME IInv, ReconcileTick
  PROVE  /\ todo = <<>> /\ UNCHANGED <<active, inForce>>
         /\ active \in Names => todo' \in Queue(KeepsCustom)
         /\ active \notin Names => todo' = <<>>
<1>1. todo = <<>> /\ UNCHANGED <<active, inForce>>
  BY DEF ReconcileTick, Idle, memory, hardware
<1>2. CASE active \in Names
  <2> DEFINE s == saved[active]
  <2>1. s \in Settings
    BY <1>2 DEF IInv, TypeOK
  <2>2. s = saved[active]
    OBVIOUS
  <2> HIDE DEF s
  <2>3. s.curve \in MaybeCurve /\ s.tdp \in Limit /\ FALSE \in BOOLEAN
    BY <2>1 DEF Settings
  <2>4. /\ LimitStep(s.tdp, FALSE) \in EditStep
        /\ FanCurveForTDP(s.tdp, s.curve) # NoCurve =>
             /\ CurveStep(FanCurveForTDP(s.tdp, s.curve), FALSE) \in EditStep
             /\ VerifyStep(FALSE) \in EditStep
        /\ ReconcileStep(s.curve) \in EditStep
    BY <2>3, ApplyEdits, EditSteps
  <2>5. todo' \in Queue(EditStep)
    BY <1>2, <2>2, <2>4, TickIn
  <2>6. todo' \in Queue(KeepsCustom)
    BY <2>5, KeepsCustomSteps, QueueWiden
  <2> QED BY <1>1, <1>2, <2>6
<1>3. active \notin Names => todo' = <<>>
  BY <1>1 DEF ReconcileTick
<1> QED BY <1>1, <1>2, <1>3

LEMMA TickStocks ==
  ASSUME IInv, StockInv, ReconcileTick
  PROVE  StockInv'
<1>1. CASE active \in Names
  BY <1>1, TickQueues, ProfileAssumption DEF StockInv, StaysCustom
<1>2. CASE active \notin Names
  BY <1>2, TickQueues, StockIdle, QueueParts DEF StockInv, Low, StaysLow, StaysCustom
<1> QED BY <1>1, <1>2

\* A daemon that starts on a firmware profile begins with its own limit.
LEMMA StartLowers ==
  ASSUME IInv, RestartDaemon \/ Reboot,
         NEW target \in AutoTargets \cup {NoName}, StartDaemon(target),
         NEW act, act = IF AutoswitchTarget(disk, target) THEN target ELSE disk.active,
         act \in StockProfiles
  PROVE  LowersFirst(todo')
<1> DEFINE switched == AutoswitchTarget(disk, target)
           leftCustom == switched /\ disk.active \in Names /\ target \in StockProfiles
<1>2. platform' \in StockProfiles
  BY DEF RestartDaemon, Reboot, IInv, TypeOK
<1>5. todo' = (IF platform' # act THEN << SetProfile(act, FALSE) >> ELSE <<>>)
              \o (IF leftCustom THEN HandBackToFirmware(act) ELSE << Restore(act) >>)
              \o (IF switched THEN << <<Do("save")>> >> ELSE <<>>)
  BY DEF StartDaemon
<1> HIDE DEF switched, leftCustom
<1>6. CASE act \in StockProfiles
  <2> DEFINE s1 == ProfileStep(act, FALSE)
             s2 == RestoreStep(act)
             s3 == Do("save")
             k1 == << s1 >>
             k2 == << s2 >>
             k3 == << s3 >>
             h == HandBackToFirmware(act)
             q == IF leftCustom THEN h ELSE << k2 >>
             r == IF switched THEN << k3 >> ELSE <<>>
  <2>1. 0 \in Limit /\ FALSE \in BOOLEAN
    BY Bounds
  <2>2. /\ s1 \in LowStep /\ s2 \in LowStep /\ s3 \in LowStep
        /\ LimitStep(Firmware[act], FALSE) \in LowStep
        /\ Do("guard") \in LowStep /\ ReleaseStep(0, FALSE) \in LowStep
    BY <1>6, <2>1, FirmwareLow, LowSteps
  <2>3. s1.do = "profile" /\ s2.do = "restore" /\ LimitStep(Firmware[act], FALSE).do = "limit"
    BY DEF ProfileStep, RestoreStep, LimitStep, Do
  <2>4. /\ h \in Queue(LowStep) /\ h # <<>>
        /\ Head(h) = << LimitStep(Firmware[act], FALSE) >>
    BY <2>2, HandBackIn
  <2>5. todo' = (IF platform' # act THEN << k1 >> ELSE <<>>) \o q \o r
    BY <1>5, <1>6 DEF SetProfile, Restore, ProfileStep, RestoreStep
  <2> HIDE DEF s1, s2, s3, h
  <2>6. /\ k1 \in Seq(LowStep) /\ k1 # <<>> /\ Head(k1) = s1
        /\ k2 \in Seq(LowStep) /\ k2 # <<>> /\ Head(k2) = s2
        /\ k3 \in Seq(LowStep) /\ k3 # <<>>
    BY <2>2
  <2> HIDE DEF k1, k2, k3
  <2>7. LowersFirst(h)
    <3> DEFINE x == LimitStep(Firmware[act], FALSE)
    <3>1. Head(h) = << x >> /\ x.do = "limit"
      BY <2>3, <2>4
    <3> HIDE DEF x
    <3>2. Head(Head(h)) = x
      BY <3>1
    <3> QED BY <2>4, <3>1, <3>2 DEF LowersFirst
  <2>8. << k2 >> \in Queue(LowStep) /\ << k2 >> # <<>> /\ Head(<< k2 >>) = k2
        /\ << k1 >> \in Queue(LowStep) /\ << k3 >> \in Queue(LowStep)
    BY <2>6, QueueParts
  <2>9. LowersFirst(q)
    BY <2>3, <2>6, <2>7, <2>8 DEF LowersFirst
  <2>10. r \in Queue(LowStep)
    BY <2>8, QueueParts
  <2> HIDE DEF q, r
  <2>11. LowersFirst(q \o r)
    <3>1. q \in Queue(LowStep) /\ q # <<>>
      BY <2>9 DEF LowersFirst
    <3>2. q \o r # <<>> /\ Head(q \o r) = Head(q)
      BY <2>10, <3>1 DEF Queue
    <3> QED BY <2>9, <2>10, <3>1, <3>2, QueueParts DEF LowersFirst
  <2>12. CASE platform' # act
    <3>1. todo' = (<< k1 >> \o q) \o r
      BY <2>5, <2>12
    <3>2. todo' = << k1 >> \o (q \o r)
      <4>1. \A x, y, z \in Queue(LowStep) : (x \o y) \o z = x \o (y \o z)
        BY DEF Queue
      <4>2. q \in Queue(LowStep)
        BY <2>9 DEF LowersFirst
      <4> QED BY <2>8, <2>10, <3>1, <4>1, <4>2, Zenon
    <3>3. q \o r \in Queue(LowStep)
      BY <2>11 DEF LowersFirst
    <3>4. todo' \in Queue(LowStep) /\ todo' # <<>> /\ Head(todo') = k1
      BY <2>6, <3>2, <3>3, QueueFirst
    <3> QED BY <2>3, <2>6, <3>4 DEF LowersFirst
  <2>13. CASE platform' = act
    <3>1. todo' = (<<>> \o q) \o r
      BY <2>5, <2>13
    <3>2. <<>> \o q = q
      BY <2>9 DEF LowersFirst, Queue
    <3> QED BY <2>11, <3>1, <3>2
  <2> QED BY <2>12, <2>13
<1> QED BY <1>6

\* A daemon that starts lands on the saved profile: a firmware profile's own
\* limit comes first.
LEMMA StartStocks ==
  ASSUME IInv, RestartDaemon \/ Reboot
  PROVE  StockInv'
<1>1. PICK target \in AutoTargets \cup {NoName} : StartDaemon(target)
  BY DEF RestartDaemon, Reboot
<1>2. platform' \in StockProfiles
  BY DEF RestartDaemon, Reboot, IInv, TypeOK
<1> DEFINE switched == AutoswitchTarget(disk, target)
           leftCustom == switched /\ disk.active \in Names /\ target \in StockProfiles
           act == IF switched THEN target ELSE disk.active
<1>3. disk.saved \in [Names -> Settings]
  BY DEF IInv, TypeOK, Memory
<1>4. active' = act
  BY <1>1 DEF StartDaemon
<1>5. todo' =
        IF act \in StockProfiles
        THEN (IF platform' # act THEN << SetProfile(act, FALSE) >> ELSE <<>>)
             \o (IF leftCustom THEN HandBackToFirmware(act) ELSE << Restore(act) >>)
             \o (IF switched THEN << <<Do("save")>> >> ELSE <<>>)
        ELSE IF act \in Names /\ disk.saved[act] # Nothing
             THEN ApplyCustomHW(disk.saved[act], platform')
             ELSE <<>>
  BY <1>1 DEF StartDaemon
<1>9. act \in StockProfiles => LowersFirst(todo')
  BY <1>1, StartLowers
<1> HIDE DEF act, switched, leftCustom
<1>6. CASE act \in StockProfiles
  BY <1>6, <1>9 DEF StockInv, Low
<1>7. CASE act \notin StockProfiles /\ act \in Names /\ disk.saved[act] # Nothing
  <2>1. disk.saved[act] \in Settings /\ todo' = ApplyCustomHW(disk.saved[act], platform')
    BY <1>3, <1>5, <1>7
  <2>2. todo' \in Queue(EditStep)
    BY <1>2, <2>1, ApplyCustomEdits
  <2>3. todo' \in Queue(KeepsCustom)
    BY <2>2, KeepsCustomSteps, QueueWiden
  <2> QED BY <1>4, <1>7, <2>3 DEF StockInv, StaysCustom
<1>8. CASE act \notin StockProfiles /\ ~(act \in Names /\ disk.saved[act] # Nothing)
  <2>1. todo' = <<>>
    BY <1>5, <1>8
  <2> QED BY <1>4, <1>8, <2>1, QueueParts DEF StockInv, StaysCustom
<1> QED BY <1>6, <1>7, <1>8

LEMMA StockStays ==
  ASSUME UNCHANGED <<todo, active>>, inForce' = inForce \/ inForce' <= TDPMaxSafe, StockInv
  PROVE  StockInv'
BY DEF StockInv, Low, StaysLow, LowersFirst, StaysCustom, ClaimsNext, Claims

LEMMA StockInitially == Init => StockInv
<1> SUFFICES ASSUME Init PROVE StockInv
  OBVIOUS
<1>1. todo = <<>> /\ inForce = Firmware[platform] /\ platform \in StockProfiles
  BY DEF Init
<1> QED BY <1>1, FirmwareLow, QueueParts DEF StockInv, Low, StaysLow

LEMMA StockInductive ==
  ASSUME WriteFaults = FALSE
  PROVE  IInv /\ StockInv /\ [Next]_vars => StockInv'
<1> SUFFICES ASSUME IInv, StockInv, [Next]_vars PROVE StockInv'
  OBVIOUS
<1>1. CASE HardwareStep \/ StateStep
  BY <1>1, StockStepSafe
<1>2. CASE ReconcileTick
  BY <1>2, TickStocks
<1>3. CASE Notify \/ StartWatchers
  BY <1>3, StockStays DEF Notify, StartWatchers, hardware, memory
<1>4. CASE UserOperation
  BY <1>4, SelectStocks, SetFanCurveStocks, ResetFanCurveStocks, SetTDPStocks, ResetTDPStocks
     DEF UserOperation
<1>5. CASE RestartDaemon \/ Reboot
  BY <1>5, StartStocks
<1>6. CASE Environment /\ ~RestartDaemon /\ ~Reboot
  BY <1>6, OutsideLow, StockStays
<1>7. CASE UNCHANGED vars
  BY <1>7, StockStays DEF vars, hardware, memory
<1> QED BY <1>1, <1>2, <1>3, <1>4, <1>5, <1>6, <1>7 DEF Next, Daemon, Environment

\* As long as hardware writes do not fail, a firmware profile is never left
\* running on a custom profile's high limit - whatever profile switches, edits,
\* outside writes, restarts and autoswitch at startup led there.
THEOREM StockStaysSafe == WriteFaults = FALSE /\ Spec => []StockLimitSafe
<1> SUFFICES ASSUME WriteFaults = FALSE PROVE Spec => []StockLimitSafe
  OBVIOUS
<1>1. IInv /\ StockInv => StockLimitSafe
  BY StockIdle DEF StockLimitSafe, Idle
<1>2. IInv /\ StockInv /\ [Next]_vars => StockInv'
  BY StockInductive
<1> QED BY <1>1, <1>2, StockInitially, Invariance, PTL DEF Spec

-----------------------------------------------------------------------------
(* While the daemon runs: a limit of 0 is never written, only limits asked *)
(* for are saved, and the curve arm of the reconcile watcher comes last    *)
(* and knows the limit in force.                                           *)

Asked == Watts \cup {0}

RunStep == { s \in GoodStep : /\ s.do = "restore" => Restarts
                              /\ s.do = "limit" => s.watts # 0
                              /\ s.do = "commit" => s.watts \in Asked }
StartStep == { s \in RunStep : s.do # "reconcile" }
OpStep == { s \in StartStep : s.do # "restore" }

ArmLast(t) == t # <<>> /\ Tail(t) = <<>> /\ Len(Head(t)) = 1

CurveArm ==
  \/ todo \in Queue(StartStep)
  \/ floorLimit # 0 /\ ArmLast(todo)
  \/ floorLimit # 0 /\ todo # <<>> /\ Head(todo) \in Seq(OpStep) /\ ArmLast(Tail(todo))

SavedAsked == \A n \in Names : saved[n].tdp \in Asked
DiskAsked == \A n \in Names : disk.saved[n].tdp \in Asked

RunInv == cache # 0 /\ todo \in Queue(RunStep) /\ CurveArm /\ SavedAsked /\ DiskAsked

LEMMA OpSteps ==
  /\ OpStep \subseteq RunStep /\ RunStep \subseteq GoodStep
  /\ OpStep \subseteq StartStep /\ StartStep \subseteq RunStep
  /\ Restarts => \A p \in StockProfiles : RestoreStep(p) \in StartStep
  /\ \A c \in FanCurve, must \in BOOLEAN : CurveStep(c, must) \in OpStep
  /\ \A w \in Limit, must \in BOOLEAN : w # 0 => LimitStep(w, must) \in OpStep
  /\ \A w \in Limit, must \in BOOLEAN : ReleaseStep(w, must) \in OpStep
  /\ \A must \in BOOLEAN : VerifyStep(must) \in OpStep
  /\ Do("guard") \in OpStep
  /\ Do("save") \in OpStep
  /\ \A p \in StockProfiles, must \in BOOLEAN : ProfileStep(p, must) \in OpStep
  /\ \A n \in MaybeProfile, c \in MaybeCurve, w \in Limit, a \in MaybeProfile :
       w \in Asked => CommitStep(n, c, w, a) \in OpStep
  /\ \A c \in MaybeCurve : ReconcileStep(c) \in RunStep
<1>1. ASSUME NEW w \in Limit, NEW must \in BOOLEAN, w # 0
      PROVE  LimitStep(w, must) \in OpStep
  <2>1. LimitStep(w, must).do = "limit" /\ LimitStep(w, must).watts = w
    BY DEF LimitStep, Do
  <2>2. LimitStep(w, must) \in GoodStep
    BY GoodSteps
  <2> QED BY <1>1, <2>1, <2>2 DEF OpStep, StartStep, RunStep
<1>2. \A s \in GoodStep :
        s.do \notin {"limit", "restore", "reconcile", "commit"} => s \in OpStep
  BY DEF OpStep, StartStep, RunStep
<1>3. \A s \in GoodStep : s.do \notin {"limit", "restore", "commit"} => s \in RunStep
  BY DEF RunStep
<1>4. ASSUME NEW n \in MaybeProfile, NEW c \in MaybeCurve, NEW w \in Limit,
             NEW a \in MaybeProfile, w \in Asked
      PROVE  CommitStep(n, c, w, a) \in OpStep
  <2>1. CommitStep(n, c, w, a).do = "commit" /\ CommitStep(n, c, w, a).watts = w
    BY DEF CommitStep, Do
  <2>2. CommitStep(n, c, w, a) \in GoodStep
    BY GoodSteps
  <2> QED BY <1>4, <2>1, <2>2 DEF OpStep, StartStep, RunStep
<1>5. ASSUME NEW q \in StockProfiles, Restarts PROVE RestoreStep(q) \in StartStep
  <2>1. RestoreStep(q).do = "restore"
    BY DEF RestoreStep, Do
  <2>2. RestoreStep(q) \in GoodStep
    BY GoodSteps
  <2> QED BY <1>5, <2>1, <2>2 DEF StartStep, RunStep
<1>6. /\ OpStep \subseteq RunStep /\ RunStep \subseteq GoodStep
      /\ OpStep \subseteq StartStep /\ StartStep \subseteq RunStep
  BY DEF OpStep, StartStep, RunStep
<1> QED BY <1>1, <1>2, <1>3, <1>4, <1>5, <1>6, GoodSteps, Kinds

\* The step under way is one of the queue's.
LEMMA NowIn ==
  ASSUME NEW S, todo \in Queue(S), todo # <<>>
  PROVE  /\ Now \in S /\ Now = Head(todo)[1] /\ Tail(todo) \in Queue(S)
         /\ Head(todo) \in Seq(S) /\ Head(todo) # <<>> /\ Len(Head(todo)) \in Nat \ {0}
<1>1. /\ Head(todo) \in Seq(S) /\ Head(todo) # <<>> /\ Head(todo)[1] \in S
      /\ Head(Head(todo)) = Head(todo)[1]
      /\ Tail(todo) \in Queue(S) /\ Len(Head(todo)) \in Nat \ {0}
  BY QueueNext
<1> QED BY <1>1 DEF Now

LEMMA OneCall ==
  ASSUME NEW S, NEW t \in Seq(S), t # <<>>, Tail(t) = <<>>
  PROVE  t = << Head(t) >>
<1>1. Len(t) \in Nat /\ Len(t) # 0 /\ Len(Tail(t)) = Len(t) - 1
  OBVIOUS
<1>2. Len(Tail(t)) = 0
  <2>1. Len(<<>>) = 0
    OBVIOUS
  <2> QED BY <2>1, Zenon
<1> DEFINE n == Len(t)
           m == Len(Tail(t))
<1>3. n \in Nat /\ m = n - 1 /\ m = 0
  BY <1>1, <1>2
<1> HIDE DEF n, m
<1>4. n = 1
  BY <1>3
<1>5. Len(t) = 1
  BY <1>4 DEF n
<1> QED BY <1>5

\* What is left of the call under way.
\* The step under way, in terms of the queue.
LEMMA StepMoves ==
  ASSUME HardwareStep \/ StateStep
  PROVE  /\ todo # <<>>
         /\ ~ChooseRestore /\ ~ReconcileCurve => Done \/ Failed
         /\ ChooseRestore => Now.do = "restore"
         /\ ReconcileCurve => Now.do = "reconcile"
         /\ ~ReconcileCurve => \/ floorLimit' = floorLimit
                               \/ WriteLimit
<1>1. todo # <<>>
  BY DEF HardwareStep, StateStep, Doing, WriteCurve, WriteCurveFails, VerifyFanCurveActive,
         WriteLimit, WriteLimitFails, CheckFanFloorRelease, RefuseRelease, Release,
         ReleaseFails, WriteProfile, WriteProfileFails, ChooseRestore, ReconcileCurve,
         Commit, Save, SaveFails
<1>2. ~ChooseRestore /\ ~ReconcileCurve => Done \/ Failed
  BY DEF HardwareStep, StateStep, WriteCurve, WriteCurveFails, VerifyFanCurveActive,
         WriteLimit, WriteLimitFails, CheckFanFloorRelease, RefuseRelease, Release,
         ReleaseFails, WriteProfile, WriteProfileFails, Commit, Save, SaveFails
<1>3. (ChooseRestore => Now.do = "restore") /\ (ReconcileCurve => Now.do = "reconcile")
  BY DEF ChooseRestore, ReconcileCurve, Doing
<1>4. ~ReconcileCurve => floorLimit' = floorLimit \/ WriteLimit
  BY DEF HardwareStep, StateStep, WriteCurve, WriteCurveFails, VerifyFanCurveActive,
         WriteLimitFails, CheckFanFloorRelease, RefuseRelease, Release,
         ReleaseFails, WriteProfile, WriteProfileFails, ChooseRestore, Commit, Save, SaveFails,
         latches
<1> QED BY <1>1, <1>2, <1>3, <1>4

\* The curve arm's own call, when it makes one.
LEMMA ArmCall ==
  ASSUME TypeOK, Now \in GoodStep, ReconcileCurve,
         NEW c, c = ReconcileCurveFor(floorLimit, Now.curve)
  PROVE  /\ c \in MaybeCurve
         /\ c = NoCurve => todo' = <<>> \o Tail(todo)
         /\ c # NoCurve => c \in FanCurve
                           /\ todo' = << SetBothFanCurves(c, FALSE) >> \o Tail(todo)
<1>1. c \in MaybeCurve
  <2>1. floorLimit \in Limit /\ Now.curve \in MaybeCurve
    BY NowTyped DEF TypeOK
  <2>2. FanCurveForTDP(floorLimit, Now.curve) \in MaybeCurve
    BY <2>1, FloorCurve
  <2> QED BY <2>1, <2>2 DEF ReconcileCurveFor
<1>2. todo' = (IF c = NoCurve THEN <<>> ELSE << SetBothFanCurves(c, FALSE) >>) \o Tail(todo)
  BY DEF ReconcileCurve
<1> QED BY <1>1, <1>2 DEF MaybeCurve

\* The startup restore of a firmware profile, as calls.
LEMMA RestoreCalls ==
  ASSUME IInv, RunInv, ChooseRestore
  PROVE  /\ Restarts
         /\ \E q \in Queue(OpStep) : todo' = q \o Tail(todo)
<1> DEFINE p == Now.name
           h == HandBackToFirmware(p)
           l == << SetTDPState(Firmware[p], FALSE) >>
<1>1. todo # <<>> /\ todo \in Queue(RunStep) /\ Now.do = "restore"
  BY DEF ChooseRestore, Doing, RunInv
<1>2. Now \in RunStep
  BY <1>1, NowIn
<1>3. Restarts /\ p \in StockProfiles
  BY <1>1, <1>2 DEF RunStep, GoodStep
<1>4. \/ todo' = h \o Tail(todo)
      \/ todo' = l \o Tail(todo)
  BY DEF ChooseRestore
<1>5. 0 \in Limit /\ FALSE \in BOOLEAN
  BY Bounds
<1> HIDE DEF p
<1>6. /\ LimitStep(Firmware[p], FALSE) \in OpStep /\ Do("guard") \in OpStep
      /\ ReleaseStep(0, FALSE) \in OpStep
  BY <1>3, <1>5, FirmwareLow, OpSteps
<1>7. h \in Queue(OpStep) /\ l \in Queue(OpStep)
  BY <1>6, HandBackIn, LimitIn, QueueParts
<1> QED BY <1>3, <1>4, <1>7

LEMMA CurveArmSafe ==
  ASSUME IInv, RunInv, HardwareStep \/ StateStep
  PROVE  CurveArm'
<1>1. todo # <<>> /\ todo \in Queue(RunStep) /\ TypeOK /\ Now \in GoodStep
  BY StepMoves, Started DEF RunInv, IInv
<1>2. Now \in RunStep /\ Head(todo) \in Seq(RunStep) /\ Head(todo) # <<>>
      /\ Now = Head(todo)[1] /\ Len(Head(todo)) \in Nat \ {0}
  BY <1>1, NowIn
<1>3. ASSUME ChooseRestore, Tail(todo) \in Queue(StartStep) PROVE todo' \in Queue(StartStep)
  <2>1. PICK q \in Queue(OpStep) : todo' = q \o Tail(todo)
    BY <1>3, RestoreCalls
  <2>2. q \in Queue(StartStep)
    BY OpSteps, QueueWiden
  <2> QED BY <1>3, <2>1, <2>2, QueueParts
<1>4. <<>> \in Queue(StartStep)
  BY QueueParts
<1>5. CASE todo \in Queue(StartStep)
  <2>1. Now \in StartStep /\ Tail(todo) \in Queue(StartStep)
    BY <1>1, <1>5, NowIn
  <2>2. ~ReconcileCurve
    BY <2>1, StepMoves DEF StartStep
  <2>3. CASE ~ChooseRestore
    <3>1. todo' \in Queue(StartStep)
      BY <1>1, <1>5, <2>2, <2>3, StepMoves, QueueMoves
    <3> QED BY <3>1 DEF CurveArm
  <2>4. CASE ChooseRestore
    BY <1>3, <2>1, <2>4 DEF CurveArm
  <2> QED BY <2>3, <2>4
<1>6. CASE floorLimit # 0 /\ ArmLast(todo)
  <2>1. Tail(todo) = <<>> /\ Len(Head(todo)) = 1
    BY <1>6 DEF ArmLast
  <2>2. CASE ~ReconcileCurve /\ ~ChooseRestore
    <3>1. Done \/ Failed
      BY <2>2, StepMoves
    <3>2. ~(Len(Head(todo)) > 1)
      <4>1. ~(1 > 1)
        OBVIOUS
      <4> QED BY <2>1, <4>1, Zenon
    <3>3. todo' = <<>>
      BY <2>1, <3>1, <3>2 DEF Done, Failed
    <3> QED BY <1>4, <3>3 DEF CurveArm
  <2>3. CASE ReconcileCurve
    <3> DEFINE c == ReconcileCurveFor(floorLimit, Now.curve)
    <3>1. /\ c = NoCurve => todo' = <<>> \o <<>>
          /\ c # NoCurve => c \in FanCurve /\ todo' = << SetBothFanCurves(c, FALSE) >> \o <<>>
      BY <1>1, <2>1, <2>3, ArmCall
    <3> HIDE DEF c
    <3>2. c # NoCurve => << SetBothFanCurves(c, FALSE) >> \in Queue(StartStep)
      <4>1. c # NoCurve =>
              CurveStep(c, FALSE) \in StartStep /\ VerifyStep(FALSE) \in StartStep
        BY <3>1, OpSteps
      <4> QED BY <4>1, CurveIn
    <3>3. todo' \in Queue(StartStep)
      BY <1>4, <3>1, <3>2, QueueParts
    <3> QED BY <3>3 DEF CurveArm
  <2>4. CASE ChooseRestore
    BY <1>3, <1>4, <2>1, <2>4 DEF CurveArm
  <2> QED BY <2>2, <2>3, <2>4
<1>7. CASE floorLimit # 0 /\ Head(todo) \in Seq(OpStep) /\ ArmLast(Tail(todo))
  <2>1. Now \in OpStep
    BY <1>2, <1>7
  <2>2. ~ReconcileCurve /\ ~ChooseRestore
    BY <2>1, StepMoves DEF OpStep, StartStep
  <2>3. floorLimit' # 0
    <3>1. WriteLimit => Now.do = "limit" /\ floorLimit' = Now.watts
      BY <1>7 DEF WriteLimit, Doing
    <3>2. Now.do = "limit" => Now.watts # 0
      BY <1>2 DEF RunStep
    <3> QED BY <1>7, <2>2, <3>1, <3>2, StepMoves
  <2>4. Done \/ Failed
    BY <2>2, StepMoves
  <2>5. CASE todo' = <<>>
    BY <1>4, <2>5 DEF CurveArm
  <2>6. CASE todo' = Tail(todo)
    BY <1>7, <2>3, <2>6 DEF CurveArm
  <2>7. CASE todo' = Rest(todo) /\ Len(Head(todo)) > 1
    <3>1. todo' # <<>> /\ Head(todo') = Tail(Head(todo)) /\ Tail(todo') = Tail(todo)
      BY <1>1, <2>7, QueueNext
    <3>2. Tail(Head(todo)) \in Seq(OpStep)
      BY <1>7, <2>7, CallRest
    <3> QED BY <1>7, <2>3, <3>1, <3>2 DEF CurveArm
  <2> QED BY <2>4, <2>5, <2>6, <2>7 DEF Done, Failed, Rest
<1> QED BY <1>1, <1>5, <1>6, <1>7 DEF RunInv, CurveArm

LEMMA RunStepSafe ==
  ASSUME IInv, RunInv, HardwareStep \/ StateStep
  PROVE  RunInv'
<1>1. todo # <<>> /\ todo \in Queue(RunStep) /\ TypeOK /\ Now \in GoodStep
  BY StepMoves, Started DEF RunInv, IInv
<1>2. Now \in RunStep /\ Tail(todo) \in Queue(RunStep)
  BY <1>1, NowIn
<1>4. cache' # 0
  <2>1. WriteLimit \/ WriteLimitFails => Now.do = "limit" /\ cache' \in {cache, Now.watts}
    BY DEF WriteLimit, WriteLimitFails, Doing
  <2>2. Now.do = "limit" => Now.watts # 0
    BY <1>2 DEF RunStep
  <2>3. ~WriteLimit /\ ~WriteLimitFails => cache' = cache
    BY DEF HardwareStep, StateStep, WriteCurve, WriteCurveFails, VerifyFanCurveActive,
         CheckFanFloorRelease, RefuseRelease, Release,
         ReleaseFails, WriteProfile, WriteProfileFails, ChooseRestore, ReconcileCurve,
         Commit, Save, SaveFails, FirmwareTakesOver, hardware
  <2> QED BY <2>1, <2>2, <2>3 DEF RunInv
<1>5. todo' \in Queue(RunStep)
  <2>1. CASE ~ReconcileCurve /\ ~ChooseRestore
    BY <1>1, <2>1, StepMoves, QueueMoves
  <2>2. CASE ReconcileCurve
    <3> DEFINE c == ReconcileCurveFor(floorLimit, Now.curve)
    <3>1. /\ c = NoCurve => todo' = <<>> \o Tail(todo)
          /\ c # NoCurve => c \in FanCurve
                            /\ todo' = << SetBothFanCurves(c, FALSE) >> \o Tail(todo)
      BY <1>1, <2>2, ArmCall
    <3> HIDE DEF c
    <3>2. c # NoCurve => << SetBothFanCurves(c, FALSE) >> \in Queue(RunStep)
      BY <3>1, OpSteps, CurveIn
    <3> QED BY <1>2, <3>1, <3>2, QueueParts
  <2>3. CASE ChooseRestore
    <3>1. PICK q \in Queue(OpStep) : todo' = q \o Tail(todo)
      BY <2>3, RestoreCalls
    <3>2. q \in Queue(RunStep)
      BY OpSteps, QueueWiden
    <3> QED BY <1>2, <3>1, <3>2, QueueParts
  <2> QED BY <2>1, <2>2, <2>3
<1>6. SavedAsked'
  <2>1. CASE Commit
    <3>1. Now.watts \in Asked
      BY <1>2, <2>1 DEF Commit, Doing, RunStep
    <3>2. saved' = [n \in Names |-> IF n = Now.name
                                    THEN [curve |-> Now.curve, tdp |-> Now.watts]
                                    ELSE saved[n]]
      BY <2>1 DEF Commit
    <3> QED BY <3>1, <3>2 DEF RunInv, SavedAsked
  <2>2. CASE ~Commit
    <3>1. saved' = saved
      BY <2>2 DEF HardwareStep, StateStep, WriteCurve, WriteCurveFails, VerifyFanCurveActive,
         WriteLimit, WriteLimitFails, CheckFanFloorRelease, RefuseRelease, Release,
         ReleaseFails, WriteProfile, WriteProfileFails, ChooseRestore, ReconcileCurve,
         Save, SaveFails, memory
    <3> QED BY <3>1 DEF RunInv, SavedAsked
  <2> QED BY <2>1, <2>2
<1>7. DiskAsked'
  <2>1. CASE Save
    BY <2>1 DEF Save, StateInMemory, RunInv, SavedAsked, DiskAsked
  <2>2. CASE ~Save
    <3>1. disk' = disk
      BY <2>2 DEF HardwareStep, StateStep, WriteCurve, WriteCurveFails, VerifyFanCurveActive,
         WriteLimit, WriteLimitFails, CheckFanFloorRelease, RefuseRelease, Release,
         ReleaseFails, WriteProfile, WriteProfileFails, ChooseRestore, ReconcileCurve,
         Commit, SaveFails
    <3> QED BY <3>1 DEF RunInv, DiskAsked
  <2> QED BY <2>1, <2>2
<1> QED BY <1>4, <1>5, <1>6, <1>7, CurveArmSafe DEF RunInv

\* A profile's apply writes no limit of 0 and never leaves the watcher's arm.
LEMMA ApplyCustomOps ==
  ASSUME NEW settings \in Settings, NEW p \in StockProfiles
  PROVE  ApplyCustomHW(settings, p) \in Queue(OpStep)
<1> DEFINE c == settings.curve
           w == settings.tdp
<1>1. c \in MaybeCurve /\ w \in Limit /\ 0 \in Limit /\ FALSE \in BOOLEAN
  BY Bounds DEF Settings
<1>2. LimitStep(Firmware[p], FALSE) \in OpStep
  BY FirmwareLow, OpSteps
<1>3. /\ Do("guard") \in OpStep /\ Do("save") \in OpStep
      /\ ReleaseStep(0, FALSE) \in OpStep /\ ReleaseStep(w, FALSE) \in OpStep
      /\ VerifyStep(FALSE) \in OpStep
  BY <1>1, OpSteps
<1>4. c # NoCurve => CurveStep(c, FALSE) \in OpStep
  <2>1. c # NoCurve => c \in FanCurve
    BY <1>1 DEF MaybeCurve
  <2> QED BY <1>1, <2>1, OpSteps
<1>5. /\ w # 0 => LimitStep(w, FALSE) \in OpStep
      /\ FanCurveForTDP(w, c) # NoCurve => CurveStep(FanCurveForTDP(w, c), FALSE) \in OpStep
  <2> HIDE DEF c, w
  <2>1. FanCurveForTDP(w, c) # NoCurve => FanCurveForTDP(w, c) \in FanCurve
    BY <1>1, FloorCurve DEF MaybeCurve
  <2> QED BY <1>1, <2>1, OpSteps
<1> QED BY <1>2, <1>3, <1>4, <1>5, ApplyCustomIn

\* An operation a user starts, as calls.
LEMMA UserIdle ==
  ASSUME UserOperation
  PROVE  todo = <<>> /\ watching /\ UNCHANGED <<hardware, saved, disk, latches>>
BY DEF UserOperation, SelectStock, SelectCustom, SetFanCurve, ResetFanCurve, SetTDP, ResetTDP,
       Idle, memory

LEMMA UserCalls ==
  ASSUME IInv, SavedAsked, UserOperation
  PROVE  todo' \in Queue(OpStep)
<1>1. /\ 0 \in Limit /\ FALSE \in BOOLEAN /\ TRUE \in BOOLEAN /\ NoCurve \in MaybeCurve
      /\ NoName \in MaybeProfile /\ platform \in StockProfiles /\ TypeOK
      /\ StockProfiles \subseteq MaybeProfile
  BY Bounds DEF MaybeCurve, MaybeProfile, Profiles, IInv, TypeOK
<1>2. /\ 0 \in Asked /\ Watts \subseteq Asked
      /\ \A n \in Names \cup {NoName} : saved[Target(n)].tdp \in Asked
  BY <1>1, EditTarget DEF Asked, SavedAsked
<1>3. ASSUME NEW p \in StockProfiles, NEW n \in MaybeProfile PROVE Land(p, n) \in Queue(OpStep)
  <2>1. /\ ProfileStep(p, TRUE) \in OpStep /\ LimitStep(Firmware[p], FALSE) \in OpStep
        /\ Do("guard") \in OpStep /\ ReleaseStep(0, FALSE) \in OpStep
        /\ CommitStep(n, NoCurve, 0, p) \in OpStep /\ Do("save") \in OpStep
    BY <1>1, <1>2, FirmwareLow, OpSteps
  <2> QED BY <2>1, LandIn
<1>4. ASSUME NEW p \in StockProfiles, SelectStock(p) PROVE todo' \in Queue(OpStep)
  BY <1>1, <1>3, <1>4, SelectStockIn
<1>5. ASSUME NEW n \in Names, SelectCustom(n) PROVE todo' \in Queue(OpStep)
  BY <1>1, <1>5, ApplyCustomOps DEF SelectCustom, TypeOK
<1>6. ASSUME NEW n \in Names \cup {NoName}, NEW c \in MaybeCurve, NEW w \in Limit, w \in Asked
      PROVE  CommitStep(Target(n), c, w, Activates(n)) \in OpStep
  <2>1. Target(n) \in MaybeProfile /\ Activates(n) \in MaybeProfile
    BY <1>1, EditTarget DEF Activates
  <2> QED BY <1>6, <2>1, OpSteps
<1>7. ASSUME NEW n \in Names \cup {NoName}, NEW points \in UserCurves, SetFanCurve(n, points)
      PROVE  todo' \in Queue(OpStep)
  <2>1. points \in FanCurve /\ points \in MaybeCurve /\ saved[Target(n)].tdp \in Limit
    BY <1>1, CurveAssumption, EditTarget DEF MaybeCurve
  <2>2. CurveStep(points, TRUE) \in OpStep /\ VerifyStep(TRUE) \in OpStep /\ Do("save") \in OpStep
    BY <1>1, <2>1, OpSteps
  <2>3. CommitStep(Target(n), points, saved[Target(n)].tdp, Activates(n)) \in OpStep
    BY <1>2, <1>6, <2>1
  <2> QED BY <1>7, <2>2, <2>3, SetFanCurveIn
<1>8. ASSUME NEW n \in Names \cup {NoName}, ResetFanCurve(n) PROVE todo' \in Queue(OpStep)
  <2> DEFINE keep == IF Implicit(n) THEN 0 ELSE saved[Target(n)].tdp
  <2>1. saved[Target(n)].tdp \in Limit /\ keep \in Limit
    BY <1>1, EditTarget
  <2>2. CommitStep(Target(n), NoCurve, saved[Target(n)].tdp, Activates(n)) \in OpStep
    BY <1>1, <1>2, <1>6, <2>1
  <2>3. keep = IF Implicit(n) THEN 0 ELSE saved[Target(n)].tdp
    OBVIOUS
  <2> HIDE DEF keep
  <2>4. ReleaseStep(keep, TRUE) \in OpStep /\ Do("save") \in OpStep
        /\ (keep # 0 => LimitStep(keep, TRUE) \in OpStep)
    BY <1>1, <2>1, OpSteps
  <2> QED BY <1>8, <2>2, <2>3, <2>4, ResetFanCurveIn
<1>9. ASSUME NEW n \in Names \cup {NoName}, NEW w \in Watts, NEW pl1, SetTDP(n, w, pl1)
      PROVE  todo' \in Queue(OpStep)
  <2> DEFINE c == saved[Target(n)].curve
  <2>1. w \in Limit /\ w # 0 /\ c \in MaybeCurve
    BY <1>1, PowerAssumption, EditTarget, Bounds DEF TDPMin, TDPMaxForced
  <2>2. c = saved[Target(n)].curve
    OBVIOUS
  <2> HIDE DEF c
  <2>3. FanCurveForTDP(w, c) # NoCurve => FanCurveForTDP(w, c) \in FanCurve
    BY <2>1, FloorCurve DEF MaybeCurve
  <2>4. c # NoCurve => c \in FanCurve
    BY <2>1 DEF MaybeCurve
  <2>5. Live(n) =>
          /\ LimitStep(w, TRUE) \in OpStep
          /\ FanCurveForTDP(w, c) # NoCurve =>
               CurveStep(FanCurveForTDP(w, c), TRUE) \in OpStep /\ VerifyStep(TRUE) \in OpStep
    BY <1>1, <2>1, <2>3, OpSteps
  <2>6. (Live(n) /\ pl1 <= TDPMaxSafe) =>
          /\ c = NoCurve =>
               ReleaseStep(w, FALSE) \in OpStep /\ (w # 0 => LimitStep(w, FALSE) \in OpStep)
          /\ c # NoCurve => CurveStep(c, FALSE) \in OpStep /\ VerifyStep(FALSE) \in OpStep
    BY <1>1, <2>1, <2>4, OpSteps
  <2>7. CommitStep(Target(n), c, w, Activates(n)) \in OpStep
    BY <1>2, <1>6, <2>1
  <2>8. Do("save") \in OpStep
    BY OpSteps
  <2> QED BY <1>9, <2>2, <2>5, <2>6, <2>7, <2>8, SetTDPIn
<1>10. ASSUME NEW n \in Names \cup {NoName}, ResetTDP(n) PROVE todo' \in Queue(OpStep)
  <2>1. CASE Live(n)
    <3>1. Target(n) \in MaybeProfile /\ "balanced" \in StockProfiles
      BY <1>1, EditTarget, ProfileAssumption
    <3>2. (IF Implicit(n) THEN NoName ELSE Target(n)) \in MaybeProfile
      BY <1>1, <3>1
    <3> QED BY <1>3, <1>10, <2>1, <3>1, <3>2, ResetTDPIn
  <2>2. CASE ~Live(n)
    <3>1. n \in Names /\ Target(n) = n /\ Activates(n) = NoName
      BY <2>2 DEF Live, Target, Activates
    <3>2. CommitStep(n, saved[n].curve, 0, NoName) \in OpStep
      BY <1>1, <1>2, <1>6, <3>1, EditTarget
    <3> QED BY <1>10, <2>2, <3>2, OpSteps, ResetTDPIn, CommitIn
  <2> QED BY <2>1, <2>2
<1> QED BY <1>4, <1>5, <1>7, <1>8, <1>9, <1>10 DEF UserOperation

\* The reconcile watcher's calls: a limit, when one was lost, then the arm.
LEMMA TickCalls ==
  ASSUME IInv, ReconcileTick, active \in Names, NEW s, s = saved[active]
  PROVE  /\ todo = <<>> /\ UNCHANGED <<hardware, memory, watching>>
         /\ s.curve \in MaybeCurve /\ s.tdp \in Limit
         /\ todo' \in Queue(RunStep) /\ todo' \in Queue(EditStep)
         /\ floorLimit' = IF CurveDropped(s.curve) THEN cache ELSE 0
         /\ (~LimitLost(s) /\ ~CurveDropped(s.curve)) => todo' = <<>>
         /\ (~LimitLost(s) /\ CurveDropped(s.curve)) =>
              todo' = << << ReconcileStep(s.curve) >> >>
         /\ LimitLost(s) =>
              /\ s.tdp # 0
              /\ todo' # <<>> /\ Head(todo') = ApplyTDPSafely(s.tdp, s.curve, FALSE)
              /\ Tail(todo') = IF CurveDropped(s.curve) THEN << << ReconcileStep(s.curve) >> >>
                               ELSE <<>>
<1>1. todo = <<>> /\ UNCHANGED <<hardware, memory, watching>>
  BY DEF ReconcileTick, Idle
<1>2. s \in Settings
  BY DEF IInv, TypeOK
<1>3. s.curve \in MaybeCurve /\ s.tdp \in Limit /\ FALSE \in BOOLEAN
  BY <1>2 DEF Settings
<1>4. LimitLost(s) => s.tdp # 0
  BY DEF LimitLost
<1>5. FanCurveForTDP(s.tdp, s.curve) # NoCurve => FanCurveForTDP(s.tdp, s.curve) \in FanCurve
  BY <1>3, FloorCurve DEF MaybeCurve
<1>6. /\ LimitLost(s) =>
           /\ LimitStep(s.tdp, FALSE) \in RunStep
           /\ FanCurveForTDP(s.tdp, s.curve) # NoCurve =>
                /\ CurveStep(FanCurveForTDP(s.tdp, s.curve), FALSE) \in RunStep
                /\ VerifyStep(FALSE) \in RunStep
      /\ CurveDropped(s.curve) => ReconcileStep(s.curve) \in RunStep
  BY <1>3, <1>4, <1>5, OpSteps
<1>7. /\ LimitLost(s) =>
           /\ LimitStep(s.tdp, FALSE) \in EditStep
           /\ FanCurveForTDP(s.tdp, s.curve) # NoCurve =>
                /\ CurveStep(FanCurveForTDP(s.tdp, s.curve), FALSE) \in EditStep
                /\ VerifyStep(FALSE) \in EditStep
      /\ CurveDropped(s.curve) => ReconcileStep(s.curve) \in EditStep
  BY <1>3, <1>5, EditSteps
<1>8. todo' \in Queue(RunStep)
  BY <1>6, TickIn
<1>9. todo' \in Queue(EditStep)
  BY <1>7, TickIn
<1>10. /\ floorLimit' = IF CurveDropped(s.curve) THEN cache ELSE 0
       /\ (~LimitLost(s) /\ ~CurveDropped(s.curve)) => todo' = <<>>
       /\ (~LimitLost(s) /\ CurveDropped(s.curve)) =>
            todo' = << << ReconcileStep(s.curve) >> >>
  BY <1>7, TickIn
<1>11. LimitLost(s) =>
         /\ todo' # <<>> /\ Head(todo') = ApplyTDPSafely(s.tdp, s.curve, FALSE)
         /\ Tail(todo') = IF CurveDropped(s.curve) THEN << << ReconcileStep(s.curve) >> >>
                          ELSE <<>>
  BY <1>7, TickIn
<1> QED BY <1>1, <1>3, <1>4, <1>8, <1>9, <1>10, <1>11

LEMMA RunTick ==
  ASSUME IInv, RunInv, ReconcileTick
  PROVE  RunInv'
<1>1. cache' = cache /\ SavedAsked' /\ DiskAsked'
  BY DEF ReconcileTick, hardware, memory, RunInv, SavedAsked, DiskAsked
<1>2. <<>> \in Queue(RunStep) /\ <<>> \in Queue(StartStep)
  BY QueueParts
<1>3. CASE active \notin Names
  <2>1. todo' = <<>>
    BY <1>3 DEF ReconcileTick, Idle
  <2> QED BY <1>1, <1>2, <2>1 DEF RunInv, CurveArm
<1>4. CASE active \in Names
  <2> DEFINE s == saved[active]
             k == ApplyTDPSafely(s.tdp, s.curve, FALSE)
             r == << ReconcileStep(s.curve) >>
  <2>1. s = saved[active]
    OBVIOUS
  <2> HIDE DEF s
  <2>2. /\ todo' \in Queue(RunStep) /\ s.curve \in MaybeCurve /\ s.tdp \in Limit
        /\ (~LimitLost(s) /\ ~CurveDropped(s.curve)) => todo' = <<>>
        /\ (~LimitLost(s) /\ CurveDropped(s.curve)) => todo' = << r >>
    BY <1>4, <2>1, TickCalls
  <2>3. LimitLost(s) => /\ todo' # <<>> /\ Head(todo') = k /\ s.tdp # 0
                        /\ CurveDropped(s.curve) => Tail(todo') = << r >>
                        /\ ~CurveDropped(s.curve) => Tail(todo') = <<>>
    BY <1>4, <2>1, TickCalls
  <2>4. CurveDropped(s.curve) => floorLimit' # 0
    BY <1>4, <2>1, TickCalls DEF RunInv
  <2>5. LimitLost(s) => k \in Seq(OpStep) /\ k # <<>>
    <3>1. FanCurveForTDP(s.tdp, s.curve) # NoCurve =>
            FanCurveForTDP(s.tdp, s.curve) \in FanCurve
      BY <2>2, FloorCurve DEF MaybeCurve
    <3>2. /\ s.tdp # 0 => LimitStep(s.tdp, FALSE) \in OpStep
          /\ FanCurveForTDP(s.tdp, s.curve) # NoCurve =>
               /\ CurveStep(FanCurveForTDP(s.tdp, s.curve), FALSE) \in OpStep
               /\ VerifyStep(FALSE) \in OpStep
      BY <2>2, <3>1, OpSteps
    <3> QED BY <2>3, <3>2, ApplyIn
  <2>6. ArmLast(<< r >>)
    BY DEF ArmLast
  <2> HIDE DEF k, r
  <2>7. CASE CurveDropped(s.curve) /\ LimitLost(s)
    BY <1>1, <2>2, <2>3, <2>4, <2>5, <2>6, <2>7 DEF RunInv, CurveArm
  <2>8. CASE CurveDropped(s.curve) /\ ~LimitLost(s)
    BY <1>1, <2>2, <2>4, <2>6, <2>8 DEF RunInv, CurveArm
  <2>9. CASE ~CurveDropped(s.curve) /\ LimitLost(s)
    <3> DEFINE t == todo'
    <3>1. t \in Queue(RunStep) /\ t # <<>> /\ Head(t) = k /\ Tail(t) = <<>>
      BY <2>2, <2>3, <2>9
    <3> HIDE DEF t
    <3>2. t = << k >>
      <4> DEFINE C == Seq(RunStep) \ {<<>>}
      <4>1. t \in Seq(C)
        BY <3>1 DEF Queue
      <4> HIDE DEF C
      <4> QED BY <3>1, <4>1, OneCall
    <3>3. t \in Queue(StartStep)
      <4>1. t \in Queue(OpStep)
        BY <2>5, <2>9, <3>2, QueueParts
      <4> QED BY <4>1, OpSteps, QueueWiden
    <3> QED BY <1>1, <2>2, <3>3 DEF RunInv, CurveArm, t
  <2>10. CASE ~CurveDropped(s.curve) /\ ~LimitLost(s)
    BY <1>1, <1>2, <2>2, <2>10 DEF RunInv, CurveArm
  <2> QED BY <2>7, <2>8, <2>9, <2>10
<1> QED BY <1>3, <1>4

LEMMA RunStays ==
  ASSUME RunInv, cache' # 0, UNCHANGED <<todo, floorLimit, saved>>, DiskAsked'
  PROVE  RunInv'
BY DEF RunInv, CurveArm, ArmLast, SavedAsked

LEMMA UserRuns ==
  ASSUME IInv, RunInv, UserOperation
  PROVE  RunInv'
<1>1. todo' \in Queue(OpStep) /\ UNCHANGED <<cache, saved, disk>>
  BY UserCalls, UserIdle DEF hardware, RunInv
<1>2. todo' \in Queue(StartStep)
  BY <1>1, OpSteps, QueueWiden
<1>3. todo' \in Queue(RunStep)
  BY <1>1, OpSteps, QueueWiden
<1> QED BY <1>1, <1>2, <1>3 DEF RunInv, CurveArm, SavedAsked, DiskAsked

\* A daemon that starts restores what the state file asks for.
LEMMA StartCalls ==
  ASSUME IInv, RestartDaemon \/ Reboot,
         NEW target \in AutoTargets \cup {NoName}, StartDaemon(target),
         NEW act, act = IF AutoswitchTarget(disk, target) THEN target ELSE disk.active
  PROVE  /\ active' = act /\ saved' = disk.saved /\ disk' = disk /\ floorLimit' = 0
         /\ ~watching' /\ ~policyWritten' /\ Restarts
         /\ act \in MaybeProfile /\ platform' \in StockProfiles
         /\ disk.saved \in [Names -> Settings]
         /\ act \in StockProfiles => todo' \in Queue(StartStep)
         /\ (act \notin StockProfiles /\ act \in Names /\ disk.saved[act] # Nothing) =>
              todo' = ApplyCustomHW(disk.saved[act], platform')
         /\ (act \notin StockProfiles /\ ~(act \in Names /\ disk.saved[act] # Nothing)) =>
              todo' = <<>>
<1> DEFINE switched == AutoswitchTarget(disk, target)
           leftCustom == switched /\ disk.active \in Names /\ target \in StockProfiles
<1>1. /\ active' = act /\ saved' = disk.saved /\ disk' = disk /\ floorLimit' = 0
      /\ ~watching' /\ ~policyWritten'
  BY DEF StartDaemon
<1>2. platform' \in StockProfiles /\ Restarts
  BY DEF RestartDaemon, Reboot, IInv, TypeOK
<1>3. disk.saved \in [Names -> Settings] /\ disk.active \in MaybeProfile
  BY DEF IInv, TypeOK, Memory
<1>4. act \in MaybeProfile
  BY <1>3, ProfileAssumption DEF MaybeProfile, Profiles
<1>5. todo' =
        IF act \in StockProfiles
        THEN (IF platform' # act THEN << SetProfile(act, FALSE) >> ELSE <<>>)
             \o (IF leftCustom THEN HandBackToFirmware(act) ELSE << Restore(act) >>)
             \o (IF switched THEN << <<Do("save")>> >> ELSE <<>>)
        ELSE IF act \in Names /\ disk.saved[act] # Nothing
             THEN ApplyCustomHW(disk.saved[act], platform')
             ELSE <<>>
  BY DEF StartDaemon
<1> HIDE DEF switched, leftCustom
<1>6. ASSUME act \in StockProfiles PROVE todo' \in Queue(StartStep)
  <2> DEFINE s1 == ProfileStep(act, FALSE)
             s2 == RestoreStep(act)
             s3 == Do("save")
             k1 == << s1 >>
             k2 == << s2 >>
             k3 == << s3 >>
             h == HandBackToFirmware(act)
             q == IF leftCustom THEN h ELSE << k2 >>
             r == IF switched THEN << k3 >> ELSE <<>>
             o == IF platform' # act THEN << k1 >> ELSE <<>>
  <2>1. 0 \in Limit /\ FALSE \in BOOLEAN
    BY Bounds
  <2>2. /\ s1 \in StartStep /\ s2 \in StartStep /\ s3 \in StartStep
        /\ LimitStep(Firmware[act], FALSE) \in StartStep
        /\ Do("guard") \in StartStep /\ ReleaseStep(0, FALSE) \in StartStep
    BY <1>2, <1>6, <2>1, FirmwareLow, OpSteps
  <2>3. todo' = o \o q \o r
    BY <1>5, <1>6 DEF SetProfile, Restore, ProfileStep, RestoreStep
  <2>4. h \in Queue(StartStep)
    BY <2>2, HandBackIn
  <2> HIDE DEF s1, s2, s3, h
  <2>5. /\ k1 \in Seq(StartStep) /\ k1 # <<>> /\ k2 \in Seq(StartStep) /\ k2 # <<>>
        /\ k3 \in Seq(StartStep) /\ k3 # <<>>
    BY <2>2
  <2> HIDE DEF k1, k2, k3
  <2>6. /\ << k1 >> \in Queue(StartStep) /\ << k2 >> \in Queue(StartStep)
        /\ << k3 >> \in Queue(StartStep) /\ <<>> \in Queue(StartStep)
    BY <2>5, QueueParts
  <2>7. o \in Queue(StartStep) /\ q \in Queue(StartStep) /\ r \in Queue(StartStep)
    BY <2>4, <2>6
  <2> HIDE DEF o, q, r
  <2>8. o \o q \in Queue(StartStep)
    BY <2>7, QueueParts
  <2> QED BY <2>3, <2>7, <2>8, QueueParts
<1> QED BY <1>1, <1>2, <1>3, <1>4, <1>5, <1>6

LEMMA StartRuns ==
  ASSUME IInv, RunInv, RestartDaemon \/ Reboot
  PROVE  RunInv'
<1>1. PICK target \in AutoTargets \cup {NoName} : StartDaemon(target)
  BY DEF RestartDaemon, Reboot
<1> DEFINE act == IF AutoswitchTarget(disk, target) THEN target ELSE disk.active
<1>2. /\ saved' = disk.saved /\ disk' = disk /\ platform' \in StockProfiles
      /\ disk.saved \in [Names -> Settings]
      /\ act \in StockProfiles => todo' \in Queue(StartStep)
      /\ (act \notin StockProfiles /\ act \in Names /\ disk.saved[act] # Nothing) =>
           todo' = ApplyCustomHW(disk.saved[act], platform')
      /\ (act \notin StockProfiles /\ ~(act \in Names /\ disk.saved[act] # Nothing)) =>
           todo' = <<>>
  BY <1>1, StartCalls
<1> HIDE DEF act
<1>3. cache' # 0
  BY DEF RestartDaemon, Reboot, RunInv, TDPMin
<1>4. SavedAsked' /\ DiskAsked'
  BY <1>2 DEF RunInv, DiskAsked, SavedAsked
<1>5. todo' \in Queue(StartStep)
  <2>1. CASE act \notin StockProfiles /\ act \in Names /\ disk.saved[act] # Nothing
    <3>1. disk.saved[act] \in Settings
      BY <1>2, <2>1
    <3>2. todo' \in Queue(OpStep)
      BY <1>2, <2>1, <3>1, ApplyCustomOps
    <3> QED BY <3>2, OpSteps, QueueWiden
  <2> QED BY <1>2, <2>1, QueueParts
<1>6. todo' \in Queue(RunStep)
  BY <1>5, OpSteps, QueueWiden
<1> QED BY <1>3, <1>4, <1>5, <1>6 DEF RunInv, CurveArm

LEMMA RunInductive ==
  /\ Init => RunInv
  /\ IInv /\ RunInv /\ [Next]_vars => RunInv'
<1>2. ASSUME Init PROVE RunInv
  <2>1. cache # 0 /\ todo = <<>>
    BY <1>2 DEF Init, TDPMin
  <2>2. SavedAsked /\ DiskAsked
    BY <1>2 DEF Init, Nothing, SavedAsked, DiskAsked, StateInMemory, Asked
  <2> QED BY <2>1, <2>2, QueueParts DEF RunInv, CurveArm
<1>3. ASSUME IInv, RunInv, [Next]_vars PROVE RunInv'
  <2>1. CASE HardwareStep \/ StateStep
    BY <1>3, <2>1, RunStepSafe
  <2>2. CASE ReconcileTick
    BY <1>3, <2>2, RunTick
  <2>3. CASE UserOperation
    BY <1>3, <2>3, UserRuns
  <2>4. CASE Notify \/ StartWatchers \/ UNCHANGED vars
    <3>1. UNCHANGED <<cache, todo, floorLimit, saved, disk>>
      BY <2>4 DEF Notify, StartWatchers, vars, hardware, latches, memory
    <3>2. cache' # 0 /\ DiskAsked'
      BY <1>3, <3>1 DEF RunInv, DiskAsked
    <3> QED BY <1>3, <3>1, <3>2, RunStays
  <2>5. CASE Environment /\ ~RestartDaemon /\ ~Reboot
    <3>1. UNCHANGED <<todo, floorLimit, saved>>
      BY <1>3, <2>5, OutsideLow
    <3>2. cache' = cache \/ cache' \in OutsideLimits
      BY <2>5 DEF Environment, OutsidePolicy, FirmwareTakesOver, OutsideLimit, OtherSave, hardware
    <3>3. \A w \in OutsideLimits : w # 0
      BY PowerAssumption, Bounds
    <3>4. cache' # 0
      BY <1>3, <3>2, <3>3 DEF RunInv
    <3>5. DiskAsked'
      BY <1>3, <2>5 DEF Environment, OutsidePolicy, OutsideLimit, OtherSave, StateInMemory,
                        RunInv, SavedAsked, DiskAsked
    <3> QED BY <1>3, <3>1, <3>4, <3>5, RunStays
  <2>6. CASE RestartDaemon \/ Reboot
    BY <1>3, <2>6, StartRuns
  <2> QED BY <1>3, <2>1, <2>2, <2>3, <2>4, <2>5, <2>6 DEF Next, Daemon
<1> QED BY <1>2, <1>3

-----------------------------------------------------------------------------
(* A high limit and its floor.                                             *)

FloorStep == { s \in GoodStep : /\ s.do # "restore"
                                /\ s.do = "curve" => MeetsFloor(s.curve) }
SoftStep == { s \in GoodStep : s.do \in {"curve", "verify"} /\ ~s.must }

StaysFloored == FloorOnFans /\ todo \in Queue(FloorStep)

\* The next step puts the floor on ...
FloorsFirst(t) == t # <<>> /\ t \in Queue(FloorStep) /\ Head(Head(t)).do = "curve"

\* ... or takes the limit down, or does one of the two ...
Mends(t) == LowersFirst(t) \/ FloorsFirst(t)

\* ... once the profile's own curve, floor or not, has been tried.
MendsNext == todo # <<>> /\ Head(todo) \in Seq(SoftStep) /\ Mends(Tail(todo))

\* ReleaseFans is about to refuse.
Refused ==
  todo # <<>> /\ inForce <= TDPMaxSafe
    /\ Now.do = "release" /\ Now.watts > TDPMaxSafe /\ Now.must

\* A restart found nothing to restore, and only edits of other profiles, or
\* the watcher's curve arm, are under way.
NothingRestored == active = NoName \/ (active \in Names /\ saved[active] = Nothing)
EditElsewhere(a) ==
  { s \in FloorStep : /\ s.do \in {"commit", "save", "reconcile"}
                      /\ s.do = "commit" => s.active = NoName /\ s.name # a }
Bare == Restarts /\ NothingRestored /\ todo \in Queue(EditElsewhere(active))

Floored == Low \/ StaysFloored \/ FloorsFirst(todo) \/ MendsNext \/ Refused \/ Bare

FloorLimitShown == (floorLimit # 0 /\ inForce > TDPMaxSafe) => floorLimit > TDPMaxSafe

FloorInv == RunInv /\ FloorLimitShown /\ Floored

LEMMA FloorSteps ==
  /\ FloorStep \subseteq GoodStep
  /\ \A c \in FanCurve, must \in BOOLEAN : MeetsFloor(c) => CurveStep(c, must) \in FloorStep
  /\ \A w \in Limit, must \in BOOLEAN : LimitStep(w, must) \in FloorStep
  /\ \A w \in Limit, must \in BOOLEAN : ReleaseStep(w, must) \in FloorStep
  /\ \A must \in BOOLEAN : VerifyStep(must) \in FloorStep
  /\ Do("guard") \in FloorStep
  /\ Do("save") \in FloorStep
  /\ \A c \in MaybeCurve : ReconcileStep(c) \in FloorStep
  /\ \A n \in MaybeProfile, c \in MaybeCurve, w \in Limit, a \in MaybeProfile :
       CommitStep(n, c, w, a) \in FloorStep
<1>1. ASSUME NEW c \in FanCurve, NEW must \in BOOLEAN, MeetsFloor(c)
      PROVE  CurveStep(c, must) \in FloorStep
  <2>1. CurveStep(c, must).curve = c
    BY DEF CurveStep, Do
  <2>2. CurveStep(c, must) \in GoodStep
    BY GoodSteps
  <2>3. CurveStep(c, must).do = "curve"
    BY DEF CurveStep, Do
  <2> QED BY <1>1, <2>1, <2>2, <2>3 DEF FloorStep
<1>2. \A s \in GoodStep : s.do \notin {"curve", "restore"} => s \in FloorStep
  BY DEF FloorStep
<1> QED BY <1>1, <1>2, GoodSteps, Kinds DEF FloorStep

\* The limit in force never rises but by a limit write.
LEMMA LimitMoves ==
  ASSUME IInv, WriteFaults = FALSE, [Next]_vars, ~WriteLimit
  PROVE  inForce' = inForce \/ inForce' <= TDPMaxSafe
<1>1. CASE HardwareStep
  <2>1. CASE Release
    <3>1. inForce' \in Limit /\ inForce' <= TDPMaxSafe
      BY <2>1, TakenOver DEF Release, IInv, TypeOK
    <3> QED BY <3>1
  <2>2. CASE WriteProfile
    <3>1. Now.name \in StockProfiles
      BY <2>2, Started, NowTyped DEF WriteProfile, Doing, IInv
    <3> QED BY <2>2, <3>1, TakenOver DEF WriteProfile, IInv
  <2>3. CASE ~Release /\ ~WriteProfile
    BY <1>1, <2>3 DEF HardwareStep, WriteCurve, WriteCurveFails, VerifyFanCurveActive,
       WriteLimitFails, CheckFanFloorRelease, RefuseRelease, ReleaseFails, WriteProfileFails,
       hardware
  <2> QED BY <2>1, <2>2, <2>3
<1>2. CASE StateStep \/ ReconcileTick \/ Notify \/ StartWatchers \/ UNCHANGED vars
  BY <1>2 DEF StateStep, ChooseRestore, ReconcileCurve, Commit, Save, SaveFails, ReconcileTick,
              Notify, StartWatchers, hardware, vars
<1>3. CASE UserOperation
  BY <1>3, UserIdle DEF hardware
<1>4. CASE Environment
  <2>1. RestartDaemon => inForce' = inForce
    BY DEF RestartDaemon
  <2>2. Reboot => inForce' <= TDPMaxSafe
    BY FirmwareLow DEF Reboot
  <2> QED BY <1>4, <2>1, <2>2, OutsideLow
<1> QED BY <1>1, <1>2, <1>3, <1>4 DEF Next, Daemon

LEMMA FloorLimitSafe ==
  ASSUME IInv, WriteFaults = FALSE, [Next]_vars, FloorLimitShown
  PROVE  FloorLimitShown'
<1>1. /\ inForce \in Limit /\ floorLimit \in Limit /\ cache \in Limit
      /\ inForce' \in Limit /\ floorLimit' \in Limit
  BY Inductive DEF IInv, TypeOK
<1>2. CASE WriteLimit
  <2>1. inForce' = Now.watts /\ floorLimit' = IF floorLimit = 0 THEN 0 ELSE Now.watts
    BY <1>2 DEF WriteLimit
  <2> QED BY <2>1 DEF FloorLimitShown
<1>3. CASE ~WriteLimit
  <2>1. floorLimit' \in {floorLimit, 0, cache}
    BY <1>3 DEF Next, Daemon, HardwareStep, StateStep, WriteCurve, WriteCurveFails,
         VerifyFanCurveActive,
         WriteLimitFails, CheckFanFloorRelease, RefuseRelease, Release,
         ReleaseFails, WriteProfile, WriteProfileFails, ChooseRestore, ReconcileCurve,
         Commit, Save, SaveFails, ReconcileTick, Notify, StartWatchers, UserOperation,
         SelectStock, SelectCustom, SetFanCurve, ResetFanCurve, SetTDP, ResetTDP, Environment,
         OutsidePolicy, OutsideLimit, OtherSave, RestartDaemon, Reboot, StartDaemon,
         latches, vars
  <2>2. inForce' = inForce \/ inForce' <= TDPMaxSafe
    BY <1>3, LimitMoves
  <2>3. inForce > TDPMaxSafe => cache = inForce
    BY DEF IInv, HighLimitShown
  <2>4. inForce' > TDPMaxSafe => inForce' = inForce
    BY <1>1, <2>2, Bounds
  <2> QED BY <2>1, <2>3, <2>4 DEF FloorLimitShown
<1> QED BY <1>2, <1>3

\* The curve arm is alone, and knows the limit in force.
LEMMA ArmAlone ==
  ASSUME RunInv, todo # <<>>, Now.do = "reconcile"
  PROVE  floorLimit # 0 /\ Tail(todo) = <<>>
<1>1. todo \in Queue(RunStep)
  BY DEF RunInv
<1>2. Head(todo) # <<>> /\ Now = Head(todo)[1] /\ Len(Head(todo)) \in Nat \ {0}
  BY <1>1, NowIn
<1>3. Now \notin OpStep /\ Now \notin StartStep
  BY DEF OpStep, StartStep
<1>4. todo \notin Queue(StartStep)
  BY <1>3, NowIn
<1>5. Head(todo) \notin Seq(OpStep)
  BY <1>2, <1>3
<1> QED BY <1>4, <1>5 DEF RunInv, CurveArm, ArmLast

LEMMA ArmLow ==
  ASSUME NEW c \in MaybeCurve,
         c = NoCurve => todo' = <<>> \o <<>>,
         c # NoCurve => c \in FanCurve /\ todo' = << SetBothFanCurves(c, FALSE) >> \o <<>>
  PROVE  todo' \in Queue(LowStep)
<1>1. c # NoCurve => << SetBothFanCurves(c, FALSE) >> \in Queue(LowStep)
  BY LowSteps, CurveIn
<1>2. <<>> \in Queue(LowStep)
  BY QueueParts
<1> QED BY <1>1, <1>2, QueueParts

LEMMA ArmFloor ==
  ASSUME TypeOK, FloorLimitShown, Now \in GoodStep, floorLimit # 0, inForce > TDPMaxSafe
  PROVE  /\ ReconcileCurveFor(floorLimit, Now.curve) \in FanCurve
         /\ MeetsFloor(ReconcileCurveFor(floorLimit, Now.curve))
         /\ ReconcileCurveFor(floorLimit, Now.curve) # NoCurve
<1>1. floorLimit > TDPMaxSafe /\ floorLimit \in Limit /\ Now.curve \in MaybeCurve
  BY NowTyped DEF FloorLimitShown, TypeOK
<1>2. FanCurveForTDP(floorLimit, Now.curve) \in FanCurve
      /\ MeetsFloor(FanCurveForTDP(floorLimit, Now.curve))
  BY <1>1, FloorCurve
<1>3. ReconcileCurveFor(floorLimit, Now.curve) = FanCurveForTDP(floorLimit, Now.curve)
  BY <1>2, NoCurveIsNone DEF ReconcileCurveFor
<1> QED BY <1>2, <1>3, NoCurveIsNone

LEMMA StaysFlooredSafe ==
  ASSUME IInv, RunInv, FloorLimitShown, WriteFaults = FALSE, HardwareStep \/ StateStep,
         StaysFloored
  PROVE  StaysFloored' \/ StaysLow'
<1>1. /\ todo # <<>> /\ todo \in Queue(RunStep) /\ todo \in Queue(FloorStep)
      /\ FloorOnFans /\ TypeOK /\ inForce \in Limit /\ platform \in StockProfiles
  BY StepMoves DEF RunInv, IInv, StaysFloored, TypeOK
<1>2. /\ Now \in RunStep /\ Now \in FloorStep /\ Now \in GoodStep /\ Now = Head(todo)[1]
      /\ Head(todo) # <<>> /\ Len(Head(todo)) \in Nat \ {0}
  BY <1>1, NowIn DEF FloorStep
<1>3. ~ChooseRestore
  BY <1>2, StepMoves DEF FloorStep
<1>4. CASE ReconcileCurve
  <2> DEFINE c == ReconcileCurveFor(floorLimit, Now.curve)
  <2>1. Now.do = "reconcile"
    BY <1>4, StepMoves
  <2>2. floorLimit # 0 /\ Tail(todo) = <<>>
    BY <1>1, <2>1, ArmAlone
  <2>3. /\ c \in MaybeCurve
        /\ c = NoCurve => todo' = <<>> \o <<>>
        /\ c # NoCurve => c \in FanCurve /\ todo' = << SetBothFanCurves(c, FALSE) >> \o <<>>
    BY <1>1, <1>2, <1>4, <2>2, ArmCall
  <2>4. UNCHANGED <<fan, inForce>>
    BY <1>4 DEF ReconcileCurve, hardware
  <2>5. CASE inForce <= TDPMaxSafe
    <3> HIDE DEF c
    <3>1. todo' \in Queue(LowStep)
      BY <2>3, ArmLow
    <3> QED BY <2>4, <2>5, <3>1 DEF StaysLow
  <2>6. CASE inForce > TDPMaxSafe
    <3>4. c \in FanCurve /\ MeetsFloor(c) /\ c # NoCurve
      BY <1>1, <1>2, <2>2, <2>6, ArmFloor
    <3> HIDE DEF c
    <3>5. << SetBothFanCurves(c, FALSE) >> \in Queue(FloorStep) /\ <<>> \in Queue(FloorStep)
      BY <3>4, FloorSteps, CurveIn, QueueParts
    <3>6. todo' \in Queue(FloorStep)
      BY <2>3, <3>4, <3>5, QueueParts
    <3>7. FloorOnFans'
      BY <1>1, <2>4 DEF FloorOnFans
    <3> QED BY <3>6, <3>7 DEF StaysFloored
  <2> QED BY <1>1, <2>5, <2>6, Bounds
<1>5. CASE ~ReconcileCurve
  <2>1. todo' \in Queue(FloorStep)
    BY <1>1, <1>3, <1>5, StepMoves, QueueMoves
  <2>2. FloorOnFans'
    <3>1. CASE WriteCurve
      <4>1. MeetsFloor(Now.curve)
        BY <1>2, <3>1 DEF FloorStep, WriteCurve, Doing
      <4>2. \A i \in Fan : fan'[i].curve = Now.curve
        BY <3>1 DEF WriteCurve
      <4> QED BY <4>1, <4>2 DEF FloorOnFans
    <3>2. CASE Release
      BY <1>1, <3>2, TakenOver DEF Release
    <3>3. CASE WriteProfile
      <4>1. Now.name \in StockProfiles
        BY <1>2, <3>3, NowTyped DEF WriteProfile, Doing
      <4> QED BY <1>1, <3>3, <4>1, TakenOver DEF WriteProfile
    <3>4. CASE ~WriteCurve /\ ~Release /\ ~WriteProfile
      <4>1. fan' = fan
        BY <3>4 DEF HardwareStep, StateStep, WriteCurveFails, VerifyFanCurveActive,
         WriteLimit, WriteLimitFails, CheckFanFloorRelease, RefuseRelease,
         ReleaseFails, WriteProfileFails, ChooseRestore, ReconcileCurve,
         Commit, Save, SaveFails, hardware
      <4> QED BY <1>1, <4>1 DEF FloorOnFans
    <3> QED BY <3>1, <3>2, <3>3, <3>4
  <2> QED BY <2>1, <2>2 DEF StaysFloored
<1> QED BY <1>4, <1>5

LEMMA FloorsFirstSafe ==
  ASSUME IInv, WriteFaults = FALSE, HardwareStep \/ StateStep, FloorsFirst(todo)
  PROVE  StaysFloored'
<1>1. todo # <<>> /\ todo \in Queue(FloorStep) /\ Now.do = "curve"
  BY DEF FloorsFirst, Now
<1>2. WriteCurve
  BY <1>1 DEF HardwareStep, StateStep, Doing, WriteCurveFails, VerifyFanCurveActive,
         WriteLimit, WriteLimitFails, CheckFanFloorRelease, RefuseRelease, Release,
         ReleaseFails, WriteProfile, WriteProfileFails, ChooseRestore, ReconcileCurve,
         Commit, Save, SaveFails
<1>3. MeetsFloor(Now.curve)
  BY <1>1, NowIn DEF FloorStep
<1>4. FloorOnFans' /\ Done
  <2>1. \A i \in Fan : fan'[i].curve = Now.curve
    BY <1>2 DEF WriteCurve
  <2> QED BY <1>2, <1>3, <2>1 DEF FloorOnFans, WriteCurve
<1>5. todo' \in Queue(FloorStep)
  BY <1>1, <1>4, QueueMoves
<1> QED BY <1>4, <1>5 DEF StaysFloored

LEMMA MendsNextSafe ==
  ASSUME IInv, WriteFaults = FALSE, HardwareStep \/ StateStep, MendsNext
  PROVE  Mends(todo') \/ MendsNext'
<1>1. todo # <<>> /\ Head(todo) \in Seq(SoftStep) /\ Mends(Tail(todo))
  BY DEF MendsNext
<1>2. Head(todo) # <<>> /\ Now = Head(todo)[1] /\ Len(Head(todo)) \in Nat \ {0}
  BY <1>1, Started DEF IInv, Call
<1>3. Now \in SoftStep
  BY <1>1, <1>2
<1>4. Now.do \in {"curve", "verify"} /\ ~Now.must
  BY <1>3 DEF SoftStep
<1>5. Done \/ Failed
  BY <1>4, StepMoves
<1>6. todo' = Rest(todo) \/ todo' = Tail(todo)
  BY <1>4, <1>5 DEF Done, Failed, Rest
<1>7. CASE todo' = Tail(todo)
  BY <1>1, <1>7
<1>8. CASE todo' = Rest(todo) /\ Len(Head(todo)) > 1
  <2> DEFINE k == Head(todo)
  <2>1. Tail(todo) \in Queue(GoodStep)
    BY <1>1, LowSteps, FloorSteps, QueueWiden DEF Mends, LowersFirst, FloorsFirst
  <2>2. Tail(k) \in Seq(SoftStep)
    BY <1>1, <1>8, CallRest
  <2>3. Tail(k) # <<>> /\ Tail(k) \in Seq(GoodStep)
    <3>1. SoftStep \subseteq GoodStep
      BY DEF SoftStep
    <3> QED BY <1>1, <1>8, <2>2, <3>1, CallRest
  <2>4. todo' = <<Tail(k)>> \o Tail(todo)
    BY <1>8 DEF Rest
  <2> HIDE DEF k
  <2>5. todo' # <<>> /\ Head(todo') = Tail(k) /\ Tail(todo') = Tail(todo)
    BY <2>1, <2>3, <2>4, QueueFirst
  <2> QED BY <1>1, <2>2, <2>5 DEF MendsNext
<1> QED BY <1>6, <1>7, <1>8 DEF Rest

LEMMA RefusedSafe ==
  ASSUME IInv, WriteFaults = FALSE, HardwareStep \/ StateStep, Refused
  PROVE  StaysLow'
<1>1. Now.do = "release" /\ Now.watts > TDPMaxSafe /\ Now.must /\ inForce <= TDPMaxSafe
      /\ Now.watts \in Limit
  BY Started, NowTyped DEF Refused, IInv
<1>2. ~(Now.watts <= TDPMaxSafe)
  BY <1>1, Bounds
<1>3. RefuseRelease
  BY <1>1, <1>2 DEF HardwareStep, StateStep, Doing, WriteCurve, WriteCurveFails,
         VerifyFanCurveActive,
         WriteLimit, WriteLimitFails, CheckFanFloorRelease, Release,
         ReleaseFails, WriteProfile, WriteProfileFails, ChooseRestore, ReconcileCurve,
         Commit, Save, SaveFails
<1>4. todo' = <<>> /\ inForce' = inForce
  BY <1>1, <1>3 DEF RefuseRelease, Failed, hardware
<1> QED BY <1>1, <1>4, QueueParts DEF StaysLow

LEMMA BareSafe ==
  ASSUME IInv, RunInv, FloorLimitShown, HardwareStep \/ StateStep, Bare
  PROVE  Bare' \/ StaysLow' \/ FloorsFirst(todo)' \/ StaysFloored'
<1>1. /\ todo # <<>> /\ todo \in Queue(RunStep) /\ todo \in Queue(EditElsewhere(active))
      /\ Restarts /\ NothingRestored /\ TypeOK /\ inForce \in Limit
  BY StepMoves DEF RunInv, IInv, Bare, TypeOK
<1>2. /\ Now \in RunStep /\ Now \in EditElsewhere(active) /\ Now \in GoodStep
      /\ Now = Head(todo)[1] /\ Head(todo) # <<>> /\ Len(Head(todo)) \in Nat \ {0}
  BY <1>1, NowIn DEF EditElsewhere, FloorStep
<1>3. Now.do \in {"commit", "save", "reconcile"}
      /\ (Now.do = "commit" => Now.active = NoName /\ Now.name # active)
  BY <1>2 DEF EditElsewhere
<1>4. Commit \/ Save \/ SaveFails \/ ReconcileCurve
  BY <1>3 DEF HardwareStep, StateStep, Doing, WriteCurve, WriteCurveFails, VerifyFanCurveActive,
         WriteLimit, WriteLimitFails, CheckFanFloorRelease, RefuseRelease, Release,
         ReleaseFails, WriteProfile, WriteProfileFails, ChooseRestore
<1>5. CASE ReconcileCurve
  <2> DEFINE c == ReconcileCurveFor(floorLimit, Now.curve)
  <2>1. Now.do = "reconcile"
    BY <1>5, StepMoves
  <2>2. floorLimit # 0 /\ Tail(todo) = <<>>
    BY <1>1, <1>2, <2>1, ArmAlone
  <2>3. /\ c \in MaybeCurve
        /\ c = NoCurve => todo' = <<>> \o <<>>
        /\ c # NoCurve => c \in FanCurve /\ todo' = << SetBothFanCurves(c, FALSE) >> \o <<>>
    BY <1>1, <1>2, <1>5, <2>2, ArmCall
  <2>4. inForce' = inForce
    BY <1>5 DEF ReconcileCurve, hardware
  <2>5. CASE inForce <= TDPMaxSafe
    <3> HIDE DEF c
    <3>1. todo' \in Queue(LowStep)
      BY <2>3, ArmLow
    <3> QED BY <2>4, <2>5, <3>1 DEF StaysLow
  <2>6. CASE inForce > TDPMaxSafe
    <3>1. c \in FanCurve /\ MeetsFloor(c) /\ c # NoCurve
      BY <1>1, <1>2, <2>2, <2>6, ArmFloor
    <3> HIDE DEF c
    <3> DEFINE k == SetBothFanCurves(c, FALSE)
    <3>2. /\ CurveStep(c, FALSE) \in FloorStep /\ VerifyStep(FALSE) \in FloorStep
      BY <3>1, FloorSteps
    <3>3. k \in Seq(FloorStep) /\ k # <<>> /\ << k >> \in Queue(FloorStep)
      BY <3>2, CurveIn
    <3>4. Head(k) = CurveStep(c, FALSE) /\ CurveStep(c, FALSE).do = "curve"
      BY DEF SetBothFanCurves, CurveStep, Do
    <3>5. todo' = << k >> \o <<>>
      BY <2>3, <3>1
    <3>6. <<>> \in Queue(FloorStep)
      BY QueueParts
    <3> HIDE DEF k
    <3>7. todo' \in Queue(FloorStep) /\ todo' # <<>> /\ Head(todo') = k
      BY <3>3, <3>5, <3>6, QueueFirst
    <3> QED BY <3>4, <3>7 DEF FloorsFirst
  <2> QED BY <1>1, <2>5, <2>6, Bounds
<1>6. CASE Commit
  <2>1. Now.active = NoName /\ Now.name # active /\ Done
    BY <1>3, <1>6 DEF Commit, Doing
  <2>2. active' = active
    BY <1>6, <2>1 DEF Commit
  <2>3. active \in Names => saved'[active] = saved[active]
    BY <1>6, <2>1 DEF Commit
  <2>4. todo' \in Queue(EditElsewhere(active))
    BY <1>1, <2>1, QueueMoves
  <2> QED BY <1>1, <2>2, <2>3, <2>4 DEF Bare, NothingRestored
<1>7. CASE Save \/ SaveFails
  <2>1. UNCHANGED <<active, saved>> /\ Done
    BY <1>7 DEF Save, SaveFails, memory
  <2>2. todo' \in Queue(EditElsewhere(active))
    BY <1>1, <2>1, QueueMoves
  <2> QED BY <1>1, <2>1, <2>2 DEF Bare, NothingRestored
<1> QED BY <1>4, <1>5, <1>6, <1>7

LEMMA FlooredStepSafe ==
  ASSUME IInv, RunInv, FloorLimitShown, WriteFaults = FALSE, HardwareStep \/ StateStep, Floored
  PROVE  Floored'
<1>1. Low => Low'
  BY LowStepSafe
<1>2. StaysFloored => StaysFloored' \/ StaysLow'
  BY StaysFlooredSafe
<1>3. FloorsFirst(todo) => StaysFloored'
  BY FloorsFirstSafe
<1>4. MendsNext => LowersFirst(todo)' \/ FloorsFirst(todo)' \/ MendsNext'
  BY MendsNextSafe DEF Mends
<1>5. Refused => StaysLow'
  BY RefusedSafe
<1>6. Bare => Bare' \/ StaysLow' \/ FloorsFirst(todo)' \/ StaysFloored'
  BY BareSafe
<1> QED BY <1>1, <1>2, <1>3, <1>4, <1>5, <1>6 DEF Floored, Low

\* Nothing under way: what the invariant says then.
LEMMA FloorIdle ==
  ASSUME Floored, todo = <<>>
  PROVE  inForce <= TDPMaxSafe \/ FloorOnFans \/ (Restarts /\ NothingRestored)
BY DEF Floored, Low, StaysLow, LowersFirst, StaysFloored, FloorsFirst, MendsNext, Refused, Bare

\* An operation that writes no limit of its own to begin with.
LEMMA StillFloored ==
  ASSUME IInv, Floored, todo = <<>>, UNCHANGED <<inForce, fan>>,
         inForce <= TDPMaxSafe => todo' \in Queue(LowStep),
         inForce > TDPMaxSafe => todo' \in Queue(FloorStep),
         (inForce > TDPMaxSafe /\ Restarts /\ NothingRestored) => FloorsFirst(todo') \/ Bare'
  PROVE  Floored'
<1>1. inForce <= TDPMaxSafe \/ inForce > TDPMaxSafe
  BY Bounds DEF IInv, TypeOK
<1>2. CASE inForce <= TDPMaxSafe
  BY <1>2 DEF Floored, Low, StaysLow
<1>3. CASE inForce > TDPMaxSafe
  <2>1. ~(inForce <= TDPMaxSafe)
    BY <1>3, Bounds DEF IInv, TypeOK
  <2>2. FloorOnFans' \/ (Restarts /\ NothingRestored)
    BY <2>1, FloorIdle DEF FloorOnFans
  <2> QED BY <1>3, <2>2 DEF Floored, StaysFloored
<1> QED BY <1>1, <1>2, <1>3

\* ApplyTDPSafely begins with the limit, or with the floor the limit needs.
LEMMA ApplyFirst ==
  ASSUME NEW w \in Limit, NEW want \in MaybeCurve, NEW must \in BOOLEAN
  PROVE  /\ ApplyTDPSafely(w, want, must) \in Seq(FloorStep)
         /\ ApplyTDPSafely(w, want, must) # <<>>
         /\ w <= TDPMaxSafe => /\ ApplyTDPSafely(w, want, must) \in Seq(LowStep)
                               /\ Head(ApplyTDPSafely(w, want, must)).do = "limit"
         /\ w > TDPMaxSafe => Head(ApplyTDPSafely(w, want, must)).do = "curve"
<1> DEFINE c == FanCurveForTDP(w, want)
           s1 == CurveStep(c, must)
           s2 == VerifyStep(must)
           s3 == LimitStep(w, must)
           k == ApplyTDPSafely(w, want, must)
<1>1. /\ c # NoCurve => c \in FanCurve /\ MeetsFloor(c)
      /\ w <= TDPMaxSafe => c = NoCurve
      /\ w > TDPMaxSafe => c # NoCurve
  <2>1. w <= TDPMaxSafe \/ w > TDPMaxSafe
    BY Bounds
  <2> QED BY <2>1, FloorCurve, NoCurveIsNone
<1> HIDE DEF c
<1>2. /\ s3 \in FloorStep /\ s2 \in FloorStep /\ (c # NoCurve => s1 \in FloorStep)
      /\ w <= TDPMaxSafe => s3 \in LowStep
  BY <1>1, FloorSteps, LowSteps
<1>3. s1.do = "curve" /\ s3.do = "limit"
  BY DEF CurveStep, LimitStep, Do
<1>4. k = IF c = NoCurve THEN <<s3>> ELSE <<s1, s2, s3>>
  BY DEF ApplyTDPSafely, c
<1> HIDE DEF s1, s2, s3, k
<1>5. CASE c = NoCurve
  <2>1. k = <<s3>>
    BY <1>4, <1>5
  <2>2. k \in Seq(FloorStep) /\ k # <<>> /\ Head(k) = s3
        /\ (w <= TDPMaxSafe => k \in Seq(LowStep))
    BY <1>2, <2>1
  <2> QED BY <1>1, <1>3, <1>5, <2>2 DEF k
<1>6. CASE c # NoCurve
  <2>1. k = <<s1, s2, s3>>
    BY <1>4, <1>6
  <2>2. k \in Seq(FloorStep) /\ k # <<>> /\ Head(k) = s1
    BY <1>2, <1>6, <2>1
  <2> QED BY <1>1, <1>3, <1>6, <2>2 DEF k
<1> QED BY <1>5, <1>6

\* So a queue that begins with it mends what went before.
LEMMA ApplyMends ==
  ASSUME NEW w \in Limit, NEW want \in MaybeCurve, NEW must \in BOOLEAN, NEW t, t # <<>>,
         Head(t) = ApplyTDPSafely(w, want, must),
         w <= TDPMaxSafe => t \in Queue(LowStep),
         w > TDPMaxSafe => t \in Queue(FloorStep)
  PROVE  Mends(t)
<1>1. w <= TDPMaxSafe \/ w > TDPMaxSafe
  BY Bounds
<1>2. w <= TDPMaxSafe => Head(Head(t)).do = "limit"
  BY ApplyFirst
<1>3. w > TDPMaxSafe => Head(Head(t)).do = "curve"
  BY ApplyFirst
<1> QED BY <1>1, <1>2, <1>3 DEF Mends, LowersFirst, FloorsFirst

LEMMA MendsFloored ==
  ASSUME Mends(todo')
  PROVE  Floored'
BY DEF Mends, Floored, Low

\* A custom profile's apply takes the limit down or puts the floor on, once
\* its own curve has been tried.
LEMMA ApplyFloored ==
  ASSUME NEW settings \in Settings, NEW p \in StockProfiles,
         todo' = ApplyCustomHW(settings, p)
  PROVE  Floored'
<1> DEFINE c == settings.curve
           w == settings.tdp
           a == ApplyTDPSafely(w, c, FALSE)
           e == << <<Do("save")>> >>
<1>1. settings \in Settings /\ p \in StockProfiles
  OBVIOUS
<1>2. todo' = ApplyCustomHW(settings, p)
  OBVIOUS
<1>3. c \in MaybeCurve /\ w \in Limit /\ FALSE \in BOOLEAN /\ 0 \in Limit
  BY <1>1, Bounds DEF Settings
<1>4. /\ LimitStep(Firmware[p], FALSE) \in LowStep
      /\ Do("guard") \in LowStep /\ ReleaseStep(0, FALSE) \in LowStep
      /\ Do("save") \in LowStep /\ VerifyStep(FALSE) \in LowStep
      /\ ReleaseStep(w, FALSE) \in LowStep
      /\ c # NoCurve => CurveStep(c, FALSE) \in LowStep
      /\ w <= TDPMaxSafe => LimitStep(w, FALSE) \in LowStep
  <2>1. c # NoCurve => c \in FanCurve
    BY <1>3 DEF MaybeCurve
  <2> HIDE DEF c, w
  <2> QED BY <1>1, <1>3, <2>1, FirmwareLow, LowSteps
<1>5. CASE w = 0
  <2> DEFINE h == ApplyCustomHW(settings, p)
  <2>5. h \in Queue(LowStep) /\ BeginsWith(h, LimitStep(Firmware[p], FALSE))
    BY <1>4, <1>5, ApplyCustomIn
  <2>6. h # <<>> /\ Head(h) = << LimitStep(Firmware[p], FALSE) >>
    BY <2>5 DEF BeginsWith
  <2> HIDE DEF h
  <2>1. /\ todo' \in Queue(LowStep) /\ todo' # <<>>
        /\ Head(todo') = << LimitStep(Firmware[p], FALSE) >>
    BY <1>2, <2>5, <2>6 DEF h
  <2>2. LimitStep(Firmware[p], FALSE).do = "limit"
    BY DEF LimitStep, Do
  <2>3. Head(<< LimitStep(Firmware[p], FALSE) >>) = LimitStep(Firmware[p], FALSE)
    OBVIOUS
  <2>4. LowersFirst(todo')
    BY <2>1, <2>2, <2>3 DEF LowersFirst
  <2> QED BY <2>4 DEF Floored, Low
<1>6. CASE w # 0 /\ c = NoCurve
  <2>1. w <= TDPMaxSafe \/ w > TDPMaxSafe
    BY <1>3, Bounds
  <2>2. CASE w <= TDPMaxSafe
    <3>1. FanCurveForTDP(w, c) = NoCurve
      <4> HIDE DEF c, w
      <4> QED BY <1>3, <1>6, <2>2, FloorCurve
    <3>2. /\ Do("save") \in LowStep /\ LimitStep(w, FALSE) \in LowStep
          /\ Do("guard") \in LowStep /\ ReleaseStep(w, FALSE) \in LowStep
      BY <1>4, <2>2
    <3>3. \E r \in Queue(LowStep) : todo' = << a >> \o r
      <4> DEFINE h == ApplyCustomHW(settings, p)
      <4>1. /\ settings.curve = NoCurve /\ settings.tdp # 0
            /\ FanCurveForTDP(settings.tdp, settings.curve) = NoCurve
            /\ Do("save") \in LowStep /\ LimitStep(settings.tdp, FALSE) \in LowStep
            /\ Do("guard") \in LowStep /\ ReleaseStep(settings.tdp, FALSE) \in LowStep
        BY <1>6, <3>1, <3>2
      <4>2. \E r \in Queue(LowStep) :
              h = << ApplyTDPSafely(settings.tdp, settings.curve, FALSE) >> \o r
        BY <4>1, ApplyCustomIn
      <4> QED BY <1>2, <4>2
    <3>4. PICK r \in Queue(LowStep) : todo' = << a >> \o r
      BY <3>3
    <3>5. a \in Seq(LowStep) /\ a # <<>>
      <4> HIDE DEF c, w
      <4> QED BY <1>3, <2>2, ApplyFirst
    <3>6. todo' \in Queue(LowStep) /\ todo' # <<>> /\ Head(todo') = a
      <4> HIDE DEF a
      <4> QED BY <3>4, <3>5, QueueFirst
    <3>7. ~(w > TDPMaxSafe)
      BY <1>3, <2>2, Bounds
    <3> HIDE DEF c, w
    <3> QED BY <1>3, <3>6, <3>7, ApplyMends, MendsFloored
  <2>3. CASE w > TDPMaxSafe
    <3>1. ~(w <= TDPMaxSafe)
      BY <1>3, <2>3, Bounds
    <3>2. /\ LimitStep(w, FALSE) \in FloorStep /\ VerifyStep(FALSE) \in FloorStep
          /\ Do("save") \in FloorStep
          /\ CurveStep(FanCurveForTDP(w, c), FALSE) \in FloorStep
      <4> HIDE DEF c, w
      <4>1. FanCurveForTDP(w, c) \in FanCurve /\ MeetsFloor(FanCurveForTDP(w, c))
        BY <1>3, <2>3, FloorCurve
      <4> QED BY <1>3, <4>1, FloorSteps
    <3>3. PICK r \in Queue(FloorStep) : todo' = << a >> \o r
      BY <1>2, <1>6, <3>1, <3>2, ApplyCustomIn
    <3>4. a \in Seq(FloorStep) /\ a # <<>>
      <4> HIDE DEF c, w
      <4> QED BY <1>3, ApplyFirst
    <3>5. todo' \in Queue(FloorStep) /\ todo' # <<>> /\ Head(todo') = a
      <4> HIDE DEF a
      <4> QED BY <3>3, <3>4, QueueFirst
    <3> HIDE DEF c, w
    <3> QED BY <1>3, <3>1, <3>5, ApplyMends, MendsFloored
  <2> QED BY <2>1, <2>2, <2>3
<1>7. CASE w # 0 /\ c # NoCurve
  <2> DEFINE b == SetBothFanCurves(c, FALSE)
  <2>1. c \in FanCurve
    BY <1>3, <1>7 DEF MaybeCurve
  <2>2. todo' = << b >> \o (<< a >> \o e)
    <3>1. /\ CurveStep(c, FALSE) \in EditStep /\ VerifyStep(FALSE) \in EditStep
          /\ Do("save") \in EditStep /\ LimitStep(w, FALSE) \in EditStep
          /\ Do("guard") \in EditStep /\ ReleaseStep(w, FALSE) \in EditStep
          /\ FanCurveForTDP(w, c) # NoCurve =>
               CurveStep(FanCurveForTDP(w, c), FALSE) \in EditStep
      <4> HIDE DEF c, w
      <4> QED BY <1>3, <2>1, EditSteps, ApplyEdits
    <3> QED BY <1>2, <1>7, <3>1, ApplyCustomIn
  <2>3. b \in Seq(SoftStep) /\ b # <<>> /\ b \in Seq(GoodStep)
    <3> HIDE DEF c
    <3>1. CurveStep(c, FALSE) \in GoodStep /\ VerifyStep(FALSE) \in GoodStep
      BY <1>3, <2>1, GoodSteps
    <3>2. /\ CurveStep(c, FALSE).do = "curve" /\ CurveStep(c, FALSE).must = FALSE
          /\ VerifyStep(FALSE).do = "verify" /\ VerifyStep(FALSE).must = FALSE
      BY DEF CurveStep, VerifyStep, Do
    <3>3. CurveStep(c, FALSE) \in SoftStep /\ VerifyStep(FALSE) \in SoftStep
      BY <3>1, <3>2 DEF SoftStep
    <3> QED BY <3>1, <3>3, CurveIn
  <2>4. a \in Seq(FloorStep) /\ a # <<>> /\ (w <= TDPMaxSafe => a \in Seq(LowStep))
    <3> HIDE DEF c, w
    <3> QED BY <1>3, ApplyFirst
  <2> HIDE DEF b
  <2>5. e \in Queue(LowStep) /\ e \in Queue(FloorStep)
    <3> DEFINE d == <<Do("save")>>
    <3>1. d # <<>> /\ d \in Seq(LowStep) /\ d \in Seq(FloorStep)
      BY LowSteps, FloorSteps
    <3> HIDE DEF d
    <3>2. << d >> \in Queue(LowStep) /\ << d >> \in Queue(FloorStep)
      BY <3>1, QueueParts
    <3> QED BY <3>2 DEF d
  <2> DEFINE t == << a >> \o e
  <2> HIDE DEF a, e
  <2>6. t \in Queue(FloorStep) /\ t # <<>> /\ Head(t) = a
    BY <2>4, <2>5, QueueFirst
  <2>7. w <= TDPMaxSafe => t \in Queue(LowStep)
    BY <2>4, <2>5, QueueFirst
  <2>8. Mends(t)
    <3>1. Head(t) = ApplyTDPSafely(w, c, FALSE)
      BY <2>6 DEF a
    <3> HIDE DEF t, c, w
    <3> QED BY <1>3, <2>6, <2>7, <3>1, ApplyMends
  <2>9. t \in Queue(GoodStep)
    BY <2>6, FloorSteps, QueueWiden
  <2>10. todo' = << b >> \o t
    BY <2>2 DEF a, e
  <2> HIDE DEF t
  <2>11. todo' # <<>> /\ Head(todo') = b /\ Tail(todo') = t
    BY <2>3, <2>9, <2>10, QueueFirst
  <2>12. MendsNext'
    BY <2>3, <2>8, <2>11 DEF MendsNext
  <2> QED BY <2>12 DEF Floored
<1> QED BY <1>5, <1>6, <1>7

LEMMA SelectFloored ==
  ASSUME IInv, Floored,
         \/ \E p \in StockProfiles : SelectStock(p)
         \/ \E n \in Names : SelectCustom(n)
  PROVE  Floored'
<1>1. ASSUME NEW p \in StockProfiles, SelectStock(p) PROVE Floored'
  <2>1. LowersFirst(todo')
    BY <1>1, SelectStockIn, LandsLow, Bounds
  <2> QED BY <2>1 DEF Floored, Low
<1>2. ASSUME NEW n \in Names, SelectCustom(n) PROVE Floored'
  <2>1. saved[n] \in Settings /\ platform \in StockProfiles
    BY DEF IInv, TypeOK
  <2>2. todo' = ApplyCustomHW(saved[n], platform)
    BY <1>2 DEF SelectCustom
  <2> QED BY <2>1, <2>2, ApplyFloored
<1> QED BY <1>1, <1>2

\* The commit of an edit is harmless either way.
LEMMA EditFloor ==
  ASSUME IInv, NEW n \in Names \cup {NoName}, NEW c \in MaybeCurve, NEW w \in Limit
  PROVE  /\ CommitStep(Target(n), c, w, Activates(n)) \in LowStep
         /\ CommitStep(Target(n), c, w, Activates(n)) \in FloorStep
<1>1. Target(n) \in MaybeProfile /\ Activates(n) \in MaybeProfile
  BY EditTarget, Bounds DEF IInv, Activates
<1> QED BY <1>1, LowSteps, FloorSteps

\* And the edit of a profile that is not active leaves the active one alone.
LEMMA ElsewhereStays ==
  ASSUME IInv, NEW n \in Names \cup {NoName}, ~Live(n),
         NEW c \in MaybeCurve, NEW w \in Limit
  PROVE  /\ CommitStep(Target(n), c, w, Activates(n)) \in EditElsewhere(active)
         /\ Do("save") \in EditElsewhere(active)
<1>1. Target(n) = n /\ n # active /\ Activates(n) = NoName
  BY DEF Live, Target, Activates
<1>2. CommitStep(Target(n), c, w, Activates(n)) \in FloorStep /\ Do("save") \in FloorStep
  BY EditFloor, FloorSteps
<1>3. /\ CommitStep(n, c, w, NoName).do = "commit"
      /\ CommitStep(n, c, w, NoName).active = NoName
      /\ CommitStep(n, c, w, NoName).name = n
      /\ Do("save").do = "save"
  BY DEF CommitStep, Do
<1> QED BY <1>1, <1>2, <1>3 DEF EditElsewhere

LEMMA EditsBare ==
  ASSUME Restarts, NothingRestored, UNCHANGED memory, todo' \in Queue(EditElsewhere(active))
  PROVE  Bare'
BY DEF Bare, NothingRestored, memory

\* A curve set on the live profile is written first.
LEMMA SetFanCurveFirst ==
  ASSUME NEW S, NEW n, NEW points, SetFanCurve(n, points), Live(n),
         CurveStep(points, TRUE) \in S, VerifyStep(TRUE) \in S,
         CommitStep(Target(n), points, saved[Target(n)].tdp, Activates(n)) \in S,
         Do("save") \in S
  PROVE  /\ todo' # <<>> /\ Head(todo') = SetBothFanCurves(points, TRUE)
         /\ Head(Head(todo')).do = "curve"
<1> DEFINE k == SetBothFanCurves(points, TRUE)
           r == CommitAndSave(Target(n), points, saved[Target(n)].tdp, Activates(n))
<1>1. k \in Seq(S) /\ k # <<>>
  BY CurveIn
<1>2. r \in Queue(S)
  BY CommitIn
<1>3. todo' = << k >> \o r
  BY DEF SetFanCurve, Activates
<1> HIDE DEF k, r
<1>4. todo' # <<>> /\ Head(todo') = k
  BY <1>1, <1>2, <1>3, QueueFirst
<1>5. Head(k).do = "curve"
  <2> DEFINE c == CurveStep(points, TRUE)
             v == VerifyStep(TRUE)
  <2>1. c.do = "curve"
    BY DEF CurveStep, Do
  <2>2. k = <<c, v>>
    BY DEF k, SetBothFanCurves
  <2> HIDE DEF c, v
  <2>3. Head(<<c, v>>) = c
    OBVIOUS
  <2> QED BY <2>1, <2>2, <2>3
<1>6. Head(Head(todo')).do = "curve"
  BY <1>4, <1>5
<1> QED BY <1>4, <1>6 DEF k

LEMMA SetFanCurveFloored ==
  ASSUME IInv, Floored, NEW n \in Names \cup {NoName}, NEW points \in UserCurves,
         SetFanCurve(n, points)
  PROVE  Floored'
<1>1. todo = <<>> /\ UNCHANGED <<inForce, fan>> /\ UNCHANGED memory
  BY DEF SetFanCurve, Idle, hardware
<1>2. points \in FanCurve /\ points \in MaybeCurve /\ TRUE \in BOOLEAN
      /\ saved[Target(n)].tdp \in Limit
  BY CurveAssumption, EditTarget DEF IInv, MaybeCurve
<1>3. /\ CommitStep(Target(n), points, saved[Target(n)].tdp, Activates(n)) \in LowStep
      /\ CommitStep(Target(n), points, saved[Target(n)].tdp, Activates(n)) \in FloorStep
  BY <1>2, EditFloor
<1>4. todo' \in Queue(LowStep)
  <2>1. CurveStep(points, TRUE) \in LowStep /\ VerifyStep(TRUE) \in LowStep
        /\ Do("save") \in LowStep
    BY <1>2, LowSteps
  <2> QED BY <1>3, <2>1, SetFanCurveIn
<1>5. inForce > TDPMaxSafe =>
         /\ todo' \in Queue(FloorStep)
         /\ ((Restarts /\ NothingRestored) => FloorsFirst(todo') \/ Bare')
  <2> SUFFICES ASSUME inForce > TDPMaxSafe
               PROVE  /\ todo' \in Queue(FloorStep)
                      /\ (Restarts /\ NothingRestored) => FloorsFirst(todo') \/ Bare'
    OBVIOUS
  <2>1. Live(n) => MeetsFloor(points)
    <3>1. cache > TDPMaxSafe /\ cache \in Limit
      BY DEF IInv, HighLimitShown, TypeOK
    <3>2. ~(cache <= TDPMaxSafe)
      BY <3>1, Bounds
    <3> QED BY <3>2 DEF SetFanCurve, CheckCurveAgainstTDP, FloorLimitFor
  <2>2. Live(n) => CurveStep(points, TRUE) \in FloorStep /\ VerifyStep(TRUE) \in FloorStep
    BY <1>2, <2>1, FloorSteps
  <2>3. Do("save") \in FloorStep
    BY FloorSteps
  <2>4. todo' \in Queue(FloorStep)
    BY <1>3, <2>2, <2>3, SetFanCurveIn
  <2>5. CASE Live(n)
    <3>1. todo' # <<>> /\ Head(Head(todo')).do = "curve"
      <4>1. CurveStep(points, TRUE) \in FloorStep /\ VerifyStep(TRUE) \in FloorStep
        BY <2>2, <2>5
      <4> QED BY <1>3, <2>3, <2>5, <4>1, SetFanCurveFirst
    <3> QED BY <2>4, <3>1 DEF FloorsFirst
  <2>6. CASE ~Live(n)
    <3>1. todo' \in Queue(EditElsewhere(active))
      BY <1>2, <2>6, ElsewhereStays, SetFanCurveIn
    <3> QED BY <1>1, <2>4, <3>1, EditsBare
  <2> QED BY <2>4, <2>5, <2>6
<1> QED BY <1>1, <1>4, <1>5, StillFloored

LEMMA ResetFanCurveFloored ==
  ASSUME IInv, Floored, NEW n \in Names \cup {NoName}, ResetFanCurve(n)
  PROVE  Floored'
<1> DEFINE keep == IF Implicit(n) THEN 0 ELSE saved[Target(n)].tdp
           t == CommitStep(Target(n), NoCurve, saved[Target(n)].tdp, Activates(n))
<1>1. todo = <<>> /\ UNCHANGED <<inForce, fan>> /\ UNCHANGED memory
  BY DEF ResetFanCurve, Idle, hardware
<1>2. /\ saved[Target(n)].tdp \in Limit /\ keep \in Limit /\ NoCurve \in MaybeCurve
      /\ TRUE \in BOOLEAN
  BY EditTarget, Bounds DEF IInv, MaybeCurve
<1>3. keep = IF Implicit(n) THEN 0 ELSE saved[Target(n)].tdp
  OBVIOUS
<1> HIDE DEF keep
<1>4. t \in LowStep /\ t \in FloorStep
  BY <1>2, EditFloor
<1>5. Live(n) => inForce <= TDPMaxSafe
  <2> SUFFICES ASSUME Live(n) PROVE inForce <= TDPMaxSafe
    OBVIOUS
  <2>1. cache <= TDPMaxSafe
    BY DEF ResetFanCurve, CheckFanFloorReleaseAt, FloorLimitFor
  <2>2. ~(inForce > TDPMaxSafe)
    <3>1. ~(cache > TDPMaxSafe)
      BY <2>1, Bounds DEF IInv, TypeOK
    <3> QED BY <3>1 DEF IInv, HighLimitShown
  <2> QED BY <2>2, Bounds DEF IInv, TypeOK
<1>6. Do("save") \in LowStep /\ Do("save") \in FloorStep
  BY LowSteps, FloorSteps
<1>7. CASE ~Live(n)
  <2>1. todo' \in Queue(LowStep)
    BY <1>3, <1>4, <1>6, <1>7, ResetFanCurveIn
  <2>2. todo' \in Queue(FloorStep)
    BY <1>3, <1>4, <1>6, <1>7, ResetFanCurveIn
  <2>3. todo' \in Queue(EditElsewhere(active))
    BY <1>2, <1>3, <1>7, ElsewhereStays, ResetFanCurveIn
  <2>4. (Restarts /\ NothingRestored) => Bare'
    BY <1>1, <2>3, EditsBare
  <2> QED BY <1>1, <2>1, <2>2, <2>4, StillFloored
<1>8. CASE Live(n) /\ keep <= TDPMaxSafe
  <2>1. ReleaseStep(keep, TRUE) \in LowStep /\ LimitStep(keep, TRUE) \in LowStep
    BY <1>2, <1>8, LowSteps
  <2>2. todo' \in Queue(LowStep)
    BY <1>3, <1>4, <1>6, <2>1, ResetFanCurveIn
  <2>3. ~(inForce > TDPMaxSafe)
    BY <1>5, <1>8, Bounds DEF IInv, TypeOK
  <2> QED BY <1>1, <2>2, <2>3, StillFloored
<1>9. CASE Live(n) /\ keep > TDPMaxSafe
  <2>1. /\ ReleaseStep(keep, TRUE) \in GoodStep /\ LimitStep(keep, TRUE) \in GoodStep
        /\ t \in GoodStep /\ Do("save") \in GoodStep
    BY <1>2, <1>4, <1>6, GoodSteps, LowSteps
  <2>2. todo' # <<>> /\ Head(Head(todo')) = ReleaseStep(keep, TRUE)
    BY <1>3, <1>9, <2>1, ResetFanCurveIn
  <2>3. /\ ReleaseStep(keep, TRUE).do = "release" /\ ReleaseStep(keep, TRUE).watts = keep
        /\ ReleaseStep(keep, TRUE).must
    BY DEF ReleaseStep, Do
  <2>4. Refused'
    BY <1>1, <1>5, <1>9, <2>2, <2>3 DEF Refused, Now
  <2> QED BY <2>4 DEF Floored
<1> QED BY <1>2, <1>7, <1>8, <1>9, Bounds

LEMMA SetTDPFloored ==
  ASSUME IInv, Floored, NEW n \in Names \cup {NoName}, NEW w \in Watts, SetTDP(n, w, w)
  PROVE  Floored'
<1> DEFINE c == saved[Target(n)].curve
           t == CommitStep(Target(n), c, w, Activates(n))
<1>1. todo = <<>> /\ UNCHANGED <<inForce, fan>> /\ UNCHANGED memory
  BY DEF SetTDP, Idle, hardware
<1>2. w \in Limit /\ c \in MaybeCurve /\ TRUE \in BOOLEAN /\ FALSE \in BOOLEAN
  BY PowerAssumption, EditTarget, Bounds DEF IInv, TDPMin, TDPMaxForced
<1>3. c = saved[Target(n)].curve
  OBVIOUS
<1> HIDE DEF c
<1>4. t \in LowStep /\ t \in FloorStep
  BY <1>2, EditFloor
<1>5. Do("save") \in LowStep /\ Do("save") \in FloorStep
  BY LowSteps, FloorSteps
<1>6. w <= TDPMaxSafe \/ w > TDPMaxSafe
  BY <1>2, Bounds
<1>7. w > TDPMaxSafe => ~(w <= TDPMaxSafe)
  BY <1>2, Bounds
<1>8. w <= TDPMaxSafe => todo' \in Queue(LowStep)
  <2> SUFFICES ASSUME w <= TDPMaxSafe PROVE todo' \in Queue(LowStep)
    OBVIOUS
  <2>1. FanCurveForTDP(w, c) = NoCurve /\ (c # NoCurve => c \in FanCurve)
    BY <1>2, FloorCurve DEF MaybeCurve
  <2>2. /\ LimitStep(w, TRUE) \in LowStep /\ LimitStep(w, FALSE) \in LowStep
        /\ ReleaseStep(w, FALSE) \in LowStep /\ VerifyStep(FALSE) \in LowStep
        /\ c # NoCurve => CurveStep(c, FALSE) \in LowStep
    BY <1>2, <2>1, LowSteps
  <2>3. Live(n) =>
          /\ LimitStep(w, TRUE) \in LowStep
          /\ FanCurveForTDP(w, c) # NoCurve =>
               CurveStep(FanCurveForTDP(w, c), TRUE) \in LowStep /\ VerifyStep(TRUE) \in LowStep
    BY <2>1, <2>2
  <2>4. (Live(n) /\ w <= TDPMaxSafe) =>
          /\ c = NoCurve =>
               ReleaseStep(w, FALSE) \in LowStep /\ (w # 0 => LimitStep(w, FALSE) \in LowStep)
          /\ c # NoCurve => CurveStep(c, FALSE) \in LowStep /\ VerifyStep(FALSE) \in LowStep
    BY <2>2
  <2> QED BY <1>3, <1>4, <1>5, <2>3, <2>4, SetTDPIn
<1>9. w > TDPMaxSafe => todo' \in Queue(FloorStep)
  <2> SUFFICES ASSUME w > TDPMaxSafe PROVE todo' \in Queue(FloorStep)
    OBVIOUS
  <2>1. FanCurveForTDP(w, c) \in FanCurve /\ MeetsFloor(FanCurveForTDP(w, c))
    BY <1>2, FloorCurve
  <2>2. Live(n) =>
          /\ LimitStep(w, TRUE) \in FloorStep
          /\ FanCurveForTDP(w, c) # NoCurve =>
               CurveStep(FanCurveForTDP(w, c), TRUE) \in FloorStep
               /\ VerifyStep(TRUE) \in FloorStep
    BY <1>2, <2>1, FloorSteps
  <2> QED BY <1>3, <1>4, <1>5, <1>7, <2>2, SetTDPIn
<1>10. CASE ~Live(n)
  <2>1. todo' \in Queue(LowStep)
    BY <1>3, <1>4, <1>5, <1>10, SetTDPIn
  <2>2. todo' \in Queue(FloorStep)
    BY <1>3, <1>4, <1>5, <1>10, SetTDPIn
  <2>3. todo' \in Queue(EditElsewhere(active))
    BY <1>2, <1>3, <1>10, ElsewhereStays, SetTDPIn
  <2>4. (Restarts /\ NothingRestored) => Bare'
    BY <1>1, <2>3, EditsBare
  <2> QED BY <1>1, <2>1, <2>2, <2>4, StillFloored
<1>11. CASE Live(n)
  <2>1. Starts(todo', ApplyTDPSafely(w, c, TRUE), t)
    <3>1. t \in GoodStep /\ Do("save") \in GoodStep
      BY <1>4, <1>5, LowSteps
    <3>2. Live(n) =>
          /\ LimitStep(w, TRUE) \in GoodStep
          /\ FanCurveForTDP(w, c) # NoCurve =>
               CurveStep(FanCurveForTDP(w, c), TRUE) \in GoodStep /\ VerifyStep(TRUE) \in GoodStep
      BY <1>2, ApplyEdits, EditSteps DEF EditStep
    <3>3. (Live(n) /\ w <= TDPMaxSafe) =>
          /\ c = NoCurve =>
               ReleaseStep(w, FALSE) \in GoodStep /\ (w # 0 => LimitStep(w, FALSE) \in GoodStep)
          /\ c # NoCurve => CurveStep(c, FALSE) \in GoodStep /\ VerifyStep(FALSE) \in GoodStep
      <4>1. c # NoCurve => c \in FanCurve
        BY <1>2 DEF MaybeCurve
      <4> QED BY <1>2, <4>1, GoodSteps
    <3> QED BY <1>3, <1>11, <3>1, <3>2, <3>3, SetTDPIn
  <2>2. todo' # <<>> /\ Head(todo') = ApplyTDPSafely(w, c, TRUE)
    BY <2>1 DEF Starts
  <2>3. Mends(todo')
    BY <1>2, <1>8, <1>9, <2>2, ApplyMends
  <2> QED BY <2>3, MendsFloored
<1> QED BY <1>10, <1>11

LEMMA ResetTDPFloored ==
  ASSUME IInv, Floored, NEW n \in Names \cup {NoName}, ResetTDP(n)
  PROVE  Floored'
<1>1. todo = <<>> /\ UNCHANGED <<inForce, fan>> /\ UNCHANGED memory
  BY DEF ResetTDP, Idle, hardware
<1>2. CASE Live(n)
  <2> DEFINE m == IF Implicit(n) THEN NoName ELSE Target(n)
  <2>1. m \in MaybeProfile /\ "balanced" \in StockProfiles
    BY EditTarget, ProfileAssumption DEF IInv
  <2>2. todo' = Land("balanced", m)
    BY <1>2, ResetTDPIn
  <2> HIDE DEF m
  <2>3. LowersFirst(todo')
    BY <2>1, <2>2, LandsLow
  <2> QED BY <2>3 DEF Floored, Low
<1>3. CASE ~Live(n)
  <2>1. n \in Names /\ Target(n) = n /\ Activates(n) = NoName
    BY <1>3 DEF Live, Target, Activates
  <2>2. saved[n].curve \in MaybeCurve /\ 0 \in Limit
    BY <2>1, EditTarget, Bounds DEF IInv
  <2>3. /\ CommitStep(n, saved[n].curve, 0, NoName) \in FloorStep
        /\ CommitStep(n, saved[n].curve, 0, NoName) \in LowStep
    BY <2>1, <2>2, EditFloor
  <2>4. Do("save") \in FloorStep /\ Do("save") \in LowStep
    BY LowSteps, FloorSteps
  <2>5. todo' \in Queue(FloorStep) /\ todo' \in Queue(LowStep)
    BY <1>3, <2>3, <2>4, ResetTDPIn, CommitIn
  <2>6. CommitStep(n, saved[n].curve, 0, NoName) \in EditElsewhere(active)
        /\ Do("save") \in EditElsewhere(active)
    BY <1>3, <2>1, <2>2, ElsewhereStays
  <2>7. todo' \in Queue(EditElsewhere(active))
    BY <1>3, <2>6, ResetTDPIn, CommitIn
  <2>8. (Restarts /\ NothingRestored) => Bare'
    BY <1>1, <2>7, EditsBare
  <2> QED BY <1>1, <2>5, <2>8, StillFloored
<1> QED BY <1>2, <1>3

LEMMA TickFloored ==
  ASSUME IInv, Floored, ReconcileTick
  PROVE  Floored'
<1>1. todo = <<>> /\ UNCHANGED <<inForce, fan>> /\ UNCHANGED memory
  BY DEF ReconcileTick, Idle, hardware
<1>2. CASE active \notin Names
  <2>1. todo' = <<>>
    BY <1>1, <1>2 DEF ReconcileTick
  <2>2. <<>> \in Queue(LowStep) /\ <<>> \in Queue(FloorStep)
        /\ <<>> \in Queue(EditElsewhere(active))
    BY QueueParts
  <2>3. (Restarts /\ NothingRestored) => Bare'
    BY <1>1, <2>1, <2>2, EditsBare
  <2> QED BY <1>1, <2>1, <2>2, <2>3, StillFloored
<1>3. CASE active \in Names
  <2> DEFINE s == saved[active]
             w == s.tdp
             c == s.curve
             a == ApplyTDPSafely(w, c, FALSE)
             r == << ReconcileStep(c) >>
  <2>1. s = saved[active]
    OBVIOUS
  <2> HIDE DEF s
  <2>2. /\ c \in MaybeCurve /\ w \in Limit
        /\ (~LimitLost(s) /\ ~CurveDropped(c)) => todo' = <<>>
        /\ (~LimitLost(s) /\ CurveDropped(c)) => todo' = << r >>
    BY <1>3, <2>1, TickCalls
  <2>3. LimitLost(s) => /\ todo' # <<>> /\ Head(todo') = a
                        /\ CurveDropped(c) => Tail(todo') = << r >>
                        /\ ~CurveDropped(c) => Tail(todo') = <<>>
    BY <1>3, <2>1, TickCalls
  <2> HIDE DEF c, w
  <2>4. r \in Seq(LowStep) /\ r \in Seq(FloorStep) /\ r \in Seq(EditElsewhere(active))
        /\ r # <<>>
    <3>1. ReconcileStep(c) \in LowStep /\ ReconcileStep(c) \in FloorStep
      BY <2>2, LowSteps, FloorSteps
    <3>2. ReconcileStep(c).do = "reconcile"
      BY DEF ReconcileStep, Do
    <3>3. ReconcileStep(c) \in EditElsewhere(active)
      BY <3>1, <3>2 DEF EditElsewhere
    <3> QED BY <3>1, <3>3
  <2> HIDE DEF r
  <2>5. <<>> \in Queue(LowStep) /\ << r >> \in Queue(LowStep)
        /\ <<>> \in Queue(FloorStep) /\ << r >> \in Queue(FloorStep)
    BY <2>4, QueueParts
  <2>6. CASE ~LimitLost(s)
    <3>1. todo' \in Queue(LowStep) /\ todo' \in Queue(FloorStep)
      BY <2>2, <2>5, <2>6
    <3>2. <<>> \in Queue(EditElsewhere(active)) /\ << r >> \in Queue(EditElsewhere(active))
      BY <2>4, QueueParts
    <3>3. (Restarts /\ NothingRestored) => Bare'
      BY <1>1, <2>2, <2>6, <3>2, EditsBare
    <3> QED BY <1>1, <3>1, <3>3, StillFloored
  <2>7. CASE LimitLost(s)
    <3> DEFINE t == todo'
    <3>1. t \in Queue(GoodStep)
      <4>1. t \in Queue(RunStep)
        BY <1>3, <2>1, TickCalls
      <4> QED BY <4>1, OpSteps, QueueWiden
    <3>2. t # <<>> /\ Head(t) = a /\ Tail(t) \in Queue(LowStep) /\ Tail(t) \in Queue(FloorStep)
      BY <2>3, <2>5, <2>7
    <3>3. a \in Seq(FloorStep) /\ a # <<>> /\ (w <= TDPMaxSafe => a \in Seq(LowStep))
      BY <2>2, ApplyFirst
    <3> HIDE DEF t, a
    <3>4. t = << a >> \o Tail(t)
      <4> DEFINE C == Seq(GoodStep) \ {<<>>}
      <4>1. t \in Seq(C)
        BY <3>1 DEF Queue
      <4> HIDE DEF C
      <4> QED BY <3>2, <4>1
    <3>5. w <= TDPMaxSafe => t \in Queue(LowStep)
      BY <3>2, <3>3, <3>4, QueueFirst
    <3>6. t \in Queue(FloorStep)
      BY <3>2, <3>3, <3>4, QueueFirst
    <3>7. Mends(t)
      BY <2>2, <3>2, <3>5, <3>6, ApplyMends DEF a
    <3> QED BY <3>7, MendsFloored DEF t
  <2> QED BY <2>6, <2>7
<1> QED BY <1>2, <1>3

LEMMA OutsidePoints ==
  ASSUME IInv, Environment, ~RestartDaemon, ~Reboot
  PROVE  /\ \A i \in Fan : fan'[i].curve = fan[i].curve
         /\ FloorOnFans => FloorOnFans'
<1>1. ASSUME NEW p \in StockProfiles, OutsidePolicy(p)
      PROVE  \A i \in Fan : fan'[i].curve = fan[i].curve
  BY <1>1, TakenOver DEF OutsidePolicy, IInv
<1>2. ASSUME OtherSave \/ \E w \in OutsideLimits : OutsideLimit(w)
      PROVE  \A i \in Fan : fan'[i].curve = fan[i].curve
  BY <1>2 DEF OtherSave, OutsideLimit, hardware
<1>3. \A i \in Fan : fan'[i].curve = fan[i].curve
  BY <1>1, <1>2 DEF Environment
<1> QED BY <1>3 DEF FloorOnFans

\* What others do leaves the points alone and the limit low.
LEMMA OutsideFloored ==
  ASSUME IInv, Floored, Environment, ~RestartDaemon, ~Reboot
  PROVE  Floored'
<1>1. /\ UNCHANGED <<todo, active, saved>>
      /\ inForce' = inForce \/ inForce' <= TDPMaxSafe
  BY OutsideLow
<1>2. FloorOnFans => FloorOnFans'
  BY OutsidePoints
<1> QED BY <1>1, <1>2 DEF Floored, Low, StaysLow, LowersFirst, StaysFloored, FloorsFirst,
                          Mends, MendsNext, Refused, Now, Bare, NothingRestored

\* A restart mends what it found, unless it finds nothing to restore.
LEMMA StartFloored ==
  ASSUME IInv, RestartDaemon \/ Reboot
  PROVE  Floored'
<1>1. PICK target \in AutoTargets \cup {NoName} : StartDaemon(target)
  BY DEF RestartDaemon, Reboot
<1> DEFINE act == IF AutoswitchTarget(disk, target) THEN target ELSE disk.active
<1>2. /\ active' = act /\ saved' = disk.saved /\ Restarts
      /\ act \in MaybeProfile /\ platform' \in StockProfiles
      /\ disk.saved \in [Names -> Settings]
      /\ (act \notin StockProfiles /\ act \in Names /\ disk.saved[act] # Nothing) =>
           todo' = ApplyCustomHW(disk.saved[act], platform')
      /\ (act \notin StockProfiles /\ ~(act \in Names /\ disk.saved[act] # Nothing)) =>
           todo' = <<>>
  BY <1>1, StartCalls
<1>3. act \in StockProfiles => LowersFirst(todo')
  BY <1>1, StartLowers
<1> HIDE DEF act
<1>4. CASE act \in StockProfiles
  BY <1>3, <1>4 DEF Floored, Low
<1>5. CASE act \notin StockProfiles /\ act \in Names /\ disk.saved[act] # Nothing
  <2>1. disk.saved[act] \in Settings /\ todo' = ApplyCustomHW(disk.saved[act], platform')
    BY <1>2, <1>5
  <2> QED BY <1>2, <2>1, ApplyFloored
<1>6. CASE act \notin StockProfiles /\ ~(act \in Names /\ disk.saved[act] # Nothing)
  <2>1. todo' = <<>>
    BY <1>2, <1>6
  <2>2. active' = NoName \/ (active' \in Names /\ saved'[active'] = Nothing)
    BY <1>2, <1>6, Zenon DEF MaybeProfile, Profiles
  <2>3. todo' \in Queue(EditElsewhere(active)')
    BY <2>1, QueueParts
  <2>4. Bare'
    BY <1>2, <2>2, <2>3 DEF Bare, NothingRestored
  <2> QED BY <2>4 DEF Floored
<1> QED BY <1>4, <1>5, <1>6

LEMMA FloorInitially == Init => FloorLimitShown /\ Floored
<1> SUFFICES ASSUME Init PROVE FloorLimitShown /\ Floored
  OBVIOUS
<1>1. todo = <<>> /\ inForce = Firmware[platform] /\ platform \in StockProfiles /\ floorLimit = 0
  BY DEF Init
<1> QED BY <1>1, FirmwareLow, QueueParts DEF FloorLimitShown, Floored, Low, StaysLow

LEMMA FloorInductive ==
  ASSUME WriteFaults = FALSE, ZeroPL1 = FALSE
  PROVE  /\ Init => FloorInv
         /\ IInv /\ FloorInv /\ [Next]_vars => FloorInv'
<1>1. Init => FloorInv
  BY RunInductive, FloorInitially DEF FloorInv
<1>2. ASSUME IInv, FloorInv, [Next]_vars PROVE FloorInv'
  <2>1. RunInv' /\ FloorLimitShown'
    BY <1>2, RunInductive, FloorLimitSafe DEF FloorInv
  <2>2. IInv /\ Floored /\ RunInv /\ FloorLimitShown
    BY <1>2 DEF FloorInv
  <2>3. CASE HardwareStep \/ StateStep
    BY <2>1, <2>2, <2>3, FlooredStepSafe DEF FloorInv
  <2>4. CASE ReconcileTick
    BY <2>1, <2>2, <2>4, TickFloored DEF FloorInv
  <2>5. CASE Notify \/ StartWatchers \/ UNCHANGED vars
    <3>1. UNCHANGED <<todo, inForce, fan, active, saved>>
      BY <2>5 DEF Notify, StartWatchers, vars, hardware, memory
    <3>2. Floored'
      BY <2>2, <3>1 DEF Floored, Low, StaysLow, LowersFirst, StaysFloored, FloorOnFans,
         FloorsFirst, Mends, MendsNext, Refused, Now, Bare, NothingRestored
    <3> QED BY <2>1, <3>2 DEF FloorInv
  <2>6. CASE UserOperation
    <3>1. Floored'
      BY <2>2, <2>6, SelectFloored, SetFanCurveFloored, ResetFanCurveFloored, SetTDPFloored,
         ResetTDPFloored DEF UserOperation
    <3> QED BY <2>1, <3>1 DEF FloorInv
  <2>7. CASE Environment /\ ~RestartDaemon /\ ~Reboot
    BY <2>1, <2>2, <2>7, OutsideFloored DEF FloorInv
  <2>8. CASE RestartDaemon \/ Reboot
    BY <2>1, <2>2, <2>8, StartFloored DEF FloorInv
  <2> QED BY <1>2, <2>3, <2>4, <2>5, <2>6, <2>7, <2>8 DEF Next, Daemon
<1> QED BY <1>1, <1>2

\* Between operations a high limit has its floor, or a restart found nothing
\* to restore.
LEMMA FloorOrNothing ==
  ASSUME IInv, FloorInv, todo = <<>>, inForce > TDPMaxSafe
  PROVE  FloorOnFans \/ (Restarts /\ NothingRestored)
<1>1. ~(inForce <= TDPMaxSafe)
  BY Bounds DEF IInv, TypeOK
<1> QED BY <1>1, FloorIdle DEF FloorInv

\* Between operations a limit above TDPMaxSafe always has its floor, whatever
\* profile switches, edits, reconcile ticks and outside writes led there - as
\* long as no hardware write fails, no restart cuts an operation short, and no
\* request carries pl1 = "0".
THEOREM HighLimitsFloored ==
  WriteFaults = FALSE /\ Restarts = FALSE /\ ZeroPL1 = FALSE /\ Spec => []HighLimitFloored
<1> SUFFICES ASSUME WriteFaults = FALSE, Restarts = FALSE, ZeroPL1 = FALSE
             PROVE  Spec => []HighLimitFloored
  OBVIOUS
<1>1. IInv /\ FloorInv => HighLimitFloored
  BY FloorOrNothing DEF HighLimitFloored, Idle, FloorOnFans
<1>2. Init => FloorInv
  BY FloorInductive
<1>3. IInv /\ FloorInv /\ [Next]_vars => FloorInv'
  BY FloorInductive
<1> QED BY <1>1, <1>2, <1>3, Invariance, PTL DEF Spec

\* The daemon may be killed between any two steps of an operation, and the
\* machine may boot at any time: between operations a custom profile with
\* settings of its own still never runs on a limit above TDPMaxSafe without
\* the floor on both fans, since the restart applies those settings again.
THEOREM RestartsKeepTheFloor ==
  WriteFaults = FALSE /\ ZeroPL1 = FALSE /\ Spec => []SettingsFloored
<1> SUFFICES ASSUME WriteFaults = FALSE, ZeroPL1 = FALSE PROVE Spec => []SettingsFloored
  OBVIOUS
<1>1. IInv /\ FloorInv => SettingsFloored
  <2>1. NoName \notin Names
    BY ProfileAssumption DEF NoName
  <2> QED BY <2>1, FloorOrNothing DEF SettingsFloored, Idle, FloorOnFans, NothingRestored
<1>2. Init => FloorInv
  BY FloorInductive
<1>3. IInv /\ FloorInv /\ [Next]_vars => FloorInv'
  BY FloorInductive
<1> QED BY <1>1, <1>2, <1>3, Invariance, PTL DEF Spec

-----------------------------------------------------------------------------
(* A lost limit is never forgotten.  A limit nobody asked for shows in the *)
(* attribute; one that was asked for is the one in force, or else a report *)
(* of the policy write that took it is still to be read.                   *)

\* The limits that nobody asks for: other programs', the firmware's, and the
\* one the attribute shows at boot.
LimitsTellApart ==
  /\ OutsideLimits \cap Watts = {}
  /\ \A p \in StockProfiles : Firmware[p] \notin Watts
  /\ TDPMin \notin Watts

Custom == active \in Names /\ saved[active].tdp # 0
Unasked == cache \notin Watts
Reported == pending \/ policyWritten
Told == cache = inForce \/ Reported \/ Unasked

UnaskedStep == { s \in GoodStep : s.do = "limit" => s.watts \notin Watts }

\* The steps that leave a, with its limit, the active profile.
Keeps(a) ==
  { s \in GoodStep : s.do = "commit" => /\ s.active \in {NoName, a}
                                        /\ s.name = a => s.watts # 0 }

\* No limit that was asked for is in force, nor will be ...
ShowsUnasked == Unasked /\ todo \in Queue(UnaskedStep)

\* ... or the next steps put the firmware's own limit there.
LandsNow(t) == t # <<>> /\ Head(Head(t)).do \in {"limit", "restore"}

Lands(t) ==
  \/ LandsNow(t)
  \/ t # <<>> /\ Head(Head(t)).do = "profile" /\ Len(Head(t)) = 1 /\ LandsNow(Tail(t))

ClearsLimit == todo \in Queue(UnaskedStep) /\ Lands(todo)

\* A custom profile with a limit stays active, and what became of the limit
\* shows ...
KeepsLimit == Custom /\ Told /\ todo \in Queue(Keeps(active))

\* ... or the profile is about to be made active with the limit ...
ClaimsLimit(t) ==
  \E a \in Names :
    /\ t # <<>> /\ t \in Queue(Keeps(a))
    /\ Len(Head(t)) = 1 /\ Head(Head(t)).do = "commit"
    /\ Head(Head(t)).name = a /\ Head(Head(t)).active = a

TakesLimit ==
  \/ Told /\ ClaimsLimit(todo)
  \/ Unasked /\ todo # <<>> /\ Head(todo) \in MustCall /\ ClaimsLimit(Tail(todo))

\* ... or its limit is about to be written, unless its curve does not hold,
\* which then shows.
Applies(k) ==
  \/ Len(k) = 1 /\ k[1].do = "limit"
  \/ Len(k) = 3 /\ k[1].do = "curve" /\ k[2].do = "verify" /\ k[3].do = "limit"

Verifies(k) == Len(k) = 2 /\ k[1].do = "verify" /\ k[2].do = "limit"

EnabledOrReported == (\A i \in Fan : fan[i].mode = 1) \/ Reported

AppliesLimit ==
  /\ Custom /\ todo # <<>> /\ todo \in Queue(EditStep)
  /\ \/ Applies(Head(todo))
     \/ Verifies(Head(todo)) /\ EnabledOrReported
     \/ Head(todo) \in Seq(SoftStep) /\ Tail(todo) # <<>> /\ Applies(Head(Tail(todo)))

LimitShows == ShowsUnasked \/ ClearsLimit \/ KeepsLimit \/ TakesLimit \/ AppliesLimit

\* The startup restore, which nobody would tell of a policy write, edits no
\* profile, and on a custom profile with a limit writes none but by releasing
\* the fans, with the limit right after.
StayStep == { s \in EditStep : s.do \notin {"profile", "restore", "reconcile"} }

RewritesLimit(k) ==
  \A i \in 1..Len(k) : k[i].do = "release" => i + 1 = Len(k) /\ k[i + 1].do = "limit"

StartCall == { k \in Seq(StayStep) : k # <<>> /\ RewritesLimit(k) }

StartsQuietly ==
  ~watching => /\ todo \in Queue(EditStep)
               /\ Custom => todo \in Seq(StartCall)

LimitInv == RunInv /\ StartsQuietly /\ LimitShows

LEMMA UnaskedSteps ==
  ASSUME LimitsTellApart
  PROVE
  /\ UnaskedStep \subseteq GoodStep
  /\ \A c \in FanCurve, must \in BOOLEAN : CurveStep(c, must) \in UnaskedStep
  /\ \A p \in StockProfiles, must \in BOOLEAN : LimitStep(Firmware[p], must) \in UnaskedStep
  /\ \A w \in Limit, must \in BOOLEAN : ReleaseStep(w, must) \in UnaskedStep
  /\ \A must \in BOOLEAN : VerifyStep(must) \in UnaskedStep
  /\ Do("guard") \in UnaskedStep
  /\ Do("save") \in UnaskedStep
  /\ \A p \in StockProfiles, must \in BOOLEAN : ProfileStep(p, must) \in UnaskedStep
  /\ \A p \in StockProfiles : RestoreStep(p) \in UnaskedStep
  /\ \A c \in MaybeCurve : ReconcileStep(c) \in UnaskedStep
  /\ \A n \in MaybeProfile, c \in MaybeCurve, w \in Limit, a \in MaybeProfile :
       CommitStep(n, c, w, a) \in UnaskedStep
<1>1. ASSUME NEW p \in StockProfiles, NEW must \in BOOLEAN
      PROVE  LimitStep(Firmware[p], must) \in UnaskedStep
  <2>1. Firmware[p] \in Limit /\ Firmware[p] \notin Watts
    BY FirmwareLow DEF LimitsTellApart
  <2>2. LimitStep(Firmware[p], must) \in GoodStep /\ LimitStep(Firmware[p], must).watts \notin Watts
    BY <2>1, GoodSteps, Kinds
  <2> QED BY <2>2 DEF UnaskedStep
<1>2. \A s \in GoodStep : s.do # "limit" => s \in UnaskedStep
  BY DEF UnaskedStep
<1>3. UnaskedStep \subseteq GoodStep
  BY DEF UnaskedStep
<1> QED BY <1>1, <1>2, <1>3, GoodSteps, Kinds

LEMMA KeepsSteps ==
  ASSUME NEW a
  PROVE  /\ EditStep \subseteq Keeps(a) /\ Keeps(a) \subseteq GoodStep
         /\ \A n \in MaybeProfile, c \in MaybeCurve, w \in Limit, b \in MaybeProfile :
              (b \in {NoName, a} /\ (n = a => w # 0)) => CommitStep(n, c, w, b) \in Keeps(a)
<1>1. ASSUME NEW n \in MaybeProfile, NEW c \in MaybeCurve, NEW w \in Limit,
             NEW b \in MaybeProfile, b \in {NoName, a} /\ (n = a => w # 0)
      PROVE  CommitStep(n, c, w, b) \in Keeps(a)
  <2>1. CommitStep(n, c, w, b) \in GoodStep
    BY GoodSteps
  <2>2. /\ CommitStep(n, c, w, b).active = b /\ CommitStep(n, c, w, b).name = n
        /\ CommitStep(n, c, w, b).watts = w
    BY Kinds
  <2> HIDE DEF CommitStep
  <2> QED BY <1>1, <2>1, <2>2 DEF Keeps
<1> QED BY <1>1 DEF EditStep, Keeps

\* The queue after a step that is done.
LEMMA CallDone ==
  ASSUME NEW S, todo \in Queue(S), todo # <<>>, Done
  PROVE  /\ Len(Head(todo)) = 1 => todo' = Tail(todo)
         /\ Len(Head(todo)) # 1 =>
              /\ todo' # <<>> /\ Head(todo') = Tail(Head(todo)) /\ Tail(todo') = Tail(todo)
              /\ Len(Head(todo')) = Len(Head(todo)) - 1
              /\ \A i \in 1..(Len(Head(todo)) - 1) : Head(todo')[i] = Head(todo)[i + 1]
<1> DEFINE n == Len(Head(todo))
<1>1. n \in Nat \ {0} /\ todo' = Rest(todo)
  BY QueueNext DEF Done, Rest
<1>2. n = 1 => Rest(todo) = Tail(todo)
  BY QueueNext
<1>3. n > 1 =>
        /\ Rest(todo) # <<>> /\ Head(Rest(todo)) = Tail(Head(todo)) /\ Tail(Rest(todo)) = Tail(todo)
        /\ Len(Tail(Head(todo))) = n - 1
        /\ \A i \in 1..(n - 1) : Tail(Head(todo))[i] = Head(todo)[i + 1]
  BY QueueNext
<1>4. n # 1 => n > 1
  <2> HIDE DEF n
  <2> QED BY <1>1
<1> QED BY <1>1, <1>2, <1>3, <1>4

\* Whatever a step does to the limit in force, the limit shows it or the
\* kernel reports it.
LEMMA ToldSafe ==
  ASSUME WriteFaults = FALSE, HardwareStep \/ StateStep, Told,
         watching \/ ~(Release \/ WriteProfile)
  PROVE  Told'
<1>1. CASE WriteLimit
  BY <1>1 DEF WriteLimit, Told
<1>2. CASE Release \/ WriteProfile
  BY <1>2 DEF Release, WriteProfile, FirmwareTakesOver, Told, Reported
<1>3. CASE ~WriteLimit /\ ~Release /\ ~WriteProfile
  <2>1. UNCHANGED <<cache, inForce, pending, policyWritten>>
    BY <1>3 DEF HardwareStep, StateStep, WriteCurve, WriteCurveFails, VerifyFanCurveActive,
         WriteLimitFails, CheckFanFloorRelease, RefuseRelease, ReleaseFails, WriteProfileFails,
         ChooseRestore, ReconcileCurve, Commit, Save, SaveFails, hardware, latches
  <2> QED BY <2>1 DEF Told, Reported, Unasked
<1> QED BY <1>1, <1>2, <1>3

\* Only a limit step touches the attribute, only a commit the profiles.
LEMMA LimitStepMoves ==
  ASSUME WriteFaults = FALSE, HardwareStep \/ StateStep
  PROVE  /\ cache' = cache \/ (WriteLimit /\ cache' = Now.watts /\ inForce' = cache')
         /\ Commit \/ UNCHANGED memory
         /\ WriteLimit => Now.do = "limit" /\ Done
         /\ Now.do = "limit" => WriteLimit
         /\ Commit => Now.do = "commit" /\ Done
         /\ Now.do = "commit" => Commit
         /\ watching' = watching
<1>1. cache' = cache \/ (WriteLimit /\ cache' = Now.watts /\ inForce' = cache')
  BY DEF HardwareStep, StateStep, WriteCurve, WriteCurveFails, VerifyFanCurveActive,
         WriteLimit, WriteLimitFails, CheckFanFloorRelease, RefuseRelease, Release, ReleaseFails,
         WriteProfile, WriteProfileFails, ChooseRestore, ReconcileCurve, Commit, Save, SaveFails,
         FirmwareTakesOver, hardware
<1>2. Commit \/ UNCHANGED memory
  BY DEF HardwareStep, StateStep, WriteCurve, WriteCurveFails, VerifyFanCurveActive,
         WriteLimit, WriteLimitFails, CheckFanFloorRelease, RefuseRelease, Release, ReleaseFails,
         WriteProfile, WriteProfileFails, ChooseRestore, ReconcileCurve, Save, SaveFails
<1>3. (WriteLimit => Now.do = "limit" /\ Done) /\ (Commit => Now.do = "commit" /\ Done)
  BY DEF WriteLimit, Commit, Doing
<1>4. Now.do = "limit" => WriteLimit
  BY DEF HardwareStep, StateStep, Doing, WriteCurve, WriteCurveFails, VerifyFanCurveActive,
         WriteLimitFails, CheckFanFloorRelease, RefuseRelease, Release, ReleaseFails,
         WriteProfile, WriteProfileFails, ChooseRestore, ReconcileCurve, Commit, Save, SaveFails
<1>5. Now.do = "commit" => Commit
  BY DEF HardwareStep, StateStep, Doing, WriteCurve, WriteCurveFails, VerifyFanCurveActive,
         WriteLimit, WriteLimitFails, CheckFanFloorRelease, RefuseRelease, Release, ReleaseFails,
         WriteProfile, WriteProfileFails, ChooseRestore, ReconcileCurve, Save, SaveFails
<1>6. watching' = watching
  BY DEF HardwareStep, StateStep, WriteCurve, WriteCurveFails, VerifyFanCurveActive,
         WriteLimit, WriteLimitFails, CheckFanFloorRelease, RefuseRelease, Release, ReleaseFails,
         WriteProfile, WriteProfileFails, ChooseRestore, ReconcileCurve, Commit, Save, SaveFails,
         latches
<1> QED BY <1>1, <1>2, <1>3, <1>4, <1>5, <1>6

\* A queue of steps of S stays one, when S holds the calls of the curve arm.
\* The startup restore of a firmware profile: its own limit comes next.
LEMMA RestoreClears ==
  ASSUME IInv, ChooseRestore, NEW S, Tail(todo) \in Queue(S),
         \A p \in StockProfiles : LimitStep(Firmware[p], FALSE) \in S,
         Do("guard") \in S, ReleaseStep(0, FALSE) \in S
  PROVE  todo' \in Queue(S) /\ LandsNow(todo')
<1> DEFINE p == Now.name
           x == LimitStep(Firmware[p], FALSE)
           h == HandBackToFirmware(p)
           l == << SetTDPState(Firmware[p], FALSE) >>
<1>1. Now \in GoodStep /\ Now.do = "restore"
  BY Started DEF ChooseRestore, Doing, IInv
<1>2. p \in StockProfiles
  BY <1>1 DEF GoodStep
<1>3. x \in S /\ x.do = "limit"
  BY <1>2 DEF LimitStep, Do
<1>4. \/ todo' = h \o Tail(todo)
      \/ todo' = l \o Tail(todo)
  BY DEF ChooseRestore
<1>5. h \in Queue(S) /\ h # <<>> /\ Head(h) = << x >>
  BY <1>3, HandBackIn
<1>6. l = << << x >> >>
  BY DEF SetTDPState
<1> HIDE DEF x, h, l, p
<1>7. ASSUME NEW q \in Queue(S), q # <<>>, Head(q) = << x >>, todo' = q \o Tail(todo)
      PROVE  todo' \in Queue(S) /\ LandsNow(todo')
  <2>1. todo' \in Queue(S)
    BY <1>7, QueueParts
  <2>2. todo' # <<>> /\ Head(todo') = << x >>
    BY <1>7 DEF Queue
  <2>3. Head(<< x >>) = x
    OBVIOUS
  <2> QED BY <1>3, <2>1, <2>2, <2>3 DEF LandsNow
<1>8. l \in Queue(S) /\ l # <<>> /\ Head(l) = << x >>
  <2> DEFINE k == << x >>
  <2>1. k \in Seq(S) /\ k # <<>>
    BY <1>3
  <2>2. l = << k >>
    BY <1>6
  <2> HIDE DEF k
  <2>3. << k >> \in Queue(S) /\ << k >> # <<>> /\ Head(<< k >>) = k
    BY <2>1, QueueParts
  <2> QED BY <2>2, <2>3 DEF k
<1> QED BY <1>4, <1>5, <1>7, <1>8

LEMMA StaysIn ==
  ASSUME IInv, RunInv, HardwareStep \/ StateStep, NEW S, todo \in Queue(S),
         \A c \in FanCurve : CurveStep(c, FALSE) \in S, VerifyStep(FALSE) \in S,
         \A p \in StockProfiles : LimitStep(Firmware[p], FALSE) \in S,
         Do("guard") \in S, ReleaseStep(0, FALSE) \in S
  PROVE  /\ todo # <<>> /\ Now \in S /\ Now \in GoodStep /\ todo' \in Queue(S)
<1>1. todo # <<>> /\ todo \in Queue(RunStep) /\ TypeOK /\ Now \in GoodStep
  BY StepMoves, Started DEF RunInv, IInv
<1>2. Now \in RunStep /\ Now \in S /\ Tail(todo) \in Queue(S)
  BY <1>1, NowIn
<1>3. CASE ChooseRestore
  BY <1>1, <1>2, <1>3, RestoreClears, QueueParts
<1>4. CASE ~ReconcileCurve /\ ~ChooseRestore
  <2>1. todo' \in Queue(S)
    BY <1>1, <1>4, StepMoves, QueueMoves
  <2> QED BY <1>1, <1>2, <2>1
<1>5. CASE ReconcileCurve
  <2> DEFINE c == ReconcileCurveFor(floorLimit, Now.curve)
  <2>1. /\ c = NoCurve => todo' = <<>> \o Tail(todo)
        /\ c # NoCurve => c \in FanCurve
                          /\ todo' = << SetBothFanCurves(c, FALSE) >> \o Tail(todo)
    BY <1>1, <1>5, ArmCall
  <2> HIDE DEF c
  <2>2. c # NoCurve => << SetBothFanCurves(c, FALSE) >> \in Queue(S)
    BY <2>1, CurveIn
  <2>3. todo' \in Queue(S)
    BY <1>2, <2>1, <2>2, QueueParts
  <2> QED BY <1>1, <1>2, <2>3
<1> QED BY <1>3, <1>4, <1>5

LEMMA ShowsUnaskedSafe ==
  ASSUME IInv, RunInv, WriteFaults = FALSE, LimitsTellApart, HardwareStep \/ StateStep,
         ShowsUnasked
  PROVE  ShowsUnasked'
<1>1. FALSE \in BOOLEAN /\ 0 \in Limit
  BY Bounds
<1>2. todo # <<>> /\ Now \in UnaskedStep /\ todo' \in Queue(UnaskedStep)
  BY <1>1, UnaskedSteps, StaysIn DEF ShowsUnasked
<1>3. cache' \notin Watts
  <2>1. Now.do = "limit" => Now.watts \notin Watts
    BY <1>2 DEF UnaskedStep
  <2> QED BY <2>1, LimitStepMoves DEF ShowsUnasked, Unasked
<1> QED BY <1>2, <1>3 DEF ShowsUnasked, Unasked

LEMMA ClearsLimitSafe ==
  ASSUME IInv, RunInv, WriteFaults = FALSE, LimitsTellApart, HardwareStep \/ StateStep,
         ClearsLimit
  PROVE  LimitShows'
<1>1. FALSE \in BOOLEAN /\ 0 \in Limit /\ todo \in Queue(UnaskedStep)
  BY Bounds DEF ClearsLimit
<1>2. todo # <<>> /\ Now \in UnaskedStep /\ todo' \in Queue(UnaskedStep)
  BY <1>1, UnaskedSteps, StaysIn
<1>3. CASE Now.do = "limit"
  <2>1. cache' = Now.watts /\ Now.watts \notin Watts
    BY <1>2, <1>3, LimitStepMoves DEF UnaskedStep, WriteLimit
  <2> QED BY <1>2, <2>1 DEF LimitShows, ShowsUnasked, Unasked
<1>4. CASE Now.do = "restore"
  <2>1. ChooseRestore
    BY <1>4 DEF HardwareStep, StateStep, Doing, WriteCurve, WriteCurveFails,
         VerifyFanCurveActive, WriteLimit, WriteLimitFails, CheckFanFloorRelease,
         RefuseRelease, Release, ReleaseFails, WriteProfile, WriteProfileFails,
         ReconcileCurve, Commit, Save, SaveFails
  <2>2. Tail(todo) \in Queue(UnaskedStep)
    BY <1>1, <1>2, NowIn
  <2>3. LandsNow(todo')
    BY <1>1, <2>1, <2>2, UnaskedSteps, RestoreClears
  <2> QED BY <1>2, <2>3 DEF LimitShows, ClearsLimit, Lands
<1>5. CASE Now.do \notin {"limit", "restore"}
  <2>1. Now.do = "profile" /\ Len(Head(todo)) = 1 /\ LandsNow(Tail(todo))
    BY <1>5 DEF ClearsLimit, Lands, LandsNow, Now
  <2>2. WriteProfile
    BY <2>1 DEF HardwareStep, StateStep, Doing, WriteCurve, WriteCurveFails,
         VerifyFanCurveActive, WriteLimit, WriteLimitFails, CheckFanFloorRelease,
         RefuseRelease, Release, ReleaseFails, WriteProfileFails, ChooseRestore,
         ReconcileCurve, Commit, Save, SaveFails
  <2>3. Done
    BY <2>2 DEF WriteProfile
  <2>4. todo' = Tail(todo)
    BY <1>1, <1>2, <2>1, <2>3, CallDone
  <2> QED BY <1>2, <2>1, <2>4 DEF LimitShows, ClearsLimit, Lands
<1> QED BY <1>3, <1>4, <1>5

\* A step of the startup restore, and what is left of it after that step.
LEMMA StartCallMoves ==
  ASSUME HardwareStep \/ StateStep, todo \in Seq(StartCall)
  PROVE  /\ todo # <<>> /\ todo' \in Seq(StartCall) /\ Now \in StayStep
         /\ Now.do = "release" => Len(Head(todo)) = 2 /\ Head(todo)[2].do = "limit"
<1> DEFINE k == Head(todo)
<1>1. todo # <<>>
  BY StepMoves
<1>2. k \in StartCall /\ Tail(todo) \in Seq(StartCall)
  BY <1>1
<1>3. k \in Seq(StayStep) /\ k # <<>> /\ RewritesLimit(k)
  BY <1>2 DEF StartCall
<1> HIDE DEF k
<1>4. Len(k) \in Nat \ {0} /\ Head(k) = k[1] /\ k[1] \in StayStep
  BY <1>3
<1>5. Now = k[1]
  BY <1>4 DEF Now, k
<1>6. Now \in StayStep /\ Now.do \notin {"restore", "reconcile"}
  BY <1>4, <1>5 DEF StayStep
<1>7. ASSUME Now.do = "release" PROVE Len(k) = 2 /\ k[2].do = "limit"
  <2>1. 1 \in 1..Len(k)
    BY <1>4
  <2>2. 1 + 1 = Len(k) /\ k[1 + 1].do = "limit"
    BY <1>5, <1>7, <1>3, <2>1 DEF RewritesLimit
  <2>3. 1 + 1 = 2
    OBVIOUS
  <2> QED BY <2>2, <2>3
<1>8. Done \/ Failed
  BY <1>6, StepMoves
<1>9. todo' \in Seq(StartCall)
  <2>1. CASE todo' = Tail(todo) \/ todo' = <<>>
    <3>1. <<>> \in Seq(StartCall)
      OBVIOUS
    <3> QED BY <1>2, <2>1, <3>1
  <2>2. CASE Len(k) > 1 /\ todo' = <<Tail(k)>> \o Tail(todo)
    <3>1. /\ Tail(k) \in Seq(StayStep) /\ Tail(k) # <<>> /\ Len(Tail(k)) = Len(k) - 1
          /\ \A i \in 1..(Len(k) - 1) : Tail(k)[i] = k[i + 1]
      BY <1>3, <2>2, CallRest
    <3>2. RewritesLimit(Tail(k))
      <4> SUFFICES ASSUME NEW i \in 1..(Len(k) - 1), Tail(k)[i].do = "release"
                   PROVE  i + 1 = Len(k) - 1 /\ Tail(k)[i + 1].do = "limit"
        BY <3>1 DEF RewritesLimit
      <4>1. k[i + 1].do = "release"
        BY <3>1
      <4>2. i + 1 \in 1..Len(k)
        BY <1>4
      <4>3. (i + 1) + 1 = Len(k) /\ k[(i + 1) + 1].do = "limit"
        BY <1>3, <4>1, <4>2 DEF RewritesLimit
      <4>4. i + 1 = Len(k) - 1 /\ i + 1 \in 1..(Len(k) - 1)
        BY <1>4, <4>3
      <4>5. Tail(k)[i + 1] = k[(i + 1) + 1]
        BY <3>1, <4>4
      <4> QED BY <4>3, <4>4, <4>5
    <3>3. Tail(k) \in StartCall
      BY <3>1, <3>2 DEF StartCall
    <3> QED BY <1>2, <2>2, <3>3, Cons
  <2> QED BY <1>8, <2>1, <2>2 DEF Done, Failed, k
<1> QED BY <1>1, <1>6, <1>7, <1>9 DEF k

LEMMA KeepsLimitSafe ==
  ASSUME IInv, RunInv, StartsQuietly, WriteFaults = FALSE, HardwareStep \/ StateStep,
         KeepsLimit
  PROVE  LimitShows'
<1>1. /\ FALSE \in BOOLEAN /\ 0 \in Limit /\ active \in Names /\ saved[active].tdp # 0 /\ Told
      /\ todo \in Queue(Keeps(active))
  BY Bounds DEF KeepsLimit, Custom
<1>2. /\ \A c \in FanCurve : CurveStep(c, FALSE) \in Keeps(active)
      /\ VerifyStep(FALSE) \in Keeps(active)
      /\ \A p \in StockProfiles : LimitStep(Firmware[p], FALSE) \in Keeps(active)
      /\ Do("guard") \in Keeps(active) /\ ReleaseStep(0, FALSE) \in Keeps(active)
  BY <1>1, EditSteps, KeepsSteps, FirmwareLow
<1>3. todo # <<>> /\ Now \in Keeps(active) /\ todo' \in Queue(Keeps(active))
  BY <1>1, <1>2, StaysIn
<1>4. (watching \/ ~(Release \/ WriteProfile)) => Told'
  BY <1>1, ToldSafe
<1>5. active' = active /\ saved'[active].tdp # 0
  <2>1. CASE Commit
    <3>1. Now.active \in {NoName, active} /\ (Now.name = active => Now.watts # 0)
      BY <1>3, <2>1, LimitStepMoves DEF Keeps
    <3>2. /\ active' = IF Now.active = NoName THEN active ELSE Now.active
          /\ saved' = [n \in Names |-> IF n = Now.name
                                       THEN [curve |-> Now.curve, tdp |-> Now.watts]
                                       ELSE saved[n]]
      BY <2>1 DEF Commit
    <3> QED BY <1>1, <3>1, <3>2
  <2>2. CASE ~Commit
    BY <1>1, <2>2, LimitStepMoves DEF memory
  <2> QED BY <2>1, <2>2
<1>6. CASE watching \/ ~(Release \/ WriteProfile)
  BY <1>1, <1>3, <1>4, <1>5, <1>6 DEF LimitShows, KeepsLimit, Custom
<1>7. CASE ~watching /\ (Release \/ WriteProfile)
  <2>1. todo \in Seq(StartCall)
    BY <1>1, <1>7 DEF StartsQuietly, Custom
  <2>2. todo \in Queue(EditStep)
    BY <1>7 DEF StartsQuietly
  <2>3. /\ Now.do = "release" /\ Done
        /\ Len(Head(todo)) = 2 /\ Head(todo)[2].do = "limit"
    <3>1. Now \in StayStep
      BY <2>1, StartCallMoves
    <3>2. Now.do \in {"release", "profile"}
      BY <1>7 DEF Release, WriteProfile, Doing
    <3>3. Release
      BY <1>7, <3>1 DEF StayStep, WriteProfile, Doing
    <3> QED BY <2>1, <3>3, StartCallMoves DEF Release, Doing
  <2>4. todo' # <<>> /\ Len(Head(todo')) = 1 /\ Head(todo')[1].do = "limit"
    <3>1. 2 # 1 /\ 2 - 1 = 1 /\ 1 \in 1..1 /\ 1 + 1 = 2
      OBVIOUS
    <3>2. Len(Head(todo)) # 1 /\ Len(Head(todo)) - 1 = 1
      BY <2>3, <3>1
    <3>3. /\ todo' # <<>> /\ Len(Head(todo')) = 1
          /\ \A i \in 1..1 : Head(todo')[i] = Head(todo)[i + 1]
      BY <1>3, <2>2, <2>3, <3>2, CallDone
    <3>4. Head(todo')[1] = Head(todo)[1 + 1]
      BY <3>1, <3>3
    <3> QED BY <2>3, <3>1, <3>3, <3>4
  <2>5. todo' \in Queue(EditStep)
    <3>1. Done /\ todo # <<>>
      BY <1>3, <2>3
    <3> QED BY <2>2, <3>1, QueueMoves
  <2>6. Custom'
    BY <1>1, <1>5 DEF Custom
  <2> QED BY <2>4, <2>5, <2>6 DEF LimitShows, AppliesLimit, Applies
<1> QED BY <1>6, <1>7

LEMMA TakesLimitSafe ==
  ASSUME IInv, RunInv, WriteFaults = FALSE, LimitsTellApart, watching,
         HardwareStep \/ StateStep, TakesLimit
  PROVE  LimitShows'
<1>1. CASE Told /\ ClaimsLimit(todo)
  <2>1. PICK a \in Names :
          /\ todo # <<>> /\ todo \in Queue(Keeps(a))
          /\ Len(Head(todo)) = 1 /\ Now.do = "commit" /\ Now.name = a /\ Now.active = a
    BY <1>1 DEF ClaimsLimit, Now
  <2>2. Commit /\ Done
    BY <2>1, LimitStepMoves
  <2>3. todo' = Tail(todo) /\ todo' \in Queue(Keeps(a)) /\ Now \in Keeps(a)
    BY <2>1, <2>2, CallDone, NowIn
  <2>4. Now.watts # 0
    BY <2>1, <2>3 DEF Keeps
  <2>5. active' = a /\ saved'[a].tdp # 0
    <3>1. /\ active' = IF Now.active = NoName THEN active ELSE Now.active
          /\ saved' = [n \in Names |-> IF n = Now.name
                                       THEN [curve |-> Now.curve, tdp |-> Now.watts]
                                       ELSE saved[n]]
      BY <2>2 DEF Commit
    <3>2. a # NoName
      BY ProfileAssumption DEF NoName
    <3> QED BY <2>1, <2>4, <3>1, <3>2
  <2>6. Told'
    BY <1>1, ToldSafe
  <2> QED BY <2>3, <2>5, <2>6 DEF LimitShows, KeepsLimit, Custom
<1>2. CASE Unasked /\ todo # <<>> /\ Head(todo) \in MustCall /\ ClaimsLimit(Tail(todo))
  <2>1. Tail(todo) \in Queue(GoodStep)
    <3>1. PICK a \in Names : Tail(todo) \in Queue(Keeps(a))
      BY <1>2 DEF ClaimsLimit
    <3> QED BY <3>1, KeepsSteps, QueueWiden
  <2>2. /\ \/ todo' = Tail(todo)
           \/ todo' = <<>> /\ ~WriteLimit
           \/ /\ todo' # <<>> /\ Head(todo') \in MustCall /\ Tail(todo') = Tail(todo)
              /\ ~WriteLimit
        /\ WriteLimit \/ cache' = cache
    BY <1>2, <2>1, MustMoves
  <2>3. CASE todo' = Tail(todo)
    <3>1. Told'
      BY <1>2, ToldSafe DEF Told
    <3> QED BY <1>2, <2>3, <3>1 DEF LimitShows, TakesLimit, ClaimsLimit
  <2>4. CASE todo' = <<>> /\ ~WriteLimit
    BY <1>2, <2>2, <2>4, QueueParts DEF LimitShows, ShowsUnasked, Unasked
  <2>5. CASE todo' # <<>> /\ Head(todo') \in MustCall /\ Tail(todo') = Tail(todo) /\ ~WriteLimit
    <3>1. ClaimsLimit(Tail(todo'))
      BY <1>2, <2>5 DEF ClaimsLimit
    <3>2. cache' \notin Watts
      BY <1>2, <2>2, <2>5 DEF Unasked
    <3> QED BY <2>5, <3>1, <3>2 DEF LimitShows, TakesLimit, Unasked
  <2> QED BY <2>2, <2>3, <2>4, <2>5
<1> QED BY <1>1, <1>2 DEF TakesLimit

LEMMA AppliesLimitSafe ==
  ASSUME IInv, RunInv, WriteFaults = FALSE, HardwareStep \/ StateStep, AppliesLimit
  PROVE  LimitShows'
<1> DEFINE k == Head(todo)
<1>1. FALSE \in BOOLEAN /\ 0 \in Limit /\ todo \in Queue(EditStep) /\ todo # <<>> /\ Custom
  BY Bounds DEF AppliesLimit
<1>2. Now \in EditStep /\ todo' \in Queue(EditStep) /\ todo' \in Queue(Keeps(active))
  <2>1. Now \in EditStep /\ todo' \in Queue(EditStep)
    BY <1>1, EditSteps, FirmwareLow, StaysIn
  <2> QED BY <2>1, KeepsSteps, QueueWiden
<1>3. Now = k[1] /\ k \in Seq(EditStep) /\ Len(k) \in Nat \ {0}
  BY <1>1, NowIn
<1>4. active' = active /\ saved' = saved
  BY <1>2, LimitStepMoves DEF EditStep, memory
<1>5. Custom' /\ todo' \in Queue(Keeps(active'))
  BY <1>1, <1>2, <1>4 DEF Custom
<1>6. Done => /\ Len(k) = 1 => todo' = Tail(todo)
              /\ Len(k) # 1 =>
                   /\ todo' # <<>> /\ Head(todo') = Tail(k) /\ Tail(todo') = Tail(todo)
                   /\ Len(Head(todo')) = Len(k) - 1
                   /\ \A i \in 1..(Len(k) - 1) : Head(todo')[i] = k[i + 1]
  BY <1>1, CallDone
<1> HIDE DEF k
<1>7. CASE Len(k) = 1 /\ k[1].do = "limit"
  <2>1. WriteLimit /\ cache' = Now.watts /\ inForce' = Now.watts
    BY <1>3, <1>7, LimitStepMoves DEF WriteLimit
  <2>2. Told'
    BY <2>1 DEF Told
  <2> QED BY <1>5, <2>2 DEF LimitShows, KeepsLimit
<1>8. CASE Len(k) = 3 /\ k[1].do = "curve" /\ k[2].do = "verify" /\ k[3].do = "limit"
  <2>1. WriteCurve
    BY <1>3, <1>8 DEF HardwareStep, StateStep, Doing, WriteCurveFails, VerifyFanCurveActive,
         WriteLimit, WriteLimitFails, CheckFanFloorRelease, RefuseRelease, Release,
         ReleaseFails, WriteProfile, WriteProfileFails, ChooseRestore, ReconcileCurve,
         Commit, Save, SaveFails
  <2>2. \A i \in Fan : fan'[i].mode = 1
    BY <2>1 DEF WriteCurve
  <2>3. Done
    BY <2>1 DEF WriteCurve
  <2>4. /\ todo' # <<>> /\ Len(Head(todo')) = 2
        /\ Head(todo')[1] = k[2] /\ Head(todo')[2] = k[3]
    <3>1. 3 # 1 /\ 3 - 1 = 2 /\ 1 \in 1..2 /\ 2 \in 1..2 /\ 1 + 1 = 2 /\ 2 + 1 = 3
      OBVIOUS
    <3>2. Len(k) # 1 /\ Len(k) - 1 = 2
      BY <1>8, <3>1
    <3>3. /\ todo' # <<>> /\ Len(Head(todo')) = 2
          /\ \A i \in 1..2 : Head(todo')[i] = k[i + 1]
      BY <1>6, <2>3, <3>2
    <3>4. Head(todo')[1] = k[1 + 1] /\ Head(todo')[2] = k[2 + 1]
      BY <3>1, <3>3
    <3> QED BY <3>1, <3>3, <3>4
  <2>5. Verifies(Head(todo'))
    BY <1>8, <2>4 DEF Verifies
  <2> QED BY <1>2, <1>5, <2>2, <2>4, <2>5 DEF LimitShows, AppliesLimit, EnabledOrReported
<1>9. CASE Verifies(k) /\ EnabledOrReported
  <2>1. VerifyFanCurveActive
    BY <1>3, <1>9 DEF Verifies, HardwareStep, StateStep, Doing, WriteCurve, WriteCurveFails,
         WriteLimit, WriteLimitFails, CheckFanFloorRelease, RefuseRelease, Release,
         ReleaseFails, WriteProfile, WriteProfileFails, ChooseRestore, ReconcileCurve,
         Commit, Save, SaveFails
  <2>2. CASE \A i \in Fan : fan[i].mode = 1
    <3>1. Done
      BY <2>1, <2>2 DEF VerifyFanCurveActive
    <3>2. todo' # <<>> /\ Len(Head(todo')) = 1 /\ Head(todo')[1] = k[2]
      <4>1. 2 # 1 /\ 2 - 1 = 1 /\ 1 \in 1..1 /\ 1 + 1 = 2
        OBVIOUS
      <4>2. Len(k) # 1 /\ Len(k) - 1 = 1
        BY <1>9, <4>1 DEF Verifies
      <4>3. /\ todo' # <<>> /\ Len(Head(todo')) = 1
            /\ \A i \in 1..1 : Head(todo')[i] = k[i + 1]
        BY <1>6, <3>1, <4>2
      <4>4. Head(todo')[1] = k[1 + 1]
        BY <4>1, <4>3
      <4> QED BY <4>1, <4>3, <4>4
    <3>3. Applies(Head(todo'))
      BY <1>9, <3>2 DEF Verifies, Applies
    <3> QED BY <1>2, <1>5, <3>2, <3>3 DEF LimitShows, AppliesLimit
  <2>3. CASE ~(\A i \in Fan : fan[i].mode = 1)
    <3>1. Reported /\ UNCHANGED <<pending, policyWritten>>
      BY <1>9, <2>1, <2>3 DEF EnabledOrReported, VerifyFanCurveActive, hardware, latches
    <3>2. Told'
      BY <3>1 DEF Told, Reported
    <3> QED BY <1>5, <3>2 DEF LimitShows, KeepsLimit
  <2> QED BY <2>2, <2>3
<1>10. CASE k \in Seq(SoftStep) /\ Tail(todo) # <<>> /\ Applies(Head(Tail(todo)))
  <2>1. Now \in SoftStep
    BY <1>3, <1>10
  <2>2. Now.do \in {"curve", "verify"} /\ ~Now.must
    BY <2>1 DEF SoftStep
  <2>3. Done \/ Failed
    BY <2>2, StepMoves DEF ChooseRestore, ReconcileCurve, Doing
  <2>4. CASE todo' = Tail(todo)
    BY <1>2, <1>5, <1>10, <2>4 DEF LimitShows, AppliesLimit
  <2>5. CASE Done /\ Len(k) # 1
    <3>1. todo' # <<>> /\ Head(todo') = Tail(k) /\ Tail(todo') = Tail(todo)
      BY <1>6, <2>5
    <3>2. Len(k) > 1
      <4> DEFINE n == Len(k)
      <4>1. n \in Nat \ {0} /\ n # 1
        BY <1>3, <2>5
      <4> HIDE DEF n
      <4>2. n > 1
        BY <4>1
      <4> QED BY <4>2 DEF n
    <3>3. Tail(k) \in Seq(SoftStep)
      BY <1>10, <3>2, CallRest
    <3> QED BY <1>2, <1>5, <1>10, <3>1, <3>3 DEF LimitShows, AppliesLimit
  <2>6. Failed => todo' = Tail(todo)
    BY <2>2 DEF Failed
  <2> QED BY <1>6, <2>3, <2>4, <2>5, <2>6
<1> QED BY <1>7, <1>8, <1>9, <1>10 DEF AppliesLimit, Applies, k

\* An operation that edits a profile runs beside the watchers.
LEMMA TakesWatched ==
  ASSUME StartsQuietly, TakesLimit
  PROVE  watching
<1> SUFFICES ASSUME todo \in Queue(EditStep) PROVE FALSE
  BY DEF StartsQuietly
<1>1. todo # <<>>
  BY DEF TakesLimit, ClaimsLimit
<1>2. ASSUME NEW t \in Queue(EditStep) PROVE ~ClaimsLimit(t)
  <2> SUFFICES ASSUME t # <<>> PROVE Head(Head(t)).do # "commit"
    BY DEF ClaimsLimit
  <2>1. Head(t)[1] \in EditStep /\ Head(Head(t)) = Head(t)[1]
    BY QueueNext
  <2> QED BY <2>1 DEF EditStep
<1>3. ~ClaimsLimit(todo)
  BY <1>2
<1>4. ~ClaimsLimit(Tail(todo))
  <2>1. Tail(todo) \in Queue(EditStep)
    BY <1>1, NowIn
  <2> QED BY <1>2, <2>1
<1> QED BY <1>3, <1>4 DEF TakesLimit

LEMMA StartsQuietlyStays ==
  ASSUME IInv, RunInv, WriteFaults = FALSE, HardwareStep \/ StateStep, StartsQuietly
  PROVE  StartsQuietly'
<1> SUFFICES ASSUME ~watching
             PROVE  todo' \in Queue(EditStep) /\ (Custom' => todo' \in Seq(StartCall))
  BY LimitStepMoves DEF StartsQuietly
<1>1. FALSE \in BOOLEAN /\ 0 \in Limit /\ todo \in Queue(EditStep)
  BY Bounds DEF StartsQuietly
<1>2. Now \in EditStep /\ todo' \in Queue(EditStep)
  BY <1>1, EditSteps, FirmwareLow, StaysIn
<1>3. UNCHANGED memory
  BY <1>2, LimitStepMoves DEF EditStep
<1>4. Custom' => Custom
  BY <1>3 DEF Custom, memory
<1> QED BY <1>2, <1>4, StartCallMoves DEF StartsQuietly

LEMMA LimitStepSafe ==
  ASSUME IInv, WriteFaults = FALSE, LimitsTellApart, HardwareStep \/ StateStep, LimitInv
  PROVE  LimitInv'
<1>1. RunInv /\ RunInv' /\ StartsQuietly
  BY RunStepSafe DEF LimitInv
<1>2. StartsQuietly'
  BY <1>1, StartsQuietlyStays
<1>3. LimitShows'
  <2>1. ShowsUnasked => LimitShows'
    BY <1>1, ShowsUnaskedSafe DEF LimitShows
  <2>2. TakesLimit => LimitShows'
    BY <1>1, TakesWatched, TakesLimitSafe
  <2>3. KeepsLimit \/ ClearsLimit \/ AppliesLimit => LimitShows'
    BY <1>1, KeepsLimitSafe, ClearsLimitSafe, AppliesLimitSafe
  <2> QED BY <2>1, <2>2, <2>3 DEF LimitInv, LimitShows
<1> QED BY <1>1, <1>2, <1>3 DEF LimitInv

\* Nothing under way: what the invariant says then.
LEMMA LimitIdle ==
  ASSUME LimitShows, todo = <<>>
  PROVE  Unasked \/ (Custom /\ Told)
BY DEF LimitShows, ShowsUnasked, ClearsLimit, Lands, LandsNow, KeepsLimit, TakesLimit,
       ClaimsLimit, AppliesLimit

\* An edit touches no limit before its queue runs.
LEMMA EditLimits ==
  ASSUME LimitShows, todo = <<>>, UNCHANGED <<hardware, memory, policyWritten>>,
         Custom => todo' \in Queue(Keeps(active)),
         ~Custom => todo' \in Queue(UnaskedStep)
  PROVE  LimitShows'
<1>1. UNCHANGED <<cache, inForce, pending, policyWritten, active, saved>>
  BY DEF hardware, memory
<1>2. Unasked \/ (Custom /\ Told)
  BY LimitIdle
<1>3. CASE Custom
  <2>1. Told'
    BY <1>1, <1>2 DEF Told, Reported, Unasked
  <2>2. Custom' /\ todo' \in Queue(Keeps(active'))
    BY <1>1, <1>3 DEF Custom
  <2> QED BY <2>1, <2>2 DEF LimitShows, KeepsLimit
<1>4. CASE ~Custom
  <2>1. Unasked'
    BY <1>1, <1>2, <1>4 DEF Unasked
  <2> QED BY <1>4, <2>1 DEF LimitShows, ShowsUnasked
<1> QED BY <1>3, <1>4

LEMMA EditCommit ==
  ASSUME IInv, LimitsTellApart, NEW n \in Names \cup {NoName}, NEW c \in MaybeCurve,
         NEW w \in Limit
  PROVE  /\ CommitStep(Target(n), c, w, Activates(n)) \in UnaskedStep
         /\ w # 0 => CommitStep(Target(n), c, w, Activates(n)) \in Keeps(Target(n))
         /\ (Custom /\ (Live(n) => w # 0)) =>
              CommitStep(Target(n), c, w, Activates(n)) \in Keeps(active)
<1>1. Target(n) \in MaybeProfile /\ Target(n) \in Names /\ NoName \in MaybeProfile
  BY EditTarget DEF IInv
<1>2. Activates(n) \in MaybeProfile /\ Activates(n) \in {NoName, Target(n)}
  BY <1>1 DEF Activates
<1>3. CommitStep(Target(n), c, w, Activates(n)) \in UnaskedStep
  BY <1>1, <1>2, UnaskedSteps
<1>4. (Custom /\ (Live(n) => w # 0)) =>
        Activates(n) \in {NoName, active} /\ (Target(n) = active => w # 0)
  BY DEF Custom, Activates, Target, Live
<1>5. (Custom /\ (Live(n) => w # 0)) =>
        CommitStep(Target(n), c, w, Activates(n)) \in Keeps(active)
  BY <1>1, <1>2, <1>4, KeepsSteps
<1>6. w # 0 => CommitStep(Target(n), c, w, Activates(n)) \in Keeps(Target(n))
  BY <1>1, <1>2, KeepsSteps
<1> QED BY <1>3, <1>5, <1>6

\* Applying a limit is such a call.
LEMMA ApplyApplies ==
  ASSUME NEW w \in Limit, NEW want \in MaybeCurve, NEW must \in BOOLEAN
  PROVE  /\ ApplyTDPSafely(w, want, must) \in Seq(EditStep)
         /\ ApplyTDPSafely(w, want, must) # <<>>
         /\ Applies(ApplyTDPSafely(w, want, must))
<1> DEFINE c == FanCurveForTDP(w, want)
           s1 == CurveStep(c, must)
           s2 == VerifyStep(must)
           s3 == LimitStep(w, must)
           k == ApplyTDPSafely(w, want, must)
<1>1. k \in Seq(EditStep) /\ k # <<>>
  BY ApplyEdits, ApplyIn
<1>2. s1.do = "curve" /\ s2.do = "verify" /\ s3.do = "limit"
  BY DEF CurveStep, VerifyStep, LimitStep, Do
<1>3. k = IF c = NoCurve THEN <<s3>> ELSE <<s1, s2, s3>>
  BY DEF ApplyTDPSafely
<1> HIDE DEF s1, s2, s3, k, c
<1>4. c = NoCurve => Len(k) = 1 /\ k[1] = s3
  BY <1>3
<1>5. c # NoCurve => Len(k) = 3 /\ k[1] = s1 /\ k[2] = s2 /\ k[3] = s3
  BY <1>3
<1>6. Applies(k)
  BY <1>2, <1>4, <1>5 DEF Applies
<1> QED BY <1>1, <1>6 DEF k

\* Landing on a firmware profile puts its own limit in force first.
LEMMA LandClears ==
  ASSUME IInv, LimitsTellApart, NEW p \in StockProfiles, NEW n \in MaybeProfile,
         todo' = Land(p, n)
  PROVE  LimitShows'
<1>1. /\ 0 \in Limit /\ FALSE \in BOOLEAN /\ TRUE \in BOOLEAN /\ NoCurve \in MaybeCurve
      /\ p \in MaybeProfile
  BY Bounds DEF MaybeCurve, MaybeProfile, Profiles
<1>2. /\ ProfileStep(p, TRUE) \in UnaskedStep /\ LimitStep(Firmware[p], FALSE) \in UnaskedStep
      /\ Do("guard") \in UnaskedStep /\ ReleaseStep(0, FALSE) \in UnaskedStep
      /\ CommitStep(n, NoCurve, 0, p) \in UnaskedStep /\ Do("save") \in UnaskedStep
  BY <1>1, UnaskedSteps
<1>3. /\ todo' \in Queue(UnaskedStep) /\ todo' # <<>>
      /\ Head(todo') = << ProfileStep(p, TRUE) >>
      /\ Tail(todo') # <<>>
      /\ Head(Tail(todo')) = << LimitStep(Firmware[p], FALSE) >>
  <2> DEFINE l == Land(p, n)
  <2>1. /\ l \in Queue(UnaskedStep) /\ l # <<>>
        /\ Head(l) = << ProfileStep(p, TRUE) >>
        /\ Tail(l) # <<>> /\ Head(Tail(l)) = << LimitStep(Firmware[p], FALSE) >>
    BY <1>2, LandIn
  <2> HIDE DEF l
  <2>2. todo' = l
    BY DEF l
  <2> QED BY <2>1, <2>2
<1>4. /\ ProfileStep(p, TRUE).do = "profile" /\ LimitStep(Firmware[p], FALSE).do = "limit"
  BY DEF ProfileStep, LimitStep, Do
<1> DEFINE s1 == ProfileStep(p, TRUE)
           s2 == LimitStep(Firmware[p], FALSE)
<1>5. s1.do = "profile" /\ s2.do = "limit" /\ Head(todo') = << s1 >> /\ Head(Tail(todo')) = << s2 >>
  BY <1>3, <1>4
<1> HIDE DEF s1, s2
<1>6. Head(Head(todo')) = s1 /\ Len(Head(todo')) = 1 /\ Head(Head(Tail(todo'))) = s2
  <2>1. \A x : Head(<< x >>) = x /\ Len(<< x >>) = 1
    OBVIOUS
  <2> QED BY <1>5, <2>1, Zenon
<1> QED BY <1>3, <1>5, <1>6 DEF LimitShows, ClearsLimit, Lands, LandsNow

\* Applying a profile's settings writes its limit, or the firmware's.
LEMMA ApplyLimits ==
  ASSUME IInv, LimitsTellApart, NEW s \in Settings, NEW p \in StockProfiles,
         todo' = ApplyCustomHW(s, p), s.tdp # 0 => Custom'
  PROVE  LimitShows'
<1> DEFINE c == s.curve
           w == s.tdp
           a == ApplyTDPSafely(w, c, FALSE)
           e == << <<Do("save")>> >>
<1>1. s \in Settings /\ p \in StockProfiles
  OBVIOUS
<1>2. todo' = ApplyCustomHW(s, p)
  OBVIOUS
<1>3. c \in MaybeCurve /\ w \in Limit /\ FALSE \in BOOLEAN /\ 0 \in Limit
  BY <1>1, Bounds DEF Settings
<1>4. w # 0 => Custom'
  OBVIOUS
<1>5. todo' \in Queue(EditStep)
  BY <1>1, <1>2, ApplyCustomEdits
<1>6. c # NoCurve => c \in FanCurve
  BY <1>3 DEF MaybeCurve
<1>7. /\ Do("guard") \in EditStep /\ Do("save") \in EditStep
      /\ ReleaseStep(0, FALSE) \in EditStep /\ ReleaseStep(w, FALSE) \in EditStep
      /\ VerifyStep(FALSE) \in EditStep /\ LimitStep(w, FALSE) \in EditStep
      /\ c # NoCurve => CurveStep(c, FALSE) \in EditStep
      /\ FanCurveForTDP(w, c) # NoCurve => CurveStep(FanCurveForTDP(w, c), FALSE) \in EditStep
      /\ LimitStep(Firmware[p], FALSE) \in EditStep
  <2> HIDE DEF c, w
  <2> QED BY <1>1, <1>3, <1>6, EditSteps, ApplyEdits, FirmwareLow
<1>8. a \in Seq(EditStep) /\ a # <<>> /\ Applies(a)
  <2> HIDE DEF c, w
  <2> QED BY <1>3, ApplyApplies
<1>9. CASE w = 0
  <2>1. /\ LimitStep(Firmware[p], FALSE) \in UnaskedStep
        /\ Do("guard") \in UnaskedStep /\ ReleaseStep(0, FALSE) \in UnaskedStep
        /\ Do("save") \in UnaskedStep /\ VerifyStep(FALSE) \in UnaskedStep
        /\ c # NoCurve => CurveStep(c, FALSE) \in UnaskedStep
    <3> HIDE DEF c
    <3> QED BY <1>1, <1>3, <1>6, UnaskedSteps
  <2> DEFINE h == ApplyCustomHW(s, p)
             l == LimitStep(Firmware[p], FALSE)
  <2>2. h \in Queue(UnaskedStep) /\ BeginsWith(h, l)
    BY <1>9, <2>1, ApplyCustomIn
  <2>3. l.do = "limit"
    BY DEF LimitStep, Do
  <2> HIDE DEF h, l
  <2>4. h # <<>> /\ Head(Head(h)).do = "limit"
    BY <2>2, <2>3 DEF BeginsWith
  <2> QED BY <1>2, <2>2, <2>4 DEF LimitShows, ClearsLimit, Lands, LandsNow, h
<1>10. CASE w # 0 /\ c = NoCurve
  <2>1. PICK r \in Queue(EditStep) : todo' = << a >> \o r
    BY <1>2, <1>7, <1>10, ApplyCustomIn
  <2> HIDE DEF a
  <2>2. todo' # <<>> /\ Head(todo') = a
    BY <1>8, <2>1, QueueFirst
  <2> QED BY <1>4, <1>5, <1>8, <1>10, <2>2 DEF LimitShows, AppliesLimit
<1>11. CASE w # 0 /\ c # NoCurve
  <2> DEFINE b == SetBothFanCurves(c, FALSE)
  <2>1. c \in FanCurve
    BY <1>6, <1>11
  <2>2. todo' = << b >> \o (<< a >> \o e)
    BY <1>2, <1>7, <1>11, ApplyCustomIn
  <2>3. b \in Seq(SoftStep) /\ b # <<>> /\ b \in Seq(EditStep)
    <3> HIDE DEF c
    <3>1. CurveStep(c, FALSE) \in GoodStep /\ VerifyStep(FALSE) \in GoodStep
      BY <1>3, <2>1, GoodSteps
    <3>2. /\ CurveStep(c, FALSE).do = "curve" /\ CurveStep(c, FALSE).must = FALSE
          /\ VerifyStep(FALSE).do = "verify" /\ VerifyStep(FALSE).must = FALSE
      BY DEF CurveStep, VerifyStep, Do
    <3>3. CurveStep(c, FALSE) \in SoftStep /\ VerifyStep(FALSE) \in SoftStep
      BY <3>1, <3>2 DEF SoftStep
    <3> QED BY <1>7, <1>11, <2>1, <3>3, CurveIn
  <2> HIDE DEF b
  <2>4. e \in Queue(EditStep)
    <3> DEFINE d == <<Do("save")>>
    <3>1. d # <<>> /\ d \in Seq(EditStep)
      BY <1>7
    <3> HIDE DEF d
    <3>2. << d >> \in Queue(EditStep)
      BY <3>1, QueueParts
    <3> QED BY <3>2 DEF d
  <2> DEFINE t == << a >> \o e
  <2> HIDE DEF a, e
  <2>5. t \in Queue(EditStep) /\ t # <<>> /\ Head(t) = a
    BY <1>8, <2>4, QueueFirst
  <2>6. todo' = << b >> \o t
    BY <2>2
  <2> HIDE DEF t
  <2>7. todo' # <<>> /\ Head(todo') = b /\ Tail(todo') = t
    BY <2>3, <2>5, <2>6, QueueFirst
  <2> QED BY <1>4, <1>5, <1>8, <1>11, <2>3, <2>5, <2>7 DEF LimitShows, AppliesLimit
<1> QED BY <1>9, <1>10, <1>11

LEMMA SelectLimits ==
  ASSUME IInv, LimitsTellApart, NEW n \in Names, SelectCustom(n)
  PROVE  LimitShows'
<1>1. saved[n] \in Settings /\ platform \in StockProfiles
  BY DEF IInv, TypeOK
<1>2. todo' = ApplyCustomHW(saved[n], platform) /\ (saved[n].tdp # 0 => Custom')
  BY DEF SelectCustom, Custom
<1> QED BY <1>1, <1>2, ApplyLimits

LEMMA SetFanCurveLimits ==
  ASSUME IInv, LimitsTellApart, LimitShows, NEW n \in Names \cup {NoName},
         NEW points \in UserCurves, SetFanCurve(n, points)
  PROVE  LimitShows'
<1> DEFINE s == CommitStep(Target(n), points, saved[Target(n)].tdp, Activates(n))
<1>1. todo = <<>> /\ UNCHANGED <<hardware, memory, policyWritten>>
  BY DEF SetFanCurve, Idle, latches
<1>2. points \in FanCurve /\ points \in MaybeCurve /\ TRUE \in BOOLEAN
      /\ saved[Target(n)].tdp \in Limit
  BY CurveAssumption, EditTarget DEF IInv, MaybeCurve
<1>3. (Custom /\ Live(n)) => saved[Target(n)].tdp # 0
  BY DEF Custom, Live, Target
<1>4. s \in UnaskedStep /\ (Custom => s \in Keeps(active))
  BY <1>2, <1>3, EditCommit
<1> HIDE DEF s
<1>5. /\ CurveStep(points, TRUE) \in UnaskedStep /\ VerifyStep(TRUE) \in UnaskedStep
      /\ Do("save") \in UnaskedStep
      /\ CurveStep(points, TRUE) \in Keeps(active) /\ VerifyStep(TRUE) \in Keeps(active)
      /\ Do("save") \in Keeps(active)
  BY <1>2, UnaskedSteps, EditSteps, KeepsSteps
<1>6. todo' \in Queue(UnaskedStep)
  BY <1>4, <1>5, SetFanCurveIn DEF s
<1>7. Custom => todo' \in Queue(Keeps(active))
  BY <1>4, <1>5, SetFanCurveIn DEF s
<1> QED BY <1>1, <1>6, <1>7, EditLimits

LEMMA ResetFanCurveLimits ==
  ASSUME IInv, LimitsTellApart, LimitShows, NEW n \in Names \cup {NoName}, ResetFanCurve(n)
  PROVE  LimitShows'
<1> DEFINE keep == IF Implicit(n) THEN 0 ELSE saved[Target(n)].tdp
           s == CommitStep(Target(n), NoCurve, saved[Target(n)].tdp, Activates(n))
<1>1. todo = <<>> /\ UNCHANGED <<hardware, memory, policyWritten>>
  BY DEF ResetFanCurve, Idle, latches
<1>2. /\ saved[Target(n)].tdp \in Limit /\ keep \in Limit /\ NoCurve \in MaybeCurve
      /\ TRUE \in BOOLEAN
  BY EditTarget, Bounds DEF IInv, MaybeCurve
<1>3. (Custom /\ Live(n)) => saved[Target(n)].tdp # 0
  BY DEF Custom, Live, Target
<1>4. s \in UnaskedStep /\ (Custom => s \in Keeps(active))
  BY <1>2, <1>3, EditCommit
<1>5. (~Custom /\ Live(n)) => keep = 0
  BY DEF Custom, Live, Implicit, Target
<1>6. keep = IF Implicit(n) THEN 0 ELSE saved[Target(n)].tdp
  OBVIOUS
<1> HIDE DEF s, keep
<1>7. /\ ReleaseStep(keep, TRUE) \in UnaskedStep /\ Do("save") \in UnaskedStep
      /\ ReleaseStep(keep, TRUE) \in Keeps(active) /\ LimitStep(keep, TRUE) \in Keeps(active)
      /\ Do("save") \in Keeps(active)
  BY <1>2, UnaskedSteps, EditSteps, KeepsSteps
<1>8. ~Custom => todo' \in Queue(UnaskedStep)
  BY <1>4, <1>5, <1>6, <1>7, ResetFanCurveIn DEF s
<1>9. Custom => todo' \in Queue(Keeps(active))
  BY <1>4, <1>6, <1>7, ResetFanCurveIn DEF s
<1> QED BY <1>1, <1>8, <1>9, EditLimits

LEMMA SetTDPLimits ==
  ASSUME IInv, LimitsTellApart, LimitShows, NEW n \in Names \cup {NoName}, NEW w \in Watts,
         NEW pl1, SetTDP(n, w, pl1)
  PROVE  LimitShows'
<1> DEFINE c == saved[Target(n)].curve
           s == CommitStep(Target(n), c, w, Activates(n))
<1>1. todo = <<>> /\ UNCHANGED <<hardware, memory, policyWritten>>
  BY DEF SetTDP, Idle, latches
<1>2. w \in Limit /\ w # 0 /\ c \in MaybeCurve /\ TRUE \in BOOLEAN /\ FALSE \in BOOLEAN
  BY PowerAssumption, EditTarget, Bounds DEF IInv, TDPMin, TDPMaxForced
<1>3. s \in UnaskedStep /\ s \in Keeps(Target(n)) /\ (Custom => s \in Keeps(active))
  <2> HIDE DEF c
  <2> QED BY <1>2, EditCommit
<1>4. c = saved[Target(n)].curve
  OBVIOUS
<1> HIDE DEF c
<1>5. /\ LimitStep(w, TRUE) \in EditStep /\ LimitStep(w, FALSE) \in EditStep
      /\ FanCurveForTDP(w, c) # NoCurve =>
           CurveStep(FanCurveForTDP(w, c), TRUE) \in EditStep /\ VerifyStep(TRUE) \in EditStep
      /\ ReleaseStep(w, FALSE) \in EditStep /\ VerifyStep(FALSE) \in EditStep
      /\ c # NoCurve => CurveStep(c, FALSE) \in EditStep
      /\ Do("save") \in EditStep
  <2>1. c # NoCurve => c \in FanCurve
    BY <1>2 DEF MaybeCurve
  <2> QED BY <1>2, <2>1, ApplyEdits, EditSteps
<1>6. ASSUME NEW a, s \in Keeps(a)
      PROVE  /\ todo' \in Queue(Keeps(a))
             /\ Live(n) => Starts(todo', ApplyTDPSafely(w, c, TRUE), s)
  <2>1. EditStep \subseteq Keeps(a)
    BY KeepsSteps
  <2>2. Live(n) =>
          /\ LimitStep(w, TRUE) \in Keeps(a)
          /\ FanCurveForTDP(w, c) # NoCurve =>
               CurveStep(FanCurveForTDP(w, c), TRUE) \in Keeps(a)
               /\ VerifyStep(TRUE) \in Keeps(a)
    BY <1>5, <2>1
  <2>3. (Live(n) /\ pl1 <= TDPMaxSafe) =>
          /\ c = NoCurve =>
               ReleaseStep(w, FALSE) \in Keeps(a) /\ (w # 0 => LimitStep(w, FALSE) \in Keeps(a))
          /\ c # NoCurve => CurveStep(c, FALSE) \in Keeps(a) /\ VerifyStep(FALSE) \in Keeps(a)
    BY <1>5, <2>1
  <2>4. CommitStep(Target(n), c, w, Activates(n)) \in Keeps(a)
    BY <1>6
  <2>5. Do("save") \in Keeps(a)
    BY <1>5, <2>1
  <2> HIDE DEF s
  <2>6. /\ todo' \in Queue(Keeps(a))
        /\ Live(n) => Starts(todo', ApplyTDPSafely(w, c, TRUE),
                             CommitStep(Target(n), c, w, Activates(n)))
    BY <1>4, <2>2, <2>3, <2>4, <2>5, SetTDPIn
  <2> QED BY <2>6 DEF s
<1>7. Custom => todo' \in Queue(Keeps(active))
  BY <1>3, <1>6
<1>8. CASE Custom
  BY <1>1, <1>7, <1>8, EditLimits
<1>9. CASE ~Custom /\ ~Live(n)
  <2>1. Do("save") \in UnaskedStep
    BY UnaskedSteps
  <2>2. todo' \in Queue(UnaskedStep)
    BY <1>3, <1>4, <1>9, <2>1, SetTDPIn
  <2> QED BY <1>1, <1>9, <2>2, EditLimits
<1>10. CASE ~Custom /\ Live(n)
  <2> DEFINE a == Target(n)
  <2>1. a \in Names
    BY EditTarget DEF IInv
  <2>2. s.do = "commit" /\ s.name = a /\ s.active = a
    <3>1. s.do = "commit" /\ s.name = Target(n) /\ s.active = Activates(n)
      BY DEF CommitStep, Do
    <3> QED BY <1>10, <3>1 DEF Activates
  <2> HIDE DEF s
  <2>3. todo' \in Queue(Keeps(a)) /\ Starts(todo', ApplyTDPSafely(w, c, TRUE), s)
    BY <1>3, <1>6, <1>10
  <2>4. /\ todo' # <<>> /\ Tail(todo') # <<>> /\ Head(todo') = ApplyTDPSafely(w, c, TRUE)
        /\ Head(Tail(todo')) = << s >>
    BY <2>3 DEF Starts
  <2>5. Head(todo') \in MustCall
    BY <1>2, <2>4, ApplyMust
  <2> HIDE DEF a
  <2>6. Tail(todo') \in Queue(Keeps(a))
    BY <2>3, <2>4, QueueNext
  <2>7. Len(<< s >>) = 1 /\ Head(<< s >>) = s
    OBVIOUS
  <2>8. ClaimsLimit(Tail(todo'))
    BY <2>1, <2>2, <2>4, <2>6, <2>7 DEF ClaimsLimit
  <2>9. Unasked'
    BY <1>1, <1>10, LimitIdle DEF hardware, Unasked
  <2> QED BY <2>4, <2>5, <2>8, <2>9 DEF LimitShows, TakesLimit
<1> QED BY <1>8, <1>9, <1>10

LEMMA ResetTDPLimits ==
  ASSUME IInv, LimitsTellApart, LimitShows, NEW n \in Names \cup {NoName}, ResetTDP(n)
  PROVE  LimitShows'
<1>1. todo = <<>> /\ UNCHANGED <<hardware, memory, policyWritten>>
  BY DEF ResetTDP, Idle, latches
<1>2. CASE Live(n)
  <2> DEFINE m == IF Implicit(n) THEN NoName ELSE Target(n)
  <2>1. m \in MaybeProfile /\ "balanced" \in StockProfiles
    BY EditTarget, ProfileAssumption DEF IInv
  <2>2. todo' = Land("balanced", m)
    BY <1>2, ResetTDPIn
  <2> HIDE DEF m
  <2> QED BY <2>1, <2>2, LandClears
<1>3. CASE ~Live(n)
  <2>1. n \in Names /\ Target(n) = n /\ Activates(n) = NoName
    BY <1>3 DEF Live, Target, Activates
  <2>2. saved[n].curve \in MaybeCurve /\ 0 \in Limit
    BY <2>1, EditTarget, Bounds DEF IInv
  <2> DEFINE s == CommitStep(n, saved[n].curve, 0, NoName)
  <2>3. s \in UnaskedStep /\ (Custom => s \in Keeps(active))
    BY <1>3, <2>1, <2>2, EditCommit
  <2> HIDE DEF s
  <2>4. Do("save") \in UnaskedStep /\ Do("save") \in Keeps(active)
    BY UnaskedSteps, EditSteps, KeepsSteps
  <2>5. todo' \in Queue(UnaskedStep)
    BY <1>3, <2>3, <2>4, ResetTDPIn, CommitIn DEF s
  <2>6. Custom => todo' \in Queue(Keeps(active))
    BY <1>3, <2>3, <2>4, ResetTDPIn, CommitIn DEF s
  <2> QED BY <1>1, <2>5, <2>6, EditLimits
<1> QED BY <1>2, <1>3

LEMMA UserLimits ==
  ASSUME IInv, LimitsTellApart, LimitInv, UserOperation
  PROVE  LimitInv'
<1>1. IInv /\ LimitShows /\ watching /\ UNCHANGED <<hardware, saved, disk, latches>>
  BY UserIdle DEF LimitInv
<1>2. RunInv'
  BY UserRuns DEF LimitInv
<1>3. StartsQuietly'
  BY <1>1 DEF StartsQuietly, latches
<1>4. ASSUME NEW p \in StockProfiles, SelectStock(p) PROVE LimitShows'
  BY <1>4, SelectStockIn, LandClears, Bounds
<1>5. LimitShows'
  BY <1>1, <1>4, SelectLimits, SetFanCurveLimits, ResetFanCurveLimits, SetTDPLimits,
     ResetTDPLimits DEF UserOperation
<1> QED BY <1>2, <1>3, <1>5 DEF LimitInv

\* The tick takes the report, and puts the limit back when it was lost.
LEMMA TickLimits ==
  ASSUME IInv, LimitsTellApart, LimitInv, ReconcileTick
  PROVE  LimitInv'
<1>1. /\ todo = <<>> /\ watching /\ UNCHANGED <<hardware, memory, watching>>
      /\ policyWritten' = FALSE
  BY DEF ReconcileTick, Idle
<1>2. RunInv'
  BY RunTick DEF LimitInv
<1>3. UNCHANGED <<cache, inForce, pending, active, saved>>
  BY <1>1 DEF hardware, memory
<1>4. Unasked \/ (Custom /\ Told)
  BY <1>1, LimitIdle DEF LimitInv
<1>5. LimitShows'
  <2>1. CASE active \notin Names
    <3>1. todo' = <<>>
      BY <1>1, <2>1 DEF ReconcileTick
    <3>2. Unasked'
      BY <1>3, <1>4, <2>1 DEF Custom, Unasked
    <3> QED BY <3>1, <3>2, QueueParts DEF LimitShows, ShowsUnasked
  <2>2. CASE active \in Names
    <3> DEFINE s == saved[active]
               r == << ReconcileStep(s.curve) >>
    <3>1. s = saved[active] /\ (Custom <=> s.tdp # 0)
      BY <2>2 DEF Custom
    <3> HIDE DEF s
    <3>2. /\ s.curve \in MaybeCurve /\ s.tdp \in Limit /\ todo' \in Queue(EditStep)
          /\ (~LimitLost(s) /\ ~CurveDropped(s.curve)) => todo' = <<>>
          /\ (~LimitLost(s) /\ CurveDropped(s.curve)) => todo' = << r >>
      BY <2>2, <3>1, TickCalls
    <3>3. LimitLost(s) => /\ s.tdp # 0 /\ todo' # <<>>
                          /\ Head(todo') = ApplyTDPSafely(s.tdp, s.curve, FALSE)
      BY <2>2, <3>1, TickCalls
    <3>4. CASE LimitLost(s)
      <4>1. Custom'
        BY <1>3, <3>1, <3>3, <3>4 DEF Custom
      <4>2. Applies(Head(todo'))
        <5>1. FALSE \in BOOLEAN
          OBVIOUS
        <5> QED BY <3>2, <3>3, <3>4, <5>1, ApplyApplies
      <4> QED BY <3>2, <3>3, <3>4, <4>1, <4>2 DEF LimitShows, AppliesLimit
    <3>5. CASE ~LimitLost(s) /\ s.tdp = 0
      <4>1. ReconcileStep(s.curve) \in UnaskedStep
        BY <3>2, UnaskedSteps
      <4>2. r # <<>> /\ r \in Seq(UnaskedStep)
        BY <4>1
      <4> HIDE DEF r
      <4>3. todo' \in Queue(UnaskedStep)
        BY <3>2, <3>5, <4>2, QueueParts
      <4>4. Unasked'
        BY <1>3, <1>4, <3>1, <3>5 DEF Unasked
      <4> QED BY <4>3, <4>4 DEF LimitShows, ShowsUnasked
    <3>6. CASE ~LimitLost(s) /\ s.tdp # 0
      <4>1. cache = s.tdp /\ ~policyWritten
        BY <3>6 DEF LimitLost
      <4>2. s.tdp \in Watts
        BY <2>2, <3>1, <3>6 DEF LimitInv, RunInv, SavedAsked, Asked
      <4>3. Custom /\ (cache = inForce \/ pending)
        BY <1>4, <3>1, <3>6, <4>1, <4>2 DEF Told, Reported, Unasked
      <4>4. Custom' /\ Told' /\ active' = active
        BY <1>3, <4>3 DEF Custom, Told, Reported
      <4>5. todo' \in Queue(Keeps(active))
        BY <3>2, KeepsSteps, QueueWiden
      <4> QED BY <4>4, <4>5 DEF LimitShows, KeepsLimit
    <3> QED BY <3>4, <3>5, <3>6
  <2> QED BY <2>1, <2>2
<1>6. StartsQuietly'
  BY <1>1 DEF StartsQuietly
<1> QED BY <1>2, <1>5, <1>6 DEF LimitInv

\* What happens around the operation: the report is delivered, or another
\* program writes the profile or a limit.
LEMMA AroundLimits ==
  ASSUME LimitShows, UNCHANGED <<todo, active, saved>>,
         Unasked => Unasked', Told => Told', EnabledOrReported => EnabledOrReported'
  PROVE  LimitShows'
<1>1. /\ ShowsUnasked => ShowsUnasked'
      /\ ClearsLimit => ClearsLimit'
      /\ KeepsLimit => KeepsLimit'
  BY DEF ShowsUnasked, ClearsLimit, Now, KeepsLimit, Custom
<1>2. TakesLimit => TakesLimit'
  BY DEF TakesLimit, ClaimsLimit
<1>3. AppliesLimit => AppliesLimit'
  BY DEF AppliesLimit, Custom
<1> QED BY <1>1, <1>2, <1>3 DEF LimitShows

\* The startup restore of a firmware profile ends with its own limit.
LEMMA StockStart ==
  ASSUME IInv, RestartDaemon \/ Reboot,
         NEW target \in AutoTargets \cup {NoName}, StartDaemon(target),
         NEW act, act = IF AutoswitchTarget(disk, target) THEN target ELSE disk.active,
         act \in StockProfiles,
         NEW S, ProfileStep(act, FALSE) \in S, RestoreStep(act) \in S, Do("save") \in S,
         LimitStep(Firmware[act], FALSE) \in S, Do("guard") \in S, ReleaseStep(0, FALSE) \in S
  PROVE  todo' \in Queue(S) /\ Lands(todo')
<1> DEFINE switched == AutoswitchTarget(disk, target)
           leftCustom == switched /\ disk.active \in Names /\ target \in StockProfiles
           s1 == ProfileStep(act, FALSE)
           s2 == RestoreStep(act)
           s3 == Do("save")
           x == LimitStep(Firmware[act], FALSE)
           k1 == << s1 >>
           k2 == << s2 >>
           k3 == << s3 >>
           h == HandBackToFirmware(act)
           q == IF leftCustom THEN h ELSE << k2 >>
           r == IF switched THEN << k3 >> ELSE <<>>
           o == IF platform' # act THEN << k1 >> ELSE <<>>
<1>1. todo' = o \o q \o r
  BY DEF StartDaemon, SetProfile, Restore, ProfileStep, RestoreStep
<1>2. s1.do = "profile" /\ s2.do = "restore" /\ x.do = "limit"
  BY DEF ProfileStep, RestoreStep, LimitStep, Do
<1>3. h \in Queue(S) /\ h # <<>> /\ Head(h) = << x >>
  BY HandBackIn
<1>4. /\ k1 \in Seq(S) /\ k1 # <<>> /\ Head(k1) = s1 /\ Len(k1) = 1
      /\ k2 \in Seq(S) /\ k2 # <<>> /\ Head(k2) = s2
      /\ k3 \in Seq(S) /\ k3 # <<>> /\ Head(<< x >>) = x
  <2> HIDE DEF s1, s2, s3, x
  <2>1. s1 \in S /\ s2 \in S /\ s3 \in S
    BY DEF s1, s2, s3
  <2> QED BY <2>1
<1> HIDE DEF s1, s2, s3, x, k1, k2, k3, h, switched, leftCustom
<1>5. /\ << k2 >> \in Queue(S) /\ << k2 >> # <<>> /\ Head(<< k2 >>) = k2
      /\ << k3 >> \in Queue(S) /\ <<>> \in Queue(S)
  BY <1>4, QueueParts
<1>6. q \in Queue(S) /\ q # <<>> /\ Head(Head(q)).do \in {"limit", "restore"}
  BY <1>2, <1>3, <1>4, <1>5
<1>7. r \in Queue(S)
  BY <1>5
<1> HIDE DEF q, r
<1>8. /\ q \o r \in Queue(S) /\ q \o r # <<>> /\ Head(q \o r) = Head(q)
  <2>1. q \o r \in Queue(S)
    BY <1>6, <1>7, QueueParts
  <2>2. q \o r # <<>> /\ Head(q \o r) = Head(q)
    BY <1>6, <1>7 DEF Queue
  <2> QED BY <2>1, <2>2
<1> DEFINE t == q \o r
<1>9. t \in Queue(S) /\ LandsNow(t)
  BY <1>6, <1>8 DEF LandsNow
<1>10. todo' = o \o t
  <2>1. o \in Queue(S)
    BY <1>4, QueueParts
  <2> HIDE DEF o
  <2> QED BY <1>1, <1>6, <1>7, <2>1 DEF Queue
<1> HIDE DEF t
<1>11. CASE platform' # act
  <2>1. todo' = << k1 >> \o t
    BY <1>10, <1>11
  <2>2. todo' \in Queue(S) /\ todo' # <<>> /\ Head(todo') = k1 /\ Tail(todo') = t
    BY <1>4, <1>9, <2>1, QueueFirst
  <2> QED BY <1>2, <1>4, <1>9, <2>2 DEF Lands
<1>12. CASE ~(platform' # act)
  <2>1. todo' = <<>> \o t
    BY <1>10, <1>12
  <2>2. todo' = t
    BY <1>9, <2>1 DEF Queue
  <2> QED BY <1>9, <2>2 DEF Lands
<1> QED BY <1>11, <1>12

\* The calls that apply a limit at startup.
LEMMA StartCalling ==
  /\ \A c \in FanCurve : SetBothFanCurves(c, FALSE) \in StartCall
  /\ \A w \in Limit, want \in MaybeCurve : ApplyTDPSafely(w, want, FALSE) \in StartCall
  /\ \A w \in Limit : w # 0 => GuardedRelease(w) \in StartCall
  /\ <<Do("save")>> \in StartCall
<1>1. FALSE \in BOOLEAN
  OBVIOUS
<1>2. ASSUME NEW c \in FanCurve
      PROVE  CurveStep(c, FALSE) \in StayStep /\ CurveStep(c, FALSE).do = "curve"
  <2>1. CurveStep(c, FALSE) \in EditStep /\ CurveStep(c, FALSE).do = "curve"
    BY <1>1, EditSteps DEF CurveStep, Do
  <2> QED BY <2>1 DEF StayStep
<1>3. ASSUME NEW w \in Limit
      PROVE  /\ LimitStep(w, FALSE) \in StayStep /\ LimitStep(w, FALSE).do = "limit"
             /\ ReleaseStep(w, FALSE) \in StayStep /\ ReleaseStep(w, FALSE).do = "release"
  <2>1. /\ LimitStep(w, FALSE) \in EditStep /\ LimitStep(w, FALSE).do = "limit"
        /\ ReleaseStep(w, FALSE) \in EditStep /\ ReleaseStep(w, FALSE).do = "release"
    BY <1>1, EditSteps DEF LimitStep, ReleaseStep, Do
  <2> QED BY <2>1 DEF StayStep
<1>4. /\ VerifyStep(FALSE) \in StayStep /\ VerifyStep(FALSE).do = "verify"
      /\ Do("guard") \in StayStep /\ Do("guard").do = "guard"
      /\ Do("save") \in StayStep /\ Do("save").do = "save"
  <2>1. /\ VerifyStep(FALSE) \in EditStep /\ VerifyStep(FALSE).do = "verify"
        /\ Do("guard") \in EditStep /\ Do("guard").do = "guard"
        /\ Do("save") \in EditStep /\ Do("save").do = "save"
    BY <1>1, EditSteps DEF VerifyStep, Do
  <2> QED BY <2>1 DEF StayStep
<1>5. ASSUME NEW x \in StayStep, x.do # "release" PROVE << x >> \in StartCall
  <2> DEFINE k == << x >>
  <2>1. k \in Seq(StayStep) /\ k # <<>> /\ Len(k) = 1 /\ k[1] = x
    OBVIOUS
  <2> HIDE DEF k
  <2>2. \A i \in 1..1 : i = 1
    OBVIOUS
  <2> QED BY <1>5, <2>1, <2>2 DEF StartCall, RewritesLimit, k
<1>6. ASSUME NEW x \in StayStep, NEW y \in StayStep, x.do # "release", y.do # "release"
      PROVE  << x, y >> \in StartCall
  <2> DEFINE k == << x, y >>
  <2>1. k \in Seq(StayStep) /\ k # <<>> /\ Len(k) = 2 /\ k[1] = x /\ k[2] = y
    OBVIOUS
  <2> HIDE DEF k
  <2>2. \A i \in 1..2 : i = 1 \/ i = 2
    OBVIOUS
  <2> QED BY <1>6, <2>1, <2>2 DEF StartCall, RewritesLimit, k
<1>7. ASSUME NEW x \in StayStep, NEW y \in StayStep, NEW z \in StayStep,
             x.do # "release", z.do = "limit"
      PROVE  << x, y, z >> \in StartCall
  <2> DEFINE k == << x, y, z >>
  <2>1. k \in Seq(StayStep) /\ k # <<>> /\ Len(k) = 3 /\ k[1] = x /\ k[2] = y /\ k[3] = z
    OBVIOUS
  <2> HIDE DEF k
  <2>2. \A i \in 1..3 : i = 1 \/ i = 2 \/ i = 3
    OBVIOUS
  <2>3. 2 + 1 = 3
    OBVIOUS
  <2> QED BY <1>7, <2>1, <2>2, <2>3 DEF StartCall, RewritesLimit, k
<1>8. ASSUME NEW c \in FanCurve PROVE SetBothFanCurves(c, FALSE) \in StartCall
  <2> DEFINE x == CurveStep(c, FALSE)
             y == VerifyStep(FALSE)
  <2>1. x \in StayStep /\ y \in StayStep /\ x.do # "release" /\ y.do # "release"
    BY <1>2, <1>4
  <2>2. SetBothFanCurves(c, FALSE) = << x, y >>
    BY DEF SetBothFanCurves
  <2> HIDE DEF x, y
  <2> QED BY <1>6, <2>1, <2>2
<1>9. ASSUME NEW w \in Limit, NEW want \in MaybeCurve
      PROVE  ApplyTDPSafely(w, want, FALSE) \in StartCall
  <2> DEFINE c == FanCurveForTDP(w, want)
             x == CurveStep(c, FALSE)
             y == VerifyStep(FALSE)
             z == LimitStep(w, FALSE)
  <2>1. c # NoCurve => c \in FanCurve
    BY FloorCurve DEF MaybeCurve
  <2>2. ApplyTDPSafely(w, want, FALSE) = IF c = NoCurve THEN << z >> ELSE << x, y, z >>
    BY DEF ApplyTDPSafely
  <2> HIDE DEF c
  <2>3. /\ z \in StayStep /\ z.do = "limit" /\ y \in StayStep
        /\ c # NoCurve => x \in StayStep /\ x.do = "curve"
    BY <1>2, <1>3, <1>4, <2>1
  <2> HIDE DEF x, y, z
  <2> QED BY <1>5, <1>7, <2>2, <2>3
<1>10. ASSUME NEW w \in Limit, w # 0 PROVE GuardedRelease(w) \in StartCall
  <2> DEFINE x == Do("guard")
             y == ReleaseStep(w, FALSE)
             z == LimitStep(w, FALSE)
  <2>1. x \in StayStep /\ x.do = "guard" /\ y \in StayStep /\ z \in StayStep /\ z.do = "limit"
    BY <1>3, <1>4
  <2>2. GuardedRelease(w) = << x, y, z >>
    BY <1>10 DEF GuardedRelease
  <2> HIDE DEF x, y, z
  <2> QED BY <1>7, <2>1, <2>2
<1>11. <<Do("save")>> \in StartCall
  <2> DEFINE x == Do("save")
  <2>1. x \in StayStep /\ x.do # "release"
    BY <1>4
  <2> HIDE DEF x
  <2> QED BY <1>5, <2>1 DEF x
<1> QED BY <1>8, <1>9, <1>10, <1>11

LEMMA ApplyStarts ==
  ASSUME NEW s \in Settings, NEW p \in StockProfiles, s.tdp # 0
  PROVE  ApplyCustomHW(s, p) \in Seq(StartCall)
<1> DEFINE c == s.curve
           w == s.tdp
           a == SetBothFanCurves(c, FALSE)
           b == ApplyTDPSafely(w, c, FALSE)
           g == GuardedRelease(w)
           e == <<Do("save")>>
           q1 == IF c = NoCurve THEN <<>> ELSE << a >>
           q3 == IF w # 0 /\ c = NoCurve /\ w <= TDPMaxSafe THEN << g >> ELSE <<>>
<1>1. c \in MaybeCurve /\ w \in Limit /\ w # 0 /\ (c # NoCurve => c \in FanCurve)
  BY DEF Settings, MaybeCurve
<1>2. ApplyCustomHW(s, p) = <<>> \o q1 \o << b >> \o q3 \o << e >>
  BY DEF ApplyCustomHW
<1> HIDE DEF c, w
<1>3. (c # NoCurve => a \in StartCall) /\ b \in StartCall /\ g \in StartCall /\ e \in StartCall
  BY <1>1, StartCalling
<1> HIDE DEF a, b, g, e
<1>4. /\ q1 \in Seq(StartCall) /\ q3 \in Seq(StartCall)
      /\ << b >> \in Seq(StartCall) /\ << e >> \in Seq(StartCall) /\ <<>> \in Seq(StartCall)
  BY <1>3
<1> HIDE DEF q1, q3
<1>5. \A q, r \in Seq(StartCall) : q \o r \in Seq(StartCall)
  OBVIOUS
<1> QED BY <1>2, <1>4, <1>5

\* What leaves a trace of a limit that was lost: no policy write falls into the
\* restore of a custom profile, which no watcher watches yet, and no restart
\* that finds nothing to restore leaves a requested limit behind.
LeavesTrace ==
  /\ \A p \in StockProfiles : OutsidePolicy(p) => watching \/ active \notin Names
  /\ RestartDaemon => todo' # <<>> \/ cache \notin Watts

LEMMA StartLimits ==
  ASSUME IInv, LimitsTellApart, RestartDaemon \/ Reboot, LeavesTrace
  PROVE  LimitShows' /\ StartsQuietly'
<1>1. PICK target \in AutoTargets \cup {NoName} : StartDaemon(target)
  BY DEF RestartDaemon, Reboot
<1> DEFINE act == IF AutoswitchTarget(disk, target) THEN target ELSE disk.active
<1>2. /\ active' = act /\ saved' = disk.saved /\ ~watching'
      /\ act \in MaybeProfile /\ platform' \in StockProfiles
      /\ disk.saved \in [Names -> Settings]
      /\ (act \notin StockProfiles /\ act \in Names /\ disk.saved[act] # Nothing) =>
           todo' = ApplyCustomHW(disk.saved[act], platform')
      /\ (act \notin StockProfiles /\ ~(act \in Names /\ disk.saved[act] # Nothing)) =>
           todo' = <<>>
  BY <1>1, StartCalls
<1>3. act \in StockProfiles =>
        /\ todo' \in Queue(UnaskedStep) /\ Lands(todo')
        /\ todo' \in Queue(EditStep)
  <2> SUFFICES ASSUME act \in StockProfiles
               PROVE  todo' \in Queue(UnaskedStep) /\ Lands(todo') /\ todo' \in Queue(EditStep)
    OBVIOUS
  <2>1. FALSE \in BOOLEAN /\ 0 \in Limit /\ Firmware[act] \in Limit
    BY Bounds, FirmwareLow
  <2>2. /\ ProfileStep(act, FALSE) \in UnaskedStep /\ RestoreStep(act) \in UnaskedStep
        /\ Do("save") \in UnaskedStep /\ LimitStep(Firmware[act], FALSE) \in UnaskedStep
        /\ Do("guard") \in UnaskedStep /\ ReleaseStep(0, FALSE) \in UnaskedStep
    BY <2>1, UnaskedSteps
  <2>3. /\ ProfileStep(act, FALSE) \in EditStep /\ RestoreStep(act) \in EditStep
        /\ Do("save") \in EditStep /\ LimitStep(Firmware[act], FALSE) \in EditStep
        /\ Do("guard") \in EditStep /\ ReleaseStep(0, FALSE) \in EditStep
    BY <2>1, EditSteps
  <2>4. todo' \in Queue(UnaskedStep) /\ Lands(todo')
    BY <1>1, <2>2, StockStart
  <2>5. todo' \in Queue(EditStep)
    BY <1>1, <2>3, StockStart
  <2> QED BY <2>4, <2>5
<1> HIDE DEF act
<1>4. CASE act \in StockProfiles
  <2>1. ~Custom'
    BY <1>2, <1>4, ProfileAssumption DEF Custom
  <2> QED BY <1>3, <1>4, <2>1 DEF LimitShows, ClearsLimit, StartsQuietly
<1>5. CASE act \notin StockProfiles /\ act \in Names /\ disk.saved[act] # Nothing
  <2> DEFINE s == disk.saved[act]
  <2>1. s \in Settings /\ todo' = ApplyCustomHW(s, platform') /\ (s.tdp # 0 <=> Custom')
    BY <1>2, <1>5 DEF Custom
  <2> HIDE DEF s
  <2>2. LimitShows'
    BY <1>2, <2>1, ApplyLimits
  <2>3. todo' \in Queue(EditStep)
    BY <1>2, <2>1, ApplyCustomEdits
  <2>4. Custom' => todo' \in Seq(StartCall)
    BY <1>2, <2>1, ApplyStarts
  <2> QED BY <2>2, <2>3, <2>4 DEF StartsQuietly
<1>6. CASE act \notin StockProfiles /\ ~(act \in Names /\ disk.saved[act] # Nothing)
  <2>1. todo' = <<>>
    BY <1>2, <1>6
  <2>2. cache' \notin Watts
    BY <2>1 DEF RestartDaemon, Reboot, LimitsTellApart, LeavesTrace
  <2>3. ~Custom'
    BY <1>2, <1>6 DEF Custom, Nothing
  <2> QED BY <2>1, <2>2, <2>3, QueueParts DEF LimitShows, ShowsUnasked, Unasked, StartsQuietly
<1> QED BY <1>4, <1>5, <1>6

LEMMA EnvironmentLimits ==
  ASSUME IInv, LimitsTellApart, LimitInv, Environment, LeavesTrace
  PROVE  LimitShows' /\ StartsQuietly'
<1>1. CASE RestartDaemon \/ Reboot
  BY <1>1, StartLimits
<1>2. CASE ~RestartDaemon /\ ~Reboot
  <2>1. UNCHANGED <<todo, active, saved, watching, policyWritten>>
    BY <1>2 DEF Environment, OutsidePolicy, OutsideLimit, OtherSave, memory, latches
  <2>2. StartsQuietly'
    BY <2>1 DEF LimitInv, StartsQuietly, Custom
  <2>3. CASE OtherSave
    <3>1. UNCHANGED <<cache, inForce, fan, pending>>
      BY <2>3 DEF OtherSave, hardware
    <3>2. Unasked => Unasked'
      BY <3>1 DEF Unasked
    <3>3. Told => Told'
      BY <2>1, <3>1 DEF Told, Reported, Unasked
    <3>4. EnabledOrReported => EnabledOrReported'
      BY <2>1, <3>1 DEF EnabledOrReported, Reported
    <3>5. LimitShows /\ UNCHANGED <<todo, active, saved>>
      BY <2>1 DEF LimitInv
    <3> QED BY <2>2, <3>2, <3>3, <3>4, <3>5, AroundLimits
  <2>4. ASSUME NEW w \in OutsideLimits, OutsideLimit(w) PROVE LimitShows'
    <3>1. cache' = w /\ inForce' = w /\ UNCHANGED <<fan, pending>> /\ w \notin Watts
      BY <2>4 DEF OutsideLimit, LimitsTellApart
    <3>2. Unasked' /\ Told' /\ (EnabledOrReported => EnabledOrReported')
      BY <2>1, <3>1 DEF Unasked, Told, EnabledOrReported, Reported
    <3> QED BY <2>1, <3>2, AroundLimits DEF LimitInv
  <2>5. ASSUME NEW p \in StockProfiles, OutsidePolicy(p) PROVE LimitShows'
    <3>1. pending' = watching /\ cache' = cache
      BY <2>5 DEF OutsidePolicy, FirmwareTakesOver
    <3>2. Unasked => Unasked'
      BY <3>1 DEF Unasked
    <3>3. CASE watching
      <4>1. Told' /\ EnabledOrReported'
        BY <3>1, <3>3 DEF Told, Reported, EnabledOrReported
      <4> QED BY <2>1, <3>2, <4>1, AroundLimits DEF LimitInv
    <3>4. CASE ~watching
      <4>1. active \notin Names
        BY <2>5, <3>4 DEF LeavesTrace
      <4>2. ~TakesLimit
        BY <3>4, TakesWatched DEF LimitInv
      <4>3. ShowsUnasked \/ ClearsLimit
        BY <4>1, <4>2 DEF LimitInv, LimitShows, KeepsLimit, AppliesLimit, Custom
      <4>4. (ShowsUnasked => ShowsUnasked') /\ (ClearsLimit => ClearsLimit')
        BY <2>1, <3>2 DEF ShowsUnasked, ClearsLimit
      <4> QED BY <4>3, <4>4 DEF LimitShows
    <3> QED BY <3>3, <3>4
  <2> QED BY <1>2, <2>2, <2>3, <2>4, <2>5 DEF Environment
<1> QED BY <1>1, <1>2

LEMMA LimitInitially == LimitsTellApart /\ Init => StartsQuietly /\ LimitShows
<1> SUFFICES ASSUME LimitsTellApart, Init PROVE StartsQuietly /\ LimitShows
  OBVIOUS
<1>1. todo = <<>> /\ cache = TDPMin /\ active = NoName
  BY DEF Init
<1>2. Unasked
  BY <1>1 DEF Unasked, LimitsTellApart
<1>3. ~Custom
  BY <1>1, ProfileAssumption DEF Custom, NoName
<1> QED BY <1>1, <1>2, <1>3, QueueParts DEF StartsQuietly, LimitShows, ShowsUnasked

LEMMA LimitInductive ==
  ASSUME WriteFaults = FALSE, LimitsTellApart
  PROVE  /\ Init => LimitInv
         /\ IInv /\ LimitInv /\ [Next]_vars /\ [LeavesTrace]_vars => LimitInv'
<1>1. Init => LimitInv
  BY RunInductive, LimitInitially DEF LimitInv
<1>2. ASSUME IInv, LimitInv, [Next]_vars, [LeavesTrace]_vars PROVE LimitInv'
  <2>1. RunInv'
    BY <1>2, RunInductive DEF LimitInv
  <2>2. CASE HardwareStep \/ StateStep
    BY <1>2, <2>2, LimitStepSafe
  <2>3. CASE ReconcileTick
    BY <1>2, <2>3, TickLimits
  <2>4. CASE UserOperation
    BY <1>2, <2>4, UserLimits
  <2>5. CASE Environment /\ ~UNCHANGED vars
    BY <1>2, <2>1, <2>5, EnvironmentLimits DEF LimitInv
  <2>6. CASE Notify \/ StartWatchers \/ UNCHANGED vars
    <3>1. /\ UNCHANGED <<todo, active, saved, cache, inForce, fan>>
          /\ Reported => Reported'
          /\ watching' = watching \/ watching'
      BY <2>6 DEF Notify, StartWatchers, vars, hardware, memory, latches, Reported
    <3>2. /\ Unasked => Unasked'
          /\ Told => Told'
          /\ EnabledOrReported => EnabledOrReported'
      BY <3>1 DEF Unasked, Told, EnabledOrReported
    <3>3. LimitShows'
      <4>1. LimitShows /\ UNCHANGED <<todo, active, saved>>
        BY <1>2, <3>1 DEF LimitInv
      <4>2. Unasked => Unasked'
        BY <3>2
      <4>3. Told => Told'
        BY <3>2
      <4>4. EnabledOrReported => EnabledOrReported'
        BY <3>2
      <4> QED BY <4>1, <4>2, <4>3, <4>4, AroundLimits
    <3>4. StartsQuietly'
      BY <1>2, <3>1 DEF LimitInv, StartsQuietly, Custom
    <3> QED BY <2>1, <3>3, <3>4 DEF LimitInv
  <2> QED BY <1>2, <2>2, <2>3, <2>4, <2>5, <2>6 DEF Next, Daemon
<1> QED BY <1>1, <1>2

LEMMA LimitInvDefends ==
  ASSUME LimitInv
  PROVE  LimitDefended
<1> SUFFICES ASSUME todo = <<>>, active \in Names, saved[active].tdp \notin {0, inForce}
             PROVE  Evidence
  BY DEF LimitDefended, Idle
<1>1. saved[active].tdp \in Watts
  BY DEF LimitInv, RunInv, SavedAsked, Asked
<1>2. Unasked \/ Told
  BY LimitIdle DEF LimitInv
<1>3. CASE Reported
  BY <1>3 DEF Reported, Evidence
<1>4. CASE ~Reported
  <2>1. cache # saved[active].tdp
    BY <1>1, <1>2, <1>4 DEF Told, Unasked
  <2> QED BY <2>1 DEF Evidence
<1> QED BY <1>3, <1>4

\* When hardware writes succeed, a limit that the firmware or another program
\* took from the active custom profile always shows to the next reconcile tick,
\* however policy writes, outside limits and requests interleave with the
\* daemon's own steps, and wherever the daemon is killed or the machine boots -
\* unless a policy write falls into the restore of a custom profile
\* (policywatch.go) or a restart under a requested limit finds nothing to
\* restore, and provided the limits that nobody asks for differ from those that
\* are asked for (reconcile.go).
THEOREM RestartsKeepLimitsDefended ==
  WriteFaults = FALSE /\ LimitsTellApart /\ Spec /\ [][LeavesTrace]_vars => []LimitDefended
<1> SUFFICES ASSUME WriteFaults = FALSE, LimitsTellApart
             PROVE Spec /\ [][LeavesTrace]_vars => []LimitDefended
  OBVIOUS
<1>1. IInv /\ LimitInv => LimitDefended
  BY LimitInvDefends
<1>2. Init => LimitInv
  BY LimitInductive
<1>3. IInv /\ LimitInv /\ [Next]_vars /\ [LeavesTrace]_vars => LimitInv'
  BY LimitInductive
<1> QED BY <1>1, <1>2, <1>3, Invariance, PTL DEF Spec

\* A daemon that is not restarted has nothing to restore.
QuietAtStart == ~watching => todo = <<>> /\ active = NoName

LEMMA QuietInductive ==
  ASSUME Restarts = FALSE
  PROVE  /\ Init => QuietAtStart
         /\ QuietAtStart /\ [Next]_vars => QuietAtStart' /\ [LeavesTrace]_vars
<1>1. Init => QuietAtStart
  BY DEF Init, QuietAtStart
<1>2. ~RestartDaemon /\ ~Reboot
  BY DEF RestartDaemon, Reboot
<1>3. ASSUME QuietAtStart PROVE LeavesTrace
  BY <1>2, <1>3, ProfileAssumption DEF QuietAtStart, LeavesTrace, NoName
<1>4. ASSUME QuietAtStart, [Next]_vars PROVE QuietAtStart'
  <2>1. CASE HardwareStep \/ StateStep
    <3>1. todo # <<>> /\ watching' = watching
      <4>1. watching' = watching
        BY <2>1 DEF HardwareStep, StateStep, WriteCurve, WriteCurveFails,
             VerifyFanCurveActive, WriteLimit, WriteLimitFails, CheckFanFloorRelease,
             RefuseRelease, Release, ReleaseFails, WriteProfile, WriteProfileFails,
             ChooseRestore, ReconcileCurve, Commit, Save, SaveFails, latches
      <4> QED BY <2>1, <4>1, StepMoves
    <3> QED BY <1>4, <3>1 DEF QuietAtStart
  <2>2. CASE UserOperation \/ ReconcileTick \/ StartWatchers
    <3>1. watching'
      BY <2>2, UserIdle DEF ReconcileTick, StartWatchers, latches
    <3> QED BY <3>1 DEF QuietAtStart
  <2>3. CASE Notify \/ Environment \/ UNCHANGED vars
    <3>1. UNCHANGED <<todo, active, watching>>
      BY <1>2, <2>3 DEF Notify, Environment, OutsidePolicy, OutsideLimit, OtherSave, vars,
           memory, latches
    <3> QED BY <1>4, <3>1 DEF QuietAtStart
  <2> QED BY <1>4, <2>1, <2>2, <2>3 DEF Next, Daemon
<1> QED BY <1>1, <1>3, <1>4

\* When the daemon keeps running, too, there is nothing to except: every limit
\* that is lost shows to the next reconcile tick (reconcile.go).
THEOREM LimitAlwaysDefended ==
  WriteFaults = FALSE /\ Restarts = FALSE /\ LimitsTellApart /\ Spec => []LimitDefended
<1> SUFFICES ASSUME WriteFaults = FALSE, Restarts = FALSE, LimitsTellApart
             PROVE Spec => []LimitDefended
  OBVIOUS
<1>1. WriteFaults = FALSE /\ LimitsTellApart /\ Spec /\ [][LeavesTrace]_vars => []LimitDefended
  BY RestartsKeepLimitsDefended
<1>2. Init => QuietAtStart
  BY QuietInductive
<1>3. QuietAtStart /\ [Next]_vars => QuietAtStart' /\ [LeavesTrace]_vars
  BY QuietInductive
<1>4. Spec /\ [][LeavesTrace]_vars => []LimitDefended
  BY <1>1
<1> QED BY <1>2, <1>3, <1>4, PTL DEF Spec

-----------------------------------------------------------------------------
(* When writes fail.  A switch or an edit that stops half way may leave a   *)
(* firmware profile on a high limit, and a curve of which some registers    *)
(* were written; what it leaves has the floor's minimum.                    *)

MinimumOnFans == \A i \in Fan, j \in Index : fan[i].curve[j].pwm >= HighTDPMinPWM

HoldStep == { s \in GoodStep : s.do # "reconcile" /\ (s.do = "curve" => MeetsFloor(s.curve)) }

\* The minimum is on the fans, and nothing to come takes it off ...
Holds == MinimumOnFans /\ todo \in Queue(HoldStep)

\* ... or the next step hands the machine to a firmware profile, on pain of
\* returning to what there was ...
LandsSafely ==
  /\ todo # <<>> /\ todo \in Queue(LowStep) /\ Now.do = "profile" /\ Now.must
  /\ active \in StockProfiles => MinimumOnFans

\* ... or the call under way makes way for a custom profile: floor, readback
\* and limit, on pain of returning.
ClaimCall == { k \in MustCall : \A i \in 1..Len(k) : k[i].do = "curve" => MeetsFloor(k[i].curve) }
RaisesNothing(k) == \A i \in 1..Len(k) : ~High(k[i])

ClaimsFloored ==
  /\ todo # <<>> /\ Head(todo) \in ClaimCall /\ Claims(Tail(todo))
  /\ \/ MinimumOnFans
     \/ inForce <= TDPMaxSafe /\ (Now.do = "curve" \/ RaisesNothing(Head(todo)))

FailInv ==
  StaysLow \/ Holds \/ StaysCustom \/ LandsSafely \/ ClaimsFloored \/ Claims(todo)

LEMMA HoldSteps ==
  /\ HoldStep \subseteq GoodStep
  /\ \A c \in FanCurve, must \in BOOLEAN : MeetsFloor(c) => CurveStep(c, must) \in HoldStep
  /\ \A w \in Limit, must \in BOOLEAN : LimitStep(w, must) \in HoldStep
  /\ \A w \in Limit, must \in BOOLEAN : ReleaseStep(w, must) \in HoldStep
  /\ \A must \in BOOLEAN : VerifyStep(must) \in HoldStep
  /\ Do("guard") \in HoldStep
  /\ Do("save") \in HoldStep
  /\ \A p \in StockProfiles, must \in BOOLEAN : ProfileStep(p, must) \in HoldStep
  /\ \A p \in StockProfiles : RestoreStep(p) \in HoldStep
  /\ \A n \in MaybeProfile, c \in MaybeCurve, w \in Limit, a \in MaybeProfile :
       CommitStep(n, c, w, a) \in HoldStep
<1>1. ASSUME NEW c \in FanCurve, NEW must \in BOOLEAN, MeetsFloor(c)
      PROVE  CurveStep(c, must) \in HoldStep
  <2>1. CurveStep(c, must).curve = c /\ CurveStep(c, must).do = "curve"
    BY DEF CurveStep, Do
  <2>2. CurveStep(c, must) \in GoodStep
    BY GoodSteps
  <2> QED BY <1>1, <2>1, <2>2 DEF HoldStep
<1>2. \A s \in GoodStep : s.do \notin {"curve", "reconcile"} => s \in HoldStep
  BY DEF HoldStep
<1> QED BY <1>1, <1>2, GoodSteps, Kinds DEF HoldStep

\* A curve that meets the floor has its minimum.
LEMMA MeetsMinimum ==
  ASSUME NEW c \in FanCurve, MeetsFloor(c)
  PROVE  \A j \in Index : c[j].pwm >= HighTDPMinPWM
  BY FloorIsMinimum

LEMMA SamePoints ==
  ASSUME \A i \in Fan : fan'[i].curve = fan[i].curve, MinimumOnFans
  PROVE  MinimumOnFans'
  BY DEF MinimumOnFans

\* What a write, through or not, leaves on the fans.
LEMMA MinimumKept ==
  ASSUME TypeOK, HardwareStep \/ StateStep, Now \in GoodStep,
         WriteCurve \/ WriteCurveFails => MeetsFloor(Now.curve)
  PROVE  /\ MinimumOnFans => MinimumOnFans'
         /\ WriteCurve => MinimumOnFans'
<1>1. WriteCurve \/ WriteCurveFails =>
        Now.curve \in FanCurve /\ \A j \in Index : Now.curve[j].pwm >= HighTDPMinPWM
  BY MeetsMinimum, NowTyped DEF WriteCurve, WriteCurveFails, Doing
<1>2. WriteCurve => MinimumOnFans'
  <2>1. WriteCurve => \A i \in Fan : fan'[i].curve = Now.curve
    BY DEF WriteCurve
  <2> QED BY <1>1, <2>1 DEF MinimumOnFans
<1>3. CASE WriteCurveFails
  <2> SUFFICES ASSUME MinimumOnFans, NEW i \in Fan, NEW j \in Index
               PROVE  fan'[i].curve[j].pwm >= HighTDPMinPWM
    BY <1>2 DEF MinimumOnFans
  <2> DEFINE c == Now.curve
             o == fan[i].curve
  <2>1. c \in Registers /\ o \in Registers
    BY <1>1, <1>3, CurveRegisters DEF TypeOK
  <2>2. c[j].pwm >= HighTDPMinPWM /\ o[j].pwm >= HighTDPMinPWM
    BY <1>1, <1>3 DEF MinimumOnFans
  <2>3. \/ fan'[i].curve \in {o, c}
        \/ \E n \in TornAt : fan'[i].curve = TornCurve(o, c, n)
    BY <1>3, WriteCurveTorn DEF WriteCurveFails
  <2> HIDE DEF c, o
  <2>4. fan'[i].curve[j].pwm \in {o[j].pwm, c[j].pwm}
    BY <2>1, <2>3, TornRegisters
  <2> QED BY <2>2, <2>4
<1>4. CASE ~WriteCurve /\ ~WriteCurveFails
  <2>1. CASE Release \/ ReleaseFails
    <3>1. FirmwareTakesOver(platform) \/ fan' = fan
      BY <2>1 DEF Release, ReleaseFails, hardware
    <3>2. platform \in StockProfiles
      BY DEF TypeOK
    <3>3. \A i \in Fan : fan'[i].curve = fan[i].curve
      BY <3>1, <3>2, TakenOver
    <3> QED BY <1>4, <3>3, SamePoints
  <2>2. CASE WriteProfile
    <3>1. Now.name \in StockProfiles
      BY <2>2, NowTyped DEF WriteProfile, Doing
    <3>2. \A i \in Fan : fan'[i].curve = fan[i].curve
      BY <2>2, <3>1, TakenOver DEF WriteProfile
    <3> QED BY <1>4, <3>2, SamePoints
  <2>3. CASE ~Release /\ ~ReleaseFails /\ ~WriteProfile
    <3>1. fan' = fan
      BY <1>4, <2>3 DEF HardwareStep, StateStep, VerifyFanCurveActive, WriteLimit,
           WriteLimitFails, CheckFanFloorRelease, RefuseRelease, WriteProfileFails,
           ChooseRestore, ReconcileCurve, Commit, Save, SaveFails, hardware
    <3> QED BY <1>4, <3>1, SamePoints
  <2> QED BY <2>1, <2>2, <2>3
<1> QED BY <1>2, <1>3, <1>4

LEMMA HoldsSafe ==
  ASSUME IInv, HardwareStep \/ StateStep, Holds
  PROVE  Holds'
<1>1. todo # <<>> /\ todo \in Queue(HoldStep) /\ MinimumOnFans /\ TypeOK
  BY StepMoves DEF Holds, IInv
<1>2. Now \in HoldStep /\ Now \in GoodStep /\ Tail(todo) \in Queue(HoldStep)
  BY <1>1, NowIn DEF HoldStep
<1>3. MinimumOnFans'
  <2>1. WriteCurve \/ WriteCurveFails => MeetsFloor(Now.curve)
    BY <1>2 DEF HoldStep, WriteCurve, WriteCurveFails, Doing
  <2> QED BY <1>1, <1>2, <2>1, MinimumKept
<1>4. ~ReconcileCurve
  BY <1>2, StepMoves DEF HoldStep
<1>5. CASE ChooseRestore
  <2> DEFINE p == Now.name
             h == HandBackToFirmware(p)
             k == << SetTDPState(Firmware[p], FALSE) >>
  <2>1. p \in StockProfiles
    BY <1>2, <1>5, NowTyped DEF ChooseRestore, Doing
  <2>2. todo' = (IF \A i \in Fan : fan[i].mode = 2 THEN h ELSE k) \o Tail(todo)
    BY <1>5 DEF ChooseRestore
  <2>3. h \in Queue(HoldStep) /\ k \in Queue(HoldStep)
    <3>1. 0 \in Limit /\ FALSE \in BOOLEAN /\ Firmware[p] \in Limit
      BY <2>1, Bounds, FirmwareLow
    <3>2. /\ LimitStep(Firmware[p], FALSE) \in HoldStep /\ Do("guard") \in HoldStep
          /\ ReleaseStep(0, FALSE) \in HoldStep
      BY <3>1, HoldSteps
    <3> HIDE DEF p
    <3> QED BY <3>2, HandBackIn, LimitIn
  <2> HIDE DEF h, k
  <2>4. todo' \in Queue(HoldStep)
    BY <1>2, <2>2, <2>3, QueueParts
  <2> QED BY <1>3, <2>4 DEF Holds
<1>6. CASE ~ChooseRestore
  <2>1. todo' \in Queue(HoldStep)
    BY <1>1, <1>4, <1>6, StepMoves, QueueMoves
  <2> QED BY <1>3, <2>1 DEF Holds
<1> QED BY <1>5, <1>6

LEMMA LandsSafelySafe ==
  ASSUME IInv, HardwareStep \/ StateStep, LandsSafely
  PROVE  FailInv'
<1>1. /\ todo # <<>> /\ todo \in Queue(LowStep) /\ Now.do = "profile" /\ Now.must
      /\ active \in StockProfiles => MinimumOnFans
  BY DEF LandsSafely
<1>2. Now \in GoodStep
  BY <1>1, NowIn, LowSteps
<1>3. CASE WriteProfile
  <2>1. Now.name \in StockProfiles
    BY <1>1, <1>2, NowTyped
  <2>2. inForce' <= TDPMaxSafe /\ Done
    BY <1>3, <2>1, TakenOver DEF WriteProfile, IInv
  <2>3. todo' \in Queue(LowStep)
    BY <1>1, <2>2, QueueMoves
  <2> QED BY <2>2, <2>3 DEF FailInv, StaysLow
<1>4. CASE WriteProfileFails
  <2>1. todo' = <<>> /\ UNCHANGED <<active, fan>>
    BY <1>1, <1>4 DEF WriteProfileFails, Failed, hardware, memory
  <2>2. MinimumOnFans => MinimumOnFans'
    BY <2>1 DEF MinimumOnFans
  <2> QED BY <1>1, <2>1, <2>2, QueueParts DEF FailInv, Holds, StaysCustom
<1> QED BY <1>1, <1>3, <1>4
        DEF HardwareStep, StateStep, Doing, WriteCurve, WriteCurveFails,
            VerifyFanCurveActive, WriteLimit, WriteLimitFails, CheckFanFloorRelease,
            RefuseRelease, Release, ReleaseFails, ChooseRestore, ReconcileCurve, Commit,
            Save, SaveFails

\* A step of such a call: the floor first, then the limit.
LEMMA ClaimsFlooredSafe ==
  ASSUME IInv, HardwareStep \/ StateStep, ClaimsFloored
  PROVE  FailInv'
<1> DEFINE k == Head(todo)
<1>1. /\ k \in ClaimCall /\ k \in MustCall /\ Claims(Tail(todo)) /\ TypeOK
      /\ MinimumOnFans \/ (inForce <= TDPMaxSafe /\ (Now.do = "curve" \/ RaisesNothing(k)))
  BY DEF ClaimsFloored, ClaimCall, IInv
<1>2. /\ Now = k[1] /\ k[1] \in MustStep /\ Len(k) \in Nat \ {0} /\ k \in Seq(MustStep)
      /\ k[1].do = "limit" => Len(k) = 1
      /\ Len(k) > 1 => Tail(k) \in MustCall
  <2> HIDE DEF k
  <2> QED BY <1>1, MustCalls DEF Now, k
<1> HIDE DEF k
<1>3. /\ Now.do \in {"curve", "verify", "limit"} /\ Now.must /\ Now \in GoodStep
      /\ Now.do = "curve" => MeetsFloor(Now.curve)
      /\ RaisesNothing(k) => ~High(Now)
  <2>1. 1 \in 1..Len(k)
    BY <1>2
  <2>2. \A i \in 1..Len(k) : k[i].do = "curve" => MeetsFloor(k[i].curve)
    BY <1>1 DEF ClaimCall
  <2> QED BY <1>2, <2>1, <2>2 DEF MustStep, RaisesNothing
<1>4. WriteCurve \/ WriteCurveFails \/ VerifyFanCurveActive \/ WriteLimit \/ WriteLimitFails
  BY <1>3 DEF HardwareStep, StateStep, Doing, CheckFanFloorRelease, RefuseRelease, Release,
         ReleaseFails, WriteProfile, WriteProfileFails, ChooseRestore, ReconcileCurve,
         Commit, Save, SaveFails
<1>5. /\ MinimumOnFans => MinimumOnFans'
      /\ WriteCurve => MinimumOnFans'
  <2>1. WriteCurve \/ WriteCurveFails => MeetsFloor(Now.curve)
    BY <1>3 DEF WriteCurve, WriteCurveFails, Doing
  <2> QED BY <1>1, <1>3, <2>1, MinimumKept
<1>6. /\ Now.do = "limit" => inForce' \in {inForce, Now.watts}
      /\ Now.do # "limit" => inForce' = inForce
  BY <1>4 DEF WriteCurve, WriteCurveFails, VerifyFanCurveActive, WriteLimit,
              WriteLimitFails, Doing, hardware
<1>7. MinimumOnFans' \/ inForce' <= TDPMaxSafe
  <2>1. CASE Now.do = "limit" /\ ~MinimumOnFans
    <3>1. ~High(Now) /\ Now.watts \in Limit /\ inForce <= TDPMaxSafe
      BY <1>1, <1>3, <2>1, NowTyped
    <3>2. ~(Now.watts > TDPMaxSafe)
      BY <2>1, <3>1 DEF High
    <3> DEFINE w == Now.watts
    <3>3. w \in Limit /\ ~(w > TDPMaxSafe)
      BY <3>1, <3>2
    <3> HIDE DEF w
    <3>4. w <= TDPMaxSafe
      BY <3>3, Bounds
    <3> QED BY <1>6, <2>1, <3>1, <3>4 DEF w
  <2>2. CASE Now.do # "limit" /\ ~MinimumOnFans
    BY <1>1, <1>6, <2>2
  <2> QED BY <1>5, <2>1, <2>2
<1>8. CASE Failed
  <2>1. todo' = <<>>
    BY <1>3, <1>8 DEF Failed
  <2> QED BY <1>7, <2>1, QueueParts DEF FailInv, Holds, StaysLow
<1>9. CASE ~Failed
  <2>1. Done /\ (WriteCurve \/ VerifyFanCurveActive \/ WriteLimit)
    BY <1>4, <1>9 DEF WriteCurve, WriteCurveFails, VerifyFanCurveActive, WriteLimit,
                      WriteLimitFails
  <2>2. CASE Len(k) = 1
    <3>1. todo' = Tail(todo)
      BY <2>1, <2>2 DEF Done, k
    <3> QED BY <1>1, <3>1 DEF FailInv, Claims
  <2>3. CASE Len(k) # 1
    <3>1. todo' = <<Tail(k)>> \o Tail(todo) /\ Len(k) > 1 /\ Tail(k) \in MustCall
      BY <1>2, <2>1, <2>3 DEF Done, k
    <3>2. /\ Tail(k) \in Seq(GoodStep) /\ Tail(k) # <<>> /\ k \in Seq(GoodStep)
          /\ Tail(todo) \in Queue(GoodStep)
      <4>1. Tail(todo) \in Queue(KeepsCustom)
        BY <1>1 DEF Claims
      <4>2. KeepsCustom \subseteq GoodStep
        BY KeepsCustomSteps
      <4>3. Tail(todo) \in Queue(GoodStep)
        BY <4>1, <4>2, QueueWiden
      <4>4. MustStep \subseteq GoodStep
        BY DEF MustStep
      <4>5. /\ k \in Seq(MustStep)
            /\ Tail(k) \in Seq(MustStep) /\ Tail(k) # <<>>
        BY <1>2, <3>1 DEF MustCall
      <4>6. \A q \in Seq(MustStep) : q \in Seq(GoodStep)
        BY <4>4
      <4> HIDE DEF k
      <4> QED BY <4>3, <4>5, <4>6
    <3>3. todo' # <<>> /\ Head(todo') = Tail(k) /\ Tail(todo') = Tail(todo)
      BY <3>1, <3>2, QueueFirst
    <3>4. /\ Len(Tail(k)) = Len(k) - 1
          /\ \A i \in 1..(Len(k) - 1) : Tail(k)[i] = k[i + 1]
      BY <3>1, <3>2, CallRest
    <3>5. ASSUME NEW i \in 1..Len(Tail(k)) PROVE \E j \in 1..Len(k) : Tail(k)[i] = k[j]
      <4>1. i + 1 \in 1..Len(k) /\ Tail(k)[i] = k[i + 1]
        BY <1>2, <3>4
      <4> QED BY <4>1
    <3>6. Tail(k) \in ClaimCall /\ (RaisesNothing(k) => RaisesNothing(Tail(k)))
      BY <1>1, <3>1, <3>5 DEF ClaimCall, RaisesNothing
    <3>7. MinimumOnFans' \/ (inForce' <= TDPMaxSafe /\ RaisesNothing(Tail(k)))
      <4>1. Now.do # "limit"
        BY <1>2, <2>3
      <4>2. Now.do = "curve" => WriteCurve
        BY <2>1, <4>1 DEF VerifyFanCurveActive, WriteLimit, Doing
      <4> QED BY <1>1, <1>5, <1>6, <3>6, <4>1, <4>2
    <3>8. ClaimsFloored'
      BY <1>1, <3>3, <3>6, <3>7 DEF ClaimsFloored, Claims
    <3> QED BY <3>8 DEF FailInv
  <2> QED BY <2>2, <2>3
<1> QED BY <1>8, <1>9

LEMMA FailStepSafe ==
  ASSUME IInv, HardwareStep \/ StateStep, FailInv
  PROVE  FailInv'
BY LowStays, HoldsSafe, StaysCustomSafe, LandsSafelySafe, ClaimsFlooredSafe, ClaimsSafe
   DEF FailInv

\* Nothing under way: what the invariant says then.
LEMMA FailIdle ==
  ASSUME FailInv, todo = <<>>
  PROVE  active \in StockProfiles => inForce <= TDPMaxSafe \/ MinimumOnFans
BY DEF FailInv, StaysLow, Holds, StaysCustom, LandsSafely, ClaimsFloored, Claims

\* An operation that begins with what each of the three situations allows.
LEMMA FailBegins ==
  ASSUME FailInv, todo = <<>>, UNCHANGED <<active, inForce, fan>>,
         active \notin StockProfiles => todo' \in Queue(KeepsCustom),
         (active \in StockProfiles /\ inForce <= TDPMaxSafe) => todo' \in Queue(LowStep),
         (active \in StockProfiles /\ ~(inForce <= TDPMaxSafe)) => todo' \in Queue(HoldStep)
  PROVE  FailInv'
<1>1. MinimumOnFans => MinimumOnFans'
  BY DEF MinimumOnFans
<1> QED BY <1>1, FailIdle DEF FailInv, StaysLow, Holds, StaysCustom

LEMMA HighCache ==
  ASSUME IInv, ~(inForce <= TDPMaxSafe)
  PROVE  cache \in Limit /\ ~(cache <= TDPMaxSafe)
<1>1. cache \in Limit /\ inForce \in Limit
  BY DEF IInv, TypeOK
<1>2. inForce > TDPMaxSafe
  BY <1>1, Bounds
<1>3. cache = inForce
  BY <1>2 DEF IInv, HighLimitShown
<1> QED BY <1>1, <1>3

LEMMA LandFails ==
  ASSUME FailInv, todo = <<>>, UNCHANGED <<active, inForce, fan>>,
         NEW p \in StockProfiles, NEW n \in MaybeProfile, todo' = Land(p, n)
  PROVE  FailInv'
<1>1. LowersFirst(todo') /\ Head(Head(todo')).do = "profile" /\ Head(Head(todo')).must
  BY LandsLow
<1>2. todo' # <<>> /\ todo' \in Queue(LowStep)
  BY <1>1 DEF LowersFirst
<1>3. MinimumOnFans => MinimumOnFans'
  BY DEF MinimumOnFans
<1> QED BY <1>1, <1>2, <1>3, FailIdle DEF FailInv, StaysLow, LandsSafely, Now

LEMMA SetFanCurveFails ==
  ASSUME IInv, FailInv, NEW n \in Names \cup {NoName}, NEW points \in UserCurves,
         SetFanCurve(n, points)
  PROVE  FailInv'
<1>1. UNCHANGED fan
  BY DEF SetFanCurve, hardware
<1>2. ~(inForce <= TDPMaxSafe) => todo' \in Queue(HoldStep)
  <2> SUFFICES ASSUME ~(inForce <= TDPMaxSafe) PROVE todo' \in Queue(HoldStep)
    OBVIOUS
  <2>1. points \in FanCurve /\ points \in MaybeCurve /\ saved[Target(n)].tdp \in Limit
        /\ TRUE \in BOOLEAN
    BY CurveAssumption, EditTarget DEF IInv, MaybeCurve
  <2>2. Live(n) => MeetsFloor(points)
    BY HighCache DEF SetFanCurve, CheckCurveAgainstTDP, FloorLimitFor
  <2>3. Live(n) => CurveStep(points, TRUE) \in HoldStep /\ VerifyStep(TRUE) \in HoldStep
    BY <2>1, <2>2, HoldSteps
  <2>4. Target(n) \in MaybeProfile /\ Activates(n) \in MaybeProfile
    BY EditTarget, Bounds DEF IInv, Activates
  <2>5. /\ CommitStep(Target(n), points, saved[Target(n)].tdp, Activates(n)) \in HoldStep
        /\ Do("save") \in HoldStep
    BY <2>1, <2>4, HoldSteps
  <2> QED BY <2>3, <2>5, SetFanCurveIn
<1> QED BY <1>1, <1>2, SetFanCurveQueues, FailBegins

LEMMA ResetFanCurveFails ==
  ASSUME IInv, FailInv, NEW n \in Names \cup {NoName}, ResetFanCurve(n)
  PROVE  FailInv'
<1>1. UNCHANGED fan
  BY DEF ResetFanCurve, hardware
<1>2. ~(inForce <= TDPMaxSafe) => todo' \in Queue(HoldStep)
  <2> SUFFICES ASSUME ~(inForce <= TDPMaxSafe) PROVE todo' \in Queue(HoldStep)
    OBVIOUS
  <2>1. ~Live(n)
    BY HighCache DEF ResetFanCurve, CheckFanFloorReleaseAt, FloorLimitFor
  <2>2. /\ saved[Target(n)].tdp \in Limit /\ NoCurve \in MaybeCurve
        /\ Target(n) \in MaybeProfile /\ Activates(n) \in MaybeProfile
    BY EditTarget, Bounds DEF IInv, MaybeCurve, Activates
  <2>3. /\ CommitStep(Target(n), NoCurve, saved[Target(n)].tdp, Activates(n)) \in HoldStep
        /\ Do("save") \in HoldStep
    BY <2>2, HoldSteps
  <2> QED BY <2>1, <2>3, ResetFanCurveIn
<1> QED BY <1>1, <1>2, ResetFanCurveQueues, FailBegins

\* ApplyTDPSafely is a call that makes way for a custom profile.
LEMMA ApplyClaims ==
  ASSUME NEW w \in Limit, NEW want \in MaybeCurve
  PROVE  /\ ApplyTDPSafely(w, want, TRUE) \in ClaimCall
         /\ \/ Head(ApplyTDPSafely(w, want, TRUE)).do = "curve"
            \/ RaisesNothing(ApplyTDPSafely(w, want, TRUE))
<1> DEFINE k == ApplyTDPSafely(w, want, TRUE)
<1>1. k \in MustCall
  BY ApplyMust
<1>2. /\ k \in Seq(FloorStep)
      /\ w <= TDPMaxSafe => k \in Seq(LowStep)
      /\ w > TDPMaxSafe => Head(k).do = "curve"
  BY ApplyFirst
<1> HIDE DEF k
<1>3. \A i \in 1..Len(k) : k[i].do = "curve" => MeetsFloor(k[i].curve)
  BY <1>2 DEF FloorStep
<1>4. w <= TDPMaxSafe => RaisesNothing(k)
  BY <1>2 DEF RaisesNothing, LowStep
<1>5. w <= TDPMaxSafe \/ w > TDPMaxSafe
  BY Bounds
<1> QED BY <1>1, <1>2, <1>3, <1>4, <1>5 DEF ClaimCall, k

LEMMA SetTDPFails ==
  ASSUME IInv, FailInv, NEW n \in Names \cup {NoName}, NEW w \in Watts, NEW pl1,
         SetTDP(n, w, pl1)
  PROVE  FailInv'
<1> DEFINE c == saved[Target(n)].curve
<1>1. UNCHANGED fan
  BY DEF SetTDP, hardware
<1>2. w \in Limit /\ c \in MaybeCurve /\ c = saved[Target(n)].curve
  BY PowerAssumption, EditTarget, Bounds DEF IInv, TDPMin, TDPMaxForced
<1> HIDE DEF c
<1>3. CASE active \notin StockProfiles
  BY <1>1, <1>3, SetTDPQueues, FailBegins
<1>4. CASE active \in StockProfiles /\ ~Live(n)
  <2>1. Target(n) \in MaybeProfile /\ Activates(n) \in MaybeProfile
    BY EditTarget, Bounds DEF IInv, Activates
  <2>2. CommitStep(Target(n), c, w, Activates(n)) \in HoldStep /\ Do("save") \in HoldStep
    BY <1>2, <2>1, HoldSteps
  <2>3. todo' \in Queue(HoldStep)
    BY <1>2, <1>4, <2>2, SetTDPIn
  <2> QED BY <1>1, <1>4, <2>3, SetTDPQueues, FailBegins
<1>5. CASE active \in StockProfiles /\ Live(n)
  <2> DEFINE k == ApplyTDPSafely(w, c, TRUE)
  <2>1. /\ todo = <<>> /\ UNCHANGED <<active, inForce>>
        /\ todo' # <<>> /\ Claims(Tail(todo')) /\ Head(todo') = k
    BY <1>2, <1>5, SetTDPQueues
  <2>2. k \in ClaimCall /\ (Head(k).do = "curve" \/ RaisesNothing(k))
    BY <1>2, ApplyClaims
  <2> HIDE DEF k
  <2>3. MinimumOnFans' \/ inForce' <= TDPMaxSafe
    BY <1>1, <1>5, <2>1, FailIdle DEF MinimumOnFans
  <2>4. ClaimsFloored'
    BY <2>1, <2>2, <2>3 DEF ClaimsFloored, Claims, Now
  <2> QED BY <2>4 DEF FailInv
<1> QED BY <1>3, <1>4, <1>5

LEMMA ResetTDPFails ==
  ASSUME IInv, FailInv, NEW n \in Names \cup {NoName}, ResetTDP(n)
  PROVE  FailInv'
<1>1. todo = <<>> /\ UNCHANGED <<active, inForce, fan>>
  BY DEF ResetTDP, Idle, memory, hardware
<1>2. CASE Live(n)
  <2> DEFINE m == IF Implicit(n) THEN NoName ELSE Target(n)
  <2>1. m \in MaybeProfile /\ "balanced" \in StockProfiles
    BY EditTarget, ProfileAssumption DEF IInv
  <2>2. todo' = Land("balanced", m)
    BY <1>2, ResetTDPIn
  <2> HIDE DEF m
  <2> QED BY <1>1, <2>1, <2>2, LandFails
<1>3. CASE ~Live(n)
  <2>1. n \in Names /\ Target(n) = n /\ Activates(n) = NoName
    BY <1>3 DEF Live, Target, Activates
  <2>2. saved[n].curve \in MaybeCurve /\ 0 \in Limit /\ n \in MaybeProfile
        /\ NoName \in MaybeProfile
    BY <2>1, EditTarget, Bounds DEF IInv
  <2>3. /\ CommitStep(n, saved[n].curve, 0, NoName) \in KeepsCustom
        /\ CommitStep(n, saved[n].curve, 0, NoName) \in LowStep
    BY <2>1, <2>2, EditKeeps
  <2>4. CommitStep(n, saved[n].curve, 0, NoName) \in HoldStep /\ Do("save") \in HoldStep
    BY <2>2, HoldSteps
  <2>5. Do("save") \in KeepsCustom /\ Do("save") \in LowStep
    BY LowSteps, EditSteps, KeepsCustomSteps
  <2>6. todo' \in Queue(KeepsCustom) /\ todo' \in Queue(LowStep) /\ todo' \in Queue(HoldStep)
    BY <1>3, <2>3, <2>4, <2>5, ResetTDPIn, CommitIn
  <2> QED BY <1>1, <2>6, FailBegins
<1> QED BY <1>2, <1>3

LEMMA UserFails ==
  ASSUME IInv, FailInv, UserOperation
  PROVE  FailInv'
<1>1. ASSUME NEW p \in StockProfiles, SelectStock(p) PROVE FailInv'
  <2>1. todo = <<>> /\ UNCHANGED <<active, inForce, fan>>
    BY <1>1 DEF SelectStock, Idle, memory, hardware
  <2> QED BY <1>1, <2>1, SelectStockIn, LandFails, Bounds
<1>2. ASSUME NEW n \in Names, SelectCustom(n) PROVE FailInv'
  BY <1>2, SelectsCustom DEF FailInv
<1> QED BY <1>1, <1>2, SetFanCurveFails, ResetFanCurveFails, SetTDPFails, ResetTDPFails
        DEF UserOperation

LEMMA TickFails ==
  ASSUME IInv, FailInv, ReconcileTick
  PROVE  FailInv'
<1>1. UNCHANGED fan
  BY DEF ReconcileTick, hardware
<1>2. CASE active \in Names
  BY <1>1, <1>2, TickQueues, FailBegins, ProfileAssumption
<1>3. CASE active \notin Names
  BY <1>1, <1>3, TickQueues, FailBegins, QueueParts
<1> QED BY <1>2, <1>3

LEMMA FailStays ==
  ASSUME UNCHANGED <<todo, active>>, inForce' = inForce \/ inForce' <= TDPMaxSafe,
         MinimumOnFans => MinimumOnFans', FailInv
  PROVE  FailInv'
BY DEF FailInv, StaysLow, Holds, StaysCustom, LandsSafely, ClaimsFloored, Claims, Now

\* The restart that is excepted: it lands on a firmware profile and finds a
\* high limit without its floor's minimum, left by an operation that was killed.
LandsHeld ==
  (RestartDaemon /\ active' \in StockProfiles) => inForce <= TDPMaxSafe \/ MinimumOnFans'

LEMMA StartFails ==
  ASSUME IInv, RestartDaemon \/ Reboot, LandsHeld
  PROVE  FailInv'
<1>1. PICK target \in AutoTargets \cup {NoName} : StartDaemon(target)
  BY DEF RestartDaemon, Reboot
<1> DEFINE act == IF AutoswitchTarget(disk, target) THEN target ELSE disk.active
<1>2. /\ active' = act /\ platform' \in StockProfiles
      /\ disk.saved \in [Names -> Settings]
      /\ (act \notin StockProfiles /\ act \in Names /\ disk.saved[act] # Nothing) =>
           todo' = ApplyCustomHW(disk.saved[act], platform')
      /\ (act \notin StockProfiles /\ ~(act \in Names /\ disk.saved[act] # Nothing)) =>
           todo' = <<>>
  BY <1>1, StartCalls
<1>3. act \in StockProfiles => todo' \in Queue(LowStep) /\ todo' \in Queue(HoldStep)
  <2> SUFFICES ASSUME act \in StockProfiles
               PROVE  todo' \in Queue(LowStep) /\ todo' \in Queue(HoldStep)
    OBVIOUS
  <2>1. /\ 0 \in Limit /\ FALSE \in BOOLEAN
        /\ Firmware[act] \in Limit /\ Firmware[act] <= TDPMaxSafe
    BY Bounds, FirmwareLow
  <2>2. act = IF AutoswitchTarget(disk, target) THEN target ELSE disk.active
    OBVIOUS
  <2> HIDE DEF act
  <2>3. /\ ProfileStep(act, FALSE) \in LowStep /\ RestoreStep(act) \in LowStep
        /\ Do("save") \in LowStep /\ LimitStep(Firmware[act], FALSE) \in LowStep
        /\ Do("guard") \in LowStep /\ ReleaseStep(0, FALSE) \in LowStep
    BY <2>1, LowSteps
  <2>4. /\ ProfileStep(act, FALSE) \in HoldStep /\ RestoreStep(act) \in HoldStep
        /\ Do("save") \in HoldStep /\ LimitStep(Firmware[act], FALSE) \in HoldStep
        /\ Do("guard") \in HoldStep /\ ReleaseStep(0, FALSE) \in HoldStep
    BY <2>1, HoldSteps
  <2> QED BY <1>1, <2>2, <2>3, <2>4, StockStart
<1> HIDE DEF act
<1>4. CASE act \in StockProfiles /\ RestartDaemon
  <2>1. inForce <= TDPMaxSafe \/ MinimumOnFans'
    BY <1>2, <1>4 DEF LandsHeld
  <2>2. inForce' = inForce
    BY <1>4 DEF RestartDaemon
  <2> QED BY <1>3, <1>4, <2>1, <2>2 DEF FailInv, StaysLow, Holds
<1>5. CASE act \in StockProfiles /\ Reboot
  <2>1. inForce' <= TDPMaxSafe
    BY <1>2, <1>5, FirmwareLow DEF Reboot
  <2> QED BY <1>3, <1>5, <2>1 DEF FailInv, StaysLow
<1>6. CASE act \notin StockProfiles /\ act \in Names /\ disk.saved[act] # Nothing
  <2>1. disk.saved[act] \in Settings /\ todo' = ApplyCustomHW(disk.saved[act], platform')
    BY <1>2, <1>6
  <2>2. todo' \in Queue(KeepsCustom)
    BY <1>2, <2>1, ApplyCustomEdits, KeepsCustomSteps, QueueWiden
  <2> QED BY <1>2, <1>6, <2>2 DEF FailInv, StaysCustom
<1>7. CASE act \notin StockProfiles /\ ~(act \in Names /\ disk.saved[act] # Nothing)
  BY <1>2, <1>7, QueueParts DEF FailInv, StaysCustom
<1> QED BY <1>4, <1>5, <1>6, <1>7

LEMMA FailInitially == Init => FailInv
<1> SUFFICES ASSUME Init PROVE FailInv
  OBVIOUS
<1>1. todo = <<>> /\ inForce = Firmware[platform] /\ platform \in StockProfiles
  BY DEF Init
<1> QED BY <1>1, FirmwareLow, QueueParts DEF FailInv, StaysLow

LEMMA FailInductive == IInv /\ FailInv /\ [Next]_vars /\ [LandsHeld]_vars => FailInv'
<1> SUFFICES ASSUME IInv, FailInv, [Next]_vars, [LandsHeld]_vars PROVE FailInv'
  OBVIOUS
<1>1. CASE HardwareStep \/ StateStep
  BY <1>1, FailStepSafe
<1>2. CASE ReconcileTick
  BY <1>2, TickFails
<1>3. CASE Notify \/ StartWatchers \/ UNCHANGED vars
  <2>1. UNCHANGED <<todo, active, inForce, fan>>
    BY <1>3 DEF Notify, StartWatchers, vars, hardware, memory
  <2> QED BY <2>1, FailStays DEF MinimumOnFans
<1>4. CASE UserOperation
  BY <1>4, UserFails
<1>5. CASE (RestartDaemon \/ Reboot) /\ ~UNCHANGED vars
  BY <1>5, StartFails
<1>6. CASE Environment /\ ~RestartDaemon /\ ~Reboot
  BY <1>6, OutsideLow, OutsidePoints, SamePoints, FailStays
<1> QED BY <1>1, <1>2, <1>3, <1>4, <1>5, <1>6 DEF Next, Daemon, Environment

\* Whatever write fails, and wherever: between operations a firmware profile
\* that is left on a high limit runs neither fan below HighTDPMinPWM
\* (SetBothFanCurves, SetTDPState, handleTDP, applyStockHW), wherever among a
\* fan's registers a curve write stopped - with edits, outside writes, boots, pl1 = 0 and
\* restarts, but for a restart that lands on a firmware profile under a high
\* limit that has lost the minimum, and cannot lower it.
THEOREM FailuresKeepTheMinimum == Spec /\ [][LandsHeld]_vars => []StockHeld
<1>1. IInv /\ FailInv => StockHeld
  <2> SUFFICES ASSUME IInv, FailInv, Idle, active \in StockProfiles, inForce > TDPMaxSafe
               PROVE  MinimumOnFans
    BY DEF StockHeld, MinimumOnFans
  <2>1. ~(inForce <= TDPMaxSafe)
    BY Bounds DEF IInv, TypeOK
  <2> QED BY <2>1, FailIdle DEF Idle
<1>2. IInv /\ FailInv /\ [Next]_vars /\ [LandsHeld]_vars => FailInv'
  BY FailInductive
<1> QED BY <1>1, <1>2, FailInitially, Invariance, PTL DEF Spec

\* A daemon that is not restarted is no exception.
THEOREM StockAlwaysHeld == Restarts = FALSE /\ Spec => []StockHeld
<1> SUFFICES ASSUME Restarts = FALSE PROVE Spec => []StockHeld
  OBVIOUS
<1>1. [Next]_vars => [LandsHeld]_vars
  BY DEF LandsHeld, RestartDaemon
<1>2. Spec /\ [][LandsHeld]_vars => []StockHeld
  BY FailuresKeepTheMinimum
<1> QED BY <1>1, <1>2, PTL DEF Spec

=============================================================================
