------------------------- MODULE SleepCycle_proofs -------------------------
(***************************************************************************)
(* Suspend and resume, for any profiles and what they set, any tick        *)
(* budgets, any number of suspends, and whatever signals are lost, locks   *)
(* refused and fan accesses failed.                                        *)
(***************************************************************************)
EXTENDS SleepCycle, TLAPS

-----------------------------------------------------------------------------
(* The inductive invariant.                                                *)

\* The type invariant, by kind of data.
Words ==
  /\ phase \in {"awake", "delaying", "asleep"}
  /\ ec \in {"reads", "fails", "gone"}
  /\ {lock, offset, cancelled, hadBattery,
      suspending, ecWedged, policyWritten} \subseteq BOOLEAN
  /\ loop \in {"listen", "settle", "release", "lower", "free", "unlock", "resettle"}
  /\ restore \in {"none", "waiting", "verdict", "applying"}
  /\ status \in {"ready", "absent", "wedged"}
  /\ active \in Profiles
  /\ disturbed \subseteq {"unheard", "unarmed", "midway", "overtaken", "ceiling"}

Channel == signals \in Seq(BOOLEAN) /\ Len(signals) <= 4
Fans == mode \in 0..2 /\ {limit, inForce} \subseteq 0..TDPMaxForced
Counted == {suspendGen, tickGen, sleeps} \subseteq 0..MaxSleeps
Ticked == ticks \in 0..(StandDownTicks - 1) /\ left \in 0..(DelayTicks + WaitTicks)

\* The announcements of a suspend that are still to be dealt with: a suspend
\* is at most one generation.
Pending(s, i) == IF i <= Len(s) /\ s[i] THEN 1 ELSE 0
Count(s) == Pending(s, 1) + Pending(s, 2) + Pending(s, 3) + Pending(s, 4)
Hearing == IF loop \in {"settle", "release"} THEN 1 ELSE 0
Generations == suspendGen + Count(signals) + Hearing <= sleeps

\* The release and the restore never hold hwMu together.
OneHolder == ~(loop \in {"lower", "free"} /\ restore = "applying")

\* What the firmware enforces is what was written last, or its own limit.
LimitKnown == inForce \in {limit, Row}
FreeIsSafe == loop = "free" => inForce <= TDPMaxSafe

\* A freeze between the verdict and the writes is told by disturbed.
Overslept == phase = "asleep" /\ restore \in {"verdict", "applying"} => "midway" \in disturbed

\* A verdict in favour of restoring stays good until it is acted on.
Answered ==
  /\ restore = "applying" => status = "ready"
  /\ restore \in {"verdict", "applying"} /\ status # "wedged" =>
       ec = "reads" \/ ~hadBattery \/ "midway" \in disturbed

\* How far the loop is with a suspend it was told of: the announcement is the
\* last in the channel, and from the release on no restore is left, the
\* watcher stands down and the fans are free.
Told == phase = "delaying" /\ "unheard" \notin disturbed
LastTold == Told /\ signals # <<>> => signals[Len(signals)]
Settling ==
  Told /\ signals = <<>> =>
    /\ loop # "resettle"
    /\ loop # "settle" => restore = "none"
    /\ loop \in {"lower", "free"} => suspending
Quieted ==
  Told /\ signals = <<>> /\ loop \in {"unlock", "listen"} /\ ~Excused /\ Owned /\ ~ecWedged =>
    mode # 1 /\ suspending
Released == LastTold /\ Settling /\ Quieted

IInv ==
  /\ TypeOK /\ Generations
  /\ OneHolder /\ LimitKnown /\ FreeIsSafe
  /\ Overslept /\ Answered

LEMMA TypeParts == TypeOK <=> Words /\ Channel /\ Fans /\ Counted /\ Ticked
  BY DEF TypeOK, Words, Channel, Fans, Counted, Ticked

-----------------------------------------------------------------------------
(* The constants.                                                          *)

LEMMA WantsTyped ==
  ASSUME NEW p \in Custom
  PROVE  /\ Wants[p].curve \in BOOLEAN /\ Wants[p].offset \in BOOLEAN
         /\ Wants[p].tdp \in 0..TDPMaxForced
         /\ WantsFans(p) \in BOOLEAN
  BY SleepAssumption DEF WantsFans

LEMMA RowTyped ==
  /\ Row \in 0..TDPMaxForced /\ Row <= TDPMaxSafe /\ Row \in Int
  /\ TDPMaxSafe \in 0..TDPMaxForced
  BY SleepAssumption DEF TDPMaxSafe, TDPMaxForced

LEMMA BoundsTyped ==
  /\ MaxSleeps \in Nat /\ DelayTicks \in Nat /\ WaitTicks \in Nat /\ StandDownTicks \in Nat
  /\ StandDownTicks > 0
  BY SleepAssumption

-----------------------------------------------------------------------------
(* The channel.                                                            *)

\* What the channel carries, kept opaque to the provers.
Bits == BOOLEAN

LEMMA AppendIs ==
  ASSUME NEW s \in Seq(Bits), NEW v \in Bits
  PROVE  /\ Len(s) \in Nat
         /\ Append(s, v) \in Seq(Bits) /\ Len(Append(s, v)) = Len(s) + 1 /\ Append(s, v) # <<>>
         /\ \A i \in 1..Len(s) : Append(s, v)[i] = s[i]
         /\ Append(s, v)[Len(s) + 1] = v
  OBVIOUS

LEMMA TailIs ==
  ASSUME NEW s \in Seq(Bits), s # <<>>
  PROVE  /\ Len(s) \in Nat \ {0}
         /\ Tail(s) \in Seq(Bits) /\ Len(Tail(s)) = Len(s) - 1
         /\ \A i \in 1..Len(s) - 1 : Tail(s)[i] = s[i + 1]
         /\ Head(s) = s[1]
         /\ Tail(s) = <<>> <=> Len(s) = 1
<1>1. Len(s) \in Nat \ {0}
  OBVIOUS
<1>2. Tail(s) \in Seq(Bits) /\ Len(Tail(s)) = Len(s) - 1
  OBVIOUS
<1>3. \A i \in 1..Len(s) - 1 : Tail(s)[i] = s[i + 1]
  OBVIOUS
<1>4. Tail(s) = <<>> <=> Len(Tail(s)) = 0
  <2> DEFINE t == Tail(s)
  <2>1. t \in Seq(Bits)
    OBVIOUS
  <2> HIDE DEF t
  <2>2. t = <<>> <=> Len(t) = 0
    BY <2>1
  <2> QED BY <2>2 DEF t
<1> QED BY <1>1, <1>2, <1>3, <1>4

LEMMA PendingTyped ==
  ASSUME NEW s, NEW i
  PROVE  Pending(s, i) \in 0..1
  BY DEF Pending

LEMMA Appended ==
  ASSUME NEW s \in Seq(Bits), Len(s) < 4, NEW v \in Bits
  PROVE  /\ Append(s, v) \in Seq(Bits) /\ Len(Append(s, v)) <= 4
         /\ Append(s, v) # <<>>
         /\ Append(s, v)[Len(Append(s, v))] = v
         /\ Count(Append(s, v)) = Count(s) + IF v THEN 1 ELSE 0
<1> DEFINE t == Append(s, v)
           n == Len(s)
           bit == IF v THEN 1 ELSE 0
<1>1. n \in Nat /\ Len(t) = n + 1 /\ t \in Seq(Bits) /\ t # <<>>
  BY AppendIs
<1>2. (\A i \in 1..n : t[i] = s[i]) /\ t[n + 1] = v
  BY AppendIs
<1>3. n < 4
  OBVIOUS
<1> HIDE DEF t
<1>4. \A i \in 1..4 : i > n => Pending(s, i) = 0
  BY <1>1 DEF Pending
<1> HIDE DEF n
<1>5. n \in 0..3
  BY <1>1, <1>3
<1>6. \A i \in 1..4 : i <= n => Pending(t, i) = Pending(s, i)
  <2>1. \A i \in 1..4 : i <= n => i <= Len(t) /\ i <= Len(s) /\ t[i] = s[i]
    BY <1>1, <1>2, <1>5 DEF n
  <2> QED BY <2>1 DEF Pending
<1>7. Pending(t, n + 1) = bit
  <2>1. n + 1 <= Len(t) /\ t[n + 1] = v
    BY <1>1, <1>2
  <2> QED BY <2>1 DEF Pending
<1>8. \A i \in 1..4 : i > n + 1 => Pending(t, i) = 0
  BY <1>1, <1>5 DEF Pending
<1>9. bit \in 0..1
  OBVIOUS
<1> HIDE DEF bit
<1>10. Count(t) = Count(s) + bit
  <2>1. /\ Pending(s, 1) \in 0..1 /\ Pending(s, 2) \in 0..1
        /\ Pending(s, 3) \in 0..1 /\ Pending(s, 4) \in 0..1
    BY PendingTyped
  <2>2. n = 0 \/ n = 1 \/ n = 2 \/ n = 3
    BY <1>5
  <2> QED BY <1>4, <1>6, <1>7, <1>8, <1>9, <2>1, <2>2 DEF Count
<1>11. Len(t) <= 4
  BY <1>1, <1>5
<1>12. t[Len(t)] = v
  BY <1>1, <1>2
<1> QED BY <1>1, <1>10, <1>11, <1>12 DEF t, bit

LEMMA Tailed ==
  ASSUME NEW s \in Seq(Bits), Len(s) <= 4, s # <<>>
  PROVE  /\ Tail(s) \in Seq(Bits) /\ Len(Tail(s)) <= 4
         /\ Count(s) = Count(Tail(s)) + IF Head(s) THEN 1 ELSE 0
         /\ Tail(s) # <<>> => Tail(s)[Len(Tail(s))] = s[Len(s)]
         /\ Tail(s) = <<>> => Head(s) = s[Len(s)]
<1> DEFINE t == Tail(s)
           n == Len(s)
           bit == IF Head(s) THEN 1 ELSE 0
<1>1. n \in Nat \ {0} /\ Len(t) = n - 1 /\ t \in Seq(Bits)
  BY TailIs
<1>2. \A i \in 1..n - 1 : t[i] = s[i + 1]
  BY TailIs
<1>3. Head(s) = s[1] /\ (t = <<>> <=> n = 1)
  BY TailIs
<1>4. n <= 4
  OBVIOUS
<1> HIDE DEF t
<1>5. Pending(s, 1) = bit
  <2>1. 1 <= Len(s)
    BY <1>1
  <2> QED BY <1>3, <2>1 DEF Pending
<1> HIDE DEF n
<1>6. n \in 1..4
  BY <1>1, <1>4
<1>7. \A i \in 1..3 : Pending(t, i) = Pending(s, i + 1)
  <2>1. \A i \in 1..3 : (i <= Len(t) <=> i + 1 <= Len(s)) /\ (i <= Len(t) => t[i] = s[i + 1])
    BY <1>1, <1>2, <1>6 DEF n
  <2> QED BY <2>1 DEF Pending
<1>8. Pending(t, 4) = 0
  BY <1>1, <1>6 DEF Pending
<1>9. bit \in 0..1
  BY <1>5, PendingTyped
<1> HIDE DEF bit
<1>10. Count(s) = Count(t) + bit
  <2>1. Pending(s, 2) \in 0..1 /\ Pending(s, 3) \in 0..1 /\ Pending(s, 4) \in 0..1
    BY PendingTyped
  <2>2. Pending(t, 1) = Pending(s, 2) /\ Pending(t, 2) = Pending(s, 3) /\ Pending(t, 3) = Pending(s, 4)
    BY <1>7
  <2> QED BY <1>5, <1>8, <1>9, <2>1, <2>2 DEF Count
<1>11. Len(t) <= 4
  BY <1>1, <1>6
<1>12. t # <<>> => t[Len(t)] = s[n]
  <2>1. t # <<>> => n - 1 \in 1..n - 1 /\ (n - 1) + 1 = n
    BY <1>3, <1>6
  <2> QED BY <1>1, <1>2, <2>1
<1>13. t = <<>> => Head(s) = s[n]
  BY <1>3
<1> QED BY <1>1, <1>10, <1>11, <1>12, <1>13 DEF t, n, bit

LEMMA CountTyped ==
  ASSUME NEW s
  PROVE  Count(s) \in 0..4
<1>1. /\ Pending(s, 1) \in 0..1 /\ Pending(s, 2) \in 0..1
      /\ Pending(s, 3) \in 0..1 /\ Pending(s, 4) \in 0..1
  BY PendingTyped
<1> QED BY <1>1 DEF Count

-----------------------------------------------------------------------------
(* Types.                                                                  *)

\* Environment, by its actions.
LEMMA EnvironmentSplit ==
  ASSUME Environment
  PROVE  \/ Suspend \/ Freeze \/ Wake \/ GiveUpSuspend \/ ECAnswers \/ OutsideFans
         \/ \E p \in Profiles : HandleProfile(p) \/ Autoswitch(p)
  BY SleepAssumption DEF Environment, Profiles

\* The steps that write no hardware.
Quiet ==
  \/ HearSleep \/ SettleForSleep \/ ObserveForSleep \/ ReleaseFails \/ Unlock \/ HearResume
  \/ StartRestore \/ AbandonRestore \/ WaitOver \/ LatchEC \/ StandDown
  \/ Suspend \/ Freeze \/ GiveUpSuspend \/ ECAnswers

LEMMA QuietHardware ==
  ASSUME Quiet
  PROVE  UNCHANGED hardware
  BY DEF Quiet, HearSleep, SettleForSleep, ObserveForSleep, ReleaseFails, Unlock, HearResume, StartRestore,
         AbandonRestore, WaitOver, LatchEC, StandDown, Suspend, Freeze, GiveUpSuspend, ECAnswers

LEMMA ApplyWords ==
  ASSUME NEW p \in Profiles, Words, Apply(p)
  PROVE  offset' \in BOOLEAN /\ policyWritten' \in BOOLEAN
  BY WantsTyped DEF Words, Apply, Profiles, FirmwareAuto

LEMMA WordsStep ==
  ASSUME Words, [Next]_vars
  PROVE  Words'
<1> USE DEF machine, logind, hardware, watch, wait, flags, tick
<1>1. CASE SleepLoop
  BY <1>1 DEF Words, SleepLoop, HearSleep, Hear, SettleForSleep, ObserveForSleep, LowerLimit, FreeFans,
    ReleaseFails, Unlock, HearResume, StartRestore, TakenLock, SleepTick, FirmwareAuto
<1>3. CASE Resume
  <2>1. CASE AbandonRestore
   BY <2>1 DEF Words, AbandonRestore
  <2>2. CASE WaitOver
   BY <2>2 DEF Words, WaitOver,  ECStatusAfterSleep, ProbeEC
  <2>3. CASE LatchEC
   BY <2>3 DEF Words, LatchEC
  <2>4. CASE RestoreProfile
    <3>1. active \in Profiles
      BY DEF Words
    <3>2. offset' \in BOOLEAN /\ policyWritten' \in BOOLEAN
     BY <2>4, <3>1, ApplyWords DEF RestoreProfile
    <3> QED BY <2>4, <3>2 DEF RestoreProfile, Words
  <2> QED BY <1>3, <2>1, <2>2, <2>3, <2>4 DEF Resume
<1>4. CASE Watcher
  <2>1. CASE RecoverEC
    <3>1. active \in Profiles
      BY DEF Words
    <3>2. offset' \in BOOLEAN /\ policyWritten' \in BOOLEAN
     BY <2>1, <3>1, ApplyWords DEF RecoverEC, Words
    <3> QED BY <2>1, <3>2 DEF RecoverEC, Words
  <2>2. CASE StandDown
    BY <2>2 DEF Words, StandDown
  <2>3. CASE Reconcile
    BY <2>3, WantsTyped DEF Words, Reconcile, Owned
  <2> QED BY <1>4, <2>1, <2>2, <2>3 DEF Watcher
<1>5. CASE Environment
  <2>1. CASE Suspend
    BY <2>1 DEF Words, Suspend, Deliver
  <2>2. CASE Freeze
    BY <2>2 DEF Words, Freeze
  <2>3. CASE Wake
    BY <2>3, SleepAssumption DEF Words, Wake, AnnounceResume, Deliver
  <2>4. CASE GiveUpSuspend
    BY <2>4 DEF Words, GiveUpSuspend, AnnounceResume, Deliver
  <2>5. CASE ECAnswers \/ OutsideFans
    BY <2>5 DEF Words, ECAnswers, OutsideFans, FirmwareAuto
  <2>6. ASSUME NEW p \in Profiles, HandleProfile(p) \/ Autoswitch(p) PROVE Words'
    <3>1. offset' \in BOOLEAN /\ policyWritten' \in BOOLEAN
      BY <2>6, ApplyWords DEF HandleProfile, Autoswitch
    <3>2. active' = p /\ Switching
      BY <2>6 DEF HandleProfile, Autoswitch
    <3>3. UNCHANGED <<phase, ec, lock, cancelled, hadBattery, suspending, ecWedged, loop, restore, status>>
      BY <2>6 DEF HandleProfile, Autoswitch
    <3> QED BY <3>1, <3>2, <3>3 DEF Words, Switching
  <2> QED BY <1>5, <2>1, <2>2, <2>3, <2>4, <2>5, <2>6, EnvironmentSplit
<1>6. CASE UNCHANGED vars
  BY <1>6 DEF Words, vars
<1> QED BY <1>1, <1>3, <1>4, <1>5, <1>6 DEF Next

LEMMA ApplyFans ==
  ASSUME NEW p \in Profiles, Apply(p)
  PROVE  Fans'
<1>1. CASE p = Stock
  BY <1>1, RowTyped DEF Fans, Apply, FirmwareAuto
<1>2. CASE p # Stock
  <2>1. p \in Custom
    BY <1>2 DEF Profiles
  <2>2. Wants[p].tdp \in 0..TDPMaxForced
    BY <2>1, WantsTyped
  <2>3. mode' \in 1..2 /\ limit' \in {Row, Wants[p].tdp} /\ inForce' \in {Row, Wants[p].tdp}
    BY <1>2 DEF Apply
  <2> QED BY <2>2, <2>3, RowTyped DEF Fans
<1> QED BY <1>1, <1>2

LEMMA FirmwareAutoFans ==
  ASSUME Fans, FirmwareAuto, limit' = limit
  PROVE  Fans'
  BY RowTyped DEF Fans, FirmwareAuto

LEMMA FansStep ==
  ASSUME Words, Fans, [Next]_vars
  PROVE  Fans'
<1> USE DEF machine, logind, hardware, watch, wait, flags, tick
<1>1. active \in Profiles
  BY DEF Words
<1>2. CASE UNCHANGED hardware
  BY <1>2 DEF Fans
<1>3. CASE LowerLimit
  BY <1>3, RowTyped DEF Fans, LowerLimit
<1>4. CASE FreeFans \/ OutsideFans
  <2>1. CASE FirmwareAuto /\ limit' = limit
    BY <2>1, FirmwareAutoFans
  <2>2. CASE mode' = 0 /\ UNCHANGED <<inForce, limit>>
    BY <2>2 DEF Fans
  <2> QED BY <1>4, <2>1, <2>2 DEF FreeFans, OutsideFans
<1>5. CASE Wake
  BY <1>5 DEF Fans, Wake
<1>6. CASE RestoreProfile \/ RecoverEC
  BY <1>1, <1>2, <1>6, ApplyFans DEF RestoreProfile, RecoverEC
<1>7. CASE Reconcile
  <2>1. CASE Owned
    <3>1. Wants[active].tdp \in 0..TDPMaxForced
      BY <2>1, WantsTyped DEF Owned
    <3>2. limit' \in {limit, Wants[active].tdp} /\ inForce' \in {inForce, Wants[active].tdp} /\ mode' \in {1, mode}
      BY <1>7, <2>1 DEF Reconcile
    <3> QED BY <3>1, <3>2 DEF Fans
  <2>2. CASE ~Owned
    BY <1>2, <1>7, <2>2 DEF Reconcile
  <2> QED BY <2>1, <2>2
<1>8. ASSUME NEW p \in Profiles, HandleProfile(p) \/ Autoswitch(p) PROVE Fans'
  BY <1>8, ApplyFans DEF HandleProfile, Autoswitch
<1>9. CASE Quiet
  BY <1>2, <1>9, QuietHardware
<1> QED BY <1>2, <1>3, <1>4, <1>5, <1>6, <1>7, <1>8, <1>9, EnvironmentSplit DEF Next, SleepLoop, Resume, Watcher, Quiet, vars

-----------------------------------------------------------------------------
(* The channel, and the generations.                                       *)

\* The steps that neither send nor receive.
Silent ==
  \/ SettleForSleep \/ ObserveForSleep \/ LowerLimit \/ FreeFans \/ ReleaseFails \/ Unlock \/ StartRestore
  \/ AbandonRestore \/ WaitOver \/ LatchEC \/ RestoreProfile \/ RecoverEC \/ StandDown \/ Reconcile
  \/ Freeze \/ ECAnswers \/ OutsideFans
  \/ \E p \in Profiles : HandleProfile(p) \/ Autoswitch(p)

LEMMA SilentSteps ==
  ASSUME Next
  PROVE  Silent \/ Suspend \/ Wake \/ GiveUpSuspend \/ HearSleep \/ HearResume
  BY EnvironmentSplit DEF Next, SleepLoop, Resume, Watcher, Silent

LEMMA SilentSignals ==
  ASSUME Silent
  PROVE  UNCHANGED <<signals, sleeps>>
  BY DEF Silent, machine, logind, SettleForSleep, ObserveForSleep, LowerLimit, FreeFans, ReleaseFails, Unlock,
         StartRestore, AbandonRestore, WaitOver, LatchEC, RestoreProfile, RecoverEC, StandDown,
         Reconcile, Freeze, ECAnswers, OutsideFans, HandleProfile, Autoswitch

LEMMA ChannelTyped ==
  ASSUME Channel
  PROVE  signals \in Seq(Bits) /\ Len(signals) <= 4 /\ TRUE \in Bits /\ FALSE \in Bits
  BY DEF Channel, Bits

LEMMA Sent ==
  ASSUME Channel, Len(signals) < 4, NEW v \in Bits, Deliver(v)
  PROVE  /\ Channel' /\ signals' # <<>> /\ signals'[Len(signals')] = v
         /\ Count(signals') = Count(signals) + IF v THEN 1 ELSE 0
  BY ChannelTyped, Appended DEF Channel, Bits, Deliver

LEMMA Heard ==
  ASSUME Channel, NEW v \in Bits, Hear(v)
  PROVE  /\ Channel'
         /\ Count(signals) = Count(signals') + IF v THEN 1 ELSE 0
         /\ signals # <<>>
         /\ signals' # <<>> => signals'[Len(signals')] = signals[Len(signals)]
         /\ signals' = <<>> => v = signals[Len(signals)]
<1>1. signals # <<>> /\ signals' = Tail(signals) /\ Head(signals) = v
  BY DEF Hear
<1>2. signals \in Seq(Bits) /\ Len(signals) <= 4
  BY ChannelTyped
<1>3. /\ Tail(signals) \in Seq(Bits) /\ Len(Tail(signals)) <= 4
      /\ Count(signals) = Count(Tail(signals)) + IF Head(signals) THEN 1 ELSE 0
      /\ Tail(signals) # <<>> => Tail(signals)[Len(Tail(signals))] = signals[Len(signals)]
      /\ Tail(signals) = <<>> => Head(signals) = signals[Len(signals)]
  BY <1>1, <1>2, Tailed
<1> QED BY <1>1, <1>3 DEF Channel, Bits

LEMMA ChannelStep ==
  ASSUME Channel, [Next]_vars
  PROVE  Channel'
<1>1. CASE UNCHANGED signals
  BY <1>1 DEF Channel
<1>2. CASE Suspend
  BY <1>1, <1>2, Sent, ChannelTyped DEF Suspend
<1>3. CASE Wake \/ GiveUpSuspend
  BY <1>1, <1>3, Sent, ChannelTyped DEF Wake, GiveUpSuspend, AnnounceResume
<1>4. CASE HearSleep
  BY <1>4, Heard, ChannelTyped DEF HearSleep
<1>5. CASE HearResume
  BY <1>5, Heard, ChannelTyped DEF HearResume
<1>6. CASE UNCHANGED vars
  BY <1>1, <1>6 DEF vars, logind
<1> QED BY <1>1, <1>2, <1>3, <1>4, <1>5, <1>6, SilentSteps, SilentSignals

\* The types and bounds of the counters, and one generation a suspend.
LEMMA CountedStep ==
  ASSUME Words, Channel, Counted, Generations, [Next]_vars
  PROVE  Counted' /\ Generations'
<1> USE DEF machine, logind, hardware, watch, wait, flags, tick
<1>1. /\ suspendGen \in Nat /\ tickGen \in Nat /\ sleeps \in Nat /\ MaxSleeps \in Nat
      /\ suspendGen <= MaxSleeps /\ tickGen <= MaxSleeps /\ sleeps <= MaxSleeps
  BY BoundsTyped DEF Counted
<1>2. Count(signals) \in 0..4 /\ Count(signals') \in 0..4 /\ Hearing \in 0..1 /\ Hearing' \in 0..1
  BY CountTyped DEF Hearing
<1>3. suspendGen + Count(signals) + Hearing <= sleeps
  BY DEF Generations
<1> DEFINE Bound(g, t, s) == g \in Nat /\ t \in Nat /\ s \in Nat /\ t <= MaxSleeps /\ s <= MaxSleeps
<1>4. SUFFICES /\ Bound(suspendGen', tickGen', sleeps')
               /\ suspendGen' + Count(signals') + Hearing' <= sleeps'
  BY <1>1, <1>2 DEF Counted, Generations
<1>5. CASE UNCHANGED <<signals, sleeps, suspendGen, tickGen, loop>>
  BY <1>1, <1>2, <1>3, <1>5 DEF Hearing
<1>6. CASE Suspend
  <2>1. sleeps < MaxSleeps /\ sleeps' = sleeps + 1 /\ UNCHANGED <<suspendGen, tickGen, loop>>
    BY <1>6 DEF Suspend
  <2>2. Count(signals') <= Count(signals) + 1
    <3>1. CASE UNCHANGED signals
      BY <1>2, <3>1
    <3>2. CASE Len(signals) < 4 /\ Deliver(TRUE)
      <4>1. Count(signals') = Count(signals) + IF TRUE THEN 1 ELSE 0
        BY <3>2, ChannelTyped, Sent
      <4> QED BY <1>2, <4>1
    <3> QED BY <1>6, <3>1, <3>2 DEF Suspend
  <2>3. Hearing' = Hearing
    BY <2>1 DEF Hearing
  <2> QED BY <1>1, <1>2, <1>3, <2>1, <2>2, <2>3
<1>7. CASE Wake \/ GiveUpSuspend
  <2>1. UNCHANGED <<sleeps, suspendGen, tickGen, loop>>
    BY <1>7 DEF Wake, GiveUpSuspend
  <2>2. Count(signals') = Count(signals)
    <3>1. CASE UNCHANGED signals
      BY <3>1
    <3>2. CASE Len(signals) < 4 /\ Deliver(FALSE)
      <4>1. Count(signals') = Count(signals) + IF FALSE THEN 1 ELSE 0
        BY <3>2, ChannelTyped, Sent
      <4> QED BY <1>2, <4>1
    <3> QED BY <1>7, <3>1, <3>2 DEF Wake, GiveUpSuspend, AnnounceResume
  <2>3. Hearing' = Hearing
    BY <2>1 DEF Hearing
  <2> QED BY <1>1, <1>2, <1>3, <2>1, <2>2, <2>3
<1>8. CASE HearSleep
  <2>1. UNCHANGED <<sleeps, suspendGen, tickGen>> /\ Hearing = 0 /\ Hearing' = 1
    BY <1>8 DEF HearSleep, Hear, Hearing
  <2>2. Count(signals) = Count(signals') + 1
    BY <1>8, Heard, ChannelTyped DEF HearSleep
  <2> QED BY <1>1, <1>2, <1>3, <2>1, <2>2
<1>9. CASE HearResume
  <2>1. UNCHANGED <<sleeps, suspendGen, tickGen>> /\ Hearing' = 0
    BY <1>9 DEF HearResume, Hear, Hearing
  <2>2. Count(signals) = Count(signals') + 0
    BY <1>9, Heard, ChannelTyped DEF HearResume
  <2> QED BY <1>1, <1>2, <1>3, <2>1, <2>2
<1>10. CASE ObserveForSleep
  <2>1. UNCHANGED <<signals, sleeps, tickGen>> /\ Hearing = 1 /\ Hearing' = 0
    BY <1>10 DEF ObserveForSleep, Hearing, SleepTick
  <2>2. suspendGen' \in {suspendGen, suspendGen + 1}
    BY <1>1, <1>10 DEF ObserveForSleep
  <2> QED BY <1>1, <1>2, <1>3, <2>1, <2>2
<1>11. CASE SettleForSleep \/ LowerLimit \/ FreeFans \/ ReleaseFails \/ Unlock \/ StartRestore
  <2>1. UNCHANGED <<signals, sleeps, tickGen, suspendGen>>
    BY <1>11 DEF SettleForSleep, LowerLimit, FreeFans, ReleaseFails, Unlock, StartRestore
  <2>2. Hearing' = Hearing
    BY <1>11 DEF Hearing, SettleForSleep, LowerLimit, FreeFans, ReleaseFails, Unlock, StartRestore
  <2> QED BY <1>1, <1>2, <1>3, <2>1, <2>2
<1>12. CASE StandDown \/ Reconcile
  <2>1. UNCHANGED <<signals, sleeps, suspendGen, loop>> /\ tickGen' = suspendGen
    BY <1>12 DEF StandDown, Reconcile
  <2>2. Hearing' = Hearing
    BY <2>1 DEF Hearing
  <2> QED BY <1>1, <1>2, <1>3, <2>1, <2>2
<1>13. CASE AbandonRestore \/ WaitOver \/ LatchEC \/ RestoreProfile \/ RecoverEC \/ Freeze \/ ECAnswers \/ OutsideFans
            \/ \E p \in Profiles : HandleProfile(p) \/ Autoswitch(p)
  BY <1>5, <1>13 DEF AbandonRestore, WaitOver, LatchEC, RestoreProfile, RecoverEC, Freeze, ECAnswers,
     OutsideFans, HandleProfile, Autoswitch
<1>14. CASE UNCHANGED vars
  BY <1>5, <1>14 DEF vars
<1> QED BY <1>6, <1>7, <1>8, <1>9, <1>10, <1>11, <1>12, <1>13, <1>14, SilentSteps DEF Silent

\* The budgets of the watcher.
LEMMA TickedStep ==
  ASSUME Words, Ticked, [Next]_vars
  PROVE  Ticked'
<1> USE DEF machine, logind, hardware, watch, wait, flags, tick
<1>1. /\ ticks \in Nat /\ ticks < StandDownTicks /\ left \in Nat /\ left <= DelayTicks + WaitTicks
      /\ DelayTicks \in Nat /\ WaitTicks \in Nat /\ StandDownTicks \in Nat /\ StandDownTicks > 0
  BY BoundsTyped DEF Ticked
<1>2. SUFFICES /\ ticks' \in Nat /\ ticks' < StandDownTicks
               /\ left' \in Nat /\ left' <= DelayTicks + WaitTicks
  BY <1>1 DEF Ticked
<1>3. CASE UNCHANGED <<ticks, left>>
  BY <1>1, <1>3
<1>4. CASE Suspend \/ StartRestore
  <2>1. ticks' = ticks /\ left' \in {DelayTicks, WaitTicks, left}
    BY <1>4 DEF Suspend, StartRestore
  <2> QED BY <1>1, <2>1
<1>5. CASE StandDown \/ Reconcile
  <2>1. left' = left \/ (left > 0 /\ left' = left - 1)
    BY <1>5 DEF StandDown, Reconcile, CanTick, SpendTick
  <2>2. ticks' = 0 \/ (ticks' = TickCount /\ TickCount < StandDownTicks)
    BY <1>5 DEF StandDown, Reconcile
  <2>3. TickCount \in Nat
    BY <1>1 DEF TickCount
  <2> QED BY <1>1, <2>1, <2>2, <2>3
<1>6. CASE Freeze \/ Wake \/ GiveUpSuspend \/ ECAnswers \/ OutsideFans
            \/ \E p \in Profiles : HandleProfile(p) \/ Autoswitch(p)
  BY <1>3, <1>6 DEF Freeze, Wake, GiveUpSuspend, ECAnswers, OutsideFans, HandleProfile, Autoswitch
<1>7. CASE HearSleep \/ SettleForSleep \/ ObserveForSleep \/ LowerLimit \/ FreeFans \/ ReleaseFails
            \/ Unlock \/ HearResume
  BY <1>3, <1>7 DEF HearSleep, SettleForSleep, ObserveForSleep, LowerLimit, FreeFans, ReleaseFails,
     Unlock, HearResume
<1>8. CASE AbandonRestore \/ WaitOver \/ LatchEC \/ RestoreProfile \/ RecoverEC
  BY <1>3, <1>8 DEF AbandonRestore, WaitOver, LatchEC, RestoreProfile, RecoverEC
<1>9. CASE UNCHANGED vars
  BY <1>3, <1>9 DEF vars
<1> QED BY <1>4, <1>5, <1>6, <1>7, <1>8, <1>9, SilentSteps DEF Silent

-----------------------------------------------------------------------------
(* hwMu, the limit and the release.                                        *)

\* The steps outside the loop and the restore: they take hwMu, if at all, for
\* themselves.
LEMMA OneHolderStep ==
  ASSUME Words, OneHolder, [Next]_vars
  PROVE  OneHolder'
<1> USE DEF machine, logind, hardware, watch, wait, flags, tick
<1>1. CASE ObserveForSleep
  BY <1>1 DEF OneHolder, ObserveForSleep, hwMuFree
<1>2. CASE LatchEC
  BY <1>2 DEF OneHolder, LatchEC, hwMuFree
<1>3. CASE HearSleep \/ SettleForSleep \/ LowerLimit \/ FreeFans \/ ReleaseFails \/ Unlock \/ HearResume
  BY <1>3 DEF OneHolder, HearSleep, SettleForSleep, LowerLimit, FreeFans, ReleaseFails, Unlock, HearResume
<1>4. CASE StartRestore \/ AbandonRestore \/ WaitOver \/ RestoreProfile
  BY <1>4 DEF OneHolder, StartRestore, AbandonRestore, WaitOver, RestoreProfile
<1>5. CASE UNCHANGED <<loop, restore>>
  BY <1>5 DEF OneHolder
<1>6. CASE Watcher \/ Suspend \/ Freeze \/ Wake \/ GiveUpSuspend \/ ECAnswers \/ OutsideFans
            \/ \E p \in Profiles : HandleProfile(p) \/ Autoswitch(p)
  BY <1>5, <1>6 DEF Watcher, RecoverEC, StandDown, Reconcile, Suspend, Freeze, Wake, GiveUpSuspend, ECAnswers,
     OutsideFans, HandleProfile, Autoswitch
<1>7. CASE UNCHANGED vars
  BY <1>5, <1>7 DEF vars
<1> QED BY <1>1, <1>2, <1>3, <1>4, <1>6, <1>7, SilentSteps DEF Silent, Watcher

\* The steps that write hardware.
LEMMA Writers ==
  ASSUME Next
  PROVE  \/ UNCHANGED hardware
         \/ LowerLimit \/ FreeFans \/ OutsideFans \/ Wake \/ RestoreProfile \/ RecoverEC \/ Reconcile
         \/ \E p \in Profiles : HandleProfile(p) \/ Autoswitch(p)
  BY QuietHardware, SilentSteps DEF Silent, Quiet

LEMMA ApplyLimit ==
  ASSUME NEW p, Apply(p)
  PROVE  LimitKnown'
  BY DEF LimitKnown, Apply, FirmwareAuto

LEMMA LimitKnownStep ==
  ASSUME LimitKnown, [Next]_vars
  PROVE  LimitKnown'
<1> USE DEF hardware
<1>1. CASE UNCHANGED <<limit, inForce>>
  BY <1>1 DEF LimitKnown
<1>2. CASE LowerLimit
  BY <1>2 DEF LimitKnown, LowerLimit
<1>3. CASE FreeFans \/ OutsideFans
  BY <1>1, <1>3 DEF LimitKnown, FreeFans, OutsideFans, FirmwareAuto
<1>4. CASE RestoreProfile \/ RecoverEC
  BY <1>1, <1>4, ApplyLimit DEF RestoreProfile, RecoverEC
<1>5. CASE Reconcile
  BY <1>5 DEF LimitKnown, Reconcile
<1>6. ASSUME NEW p \in Profiles, HandleProfile(p) \/ Autoswitch(p) PROVE LimitKnown'
  BY <1>6, ApplyLimit DEF HandleProfile, Autoswitch
<1>7. CASE Wake
  BY <1>1, <1>7 DEF Wake
<1> QED BY <1>1, <1>2, <1>3, <1>4, <1>5, <1>6, <1>7, Writers DEF vars

\* What releaseVolatileState decides, from what it read.
Release(m, pl1) == IF SleepRelease THEN SleepTick(ecWedged, m, pl1) ELSE "none"
Observed(m, pl1) ==
  /\ loop' = IF Release(m, pl1) = "none" THEN "unlock" ELSE Release(m, pl1)
  /\ suspending' = (suspending \/ Release(m, pl1) # "none")
  /\ disturbed' = disturbed \cup
       (IF m = Unreadable \/ (m # 1 /\ Owned /\ ~suspending) THEN {"overtaken"} ELSE {})

LEMMA ObservedIs ==
  ASSUME ObserveForSleep
  PROVE  \E m \in {mode} \cup (IF Faults THEN {Unreadable} ELSE {}),
            pl1 \in {limit} \cup (IF Faults THEN {Unreadable} ELSE {}) : Observed(m, pl1)
  BY DEF ObserveForSleep, Observed, Release

\* Between the lowered limit and the release nobody else writes the limit.
LEMMA FreeIsSafeStep ==
  ASSUME Fans, OneHolder, LimitKnown, FreeIsSafe, [Next]_vars
  PROVE  FreeIsSafe'
<1> USE DEF machine, logind, hardware, watch, wait, flags, tick
<1>1. limit \in Int /\ inForce \in Int /\ Row \in Int /\ Row <= TDPMaxSafe /\ inForce \in {limit, Row}
  BY RowTyped DEF Fans, LimitKnown
<1>2. CASE ObserveForSleep
  <2>1. inForce' = inForce /\ (loop' = "free" => limit <= TDPMaxSafe)
    <3>1. PICK m \in {mode} \cup (IF Faults THEN {Unreadable} ELSE {}),
               pl1 \in {limit} \cup (IF Faults THEN {Unreadable} ELSE {}) : Observed(m, pl1)
      BY <1>2, ObservedIs
    <3>2. loop' = "free" => SleepTick(ecWedged, m, pl1) = "free"
      BY <3>1 DEF Observed, Release
    <3>3. SleepTick(ecWedged, m, pl1) = "free" => pl1 # Unreadable /\ ~(pl1 > TDPMaxSafe)
      BY DEF SleepTick
    <3>4. pl1 # Unreadable => pl1 = limit
      BY <3>1
    <3>5. ~(limit > TDPMaxSafe) => limit <= TDPMaxSafe
      BY <1>1 DEF TDPMaxSafe
    <3>6. inForce' = inForce
      BY <1>2 DEF ObserveForSleep
    <3> QED BY <3>2, <3>3, <3>4, <3>5, <3>6
  <2> QED BY <1>1, <2>1 DEF FreeIsSafe
<1>3. CASE LowerLimit
  <2>1. TDPMaxSafe \in Int
    BY DEF TDPMaxSafe
  <2>2. limit' = Row \/ limit' = IF limit > TDPMaxSafe THEN TDPMaxSafe ELSE limit
    BY <1>3 DEF LowerLimit
  <2>3. limit' <= TDPMaxSafe
    BY <1>1, <2>1, <2>2
  <2>4. inForce' = IF limit' = limit /\ limit' # Row THEN inForce ELSE limit'
    BY <1>3 DEF LowerLimit
  <2> QED BY <1>1, <2>3, <2>4 DEF FreeIsSafe
<1>4. CASE loop' # "free"
  BY <1>4 DEF FreeIsSafe
<1>5. CASE UNCHANGED <<loop, inForce>>
  BY <1>5 DEF FreeIsSafe
<1>6. CASE OutsideFans
  BY <1>1, <1>6 DEF FreeIsSafe, OutsideFans, FirmwareAuto
<1>7. CASE RestoreProfile \/ RecoverEC \/ Reconcile \/ \E p \in Profiles : HandleProfile(p) \/ Autoswitch(p)
  <2>1. loop # "free" /\ loop' = loop
    BY <1>7 DEF OneHolder, RestoreProfile, RecoverEC, Reconcile, CanTick, HandleProfile, Autoswitch, hwMuFree
  <2> QED BY <1>4, <2>1
<1>8. CASE HearSleep \/ SettleForSleep \/ FreeFans \/ ReleaseFails \/ Unlock \/ HearResume \/ StartRestore
  BY <1>4, <1>8 DEF HearSleep, SettleForSleep, FreeFans, ReleaseFails, Unlock, HearResume, StartRestore
<1>9. CASE AbandonRestore \/ WaitOver \/ LatchEC \/ StandDown \/ Suspend \/ Freeze \/ Wake \/ GiveUpSuspend \/ ECAnswers
  BY <1>5, <1>9 DEF AbandonRestore, WaitOver, LatchEC, StandDown, Suspend, Freeze, Wake, GiveUpSuspend, ECAnswers
<1>10. CASE UNCHANGED vars
  BY <1>5, <1>10 DEF vars
<1> QED BY <1>2, <1>3, <1>6, <1>7, <1>8, <1>9, <1>10, SilentSteps DEF Silent

-----------------------------------------------------------------------------
(* The verdict on the EC.                                                  *)

\* A verdict is reached, and acted on, while the machine runs: a freeze in
\* between is told, and stays told until the restore is through.
LEMMA OversleptStep ==
  ASSUME Words, Overslept, [Next]_vars
  PROVE  Overslept'
<1> USE DEF machine, logind, hardware, watch, wait, flags, tick
<1>1. CASE Freeze
  BY <1>1 DEF Overslept, Freeze
<1>2. CASE Suspend \/ Wake \/ GiveUpSuspend
  BY <1>2 DEF Overslept, Suspend, Wake, GiveUpSuspend
<1>3. CASE Silent /\ ~Freeze
  <2>1. phase' = phase /\ phase # "asleep"
    BY <1>3 DEF Running, CanTick, Silent, SettleForSleep, ObserveForSleep, LowerLimit, FreeFans, ReleaseFails,
       Unlock, StartRestore, AbandonRestore, WaitOver, LatchEC, RestoreProfile, RecoverEC, StandDown,
       Reconcile, ECAnswers, OutsideFans, HandleProfile, Autoswitch
  <2> QED BY <2>1 DEF Overslept
<1>4. CASE HearSleep \/ HearResume
  BY <1>4 DEF Overslept, HearSleep, HearResume
<1>5. CASE UNCHANGED vars
  BY <1>5 DEF Overslept, vars
<1> QED BY <1>1, <1>2, <1>3, <1>4, <1>5, SilentSteps

LEMMA AnsweredStep ==
  ASSUME Words, Overslept, Answered, [Next]_vars
  PROVE  Answered'
<1> USE DEF machine, logind, hardware, watch, wait, flags, tick
<1> DEFINE Held == restore \in {"verdict", "applying"}
<1>1. CASE ~Held'
  BY <1>1 DEF Answered
<1>2. CASE /\ UNCHANGED <<restore, status, hadBattery>>
           /\ ec = "reads" => ec' = "reads" \/ "midway" \in disturbed'
           /\ "midway" \in disturbed => "midway" \in disturbed'
  BY <1>2 DEF Answered
<1>3. CASE WaitOver
  BY <1>3 DEF Answered, WaitOver, ECStatusAfterSleep, ProbeEC, Words
<1>4. CASE LatchEC
  BY <1>4 DEF Answered, LatchEC
<1>5. CASE SettleForSleep \/ StartRestore \/ AbandonRestore \/ RestoreProfile
  BY <1>1, <1>5 DEF SettleForSleep, Settled, StartRestore, AbandonRestore, RestoreProfile
<1>6. CASE Wake
  <2>1. UNCHANGED <<restore, status, hadBattery>> /\ phase = "asleep"
        /\ ("midway" \in disturbed => "midway" \in disturbed')
    BY <1>6 DEF Wake, AnnounceResume
  <2> QED BY <1>1, <2>1 DEF Answered, Overslept
<1>7. CASE HearSleep \/ HearResume \/ ObserveForSleep \/ LowerLimit \/ FreeFans \/ ReleaseFails \/ Unlock
  BY <1>2, <1>7 DEF HearSleep, HearResume, ObserveForSleep, LowerLimit, FreeFans, ReleaseFails, Unlock
<1>8. CASE RecoverEC \/ StandDown \/ Reconcile
  BY <1>2, <1>8 DEF RecoverEC, StandDown, Reconcile
<1>9. CASE Suspend \/ Freeze \/ GiveUpSuspend \/ ECAnswers \/ OutsideFans
  BY <1>2, <1>9 DEF Suspend, Freeze, GiveUpSuspend, AnnounceResume, ECAnswers, OutsideFans
<1>10. ASSUME NEW p \in Profiles, HandleProfile(p) \/ Autoswitch(p) PROVE Answered'
  BY <1>2, <1>10 DEF HandleProfile, Autoswitch, Switching
<1>11. CASE UNCHANGED vars
  BY <1>2, <1>11 DEF vars
<1> QED BY <1>3, <1>4, <1>5, <1>6, <1>7, <1>8, <1>9, <1>10, <1>11, SilentSteps DEF Silent

-----------------------------------------------------------------------------
(* A suspend the daemon was told of.                                       *)


\* Being told of a suspend lasts until it is over.
LEMMA ToldBefore ==
  ASSUME [Next]_vars, ~Suspend, Told'
  PROVE  Told
<1> USE DEF machine, logind, hardware, watch, wait, flags, tick
<1>1. CASE Wake \/ GiveUpSuspend \/ Freeze
  BY <1>1 DEF Told, Wake, GiveUpSuspend, Freeze
<1>2. CASE phase' = phase /\ ("unheard" \in disturbed => "unheard" \in disturbed')
  BY <1>2 DEF Told
<1>3. CASE HearSleep \/ HearResume \/ SettleForSleep \/ ObserveForSleep \/ LowerLimit \/ FreeFans
           \/ ReleaseFails \/ Unlock \/ StartRestore
  BY <1>2, <1>3 DEF HearSleep, HearResume, SettleForSleep, ObserveForSleep, LowerLimit, FreeFans,
     ReleaseFails, Unlock, StartRestore
<1>4. CASE AbandonRestore \/ WaitOver \/ LatchEC \/ RestoreProfile \/ RecoverEC \/ StandDown \/ Reconcile
           \/ ECAnswers \/ OutsideFans
  BY <1>2, <1>4 DEF AbandonRestore, WaitOver, LatchEC, RestoreProfile, RecoverEC, StandDown, Reconcile,
     ECAnswers, OutsideFans
<1>5. ASSUME NEW p \in Profiles, HandleProfile(p) \/ Autoswitch(p) PROVE Told
  BY <1>2, <1>5 DEF HandleProfile, Autoswitch, Switching
<1>6. CASE UNCHANGED vars
  BY <1>2, <1>6 DEF vars
<1> QED BY <1>1, <1>3, <1>4, <1>5, <1>6, SilentSteps DEF Silent

LEMMA LastToldStep ==
  ASSUME Channel, LastTold, [Next]_vars
  PROVE  LastTold'
<1>1. CASE Suspend
  <2>1. CASE "unheard" \in disturbed'
    BY <2>1 DEF LastTold, Told
  <2>2. CASE Len(signals) < 4 /\ Deliver(TRUE)
    BY <2>2, ChannelTyped, Sent DEF LastTold
  <2> QED BY <1>1, <2>1, <2>2 DEF Suspend
<1>2. CASE ~Suspend
  <2>1. SUFFICES ASSUME Told', signals' # <<>> PROVE signals'[Len(signals')]
    BY DEF LastTold
  <2>2. Told
    BY <1>2, <2>1, ToldBefore
  <2>3. CASE UNCHANGED signals
    BY <2>1, <2>2, <2>3 DEF LastTold
  <2>4. CASE HearSleep \/ HearResume
    <3>1. signals # <<>> /\ signals'[Len(signals')] = signals[Len(signals)]
      BY <2>1, <2>4, ChannelTyped, Heard DEF HearSleep, HearResume
    <3> QED BY <2>2, <3>1 DEF LastTold
  <2>5. CASE Wake \/ GiveUpSuspend
    BY <2>1, <2>5 DEF Told, Wake, GiveUpSuspend
  <2>6. CASE UNCHANGED vars
    BY <2>3, <2>6 DEF vars, logind
  <2> QED BY <1>2, <2>3, <2>4, <2>5, <2>6, SilentSteps, SilentSignals
<1> QED BY <1>1, <1>2

\* An empty channel was empty before, or the suspend has just been heard.
LEMMA EmptyChannel ==
  ASSUME Channel, LastTold, [Next]_vars, Told', signals' = <<>>
  PROVE  Told /\ ~Suspend /\ ~HearResume /\ (HearSleep \/ signals = <<>>)
<1>1. ~Suspend
  <2>1. SUFFICES ASSUME Suspend PROVE FALSE
    OBVIOUS
  <2>2. "unheard" \notin disturbed'
    BY DEF Told
  <2>3. Len(signals) < 4 /\ Deliver(TRUE)
    BY <2>1, <2>2 DEF Suspend
  <2> QED BY <2>3, ChannelTyped, Sent
<1>2. Told
  BY <1>1, ToldBefore
<1>3. ~HearResume
  <2>1. SUFFICES ASSUME HearResume PROVE FALSE
    OBVIOUS
  <2>2. signals # <<>> /\ FALSE = signals[Len(signals)]
    BY <2>1, ChannelTyped, Heard DEF HearResume
  <2> QED BY <1>2, <2>2 DEF LastTold
<1>4. ~(Wake \/ GiveUpSuspend)
  BY DEF Told, Wake, GiveUpSuspend
<1>5. UNCHANGED vars => UNCHANGED signals
  BY DEF vars, logind
<1> QED BY <1>1, <1>2, <1>3, <1>4, <1>5, SilentSteps, SilentSignals

LEMMA SettlingStep ==
  ASSUME Words, Channel, LastTold, Settling, [Next]_vars
  PROVE  Settling'
<1> USE DEF machine, logind, hardware, watch, wait, flags, tick
<1> DEFINE Done == /\ loop' # "resettle"
                   /\ loop' # "settle" => restore' = "none"
                   /\ loop' \in {"lower", "free"} => suspending'
<1>1. SUFFICES ASSUME Told', signals' = <<>> PROVE Done
  BY DEF Settling
<1>2. Told /\ ~Suspend /\ ~HearResume /\ (HearSleep \/ signals = <<>>)
  BY <1>1, EmptyChannel
<1>3. CASE HearSleep
  BY <1>3 DEF HearSleep
<1>4. CASE signals = <<>>
  <2>1. /\ loop # "resettle"
        /\ loop # "settle" => restore = "none"
        /\ loop \in {"lower", "free"} => suspending
    BY <1>2, <1>4 DEF Settling
  <2>2. CASE UNCHANGED <<loop, restore, suspending>>
    BY <2>1, <2>2
  <2>3. CASE SettleForSleep
    BY <2>3 DEF SettleForSleep, Settled
  <2>4. CASE ObserveForSleep
    <3>1. PICK m, pl1 : Observed(m, pl1)
      BY <2>4, ObservedIs
    <3>2. loop' \in {"unlock", "lower", "free"} /\ (loop' # "unlock" => suspending')
      BY <3>1 DEF Observed, Release, SleepTick
    <3> QED BY <2>1, <2>4, <3>2 DEF ObserveForSleep
  <2>5. CASE LowerLimit \/ FreeFans \/ ReleaseFails \/ Unlock
    BY <2>1, <2>5 DEF LowerLimit, FreeFans, ReleaseFails, Unlock
  <2>6. CASE HearSleep \/ StartRestore
    BY <1>3, <2>1, <2>6 DEF StartRestore
  <2>7. CASE AbandonRestore \/ WaitOver \/ LatchEC \/ RestoreProfile
    <3>1. loop = "settle" /\ loop' = loop
      BY <2>1, <2>7 DEF AbandonRestore, WaitOver, LatchEC, RestoreProfile
    <3> QED BY <3>1
  <2>8. CASE Reconcile
    BY <2>1, <2>8 DEF Reconcile, CanTick, hwMuFree
  <2>9. CASE RecoverEC \/ StandDown \/ Freeze \/ ECAnswers \/ OutsideFans
    BY <2>2, <2>9 DEF RecoverEC, StandDown, Freeze, ECAnswers, OutsideFans
  <2>10. ASSUME NEW p \in Profiles, HandleProfile(p) \/ Autoswitch(p) PROVE Done
    BY <2>2, <2>10 DEF HandleProfile, Autoswitch
  <2>11. CASE Wake \/ GiveUpSuspend
    BY <1>1, <2>11 DEF Told, Wake, GiveUpSuspend
  <2>12. CASE UNCHANGED vars
    BY <2>2, <2>12 DEF vars
  <2> QED BY <1>2, <2>3, <2>4, <2>5, <2>6, <2>7, <2>8, <2>9, <2>10, <2>11, <2>12, SilentSteps DEF Silent
<1> QED BY <1>2, <1>3, <1>4

\* Once the suspend is dealt with, whatever could bring a curve back excuses it.
LEMMA QuietedStep ==
  ASSUME SleepRelease, Words, Fans, Channel, LastTold, Settling, Quieted, [Next]_vars
  PROVE  Quieted'
<1> USE DEF machine, logind, hardware, watch, wait, flags, tick
<1> DEFINE Done == mode' # 1 /\ suspending'
<1>1. SUFFICES ASSUME Told', signals' = <<>>, loop' \in {"unlock", "listen"}, ~Excused', Owned', ~ecWedged'
               PROVE  Done
  BY DEF Quieted
<1>2. Told /\ ~Suspend /\ ~HearResume /\ (HearSleep \/ signals = <<>>)
  BY <1>1, EmptyChannel
<1>3. ~HearSleep
  BY <1>1 DEF HearSleep
<1>4. /\ loop # "resettle"
      /\ loop # "settle" => restore = "none"
      /\ loop \in {"lower", "free"} => suspending
  BY <1>2, <1>3 DEF Settling
<1>5. ASSUME loop \in {"unlock", "listen"}, ~Excused, Owned, ~ecWedged PROVE mode # 1 /\ suspending
  BY <1>2, <1>3, <1>5 DEF Quieted
<1>6. ASSUME UNCHANGED <<mode, suspending, active, ecWedged>>, loop' = loop, disturbed' = disturbed PROVE Done
  BY <1>1, <1>5, <1>6 DEF Excused, Owned
<1>7. CASE ObserveForSleep
  <2>1. PICK m \in {mode} \cup (IF Faults THEN {Unreadable} ELSE {}),
             pl1 \in {limit} \cup (IF Faults THEN {Unreadable} ELSE {}) : Observed(m, pl1)
    BY <1>7, ObservedIs
  <2>2. Owned /\ ~ecWedged /\ mode' = mode
    BY <1>1, <1>7 DEF ObserveForSleep, Owned
  <2>3. "overtaken" \notin disturbed'
    BY <1>1 DEF Excused
  <2>4. m # Unreadable /\ (m # 1 => suspending)
    BY <2>1, <2>2, <2>3 DEF Observed
  <2>5. m = mode
    BY <2>1, <2>4
  <2>6. Release(m, pl1) = "none"
    BY <1>1, <2>1 DEF Observed, Release, SleepTick
  <2>7. m # 1
    BY <2>2, <2>6 DEF Release, SleepTick
  <2> QED BY <2>1, <2>2, <2>4, <2>5, <2>7 DEF Observed
<1>8. CASE FreeFans
  BY <1>4, <1>8 DEF FreeFans, FirmwareAuto
<1>9. CASE ReleaseFails
  BY <1>1, <1>9 DEF ReleaseFails, Excused
<1>10. CASE Unlock
  BY <1>1, <1>5, <1>10 DEF Unlock, Excused, Owned
<1>11. CASE SettleForSleep \/ LowerLimit \/ StartRestore
  BY <1>1, <1>4, <1>11 DEF SettleForSleep, LowerLimit, StartRestore
<1>12. CASE AbandonRestore \/ WaitOver \/ LatchEC \/ RestoreProfile
  BY <1>1, <1>4, <1>12 DEF AbandonRestore, WaitOver, LatchEC, RestoreProfile
<1>13. CASE RecoverEC
  BY <1>1, <1>2, <1>13 DEF RecoverEC, Excused, Told
<1>14. CASE Reconcile
  <2>1. "ceiling" \notin disturbed'
    BY <1>1 DEF Excused
  <2>2. ~suspending /\ ~ecWedged /\ loop = loop' /\ UNCHANGED active
    BY <1>14, <2>1 DEF Reconcile, CanTick
  <2>3. ~Excused
    BY <1>1, <1>14 DEF Reconcile, Excused
  <2> QED BY <1>1, <1>5, <2>2, <2>3 DEF Owned
<1>15. CASE OutsideFans
  <2>1. mode' # 1
    BY <1>15 DEF OutsideFans, FirmwareAuto
  <2> QED BY <1>1, <1>5, <1>15, <2>1 DEF OutsideFans, Excused, Owned
<1>16. ASSUME NEW p \in Profiles, HandleProfile(p) \/ Autoswitch(p) PROVE Done
  BY <1>1, <1>2, <1>16 DEF HandleProfile, Autoswitch, Switching, Excused, Told
<1>17. CASE StandDown \/ ECAnswers
  BY <1>6, <1>17 DEF StandDown, ECAnswers
<1>18. CASE Freeze \/ Wake \/ GiveUpSuspend
  BY <1>1, <1>18 DEF Told, Freeze, Wake, GiveUpSuspend
<1>19. CASE UNCHANGED vars
  BY <1>6, <1>19 DEF vars
<1> QED BY <1>2, <1>3, <1>7, <1>8, <1>9, <1>10, <1>11, <1>12, <1>13, <1>14, <1>15, <1>16, <1>17, <1>18, <1>19,
        SilentSteps DEF Silent

-----------------------------------------------------------------------------
(* The theorems.                                                           *)

LEMMA Start == Init => IInv /\ Released
<1> SUFFICES ASSUME Init PROVE IInv /\ Released
  OBVIOUS
<1>1. /\ phase = "awake" /\ sleeps = 0 /\ ec \in {"reads", "fails"} /\ signals = <<>> /\ lock \in TakenLock
      /\ active \in Profiles /\ ecWedged = (ec = "fails") /\ loop = "listen" /\ restore = "none"
      /\ status = "ready" /\ cancelled = FALSE /\ hadBattery = TRUE /\ suspending = FALSE /\ suspendGen = 0
      /\ policyWritten = FALSE /\ tickGen = 0 /\ ticks = 0 /\ left = 0 /\ disturbed = {} /\ inForce = limit
  BY DEF Init
<1>2. /\ mode \in 1..2
      /\ limit = Row \/ (active \in Custom /\ limit = Wants[active].tdp)
      /\ offset \in BOOLEAN
  BY WantsTyped DEF Init, Owned
<1>3. Words
  BY <1>1, <1>2 DEF Words, TakenLock
<1>4. Channel
  BY <1>1 DEF Channel
<1>5. Fans
  <2>1. limit \in 0..TDPMaxForced
    BY <1>2, RowTyped, WantsTyped
  <2> QED BY <1>1, <1>2, <2>1 DEF Fans
<1>6. Counted /\ Ticked
  BY <1>1, BoundsTyped DEF Counted, Ticked
<1>7. Generations
  <2>1. \A i \in 1..4 : Pending(<<>>, i) = 0
    BY DEF Pending
  <2>2. Count(<<>>) = 0
    BY <2>1 DEF Count
  <2> QED BY <1>1, <2>2 DEF Generations, Hearing
<1>8. OneHolder /\ LimitKnown /\ FreeIsSafe /\ Overslept /\ Answered
  BY <1>1 DEF OneHolder, LimitKnown, FreeIsSafe, Overslept, Answered
<1>9. Released
  BY <1>1 DEF Released, LastTold, Settling, Quieted, Told
<1> QED BY <1>3, <1>4, <1>5, <1>6, <1>7, <1>8, <1>9, TypeParts DEF IInv

LEMMA Inductive == IInv /\ [Next]_vars => IInv'
<1> SUFFICES ASSUME IInv, [Next]_vars PROVE IInv'
  OBVIOUS
<1>1. Words /\ Channel /\ Fans /\ Counted /\ Ticked
      /\ Generations /\ OneHolder /\ LimitKnown /\ FreeIsSafe /\ Overslept /\ Answered
  BY TypeParts DEF IInv
<1>2. Words' /\ Channel' /\ Fans' /\ Counted' /\ Ticked' /\ Generations'
  BY <1>1, WordsStep, ChannelStep, FansStep, CountedStep, TickedStep
<1>3. OneHolder' /\ LimitKnown' /\ FreeIsSafe' /\ Overslept' /\ Answered'
  BY <1>1, OneHolderStep, LimitKnownStep, FreeIsSafeStep, OversleptStep, AnsweredStep
<1>4. TypeOK'
  BY <1>2, TypeParts DEF TypeOK, Words, Channel, Fans, Counted, Ticked
<1> QED BY <1>2, <1>3, <1>4 DEF IInv

LEMMA Invariant == Spec => []IInv
  BY Start, Inductive, PTL DEF Spec

\* Every variable keeps its type; of the counters, that a suspend is at most
\* one generation, and that a tick never takes the watcher past its budgets.
THEOREM TypeCorrect == Spec => []TypeOK
<1>1. IInv => TypeOK
  BY DEF IInv
<1> QED BY <1>1, Invariant, PTL

\* The fans go back to the firmware before a sleep only while the limit in
\* force needs no floor, whatever limit the daemon read (resume.go:
\* lowerLimitForRelease fails closed).
THEOREM FansFreedWhenSafe == Spec => LoweredBeforeFree
<1>1. ASSUME IInv, [Next]_vars PROVE [FreeFans => inForce <= TDPMaxSafe]_vars
  BY <1>1 DEF IInv, FreeIsSafe, FreeFans
<1>2. []IInv /\ [][Next]_vars => [][FreeFans => inForce <= TDPMaxSafe]_vars
  BY <1>1, PTL
<1> QED BY <1>2, Invariant, PTL DEF Spec, LoweredBeforeFree

\* What a resume owes is written, and the latch lifted, only once the EC has
\* answered, unless there was no battery to ask or a freeze fell in between.
THEOREM RestoresAfterAnswer == Spec => RestoredOnceAnswering
<1> DEFINE A == ((restore = "applying" /\ restore' = "none") \/ (ecWedged /\ ~ecWedged')) =>
                  ec = "reads" \/ ~hadBattery \/ "midway" \in disturbed
<1>1. ASSUME IInv, Next PROVE A
  <2> USE DEF machine, logind, hardware, watch, wait, flags, tick
  <2>1. Answered
    BY <1>1 DEF IInv
  <2>2. CASE restore = "applying"
    BY <2>1, <2>2 DEF Answered
  <2>3. CASE UNCHANGED ecWedged /\ restore # "applying"
    BY <2>3
  <2>4. CASE RecoverEC
    BY <2>4 DEF RecoverEC
  <2>5. CASE LatchEC
    BY <2>1, <2>5 DEF Answered, LatchEC
  <2>6. CASE SettleForSleep \/ ObserveForSleep \/ LowerLimit \/ FreeFans \/ ReleaseFails \/ Unlock \/ StartRestore
             \/ HearSleep \/ HearResume \/ AbandonRestore \/ WaitOver \/ RestoreProfile \/ StandDown \/ Reconcile
    BY <2>2, <2>3, <2>6 DEF SettleForSleep, ObserveForSleep, LowerLimit, FreeFans, ReleaseFails, Unlock,
       StartRestore, HearSleep, HearResume, AbandonRestore, WaitOver, RestoreProfile, StandDown, Reconcile
  <2>7. CASE Suspend \/ Freeze \/ Wake \/ GiveUpSuspend \/ ECAnswers \/ OutsideFans
             \/ \E p \in Profiles : HandleProfile(p) \/ Autoswitch(p)
    BY <2>2, <2>3, <2>7 DEF Suspend, Freeze, Wake, GiveUpSuspend, ECAnswers, OutsideFans, HandleProfile, Autoswitch
  <2> QED BY <1>1, <2>4, <2>5, <2>6, <2>7, SilentSteps DEF Silent
<1>2. ASSUME IInv, [Next]_vars PROVE [A]_vars
  <2>1. CASE Next
    BY <1>1, <1>2, <2>1
  <2>2. CASE UNCHANGED vars
    BY <2>2
  <2> QED BY <1>2, <2>1, <2>2
<1>3. []IInv /\ [][Next]_vars => [][A]_vars
  BY <1>2, PTL
<1> QED BY <1>3, Invariant, PTL DEF Spec, RestoredOnceAnswering

\* With the release enabled, a machine that freezes after the daemon has dealt
\* with the suspend freezes with its fans released (resume.go: the release
\* that follows always runs last), unless one of the named events came between.
THEOREM FreezesReleased == SleepRelease /\ Spec => ReleasedAtFreeze
<1> DEFINE A == (Freeze /\ Dealt /\ ~Excused /\ Owned /\ ~ecWedged) => mode # 1
<1> SUFFICES ASSUME SleepRelease PROVE Spec => ReleasedAtFreeze
  OBVIOUS
<1>1. ASSUME IInv, Released, [Next]_vars PROVE Released'
  <2>1. Words /\ Channel /\ Fans
    BY <1>1, TypeParts DEF IInv
  <2> QED BY <1>1, <2>1, LastToldStep, SettlingStep, QuietedStep DEF Released
<1>2. ASSUME Released, [Next]_vars PROVE [A]_vars
  BY <1>2 DEF Released, Quieted, Told, Dealt, Freeze
<1>3. Spec => []IInv /\ []Released
  BY <1>1, Start, Invariant, PTL DEF Spec
<1>4. []Released /\ [][Next]_vars => [][A]_vars
  BY <1>2, PTL
<1> QED BY <1>3, <1>4, PTL DEF Spec, ReleasedAtFreeze

=============================================================================
