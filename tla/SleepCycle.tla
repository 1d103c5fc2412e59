----------------------------- MODULE SleepCycle -----------------------------
(***************************************************************************)
(* Suspend and resume (internal/daemon/resume.go), with everything else in *)
(* the daemon that may write the fans around them.  Four parties move:     *)
(*   - logind, which announces a suspend and a resume by PrepareForSleep,  *)
(*     and waits for the daemon's delay lock in between;                   *)
(*   - watchResume's loop, which releases the fans before the freeze, and  *)
(*     the goroutine that restores them once the embedded controller (EC)  *)
(*     answers again;                                                      *)
(*   - the reconcile watcher, a client's command and an autoswitch, each   *)
(*     one step under hwMu;                                                *)
(*   - the EC, which a resume may find not answering, and the machine.     *)
(* Time is abstract: a suspend leaves the watcher DelayTicks ticks before  *)
(* the freeze and a resume WaitTicks ticks until the EC wait is over, and  *)
(* together they are fewer than the StandDownTicks of its stand-down.      *)
(***************************************************************************)
EXTENDS FanFloor, Sequences

CONSTANTS
  Custom,          \* custom profiles, all of them non-empty
  Asked,           \* the profiles clients and autoswitch ask for
  Wants,           \* what each sets: a curve or not, a limit or 0, an offset
  Row,             \* the firmware profile's limit
  StandDownTicks,  \* reconcileSuspendMaxTicks
  DelayTicks,      \* watcher ticks that fit in logind's delay
  WaitTicks,       \* watcher ticks that fit in waitForEC
  MaxSleeps,       \* bound on the suspends of a behaviour
  SleepRelease,    \* FALSE under --no-sleep-release
  Lossy,           \* a PrepareForSleep signal may be lost
  LockDenied,      \* logind may refuse the delay lock, or stop waiting for it
  DeadEC,          \* what a resume that loses the EC leaves of its battery
  Faults           \* reads and writes of the pre-sleep release may fail

Stock == "stock"
Profiles == Custom \cup {Stock}

ASSUME SleepAssumption ==
  /\ Custom \cap {Stock} = {}
  /\ Asked \subseteq Custom \cup {Stock}
  /\ Wants \in [Custom -> [curve : BOOLEAN, tdp : 0..TDPMaxForced, offset : BOOLEAN]]
  /\ Row \in 1..TDPMaxSafe
  /\ DeadEC \in {"fails", "gone"}
  /\ {DelayTicks, WaitTicks, MaxSleeps} \subseteq Nat
  /\ StandDownTicks \in Nat /\ DelayTicks + WaitTicks < StandDownTicks
  /\ {SleepRelease, Lossy, LockDenied, Faults} \subseteq BOOLEAN

VARIABLES
  phase,          \* the machine: awake, delaying a suspend, or frozen
  signals,        \* watchResume's channel: TRUE is PrepareForSleep(true)
  lock,           \* the delay lock is held
  ec,             \* what a read of the battery capacity finds
  mode,           \* pwm1_enable
  limit,          \* the PL1 attribute
  inForce,        \* the PL1 the firmware enforces
  offset,         \* the Curve Optimizer offset is applied
  loop,           \* where watchResume's loop is
  restore,        \* where the goroutine of sleepCycle.resumed is
  status,         \* what its wait found
  cancelled,      \* its context is cancelled
  hadBattery,     \* a battery was registered when the last suspend began
  active,         \* state.Profile
  suspending, suspendGen, ecWedged, policyWritten,   \* fields of Daemon
  tickGen, ticks, \* reconcileState: suspendGen and suspendedTicks
  left,           \* ticks that still fit in this delay or wait
  sleeps,         \* suspends so far
  disturbed       \* what came in the way of this suspend; read by properties

machine  == <<phase, ec, sleeps>>
logind   == <<signals, lock>>
hardware == <<mode, limit, inForce, offset>>
watch    == <<loop, cancelled, hadBattery>>
wait     == <<restore, status>>
flags    == <<suspending, suspendGen, ecWedged>>
tick     == <<tickGen, ticks, left>>
vars == <<machine, logind, hardware, watch, wait, flags, policyWritten, tick,
          active, disturbed>>

TypeOK ==
  /\ phase \in {"awake", "delaying", "asleep"}
  /\ signals \in Seq(BOOLEAN) /\ Len(signals) <= 4
  /\ ec \in {"reads", "fails", "gone"}
  /\ mode \in 0..2
  /\ {limit, inForce} \subseteq 0..TDPMaxForced
  /\ {lock, offset, cancelled, hadBattery,
      suspending, ecWedged, policyWritten} \subseteq BOOLEAN
  /\ loop \in {"listen", "settle", "release", "lower", "free", "unlock", "resettle"}
  /\ restore \in {"none", "waiting", "verdict", "applying"}
  /\ status \in {"ready", "absent", "wedged"}
  /\ active \in Profiles
  /\ {suspendGen, tickGen, sleeps} \subseteq 0..MaxSleeps
  /\ ticks \in 0..(StandDownTicks - 1)
  /\ left \in 0..(DelayTicks + WaitTicks)
  /\ disturbed \subseteq {"unheard", "unarmed", "midway", "overtaken", "ceiling"}

-----------------------------------------------------------------------------
Running == phase # "asleep"
hwMuFree == loop \notin {"lower", "free"} /\ restore # "applying"
Owned == active \in Custom
WantsFans(p) == Wants[p].curve \/ Wants[p].tdp > TDPMaxSafe

\* A lock, or the refusal of one: takeSleepInhibitor is best effort.
TakenLock == {TRUE} \cup (IF LockDenied THEN {FALSE} ELSE {})

Deliver(v) == signals' = Append(signals, v)

\* Writing pwm_enable=2: the firmware re-applies its own limit.
FirmwareAuto == mode' = 2 /\ inForce' = Row /\ policyWritten' = TRUE

\* The hardware once applyCustomHW, or applyStockHW, is through.
Apply(p) ==
  IF p = Stock
  THEN FirmwareAuto /\ limit' = Row /\ offset' = FALSE
  ELSE LET w == Wants[p].tdp IN
       /\ mode' = IF WantsFans(p) THEN 1 ELSE 2
       /\ limit' = IF w = 0 THEN Row ELSE w
       /\ inForce' = IF w = 0 THEN Row ELSE w
       /\ offset' = Wants[p].offset
       /\ policyWritten' = (policyWritten \/ w = 0 \/ ~WantsFans(p))

-----------------------------------------------------------------------------
(* logind and the machine.                                                 *)

\* PrepareForSleep(true) goes out, to whoever still hears it.
Suspend ==
  /\ phase = "awake"
  /\ sleeps < MaxSleeps
  /\ phase' = "delaying"
  /\ sleeps' = sleeps + 1
  /\ left' = DelayTicks
  /\ \/ /\ Len(signals) < 4
        /\ Deliver(TRUE)
        /\ disturbed' = disturbed \cap {"midway"}
     \/ /\ Lossy
        /\ UNCHANGED signals
        /\ disturbed' = (disturbed \cap {"midway"}) \cup {"unheard"}
  /\ UNCHANGED <<ec, lock, hardware, watch, wait, flags, policyWritten, tickGen, ticks, active>>

\* The last delay lock is closed, or logind has waited long enough.
Freeze ==
  /\ phase = "delaying"
  /\ ~lock \/ LockDenied \/ "unheard" \in disturbed
  /\ phase' = "asleep"
  /\ disturbed' = disturbed \cup
                    (IF restore \in {"verdict", "applying"} THEN {"midway"} ELSE {})
  /\ UNCHANGED <<ec, sleeps, logind, hardware, watch, wait, flags, policyWritten, tick, active>>

\* PrepareForSleep(false), after a sleep or a suspend that was given up.
AnnounceResume ==
  \/ /\ Len(signals) < 4
     /\ Deliver(FALSE)
     /\ disturbed' = disturbed \cap {"midway"}
  \/ /\ Lossy
     /\ UNCHANGED signals
     /\ disturbed' = (disturbed \cap {"midway"}) \cup {"unheard"}
                       \cup (IF suspending THEN {} ELSE {"unarmed"})

\* The offset does not survive the sleep, and the EC may not either.
Wake ==
  /\ phase = "asleep"
  /\ phase' = "awake"
  /\ offset' = FALSE
  /\ ec' \in {"reads", DeadEC}
  /\ AnnounceResume
  /\ UNCHANGED <<sleeps, lock, mode, limit, inForce, watch, wait, flags, policyWritten, tick, active>>

GiveUpSuspend ==
  /\ phase = "delaying"
  /\ phase' = "awake"
  /\ AnnounceResume
  /\ UNCHANGED <<ec, sleeps, lock, hardware, watch, wait, flags, policyWritten, tick, active>>

ECAnswers ==
  /\ Running
  /\ ec # "reads"
  /\ ec' = "reads"
  /\ UNCHANGED <<phase, sleeps, logind, hardware, watch, wait, flags, policyWritten, tick, active, disturbed>>

\* A platform_profile write or fan release by another program, or its
\* pwm_enable=0: full speed.
OutsideFans ==
  /\ Running
  /\ \/ FirmwareAuto
     \/ mode' = 0 /\ UNCHANGED <<inForce, policyWritten>>
  /\ UNCHANGED <<machine, logind, limit, offset, watch, wait, flags, tick, active, disturbed>>

-----------------------------------------------------------------------------
(* watchResume's loop, PrepareForSleep(true).                              *)

Hear(v) ==
  /\ Running
  /\ loop = "listen" /\ signals # <<>> /\ Head(signals) = v
  /\ signals' = Tail(signals)
  /\ cancelled' = TRUE

\* A defect the checks must catch: the restore is cancelled, not waited for.
NeverWait == TRUE

\* sleepCycle.settle returns: no restore is left that could still write.
Settled == restore = "none"

HearSleep ==
  /\ Hear(TRUE)
  /\ loop' = "settle"
  /\ UNCHANGED <<machine, lock, hardware, hadBattery, wait, flags, policyWritten, tick, active, disturbed>>

SettleForSleep ==
  /\ Running
  /\ loop = "settle" /\ Settled
  /\ cancelled' = FALSE
  /\ hadBattery' = (ec # "gone")
  /\ lock' \in (IF lock THEN {TRUE} ELSE TakenLock)
  /\ loop' = "release"
  /\ UNCHANGED <<machine, signals, hardware, wait, flags, policyWritten, tick, active, disturbed>>

Unreadable == -1

\* A defect the checks must catch: an unreadable limit is taken for a safe one.
SleepTickOpen(wedged, m, pl1) ==
  IF wedged \/ ~Owned \/ m # 1 THEN "none"
  ELSE IF pl1 > TDPMaxSafe THEN "lower" ELSE "free"

\* sleepTick: release what applyCustomHW will put back, and nothing else.
SleepTick(wedged, m, pl1) ==
  IF wedged \/ ~Owned \/ m # 1 THEN "none"
  ELSE IF pl1 = Unreadable \/ pl1 > TDPMaxSafe THEN "lower" ELSE "free"

\* releaseVolatileState up to its first write; suspending is raised only now.
ObserveForSleep ==
  /\ Running
  /\ loop = "release" /\ hwMuFree
  /\ \E m \in {mode} \cup (IF Faults THEN {Unreadable} ELSE {}),
        pl1 \in {limit} \cup (IF Faults THEN {Unreadable} ELSE {}) :
       LET act == IF SleepRelease THEN SleepTick(ecWedged, m, pl1) ELSE "none"
       IN  /\ loop' = IF act = "none" THEN "unlock" ELSE act
           /\ suspending' = (suspending \/ act # "none")
           /\ suspendGen' = suspendGen + IF act # "none" /\ ~suspending THEN 1 ELSE 0
           /\ disturbed' = disturbed \cup
                (IF m = Unreadable \/ (m # 1 /\ Owned /\ ~suspending)
                 THEN {"overtaken"} ELSE {})
  /\ UNCHANGED <<machine, logind, hardware, cancelled, hadBattery, wait, ecWedged, policyWritten, tick, active>>

\* lowerLimitForRelease: the firmware's row, or without one a clamp.
LowerLimit ==
  /\ Running
  /\ loop = "lower"
  /\ \/ limit' = Row
     \/ limit' = IF limit > TDPMaxSafe THEN TDPMaxSafe ELSE limit
  /\ inForce' = IF limit' = limit /\ limit' # Row THEN inForce ELSE limit'
  /\ loop' = "free"
  /\ UNCHANGED <<machine, logind, mode, offset, cancelled, hadBattery, wait, flags, policyWritten, tick, active, disturbed>>

FreeFans ==
  /\ Running
  /\ loop = "free"
  /\ FirmwareAuto
  /\ loop' = "unlock"
  /\ UNCHANGED <<machine, logind, limit, offset, cancelled, hadBattery, wait, flags, tick, active, disturbed>>

\* Fail closed: a loud suspend rather than a high limit without its floor.
ReleaseFails ==
  /\ Running /\ Faults
  /\ loop \in {"lower", "free"}
  /\ loop' = "unlock"
  /\ disturbed' = disturbed \cup {"overtaken"}
  /\ UNCHANGED <<machine, logind, hardware, cancelled, hadBattery, wait, flags, policyWritten, tick, active>>

\* After releaseHold, which keeps the suspend away from the release.
Unlock ==
  /\ Running
  /\ loop = "unlock"
  /\ lock' = FALSE
  /\ loop' = "listen"
  /\ UNCHANGED <<machine, signals, hardware, cancelled, hadBattery, wait, flags, policyWritten, tick, active, disturbed>>

-----------------------------------------------------------------------------
(* PrepareForSleep(false), and the restore it starts.                      *)

\* The lock is taken afresh before anything else.
HearResume ==
  /\ Hear(FALSE)
  /\ lock' \in TakenLock
  /\ loop' = "resettle"
  /\ UNCHANGED <<machine, hardware, hadBattery, wait, flags, policyWritten, tick, active, disturbed>>

StartRestore ==
  /\ Running
  /\ loop = "resettle" /\ Settled
  /\ loop' = "listen"
  /\ restore' = "waiting"
  /\ cancelled' = FALSE
  /\ left' = IF phase = "awake" THEN WaitTicks ELSE left
  /\ UNCHANGED <<machine, logind, hardware, hadBattery, status, flags, policyWritten, tickGen, ticks, active, disturbed>>

\* The wait is given up: nothing was written, and nothing will be.
AbandonRestore ==
  /\ Running
  /\ restore = "waiting" /\ cancelled
  /\ restore' = "none"
  /\ UNCHANGED <<machine, logind, hardware, watch, status, flags, policyWritten, tick, active, disturbed>>

\* classifyECRead.
ProbeEC == CASE ec = "reads" -> "ready" [] ec = "gone" -> "absent" [] OTHER -> "wedged"

\* A defect the checks must catch: a battery that vanished is no battery.
TrustAbsence(s) == s

ECStatusAfterSleep(s) == IF s = "absent" /\ hadBattery THEN "wedged" ELSE s

\* The wait ends at the first clean read, or at its deadline with whatever
\* the last probe saw; the probes before that change nothing.
WaitOver ==
  /\ Running
  /\ restore = "waiting"
  /\ status' = ECStatusAfterSleep(ProbeEC)
  /\ restore' = "verdict"
  /\ UNCHANGED <<machine, logind, hardware, watch, flags, policyWritten, tick, active, disturbed>>

\* restoreVolatileState up to the apply: the latch and the lighting.
LatchEC ==
  /\ Running
  /\ restore = "verdict" /\ hwMuFree
  /\ ecWedged' = (status = "wedged")
  /\ IF Owned /\ status # "wedged"
     THEN restore' = "applying" /\ UNCHANGED <<suspending, disturbed>>
     ELSE /\ restore' = "none"
          /\ suspending' = FALSE
          /\ disturbed' = disturbed \ {"midway"}
  /\ status' = "ready"
  /\ UNCHANGED <<machine, logind, hardware, loop, cancelled, hadBattery, suspendGen, policyWritten, tick, active>>

\* suspending is cleared on the way out, with hwMu still held.
RestoreProfile ==
  /\ Running
  /\ restore = "applying"
  /\ Apply(active)
  /\ suspending' = FALSE
  /\ restore' = "none"
  /\ disturbed' = disturbed \ {"midway"}
  /\ UNCHANGED <<machine, logind, watch, status, suspendGen, ecWedged, tick, active>>

-----------------------------------------------------------------------------
(* The other writers, one step each under hwMu.                            *)

\* A defect the checks must catch: the recovery leaves the apply to the ticks.
ClearLatchOnly ==
  /\ Running /\ hwMuFree
  /\ ecWedged /\ ec = "reads"
  /\ ecWedged' = FALSE
  /\ UNCHANGED <<machine, logind, hardware, watch, wait, suspending, suspendGen, policyWritten, tick, active, disturbed>>

\* reconcileOnce while the latch is set: the apply that the resume held back.
RecoverEC ==
  /\ Running /\ hwMuFree
  /\ ecWedged /\ ec = "reads"
  /\ ecWedged' = FALSE
  /\ IF Owned THEN Apply(active) ELSE UNCHANGED <<hardware, policyWritten>>
  /\ disturbed' = disturbed \cup (IF phase = "delaying" THEN {"overtaken"} ELSE {})
  /\ UNCHANGED <<machine, logind, watch, wait, suspending, suspendGen, tick, active>>

\* Ticks that fall into a delay or a wait are as few as fit in it.
Hurried ==
  phase = "delaying" \/ signals # <<>> \/ loop # "listen" \/ restore # "none"

SpendTick == left' = IF Hurried /\ suspending THEN left - 1 ELSE left

TickCount == (IF tickGen = suspendGen THEN ticks ELSE 0) + 1

CanTick ==
  /\ Running /\ hwMuFree /\ ~ecWedged
  /\ Hurried /\ suspending => left > 0

\* A defect the checks must catch: the budget is one tick longer.
StandDownOneMore ==
  /\ CanTick
  /\ suspending /\ TickCount <= StandDownTicks
  /\ ticks' = TickCount
  /\ tickGen' = suspendGen
  /\ policyWritten' = FALSE
  /\ SpendTick
  /\ UNCHANGED <<machine, logind, hardware, watch, wait, flags, active, disturbed>>

\* reconcileTick during a suspend: the report of a policy write is consumed.
StandDown ==
  /\ CanTick
  /\ suspending /\ TickCount < StandDownTicks
  /\ ticks' = TickCount
  /\ tickGen' = suspendGen
  /\ policyWritten' = FALSE
  /\ SpendTick
  /\ UNCHANGED <<machine, logind, hardware, watch, wait, flags, active, disturbed>>

\* reconcileTick and the writes it decides on.  At the ceiling of the
\* stand-down pl1 is not read, and the offset is written again.
Reconcile ==
  /\ CanTick
  /\ suspending => TickCount >= StandDownTicks
  /\ suspending' = FALSE
  /\ ticks' = 0
  /\ tickGen' = suspendGen
  /\ policyWritten' = FALSE
  /\ SpendTick
  /\ disturbed' = disturbed \cup (IF suspending THEN {"ceiling"} ELSE {})
  /\ IF ~Owned THEN UNCHANGED hardware
     ELSE LET w == Wants[active].tdp
              c == Wants[active].curve
              pl1 == IF suspending THEN Unreadable ELSE limit
              dropped == mode = 2 /\ (c \/ pl1 > TDPMaxSafe)
              lost == w # 0 /\ (dropped \/ policyWritten \/ pl1 \notin {Unreadable, w})
              floorLimit == IF lost THEN w ELSE pl1
          IN  /\ limit' = IF lost THEN w ELSE limit
              /\ inForce' = IF lost THEN w ELSE inForce
              /\ mode' = IF \/ lost /\ w > TDPMaxSafe
                            \/ dropped /\ (c \/ floorLimit > TDPMaxSafe)
                         THEN 1 ELSE mode
              /\ offset' = (offset \/ (suspending /\ Wants[active].offset))
  /\ UNCHANGED <<machine, logind, watch, wait, suspendGen, ecWedged, active>>

Switching == disturbed' = disturbed \cup (IF phase = "delaying" THEN {"overtaken"} ELSE {})

\* handleProfile: refused by dispatch while the latch is set.
HandleProfile(p) ==
  /\ Running /\ hwMuFree
  /\ ~ecWedged
  /\ active' = p
  /\ Apply(p)
  /\ Switching
  /\ UNCHANGED <<machine, logind, watch, wait, flags, tick>>

\* powerSourceOnce on a confirmed change of source.
Autoswitch(p) ==
  /\ Running /\ hwMuFree
  /\ ~suspending /\ ~ecWedged
  /\ active' = p
  /\ Apply(p)
  /\ Switching
  /\ UNCHANGED <<machine, logind, watch, wait, flags, tick>>

-----------------------------------------------------------------------------
\* Run: a profile is restored, unless the EC does not answer its probe.
Init ==
  /\ phase = "awake" /\ sleeps = 0
  /\ ec \in {"reads", "fails"}
  /\ signals = <<>>
  /\ lock \in TakenLock
  /\ active \in Profiles
  /\ LET applied == Owned /\ ec = "reads"
         w == IF applied THEN Wants[active].tdp ELSE 0
     IN  /\ mode = IF applied /\ WantsFans(active) THEN 1 ELSE 2
         /\ limit = IF w = 0 THEN Row ELSE w
         /\ inForce = limit
         /\ offset = (applied /\ Wants[active].offset)
  /\ ecWedged = (ec = "fails")
  /\ loop = "listen"
  /\ restore = "none" /\ status = "ready" /\ cancelled = FALSE
  /\ hadBattery = TRUE
  /\ suspending = FALSE /\ suspendGen = 0
  /\ policyWritten = FALSE
  /\ tickGen = 0 /\ ticks = 0 /\ left = 0
  /\ disturbed = {}

SleepLoop ==
  \/ HearSleep \/ SettleForSleep \/ ObserveForSleep \/ LowerLimit \/ FreeFans
  \/ ReleaseFails \/ Unlock \/ HearResume \/ StartRestore

Resume == AbandonRestore \/ WaitOver \/ LatchEC \/ RestoreProfile

Watcher == RecoverEC \/ StandDown \/ Reconcile

Environment ==
  \/ Suspend \/ Freeze \/ Wake \/ GiveUpSuspend \/ ECAnswers \/ OutsideFans
  \/ \E p \in Asked : HandleProfile(p) \/ Autoswitch(p)

Next == SleepLoop \/ Resume \/ Watcher \/ Environment

\* The daemon's goroutines are scheduled while the machine runs; logind, the
\* EC and the clients owe it nothing.
Fairness ==
  /\ WF_vars(SleepLoop)
  /\ WF_vars(Resume)
  /\ WF_vars(Watcher)

Spec == Init /\ [][Next]_vars /\ Fairness

-----------------------------------------------------------------------------
(* Properties.                                                             *)

\* The daemon has dealt with this suspend and is waiting for the freeze.
Dealt == "unheard" \notin disturbed /\ signals = <<>> /\ loop = "listen"

\* What may still leave a curve running through a suspend: an operation that
\* lands between the release and the freeze, a fan access that fails, a curve
\* that was off just when the suspend began, an EC that answers again between
\* the two, and a stand-down that expired: its budget adds up over suspends
\* whose restore was skipped, for they are one generation.
Excused == disturbed \cap {"overtaken", "ceiling"} # {}

\* However suspends, resumes, half-done restores and watcher ticks follow each
\* other, a machine that freezes after the daemon has dealt with the suspend
\* freezes with its fans released (resume.go: "the release that follows
\* always runs last").
ReleasedAtFreeze ==
  [][(Freeze /\ Dealt /\ ~Excused /\ Owned /\ ~ecWedged) => mode # 1]_vars

\* The fans go back to the firmware before a sleep only from a limit that needs
\* no floor, whatever the limit read as.
LoweredBeforeFree == [][FreeFans => inForce <= TDPMaxSafe]_vars

\* What a resume owes is written, and the latch lifted, only once the EC has
\* answered - provided a battery was registered when the suspend began, and no
\* freeze fell between the verdict and the writes.
RestoredOnceAnswering ==
  [][((restore = "applying" /\ restore' = "none") \/ (ecWedged /\ ~ecWedged')) =>
        ec = "reads" \/ ~hadBattery \/ "midway" \in disturbed]_vars

\* Everything a sleep took away is back.  Fans that another program forced to
\* full speed are left alone, and they hide a limit lost while the watcher
\* stood down: the report of the loss was consumed then.
Restored ==
  /\ ~suspending /\ ~ecWedged
  /\ Owned =>
       /\ Wants[active].tdp \in {0, inForce} \/ mode = 0
       /\ WantsFans(active) => mode \in {0, 1}
       /\ offset = Wants[active].offset \/ "unarmed" \in disturbed

\* Once the machine stays awake and its EC answers, the daemon brings back the
\* profile and its offset, and its watchers work again - also when the resume
\* was never announced, but then not the offset of a suspend that had released
\* nothing (the ceiling of reconcile.go, its recovery arm, and resume.go).
Recovers ==
  \/ []<><<Environment>>_vars
  \/ []<>(phase # "awake" \/ ec # "reads")
  \/ <>[]Restored

=============================================================================
