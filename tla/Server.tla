------------------------------- MODULE Server -------------------------------
(***************************************************************************)
(* The socket server's commands as they share the state, the state file    *)
(* and the subscribers (internal/daemon/server.go, state.go, daemon.go).   *)
(* A lighting command holds d.mu until its save is done and announces      *)
(* nothing.  Every other command that changes state does so under d.mu,    *)
(* takes a deep copy, and saves and announces after it has released d.mu:  *)
(* the commands that write fan, power or profile hardware one at a time    *)
(* under hwMu, batterylimit, paneloverdrive and autoswitch under no lock.  *)
(* The switch to a custom profile alone changes the state first, writes    *)
(* the hardware, and takes its copy only then.  All saves go through the   *)
(* same temporary file.  Their part of the state is a version number here; *)
(* the lighting part is that of Lighting.                                  *)
(***************************************************************************)
EXTENDS Lighting

\* The three kinds of command that can be under way at the same time.
Savers == {"lighting", "hardware", "plain"}

VARIABLES
  rest,      \* version of everything in d.state but the lighting
  job,       \* each command: its next step, the file it writes, its copy
  copies,    \* how many copies of the state have been taken
  file, tmp, \* contents of state.json and state.json.tmp
  sub,       \* a client's subscription: none, acknowledged, registered, closed
  inbox,     \* an event waits in its socket
  view,      \* the version its last get-state showed, -1 before the first
  hung,      \* it has stopped reading
  mishaps,   \* since the start: saves that overlapped, overtook or failed
  missed     \* an event was sent between its acknowledgement and registration

fileVars == <<file, tmp, mishaps>>
clientVars == <<sub, inbox, view, hung, missed>>
serverVars == <<lightVars, rest, job, copies, fileVars, clientVars>>

\* A deep copy of the state, numbered in the order the copies are taken.
Copy(l, r) == [lights |-> l, rest |-> r, n |-> copies + 1]
Blank == [lights |-> [all |-> Default, zones |-> [z \in Zones |-> NoEntry]], rest |-> 0, n |-> 0]

Content(kind, s) == [kind |-> kind, state |-> s]
Absent == Content("absent", Blank)
Truncated == Content("empty", Blank)
Torn == Content("torn", Blank)
Whole(s) == Content("whole", s)

Idle == [pc |-> "idle", fd |-> "none", copy |-> Blank]

MuFree == job["lighting"] = Idle
HwMuFree == job["hardware"] = Idle
Saving(p) == job[p].pc \in {"open", "write", "rename"}
\* A switch to a custom profile that has changed the state and not copied it.
Applying == job["hardware"].pc = "apply"

ServerTypeOK ==
  /\ rest \in 0..(2 * MaxCommands) /\ copies \in 0..MaxCommands
  /\ \A p \in Savers : /\ job[p].pc \in {"idle", "apply", "open", "write", "rename", "notify"}
                       /\ job[p].fd \in {"none", "tmp", "file", "gone"}
  /\ {file.kind, tmp.kind} \subseteq {"absent", "empty", "torn", "whole"}
  /\ sub \in {"none", "acked", "registered", "closed"}
  /\ view \in -1..(2 * MaxCommands)
  /\ {inbox, hung, missed} \subseteq BOOLEAN
  /\ mishaps \subseteq {"overlap", "overtaken", "failed"}

-----------------------------------------------------------------------------
(* The commands up to their save.                                          *)

Begin(p, s) ==
  /\ job' = [job EXCEPT ![p] = [pc |-> "open", fd |-> "none", copy |-> s]]
  /\ copies' = copies + 1

\* A defect the checks must catch: what names a zone is not saved.
SavedForAll(device) == device = ""

\* A raw path is transient.
SavedFor(device) == Saves(device)

LightingHandler ==
  /\ MuFree
  /\ \E device \in Devices :
       /\ LightingCommand(device)
       /\ IF faults' = faults /\ SavedFor(device) THEN Begin("lighting", Copy(lights', rest))
          ELSE UNCHANGED <<job, copies>>
  /\ UNCHANGED <<rest, fileVars, clientVars>>

\* Any other command, its hardware written and d.state about to change.
OtherHandler(p) ==
  /\ p # "lighting" /\ job[p] = Idle /\ MuFree
  /\ commands < MaxCommands /\ commands' = commands + 1
  /\ rest' = rest + 1
  /\ Begin(p, Copy(lights, rest'))
  /\ UNCHANGED <<hardware, watch, lights, drift, unsent, faults, outages, fileVars, clientVars>>

\* profile --set of a custom profile: it is the active one before any of its
\* hardware is written, so that the reconcile watcher defends it meanwhile.
SwitchProfile ==
  /\ HwMuFree /\ MuFree
  /\ commands < MaxCommands /\ commands' = commands + 1
  /\ rest' = rest + 1
  /\ job' = [job EXCEPT !["hardware"] = [Idle EXCEPT !.pc = "apply"]]
  /\ UNCHANGED <<hardware, watch, lights, drift, unsent, faults, outages, copies, fileVars, clientVars>>

\* Its hardware is written: the record of the active offset is renewed, and
\* the copy is taken.
CommitApplied ==
  /\ Applying /\ MuFree
  /\ rest' = rest + 1
  /\ Begin("hardware", Copy(lights, rest'))
  /\ UNCHANGED <<lightVars, fileVars, clientVars>>

-----------------------------------------------------------------------------
(* saveState, one system call at a time.                                   *)

Unlit == UNCHANGED <<lightVars, rest, copies, clientVars>>

\* A defect the checks must catch: a failed save announces nothing.
AfterSaveIfOK(p, ok) == IF p = "lighting" \/ ~ok THEN Idle ELSE [Idle EXCEPT !.pc = "notify"]

\* saveAndNotify goes on after a save that failed.
AfterSave(p, ok) == IF p = "lighting" THEN Idle ELSE [Idle EXCEPT !.pc = "notify"]

Fails(p) ==
  /\ faults < MaxFaults /\ faults' = faults + 1
  /\ mishaps' = mishaps \cup {"failed"}
  /\ job' = [job EXCEPT ![p] = AfterSave(p, FALSE)]
  /\ UNCHANGED <<hardware, watch, lights, drift, unsent, commands, outages, rest, copies, clientVars>>

\* A defect the checks must catch: the state file itself is rewritten.
OpenInPlace(p) ==
  /\ job[p].pc = "open"
  /\ file' = Truncated
  /\ job' = [job EXCEPT ![p].pc = "write", ![p].fd = "file"]
  /\ UNCHANGED <<tmp, mishaps>> /\ Unlit

\* The temporary file is created or truncated, also under another's hands.
Open(p) ==
  /\ job[p].pc = "open"
  /\ tmp' = Truncated
  /\ job' = [job EXCEPT ![p].pc = "write", ![p].fd = "tmp"]
  /\ mishaps' = IF \E q \in Savers \ {p} : job[q].pc \in {"write", "rename"}
                THEN mishaps \cup {"overlap"} ELSE mishaps
  /\ UNCHANGED file /\ Unlit

\* Over another's bytes the longer of the two shows through.
Overwritten(old, s) == {Whole(s)} \cup (IF old = Truncated THEN {} ELSE {Torn})

Write(p) ==
  /\ job[p].pc = "write"
  /\ CASE job[p].fd = "tmp" -> tmp' \in Overwritten(tmp, job[p].copy) /\ UNCHANGED file
       [] job[p].fd = "file" -> file' \in Overwritten(file, job[p].copy) /\ UNCHANGED tmp
       [] OTHER -> UNCHANGED <<file, tmp>>
  /\ job' = [job EXCEPT ![p].pc = "rename", ![p].fd = "none"]
  /\ UNCHANGED mishaps /\ Unlit

\* A full disk: what was written of the temporary file is left.
WriteFails(p) ==
  /\ job[p].pc = "write" /\ job[p].fd = "tmp"
  /\ tmp' = Torn /\ UNCHANGED file
  /\ Fails(p)

\* What the others have open moves with the file they opened.
Moved(j, became) ==
  IF j.fd = "tmp" THEN [j EXCEPT !.fd = became]
  ELSE IF j.fd = "file" /\ became = "file" THEN [j EXCEPT !.fd = "gone"] ELSE j

Overtaken == file.kind = "whole" /\ tmp.kind = "whole" /\ file.state.n > tmp.state.n

Rename(p) ==
  /\ job[p].pc = "rename"
  /\ IF tmp = Absent THEN job' = [job EXCEPT ![p] = AfterSave(p, FALSE)] /\ UNCHANGED fileVars
     ELSE /\ file' = tmp /\ tmp' = Absent
          /\ job' = [q \in Savers |-> IF q = p THEN AfterSave(p, TRUE) ELSE Moved(job[q], "file")]
          /\ mishaps' = IF Overtaken THEN mishaps \cup {"overtaken"} ELSE mishaps
  /\ Unlit

\* The orphan is removed.
RenameFails(p) ==
  /\ job[p].pc = "rename" /\ tmp # Absent
  /\ tmp' = Absent /\ UNCHANGED file
  /\ faults < MaxFaults /\ faults' = faults + 1
  /\ mishaps' = mishaps \cup {"failed"}
  /\ job' = [q \in Savers |-> IF q = p THEN AfterSave(p, FALSE) ELSE Moved(job[q], "gone")]
  /\ UNCHANGED <<hardware, watch, lights, drift, unsent, commands, outages, rest, copies, clientVars>>

-----------------------------------------------------------------------------
(* Subscribers.                                                            *)

Unmoved == UNCHANGED <<lightVars, rest, copies, fileVars>>

Deliver == inbox' = TRUE /\ UNCHANGED <<sub, missed>>

\* A client that takes no more is dropped at the deadline.
TimesOut == hung /\ inbox /\ sub' = "closed" /\ inbox' = FALSE /\ UNCHANGED missed

\* A defect the checks must catch: without the deadline the send waits for room.
NotifyBlocking(p) ==
  /\ job[p].pc = "notify"
  /\ job' = [job EXCEPT ![p] = Idle]
  /\ \/ sub = "registered" /\ ~(hung /\ inbox) /\ Deliver
     \/ sub # "registered" /\ missed' = (missed \/ sub = "acked") /\ UNCHANGED <<sub, inbox>>
  /\ UNCHANGED <<view, hung>> /\ Unmoved

\* broadcast, after the save.
Notify(p) ==
  /\ job[p].pc = "notify"
  /\ job' = [job EXCEPT ![p] = Idle]
  /\ \/ sub = "registered" /\ (Deliver \/ TimesOut)
     \/ sub # "registered" /\ missed' = (missed \/ sub = "acked") /\ UNCHANGED <<sub, inbox>>
  /\ UNCHANGED <<view, hung>> /\ Unmoved

\* handleConn acknowledges a subscription first and registers it then.
Subscribe ==
  /\ sub = "none"
  /\ sub' = "acked" /\ view' = -1 /\ missed' = FALSE
  /\ UNCHANGED <<inbox, hung, job>> /\ Unmoved

AddSubscriber == sub = "acked" /\ sub' = "registered" /\ UNCHANGED <<inbox, view, hung, missed, job>> /\ Unmoved

\* The client reads the state once it is subscribed and at every event.
GetState ==
  /\ sub \in {"acked", "registered"} /\ ~hung /\ MuFree
  /\ inbox \/ view = -1
  /\ view' = rest /\ inbox' = FALSE
  /\ missed' = (missed /\ sub # "registered")
  /\ UNCHANGED <<sub, hung, job>> /\ Unmoved

Hang ==
  /\ sub = "registered" /\ ~hung /\ hung' = TRUE
  /\ Outage
  /\ UNCHANGED <<hardware, watch, lights, drift, unsent, commands, faults, rest, job, copies, fileVars, sub, inbox, view, missed>>

-----------------------------------------------------------------------------
(* The whole daemon.                                                       *)

\* The watchers and the nodes, as in Lighting.
Undisturbed == UNCHANGED <<rest, job, copies, fileVars, clientVars>>

Poll == MuFree /\ HotplugTick /\ Undisturbed
PrepareForSleep == MuFree /\ TurnOffForSleep /\ Undisturbed
Wake == MuFree /\ HwMuFree /\ Resume /\ Undisturbed
Node == Nodes /\ Undisturbed

\* loadState: what cannot be read is the default state, what does not parse is
\* moved out of the way first.
Loaded(f) == IF f.kind = "whole" THEN f.state ELSE Blank

\* The process is killed, whatever it was doing, and started again.
Restarted ==
  /\ Outage
  /\ Start(Loaded(file).lights) /\ rest' = Loaded(file).rest
  /\ file' = IF file.kind = "whole" THEN file ELSE Absent
  /\ job' = [p \in Savers |-> Idle]
  /\ mishaps' = {}
  /\ sub' = "none" /\ inbox' = FALSE /\ view' = -1 /\ hung' = FALSE /\ missed' = FALSE
  /\ UNCHANGED <<node, commands, copies, tmp>>

\* The lightbar is built in, and udev has long given access to it.  A file
\* that says the default state loads as no file does.
Init ==
  /\ \E l \in FirstLights :
       /\ LightInit(l) /\ node["lightbar"] = "ready"
       /\ file = IF l = Blank.lights THEN Absent ELSE Whole([lights |-> l, rest |-> 0, n |-> 0])
  /\ rest = 0 /\ job = [p \in Savers |-> Idle] /\ copies = 0
  /\ tmp = Absent /\ mishaps = {}
  /\ sub = "none" /\ inbox = FALSE /\ view = -1 /\ hung = FALSE /\ missed = FALSE

Save(p) == Open(p) \/ Write(p) \/ Rename(p)

Next ==
  \/ LightingHandler \/ SwitchProfile \/ CommitApplied
  \/ \E p \in Savers : OtherHandler(p) \/ Save(p) \/ WriteFails(p) \/ RenameFails(p) \/ Notify(p)
  \/ Subscribe \/ AddSubscriber \/ GetState \/ Hang
  \/ Poll \/ PrepareForSleep \/ Wake \/ Node \/ Restarted

Spec == Init /\ [][Next]_serverVars

-----------------------------------------------------------------------------
(* Properties.                                                             *)

(***************************************************************************)
(* state.json parses at every moment, so a daemon killed anywhere starts   *)
(* from a state it had, unless two saves have had the temporary file open  *)
(* at the same time.                                                       *)
(***************************************************************************)
FileWhole == "overlap" \in mishaps \/ file.kind \in {"absent", "whole"}

(***************************************************************************)
(* Once no command is between its change of the state and the end of its   *)
(* save, the file says what the daemon would load to be where it is,       *)
(* lighting and everything else, unless a save failed, overlapped another, *)
(* or finished after the save of a later change.  For the switch to a      *)
(* custom profile that stretch holds all its hardware writes               *)
(* (profile.go:66, 172-183), and a kill in it starts from the profile      *)
(* before.                                                                 *)
(***************************************************************************)
FileKeepsUp ==
  mishaps = {} /\ ~Applying /\ (\A p \in Savers : ~Saving(p))
    => /\ Repaired(Loaded(file).lights) = Repaired(lights)
       /\ Loaded(file).rest = rest

(***************************************************************************)
(* A registered client that has read the state after every event it got    *)
(* shows the state as it is, once no command that will announce is under   *)
(* way, saved or not; excepted is an event that fell between its           *)
(* acknowledgement and its registration.                                   *)
(***************************************************************************)
NoMissedChange ==
  /\ sub = "registered" /\ ~inbox /\ ~missed /\ view # -1
  /\ \A p \in Savers \ {"lighting"} : job[p] = Idle
  => view = rest

(***************************************************************************)
(* A command under way can always take its next step and so ends and gives *)
(* its lock back, whatever a subscriber does that has stopped reading; it  *)
(* waits for d.mu at most, which only a lighting command keeps.            *)
(***************************************************************************)
CommandsGoOn ==
  \A p \in Savers : job[p] # Idle =>
    IF job[p].pc = "apply" THEN MuFree => ENABLED CommitApplied ELSE ENABLED (Save(p) \/ Notify(p))
=============================================================================
