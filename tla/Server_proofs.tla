--------------------------- MODULE Server_proofs ---------------------------
(***************************************************************************)
(* The commands, the state file and the subscribers, for any number of     *)
(* commands, failures and restarts.                                        *)
(***************************************************************************)
EXTENDS Server, Lighting_proofs

-----------------------------------------------------------------------------
(* The inductive invariant.                                                *)

Kinds == {"absent", "empty", "torn", "whole"}
CopySet == {s \in [lights : LightsSet, rest : Nat, n : Nat] : Named(s.lights)}
ContentSet == [kind : Kinds, state : CopySet]
JobSet == [pc : {"idle", "apply", "open", "write", "rename", "notify"},
           fd : {"none", "tmp", "file", "gone"}, copy : CopySet]

FilesTyped ==
  /\ rest \in Nat /\ copies \in Nat
  /\ job \in [Savers -> JobSet]
  /\ file \in ContentSet /\ tmp \in ContentSet

\* A save that has opened the temporary file and not renamed it yet.
InTmp(p) == job[p].pc \in {"write", "rename"}

\* Without an overlap the temporary file is one command's alone, from its open
\* to its rename, and the state file is written by renames only.
Alone ==
  "overlap" \notin mishaps =>
    /\ \A p, q \in Savers : InTmp(p) /\ InTmp(q) => p = q
    /\ \A p \in Savers : /\ job[p].pc = "write" => job[p].fd = "tmp" /\ tmp = Truncated
                         /\ job[p].pc = "rename" => tmp = Whole(job[p].copy)
    /\ file.kind \in {"absent", "whole"}

\* Copies are numbered in the order they were taken.
Numbered ==
  /\ file.state.n <= copies /\ tmp.state.n <= copies
  /\ \A p \in Savers : job[p].copy.n <= copies

\* A copy that says what the daemon has now, up to loadState's repair.
Fresh(s) == Repaired(s.lights) = Repaired(lights) /\ s.rest = rest

\* No save under way is of a later copy than n.
NoneLater(n) == \A q \in Savers : Saving(q) => job[q].copy.n <= n

\* As long as nothing has gone wrong, the latest of the copies being saved and
\* the one in the file is the state as it is, unless a switch to a custom
\* profile has yet to copy what it changed.
NewestFresh ==
  mishaps = {} /\ ~Applying =>
    /\ NoneLater(Loaded(file).n) => Fresh(Loaded(file))
    /\ \A p \in Savers :
         Saving(p) /\ Loaded(file).n <= job[p].copy.n /\ NoneLater(job[p].copy.n)
           => Fresh(job[p].copy)

\* No command that announces is under way.
Announced == \A p \in Savers \ {"lighting"} : job[p] = Idle

\* From the acknowledgement on a client that has read what it was sent shows
\* the state as it is.
Subscribed ==
  sub \in {"acked", "registered"} /\ ~inbox /\ ~missed /\ view # -1 /\ Announced
    => view = rest

FilesInv == FilesTyped /\ Alone /\ Numbered /\ NewestFresh

IInv == LightInv /\ FilesInv /\ Subscribed

-----------------------------------------------------------------------------
(* Copies, contents and jobs.                                              *)

LEMMA CopyIntro ==
  ASSUME NEW l \in LightsSet, Named(l), NEW r \in Nat, NEW k \in Nat
  PROVE  /\ [lights |-> l, rest |-> r, n |-> k] \in CopySet
         /\ [lights |-> l, rest |-> r, n |-> k].lights = l
         /\ [lights |-> l, rest |-> r, n |-> k].rest = r
         /\ [lights |-> l, rest |-> r, n |-> k].n = k
  BY DEF CopySet

LEMMA CopyFields ==
  ASSUME NEW s \in CopySet
  PROVE  s.lights \in LightsSet /\ Named(s.lights) /\ s.rest \in Nat /\ s.n \in Nat
  BY DEF CopySet

LEMMA BlankCopy == Blank \in CopySet /\ Blank.n = 0
<1> DEFINE l == [all |-> Default, zones |-> [z \in Zones |-> NoEntry]]
<1>1. Default.look \in Names
  BY NamesNamed DEF Default
<1>2. l \in LightsSet /\ Named(l)
  BY <1>1, FixedEntries, ForAllZones
<1> HIDE DEF l
<1>3. Blank = [lights |-> l, rest |-> 0, n |-> 0]
  BY DEF Blank, l
<1> QED BY <1>2, <1>3, CopyIntro

LEMMA ContentFields ==
  ASSUME NEW c \in ContentSet
  PROVE  c.kind \in Kinds /\ c.state \in CopySet
  BY DEF ContentSet

LEMMA ContentIs ==
  ASSUME NEW kind \in Kinds, NEW s \in CopySet
  PROVE  /\ Content(kind, s) \in ContentSet
         /\ Content(kind, s).kind = kind /\ Content(kind, s).state = s
  BY DEF Content, ContentSet

LEMMA FixedContents ==
  /\ Absent \in ContentSet /\ Absent.kind = "absent" /\ Absent.state = Blank
  /\ Truncated \in ContentSet /\ Truncated.kind = "empty" /\ Truncated.state = Blank
  /\ Torn \in ContentSet /\ Torn.kind = "torn" /\ Torn.state = Blank
  BY BlankCopy, ContentIs DEF Absent, Truncated, Torn, Kinds

LEMMA WholeIs ==
  ASSUME NEW s \in CopySet
  PROVE  Whole(s) \in ContentSet /\ Whole(s).kind = "whole" /\ Whole(s).state = s
  BY ContentIs DEF Whole, Kinds

LEMMA LoadedIs ==
  ASSUME NEW c \in ContentSet
  PROVE  /\ Loaded(c) \in CopySet
         /\ c.kind = "whole" => Loaded(c) = c.state
         /\ c.kind # "whole" => Loaded(c) = Blank
  BY BlankCopy, ContentFields DEF Loaded

LEMMA JobFields ==
  ASSUME NEW j \in JobSet
  PROVE  /\ j.pc \in {"idle", "apply", "open", "write", "rename", "notify"}
         /\ j.fd \in {"none", "tmp", "file", "gone"}
         /\ j.copy \in CopySet
  BY DEF JobSet

LEMMA JobIntro ==
  ASSUME NEW pc \in {"idle", "apply", "open", "write", "rename", "notify"},
         NEW fd \in {"none", "tmp", "file", "gone"}, NEW s \in CopySet
  PROVE  [pc |-> pc, fd |-> fd, copy |-> s] \in JobSet
  BY DEF JobSet

LEMMA IdleIs == Idle \in JobSet /\ Idle.pc = "idle" /\ Idle.fd = "none" /\ Idle.copy = Blank
  BY BlankCopy, JobIntro DEF Idle

\* What a command goes on with after its save.
LEMMA AfterSaveIs ==
  ASSUME NEW p \in Savers, NEW ok \in BOOLEAN
  PROVE  /\ AfterSave(p, ok) \in JobSet
         /\ AfterSave(p, ok).copy = Blank
         /\ p = "lighting" => AfterSave(p, ok).pc = "idle"
         /\ p # "lighting" => AfterSave(p, ok).pc = "notify"
<1>1. [Idle EXCEPT !.pc = "notify"] = [pc |-> "notify", fd |-> "none", copy |-> Blank]
  BY DEF Idle
<1>2. [pc |-> "notify", fd |-> "none", copy |-> Blank] \in JobSet
  BY BlankCopy, JobIntro
<1> QED BY <1>1, <1>2, IdleIs DEF AfterSave

\* A descriptor that moves with its file changes nothing else of the job.
LEMMA MovedIs ==
  ASSUME NEW j \in JobSet, NEW became \in {"file", "gone"}
  PROVE  /\ Moved(j, became) \in JobSet
         /\ Moved(j, became).pc = j.pc /\ Moved(j, became).copy = j.copy
         /\ Moved(j, became) = Idle => j = Idle
<1>1. Moved(j, became) \in JobSet /\ Moved(j, became).pc = j.pc /\ Moved(j, became).copy = j.copy
  BY DEF Moved, JobSet
<1>2. Moved(j, became) = j \/ Moved(j, became).fd \in {"file", "gone"}
  BY DEF Moved, JobSet
<1>3. Moved(j, became) = Idle => j = Idle
  BY <1>2, IdleIs
<1> QED BY <1>1, <1>3

-----------------------------------------------------------------------------
(* The files: steps that leave them alone, and commands that begin to save. *)

LEMMA FilesParts ==
  ASSUME FilesInv
  PROVE  /\ rest \in Nat /\ copies \in Nat /\ job \in [Savers -> JobSet]
         /\ file \in ContentSet /\ tmp \in ContentSet
         /\ Alone /\ Numbered /\ NewestFresh
         /\ \A p \in Savers : job[p] \in JobSet /\ job[p].copy \in CopySet
  BY JobFields DEF FilesInv, FilesTyped

LEMMA NumbersAreNat ==
  ASSUME FilesInv
  PROVE  /\ file.state.n \in Nat /\ tmp.state.n \in Nat /\ Loaded(file).n \in Nat
         /\ \A p \in Savers : job[p].copy.n \in Nat
  BY FilesParts, ContentFields, CopyFields, LoadedIs

\* A step that touches neither the state nor the files.
LEMMA QuietFiles ==
  ASSUME FilesInv, UNCHANGED <<lights, rest, job, copies, fileVars>>
  PROVE  FilesInv'
<1>1. FilesTyped' /\ Alone'
  BY FilesParts DEF FilesTyped, fileVars, Alone, InTmp
<1>2. Numbered'
  BY FilesParts DEF fileVars, Numbered
<1>3. NewestFresh'
  <2>1. UNCHANGED <<lights, rest, job, file, mishaps>>
    BY DEF fileVars
  <2> QED BY <2>1, FilesParts DEF NewestFresh, Applying, Fresh, NoneLater, Saving, Loaded
<1> QED BY <1>1, <1>2, <1>3 DEF FilesInv

\* A command that has changed the state takes the latest copy of all.
LEMMA BeginFiles ==
  ASSUME FilesInv, NEW p \in Savers, NEW s \in CopySet,
         Begin(p, s), s.n = copies + 1, s.lights = lights', s.rest = rest', UNCHANGED fileVars
  PROVE  FilesInv'
<1>1. UNCHANGED <<file, tmp, mishaps>> /\ copies \in Nat /\ copies' = copies + 1
  BY FilesParts DEF fileVars, Begin
<1> DEFINE j == [pc |-> "open", fd |-> "none", copy |-> s]
<1>2. j \in JobSet /\ j.pc = "open" /\ j.copy = s
  BY JobIntro
<1>3. job' = [job EXCEPT ![p] = j]
  BY DEF Begin
<1> HIDE DEF j
<1>4. job'[p] = j /\ \A q \in Savers : q # p => job'[q] = job[q]
  BY <1>3, FilesParts
<1>5. FilesTyped'
  <2>1. rest' \in Nat
    BY CopyFields
  <2> QED BY <1>1, <1>2, <1>3, <2>1, FilesParts DEF FilesTyped
<1>6. Alone'
  <2>1. ~InTmp(p)' /\ job'[p].pc # "write" /\ job'[p].pc # "rename"
    BY <1>2, <1>4 DEF InTmp
  <2>2. \A q \in Savers : q # p => (InTmp(q)' <=> InTmp(q)) /\ job'[q] = job[q]
    BY <1>4 DEF InTmp
  <2> QED BY <1>1, <2>1, <2>2, FilesParts DEF Alone
<1>7. /\ file.state.n <= copies /\ tmp.state.n <= copies
      /\ \A q \in Savers : q # p => job'[q].copy.n <= copies
      /\ job'[p].copy.n = copies + 1
      /\ \A q \in Savers : job'[q].copy.n \in Nat
  <2>1. file.state.n <= copies /\ tmp.state.n <= copies
    BY FilesParts DEF Numbered
  <2>2. \A q \in Savers : job[q].copy.n <= copies /\ job[q].copy.n \in Nat
    BY FilesParts, NumbersAreNat DEF Numbered
  <2>3. job'[p].copy = s
    BY <1>2, <1>4
  <2>4. job'[p].copy.n = copies + 1 /\ copies + 1 \in Nat
    BY <1>1, <2>3
  <2>5. \A q \in Savers : q # p => job'[q].copy.n <= copies /\ job'[q].copy.n \in Nat
    BY <1>4, <2>2
  <2> QED BY <2>1, <2>4, <2>5
<1>8. Numbered'
  <2>1. file'.state.n <= copies' /\ tmp'.state.n <= copies'
    BY <1>1, <1>7, NumbersAreNat
  <2>2. ASSUME NEW q \in Savers PROVE job'[q].copy.n <= copies'
    BY <1>1, <1>7
  <2> QED BY <2>1, <2>2 DEF Numbered
<1>9. NewestFresh'
  <2>1. Saving(p)' /\ Fresh(job[p].copy)'
    BY <1>2, <1>4 DEF Saving, Fresh
  <2>2. Loaded(file)'.n <= copies /\ Loaded(file)'.n \in Nat
    <3>1. Loaded(file)' = Loaded(file)
      BY <1>1
    <3>2. Loaded(file) = file.state \/ Loaded(file) = Blank
      BY FilesParts, LoadedIs, ContentFields
    <3>3. 0 <= copies
      BY <1>1
    <3> QED BY <1>7, <3>1, <3>2, <3>3, BlankCopy, NumbersAreNat
  <2>3. ~NoneLater(Loaded(file).n)'
    <3>1. ~(copies + 1 <= Loaded(file)'.n)
      BY <1>1, <2>2
    <3> QED BY <1>7, <2>1, <3>1 DEF NoneLater
  <2>4. ASSUME NEW q \in Savers, q # p PROVE ~NoneLater(job[q].copy.n)'
    <3>1. ~(copies + 1 <= job'[q].copy.n)
      BY <1>1, <1>7, <2>4
    <3> QED BY <1>7, <2>1, <3>1 DEF NoneLater
  <2> QED BY <2>1, <2>3, <2>4 DEF NewestFresh
<1> QED BY <1>5, <1>6, <1>8, <1>9 DEF FilesInv

-----------------------------------------------------------------------------
(* The files: the save.                                                    *)

\* A step of p's save short of its end.
LEMMA Saved ==
  ASSUME LightInv, FilesInv, NEW p \in Savers, Saving(p),
         UNCHANGED <<lights, rest, copies>>,
         NEW j \in JobSet, job' = [job EXCEPT ![p] = j],
         j.pc \in {"write", "rename"}, j.copy = job[p].copy
  PROVE  /\ job' \in [Savers -> JobSet]
         /\ job'[p] = j /\ \A q \in Savers : q # p => job'[q] = job[q]
         /\ \A q \in Savers : (Saving(q)' <=> Saving(q)) /\ job'[q].copy = job[q].copy
         /\ UNCHANGED file /\ mishaps' = {} /\ mishaps = {} => NewestFresh'
<1>1. job' \in [Savers -> JobSet] /\ job'[p] = j /\ \A q \in Savers : q # p => job'[q] = job[q]
  BY FilesParts
<1>2. \A q \in Savers : (Saving(q)' <=> Saving(q)) /\ job'[q].copy = job[q].copy
  BY <1>1 DEF Saving
<1>3. ASSUME UNCHANGED file, mishaps' = {}, mishaps = {} PROVE NewestFresh'
  <2>1. \A s : Fresh(s)' <=> Fresh(s)
    BY DEF Fresh
  <2>2. Loaded(file)' = Loaded(file)
    BY <1>3
  <2>3. \A k : NoneLater(k)' <=> NoneLater(k)
    BY <1>2 DEF NoneLater
  <2>4. NewestFresh /\ (Applying' <=> Applying)
    BY <1>1, FilesParts DEF Applying, Saving, Savers
  <2>5. ~Applying' /\ NoneLater(Loaded(file).n)' => Fresh(Loaded(file))'
    BY <1>3, <2>1, <2>2, <2>3, <2>4 DEF NewestFresh
  <2>6. ASSUME ~Applying', NEW q \in Savers, Saving(q)', Loaded(file)'.n <= job'[q].copy.n, NoneLater(job[q].copy.n)'
        PROVE  Fresh(job[q].copy)'
    <3>1. Saving(q) /\ Loaded(file).n <= job[q].copy.n /\ NoneLater(job[q].copy.n)
      BY <1>2, <2>2, <2>3, <2>6
    <3>2. Fresh(job[q].copy)
      BY <1>3, <2>4, <2>6, <3>1 DEF NewestFresh
    <3> QED BY <1>2, <2>1, <3>2
  <2> QED BY <2>5, <2>6 DEF NewestFresh
<1> QED BY <1>1, <1>2, <1>3

LEMMA OpenFiles ==
  ASSUME LightInv, FilesInv, NEW p \in Savers, Open(p)
  PROVE  FilesInv'
<1> DEFINE j == [job[p] EXCEPT !.pc = "write", !.fd = "tmp"]
<1>1. /\ job[p].pc = "open" /\ tmp' = Truncated
      /\ mishaps' = IF \E q \in Savers \ {p} : job[q].pc \in {"write", "rename"}
                    THEN mishaps \cup {"overlap"} ELSE mishaps
      /\ UNCHANGED <<file, lights, rest, copies>>
  BY DEF Open, Unlit, lightVars
<1>2. j \in JobSet /\ j.pc = "write" /\ j.fd = "tmp" /\ j.copy = job[p].copy
  BY FilesParts DEF JobSet
<1>3. job' = [job EXCEPT ![p] = j]
  BY FilesParts DEF Open
<1> HIDE DEF j
<1>4. Saving(p)
  BY <1>1 DEF Saving
<1>5. /\ job' \in [Savers -> JobSet]
      /\ job'[p] = j /\ \A q \in Savers : q # p => job'[q] = job[q]
      /\ \A q \in Savers : (Saving(q)' <=> Saving(q)) /\ job'[q].copy = job[q].copy
      /\ UNCHANGED file /\ mishaps' = {} /\ mishaps = {} => NewestFresh'
  BY <1>1, <1>2, <1>3, <1>4, Saved
<1>6. FilesTyped'
  BY <1>1, <1>5, FilesParts, FixedContents DEF FilesTyped
<1>7. Alone'
  <2>1. ASSUME "overlap" \notin mishaps'
        PROVE  /\ "overlap" \notin mishaps
               /\ \A q \in Savers \ {p} : ~InTmp(q)
    BY <1>1, <2>1 DEF InTmp
  <2>2. \A q \in Savers \ {p} : (InTmp(q)' <=> InTmp(q)) /\ job'[q] = job[q]
    BY <1>5 DEF InTmp
  <2>3. job'[p].pc = "write" /\ job'[p].fd = "tmp"
    BY <1>2, <1>5
  <2>4. ASSUME "overlap" \notin mishaps', NEW q \in Savers
        PROVE  /\ job'[q].pc = "write" => job'[q].fd = "tmp" /\ tmp' = Truncated
               /\ job'[q].pc = "rename" => tmp' = Whole(job[q].copy)'
    <3>1. CASE q = p
      BY <1>1, <2>3, <3>1
    <3>2. CASE q # p
      BY <2>1, <2>2, <2>4, <3>2 DEF InTmp
    <3> QED BY <3>1, <3>2
  <2>5. "overlap" \notin mishaps' => file'.kind \in {"absent", "whole"}
    BY <1>1, <2>1, FilesParts DEF Alone
  <2> QED BY <2>1, <2>2, <2>4, <2>5 DEF Alone
<1>8. Numbered'
  <2>1. Truncated.state.n <= copies'
    <3>1. copies' \in Nat
      BY <1>1, FilesParts
    <3>2. Truncated.state.n = 0
      BY FixedContents, BlankCopy
    <3> QED BY <3>1, <3>2
  <2> QED BY <1>1, <1>5, <2>1, FilesParts DEF Numbered
<1>9. NewestFresh'
  <2>1. mishaps' = {} => mishaps = {}
    BY <1>1
  <2> QED BY <1>1, <1>5, <2>1 DEF NewestFresh
<1> QED BY <1>6, <1>7, <1>8, <1>9 DEF FilesInv

LEMMA WriteFiles ==
  ASSUME LightInv, FilesInv, NEW p \in Savers, Write(p)
  PROVE  FilesInv'
<1> DEFINE j == [job[p] EXCEPT !.pc = "rename", !.fd = "none"]
           s == job[p].copy
<1>1. /\ job[p].pc = "write"
      /\ \/ job[p].fd = "tmp" /\ tmp' \in Overwritten(tmp, s) /\ UNCHANGED file
         \/ job[p].fd = "file" /\ file' \in Overwritten(file, s) /\ UNCHANGED tmp
         \/ job[p].fd \notin {"tmp", "file"} /\ UNCHANGED <<file, tmp>>
      /\ UNCHANGED <<mishaps, lights, rest, copies>>
  BY DEF Write, Unlit, lightVars
<1>2. j \in JobSet /\ j.pc = "rename" /\ j.copy = s
  BY FilesParts DEF JobSet
<1>3. job' = [job EXCEPT ![p] = j]
  BY FilesParts DEF Write
<1>4. s \in CopySet /\ s.n \in Nat /\ s.n <= copies
  BY FilesParts, NumbersAreNat DEF Numbered
<1> HIDE DEF j
<1>5. Saving(p)
  BY <1>1 DEF Saving
<1>6. /\ job' \in [Savers -> JobSet]
      /\ job'[p] = j /\ \A q \in Savers : q # p => job'[q] = job[q]
      /\ \A q \in Savers : (Saving(q)' <=> Saving(q)) /\ job'[q].copy = job[q].copy
      /\ UNCHANGED file /\ mishaps' = {} /\ mishaps = {} => NewestFresh'
  BY <1>1, <1>2, <1>3, <1>5, Saved
<1> HIDE DEF s
<1>7. ASSUME NEW old, NEW c \in Overwritten(old, s)
      PROVE  c \in ContentSet /\ c.state.n <= copies
  <2>1. c = Whole(s) \/ c = Torn
    BY DEF Overwritten
  <2>2. Torn.state.n = 0 /\ copies \in Nat
    BY FixedContents, BlankCopy, FilesParts
  <2>3. 0 <= copies
    BY <2>2
  <2>4. CASE c = Whole(s)
    BY <1>4, <2>4, WholeIs
  <2>5. CASE c = Torn
    BY <2>2, <2>3, <2>5, FixedContents
  <2> QED BY <2>1, <2>4, <2>5
<1>8. file' \in ContentSet /\ tmp' \in ContentSet
      /\ file'.state.n <= copies /\ tmp'.state.n <= copies
  BY <1>1, <1>7, FilesParts DEF Numbered
<1>9. FilesTyped'
  BY <1>1, <1>6, <1>8, FilesParts DEF FilesTyped
<1>10. Numbered'
  BY <1>1, <1>6, <1>8, FilesParts DEF Numbered
<1>11. ASSUME "overlap" \notin mishaps
       PROVE  /\ job[p].fd = "tmp" /\ UNCHANGED file /\ tmp' = Whole(s)
              /\ \A q \in Savers \ {p} : ~InTmp(q)
  <2>1. job[p].fd = "tmp" /\ tmp = Truncated
    BY <1>1, <1>11, FilesParts DEF Alone
  <2>2. tmp' \in Overwritten(tmp, s) /\ UNCHANGED file
    BY <1>1, <2>1
  <2>3. tmp' = Whole(s)
    BY <2>1, <2>2 DEF Overwritten
  <2>4. InTmp(p)
    BY <1>1 DEF InTmp
  <2> QED BY <1>11, <2>1, <2>2, <2>3, <2>4, FilesParts DEF Alone
<1>12. Alone'
  <2>1. \A q \in Savers \ {p} : (InTmp(q)' <=> InTmp(q)) /\ job'[q] = job[q]
    BY <1>6 DEF InTmp
  <2>2. job'[p].pc = "rename" /\ job'[p].copy = s
    BY <1>2, <1>6
  <2>3. ASSUME "overlap" \notin mishaps, NEW q \in Savers
        PROVE  /\ job'[q].pc = "write" => job'[q].fd = "tmp" /\ tmp' = Truncated
               /\ job'[q].pc = "rename" => tmp' = Whole(job[q].copy)'
    <3>1. CASE q = p
      BY <1>11, <2>2, <2>3, <3>1
    <3>2. CASE q # p
      BY <1>11, <2>1, <2>3, <3>2 DEF InTmp
    <3> QED BY <3>1, <3>2
  <2>4. "overlap" \notin mishaps => file'.kind \in {"absent", "whole"}
    BY <1>11, FilesParts DEF Alone
  <2> QED BY <1>1, <1>11, <2>1, <2>3, <2>4 DEF Alone
<1>13. NewestFresh'
  BY <1>1, <1>6, <1>11 DEF NewestFresh
<1> QED BY <1>9, <1>10, <1>12, <1>13 DEF FilesInv

\* A save that ends in a failure is a mishap.
LEMMA FailedSave ==
  ASSUME LightInv, FilesInv, NEW p \in Savers, InTmp(p),
         "failed" \in mishaps', mishaps \subseteq mishaps',
         UNCHANGED <<file, lights, rest, copies>>,
         tmp' \in {Absent, Torn},
         job' \in [Savers -> JobSet],
         job'[p].pc \in {"idle", "notify"}, job'[p].copy = Blank,
         \A q \in Savers : q # p => job'[q].pc = job[q].pc /\ job'[q].copy = job[q].copy
  PROVE  FilesInv'
<1>1. FilesTyped'
  BY FilesParts, FixedContents DEF FilesTyped
<1>2. Alone'
  <2>1. ~InTmp(p)' /\ \A q \in Savers : q # p => (InTmp(q)' <=> InTmp(q))
    BY DEF InTmp
  <2>2. "overlap" \notin mishaps' => "overlap" \notin mishaps
    OBVIOUS
  <2>3. "overlap" \notin mishaps' => \A q \in Savers : ~InTmp(q)'
    BY <2>1, <2>2, FilesParts DEF Alone
  <2> QED BY <2>2, <2>3, FilesParts DEF Alone, InTmp
<1>3. Numbered'
  <2>1. Blank.n <= copies
    <3>1. copies \in Nat
      BY FilesParts
    <3> QED BY <3>1, BlankCopy
  <2>2. tmp'.state = Blank
    BY FixedContents
  <2>3. ASSUME NEW q \in Savers PROVE job'[q].copy.n <= copies
    BY <2>1, FilesParts DEF Numbered
  <2> QED BY <2>1, <2>2, <2>3, FilesParts DEF Numbered
<1>4. NewestFresh'
  BY DEF NewestFresh
<1> QED BY <1>1, <1>2, <1>3, <1>4 DEF FilesInv

LEMMA WriteFailsFiles ==
  ASSUME LightInv, FilesInv, NEW p \in Savers, WriteFails(p)
  PROVE  FilesInv'
<1> DEFINE j == AfterSave(p, FALSE)
<1>1. /\ job[p].pc = "write" /\ tmp' = Torn /\ UNCHANGED <<file, lights, rest, copies>>
      /\ mishaps' = mishaps \cup {"failed"} /\ job' = [job EXCEPT ![p] = j]
  BY DEF WriteFails, Fails
<1>2. j \in JobSet /\ j.pc \in {"idle", "notify"} /\ j.copy = Blank
  BY AfterSaveIs
<1> HIDE DEF j
<1>3. /\ job' \in [Savers -> JobSet] /\ job'[p] = j
      /\ \A q \in Savers : q # p => job'[q] = job[q]
  BY <1>1, <1>2, FilesParts
<1>4. InTmp(p)
  BY <1>1 DEF InTmp
<1> QED BY <1>1, <1>2, <1>3, <1>4, FailedSave

LEMMA RenameFailsFiles ==
  ASSUME LightInv, FilesInv, NEW p \in Savers, RenameFails(p)
  PROVE  FilesInv'
<1> DEFINE j == AfterSave(p, FALSE)
<1>1. /\ job[p].pc = "rename" /\ tmp' = Absent /\ UNCHANGED <<file, lights, rest, copies>>
      /\ mishaps' = mishaps \cup {"failed"}
      /\ job' = [q \in Savers |-> IF q = p THEN j ELSE Moved(job[q], "gone")]
  BY DEF RenameFails
<1>2. j \in JobSet /\ j.pc \in {"idle", "notify"} /\ j.copy = Blank
  BY AfterSaveIs
<1> HIDE DEF j
<1>3. \A q \in Savers : /\ Moved(job[q], "gone") \in JobSet
                        /\ Moved(job[q], "gone").pc = job[q].pc
                        /\ Moved(job[q], "gone").copy = job[q].copy
  BY FilesParts, MovedIs
<1>4. /\ job' \in [Savers -> JobSet] /\ job'[p] = j
      /\ \A q \in Savers : q # p => job'[q].pc = job[q].pc /\ job'[q].copy = job[q].copy
  BY <1>1, <1>2, <1>3
<1>5. InTmp(p)
  BY <1>1 DEF InTmp
<1> QED BY <1>1, <1>2, <1>4, <1>5, FailedSave

\* The end of a save that worked: the copy in the file is the newest there was,
\* or it has overtaken a later one.
LEMMA RenameFiles ==
  ASSUME LightInv, FilesInv, NEW p \in Savers, Rename(p)
  PROVE  FilesInv'
<1> DEFINE j == AfterSave(p, TRUE)
           s == job[p].copy
<1>0. job[p].pc = "rename" /\ UNCHANGED <<lights, rest, copies>>
  BY DEF Rename, Unlit, lightVars
<1>1. InTmp(p) /\ Saving(p)
  BY <1>0 DEF InTmp, Saving
<1>2. s \in CopySet
  BY FilesParts
<1>3. "overlap" \notin mishaps => tmp = Whole(s)
  BY <1>0, FilesParts DEF Alone
<1>4. CASE tmp = Absent
  <2> DEFINE i == AfterSave(p, FALSE)
  <2>1. job' = [job EXCEPT ![p] = i] /\ UNCHANGED <<file, tmp, mishaps>>
    BY <1>4 DEF Rename, fileVars
  <2>2. i \in JobSet /\ i.copy = Blank /\ i.pc \in {"idle", "notify"}
    BY AfterSaveIs
  <2> HIDE DEF i
  <2>3. "overlap" \in mishaps
    <3>1. Absent.kind # Whole(s).kind
      BY <1>2, FixedContents, WholeIs
    <3> QED BY <1>3, <1>4, <3>1
  <2>4. FilesTyped'
    BY <1>0, <2>1, <2>2, FilesParts DEF FilesTyped
  <2>5. Alone' /\ NewestFresh'
    BY <2>1, <2>3 DEF Alone, NewestFresh
  <2>6. Numbered'
    <3>1. Blank.n <= copies
      <4>1. copies \in Nat
        BY FilesParts
      <4> QED BY <4>1, BlankCopy
    <3>2. job'[p] = i /\ \A q \in Savers : q # p => job'[q] = job[q]
      BY <2>1, FilesParts
    <3>3. \A q \in Savers : job'[q].copy.n <= copies
      BY <2>2, <3>1, <3>2, FilesParts DEF Numbered
    <3> QED BY <1>0, <2>1, <3>3, FilesParts DEF Numbered
  <2> QED BY <2>4, <2>5, <2>6 DEF FilesInv
<1>5. CASE tmp # Absent
  <2>1. /\ file' = tmp /\ tmp' = Absent
        /\ job' = [q \in Savers |-> IF q = p THEN j ELSE Moved(job[q], "file")]
        /\ mishaps' = IF Overtaken THEN mishaps \cup {"overtaken"} ELSE mishaps
    BY <1>5 DEF Rename
  <2>2. j \in JobSet /\ j.pc \in {"idle", "notify"} /\ j.copy = Blank
    BY AfterSaveIs
  <2> HIDE DEF j
  <2>3. \A q \in Savers : /\ Moved(job[q], "file") \in JobSet
                          /\ Moved(job[q], "file").pc = job[q].pc
                          /\ Moved(job[q], "file").copy = job[q].copy
    BY FilesParts, MovedIs
  <2>4. /\ job' \in [Savers -> JobSet] /\ job'[p] = j
        /\ \A q \in Savers : q # p => job'[q].pc = job[q].pc /\ job'[q].copy = job[q].copy
    BY <2>1, <2>2, <2>3
  <2>5. FilesTyped'
    BY <1>0, <2>1, <2>4, FilesParts, FixedContents DEF FilesTyped
  <2>6. "overlap" \notin mishaps' => "overlap" \notin mishaps
    BY <2>1
  <2>7. Alone'
    <3>1. ~InTmp(p)' /\ \A q \in Savers : q # p => (InTmp(q)' <=> InTmp(q))
      BY <2>2, <2>4 DEF InTmp
    <3>2. "overlap" \notin mishaps' => \A q \in Savers : ~InTmp(q)'
      BY <1>1, <2>6, <3>1, FilesParts DEF Alone
    <3>3. "overlap" \notin mishaps' => file'.kind = "whole"
      BY <1>2, <1>3, <2>1, <2>6, WholeIs
    <3> QED BY <3>2, <3>3 DEF Alone, InTmp
  <2>8. Blank.n <= copies
    <3>1. copies \in Nat
      BY FilesParts
    <3> QED BY <3>1, BlankCopy
  <2>9. Numbered'
    <3>1. \A q \in Savers : job'[q].copy.n <= copies
      BY <2>2, <2>4, <2>8, FilesParts DEF Numbered
    <3>2. Absent.state = Blank
      BY FixedContents
    <3> QED BY <1>0, <2>1, <2>8, <3>1, <3>2, FilesParts DEF Numbered
  <2>10. ASSUME mishaps' = {}, ~Applying' PROVE NewestFresh'
    <3>0. ~Applying
      BY <1>0, <2>4, <2>10 DEF Applying, Savers
    <3>1. mishaps = {} /\ ~Overtaken
      BY <2>1, <2>10
    <3>2. tmp = Whole(s) /\ NewestFresh
      BY <1>3, <3>1, FilesParts
    <3>3. Loaded(file') = s
      <4>1. tmp.kind = "whole" /\ tmp.state = s
        BY <1>2, <3>2, WholeIs
      <4> QED BY <2>1, <4>1, FilesParts, LoadedIs
    <3>4. Loaded(file).n <= s.n
      <4>1. s.n \in Nat /\ file.state.n \in Nat
        BY <1>2, NumbersAreNat, CopyFields
      <4>2. CASE file.kind = "whole"
        <5>1. ~(file.state.n > s.n)
          BY <1>2, <3>1, <3>2, <4>2, WholeIs DEF Overtaken
        <5>2. Loaded(file) = file.state
          BY <4>2, FilesParts, LoadedIs
        <5> QED BY <4>1, <5>1, <5>2
      <4>3. CASE file.kind # "whole"
        <5>1. Loaded(file).n = 0
          BY <4>3, FilesParts, LoadedIs, BlankCopy
        <5> QED BY <4>1, <5>1
      <4> QED BY <4>2, <4>3
    <3>5. \A q \in Savers : Saving(q)' <=> (Saving(q) /\ q # p)
      BY <2>2, <2>4 DEF Saving
    <3>6. ASSUME NEW k \in Nat, NoneLater(k)', s.n <= k PROVE NoneLater(k)
      BY <2>4, <3>5, <3>6 DEF NoneLater
    <3>7. \A x : Fresh(x)' <=> Fresh(x)
      BY <1>0 DEF Fresh
    <3>8. ASSUME NoneLater(Loaded(file).n)' PROVE Fresh(Loaded(file))'
      <4>1. PICK k \in Nat : k = s.n
        BY <1>2, CopyFields
      <4>2. NoneLater(k)' /\ s.n <= k
        BY <3>3, <3>8, <4>1 DEF NoneLater
      <4>3. NoneLater(s.n)
        BY <3>6, <4>1, <4>2 DEF NoneLater
      <4>4. Fresh(s)
        BY <1>1, <3>0, <3>1, <3>2, <3>4, <4>3 DEF NewestFresh
      <4> QED BY <1>0, <3>3, <4>4 DEF Fresh
    <3>9. ASSUME NEW q \in Savers, Saving(q)', Loaded(file)'.n <= job'[q].copy.n,
                 NoneLater(job[q].copy.n)'
          PROVE  Fresh(job[q].copy)'
      <4>1. Saving(q) /\ q # p /\ job'[q].copy = job[q].copy
        BY <2>4, <3>5, <3>9
      <4>2. s.n <= job[q].copy.n
        BY <3>3, <3>9, <4>1
      <4>3. job[q].copy.n \in Nat /\ s.n \in Nat /\ Loaded(file).n \in Nat
        BY <1>2, NumbersAreNat, CopyFields
      <4>4. Loaded(file).n <= job[q].copy.n
        BY <3>4, <4>2, <4>3
      <4>5. NoneLater(job[q].copy.n)
        BY <3>6, <3>9, <4>1, <4>2, <4>3 DEF NoneLater
      <4>6. Fresh(job[q].copy)
        BY <3>0, <3>1, <3>2, <4>1, <4>4, <4>5 DEF NewestFresh
      <4> QED BY <3>7, <4>1, <4>6
    <3> QED BY <3>8, <3>9 DEF NewestFresh
  <2>11. NewestFresh'
    BY <2>10 DEF NewestFresh
  <2> QED BY <2>5, <2>7, <2>9, <2>11 DEF FilesInv
<1> QED BY <1>4, <1>5

\* An announcement ends a command that is no longer saving.
LEMMA NotifyFiles ==
  ASSUME LightInv, FilesInv, NEW p \in Savers, Notify(p)
  PROVE  FilesInv'
<1>1. /\ job[p].pc = "notify" /\ job' = [job EXCEPT ![p] = Idle]
      /\ UNCHANGED <<lights, rest, copies, file, tmp, mishaps>>
  BY DEF Notify, Unmoved, lightVars, fileVars
<1>2. /\ job' \in [Savers -> JobSet] /\ job'[p] = Idle
      /\ \A q \in Savers : q # p => job'[q] = job[q]
  BY <1>1, FilesParts, IdleIs
<1>3. FilesTyped'
  BY <1>1, <1>2, FilesParts DEF FilesTyped
<1>4. Alone'
  BY <1>1, <1>2, FilesParts, IdleIs DEF Alone, InTmp
<1>5. Numbered'
  <2>1. Blank.n <= copies
    <3>1. copies \in Nat
      BY FilesParts
    <3> QED BY <3>1, BlankCopy
  <2>2. \A q \in Savers : job'[q].copy.n <= copies
    BY <1>2, <2>1, FilesParts, IdleIs DEF Numbered
  <2> QED BY <1>1, <2>2, FilesParts DEF Numbered
<1>6. NewestFresh'
  <2>1. \A q \in Savers : (Saving(q)' <=> Saving(q)) /\ (Saving(q) => job'[q] = job[q])
    BY <1>1, <1>2, IdleIs DEF Saving
  <2>2. \A k : NoneLater(k)' <=> NoneLater(k)
    BY <2>1 DEF NoneLater
  <2>3. (\A x : Fresh(x)' <=> Fresh(x)) /\ Loaded(file)' = Loaded(file)
    BY <1>1 DEF Fresh
  <2>0. Applying' <=> Applying
    BY <1>1, <1>2, IdleIs DEF Applying, Savers
  <2>4. ASSUME mishaps' = {}, ~Applying', NoneLater(Loaded(file).n)' PROVE Fresh(Loaded(file))'
    BY <1>1, <2>0, <2>2, <2>3, <2>4, FilesParts DEF NewestFresh
  <2>5. ASSUME mishaps' = {}, ~Applying', NEW q \in Savers, Saving(q)', Loaded(file)'.n <= job'[q].copy.n,
               NoneLater(job[q].copy.n)'
        PROVE  Fresh(job[q].copy)'
    <3>1. Saving(q) /\ job'[q] = job[q]
      BY <2>1, <2>5
    <3>2. Loaded(file).n <= job[q].copy.n /\ NoneLater(job[q].copy.n)
      BY <2>2, <2>3, <2>5, <3>1
    <3>3. Fresh(job[q].copy)
      BY <1>1, <2>0, <2>5, <3>1, <3>2, FilesParts DEF NewestFresh
    <3> QED BY <2>3, <3>1, <3>3
  <2> QED BY <2>4, <2>5 DEF NewestFresh
<1> QED BY <1>3, <1>4, <1>5, <1>6 DEF FilesInv

\* A restart: what the daemon has now is what it loaded.
LEMMA RestartedStep ==
  ASSUME LightInv, FilesInv, Restarted
  PROVE  LightInv' /\ FilesInv'
<1>1. /\ Outage /\ Start(Loaded(file).lights) /\ rest' = Loaded(file).rest
      /\ file' = IF file.kind = "whole" THEN file ELSE Absent
      /\ job' = [p \in Savers |-> Idle]
      /\ mishaps' = {} /\ UNCHANGED <<node, commands, copies, tmp>>
  BY DEF Restarted
<1> DEFINE l == Loaded(file).lights
<1>2. Loaded(file) \in CopySet /\ l \in LightsSet /\ Named(l) /\ Loaded(file).rest \in Nat
  BY FilesParts, LoadedIs, CopyFields
<1>3. LightInv'
  <2>1. commands' \in 0..MaxCommands /\ outages' \in 0..MaxOutages
    BY <1>1, CountersTyped DEF Outage, Counted
  <2> QED BY <1>1, <1>2, <2>1, StartStep
<1>4. lights' = Repaired(l)
  BY <1>1 DEF Start
<1>5. file' \in ContentSet /\ file'.kind \in {"absent", "whole"} /\ Loaded(file') = Loaded(file)
      /\ (file' = file \/ file'.state = Blank)
  BY <1>1, FilesParts, FixedContents, LoadedIs
<1>6. \A p \in Savers : job'[p] = Idle
  BY <1>1
<1>7. FilesTyped'
  BY <1>1, <1>2, <1>5, FilesParts, IdleIs DEF FilesTyped
<1>8. Alone'
  BY <1>5, <1>6, IdleIs DEF Alone, InTmp
<1>9. Numbered'
  <2>1. Blank.n <= copies
    <3>1. copies \in Nat
      BY FilesParts
    <3> QED BY <3>1, BlankCopy
  <2>2. \A p \in Savers : job'[p].copy.n <= copies
    BY <1>6, <2>1, IdleIs
  <2> QED BY <1>1, <1>5, <2>1, <2>2, FilesParts DEF Numbered
<1>10. NewestFresh'
  <2>1. \A p \in Savers : ~Saving(p)'
    BY <1>6, IdleIs DEF Saving
  <2>2. Repaired(l) = Repaired(Repaired(l))
    BY <1>2, RepairComplete
  <2>3. Fresh(Loaded(file))'
    BY <1>1, <1>4, <1>5, <2>2 DEF Fresh
  <2> QED BY <2>1, <2>3 DEF NewestFresh
<1> QED BY <1>3, <1>7, <1>8, <1>9, <1>10 DEF FilesInv

-----------------------------------------------------------------------------
(* The commands.                                                           *)

\* A lighting command that saves nothing has left what is saved alone.
LEMMA SavesOrKeeps ==
  ASSUME LightInv, NEW device \in Devices, LightingCommand(device)
  PROVE  /\ commands' = commands + 1 /\ UNCHANGED present
         /\ (faults' = faults /\ SavedFor(device)) \/ UNCHANGED lights
<1>1. PICK sent : /\ Receives(device)
                  /\ \/ FailsMidway(device, sent)
                     \/ Succeeds(device, sent) /\ (~Saves(device) => UNCHANGED lights)
  <2>0. ~Saves(device) => device # ""
    BY DEF Saves
  <2>1. ASSUME NEW look \in Looks, HandleApply(device, look)
        PROVE  \E sent : /\ Receives(device)
                         /\ \/ FailsMidway(device, sent)
                            \/ Succeeds(device, sent) /\ (~Saves(device) => UNCHANGED lights)
    BY <2>0, <2>1 DEF HandleApply
  <2>2. ASSUME HandleOff(device)
        PROVE  \E sent : /\ Receives(device)
                         /\ \/ FailsMidway(device, sent)
                            \/ Succeeds(device, sent) /\ (~Saves(device) => UNCHANGED lights)
    BY <2>0, <2>2 DEF HandleOff
  <2>3. ASSUME NEW level \in Levels, HandleBrightness(device, level)
        PROVE  \E sent : /\ Receives(device)
                         /\ \/ FailsMidway(device, sent)
                            \/ Succeeds(device, sent) /\ (~Saves(device) => UNCHANGED lights)
    BY <2>0, <2>3 DEF HandleBrightness, Brightens
  <2> QED BY <2>1, <2>2, <2>3 DEF LightingCommand
<1>2. commands' = commands + 1 /\ UNCHANGED present
  BY <1>1 DEF Receives, watch
<1>3. CASE FailsMidway(device, sent)
  BY <1>2, <1>3 DEF FailsMidway
<1>4. CASE Succeeds(device, sent) /\ (~Saves(device) => UNCHANGED lights)
  BY <1>2, <1>4 DEF Succeeds, SavedFor
<1> QED BY <1>1, <1>3, <1>4

LEMMA LightingStep ==
  ASSUME LightInv, FilesInv, LightingHandler
  PROVE  LightInv' /\ FilesInv' /\ UNCHANGED <<rest, clientVars>>
         /\ \A p \in Savers \ {"lighting"} : job'[p] = job[p]
<1>1. PICK device \in Devices :
        /\ LightingCommand(device)
        /\ IF faults' = faults /\ SavedFor(device) THEN Begin("lighting", Copy(lights', rest))
           ELSE UNCHANGED <<job, copies>>
  BY DEF LightingHandler
<1>2. job["lighting"] = Idle /\ UNCHANGED <<rest, fileVars, clientVars>>
  BY DEF LightingHandler, MuFree
<1>3. LightInv'
  BY <1>1, CommandStep
<1>5. lights' \in LightsSet /\ Named(lights')
  BY <1>3 DEF LightInv, LightTypeOK, LightsSet
<1>6. "lighting" \in Savers
  BY DEF Savers
<1>7. CASE faults' = faults /\ SavedFor(device)
  <2> DEFINE s == Copy(lights', rest)
  <2>1. Begin("lighting", s)
    BY <1>1, <1>7
  <2>2. s \in CopySet /\ s.lights = lights' /\ s.rest = rest /\ s.n = copies + 1
    BY <1>5, FilesParts, CopyIntro DEF Copy
  <2> HIDE DEF s
  <2>3. FilesInv'
    BY <1>2, <1>6, <2>1, <2>2, BeginFiles
  <2>4. \A p \in Savers \ {"lighting"} : job'[p] = job[p]
    BY <2>1, FilesParts DEF Begin
  <2> QED BY <1>2, <1>3, <2>3, <2>4
<1>8. CASE ~(faults' = faults /\ SavedFor(device))
  <2>1. UNCHANGED <<job, copies, lights>>
    BY <1>1, <1>8, SavesOrKeeps
  <2>3. FilesInv'
    BY <1>2, <2>1, QuietFiles
  <2> QED BY <1>2, <1>3, <2>1, <2>3
<1> QED BY <1>7, <1>8

LEMMA OtherStep ==
  ASSUME LightInv, FilesInv, NEW p \in Savers, OtherHandler(p)
  PROVE  LightInv' /\ FilesInv' /\ ~Announced'
<1> DEFINE s == Copy(lights, rest')
<1>1. /\ p # "lighting" /\ job[p] = Idle
      /\ commands < MaxCommands /\ commands' = commands + 1
      /\ rest' = rest + 1 /\ Begin(p, s)
      /\ UNCHANGED <<hardware, watch, lights, drift, unsent, faults, outages, fileVars>>
  BY DEF OtherHandler
<1>2. Counted' /\ commands \in Nat
  BY <1>1, CountersTyped DEF Counted
<1>3. LightInv'
  BY <1>1, <1>2, LightsAlone
<1>4. s \in CopySet /\ s.lights = lights' /\ s.rest = rest' /\ s.n = copies + 1
  BY <1>1, InvParts, FilesParts, CopyIntro DEF Copy
<1> HIDE DEF s
<1>5. FilesInv'
  BY <1>1, <1>4, BeginFiles
<1>6. job'[p].pc = "open"
  BY <1>1, FilesParts DEF Begin
<1>7. ~Announced'
  BY <1>1, <1>6, IdleIs DEF Announced
<1> QED BY <1>3, <1>5, <1>7

\* From here to its copy the files owe the switch nothing.
LEMMA SwitchStep ==
  ASSUME LightInv, FilesInv, SwitchProfile
  PROVE  LightInv' /\ FilesInv' /\ ~Announced'
<1> DEFINE j == [Idle EXCEPT !.pc = "apply"]
<1>1. /\ commands < MaxCommands /\ commands' = commands + 1
      /\ rest' = rest + 1 /\ job' = [job EXCEPT !["hardware"] = j]
      /\ UNCHANGED <<hardware, watch, lights, drift, unsent, faults, outages, copies>>
      /\ UNCHANGED <<file, tmp, mishaps>>
  BY DEF SwitchProfile, fileVars
<1>2. Counted' /\ commands \in Nat
  BY <1>1, CountersTyped DEF Counted
<1>3. LightInv'
  BY <1>1, <1>2, LightsAlone
<1>4. j \in JobSet /\ j.pc = "apply" /\ j.copy = Blank
  <2>1. j = [pc |-> "apply", fd |-> "none", copy |-> Blank]
    BY DEF Idle
  <2> QED BY <2>1, BlankCopy, JobIntro
<1> HIDE DEF j
<1>5. /\ job' \in [Savers -> JobSet] /\ job'["hardware"] = j
      /\ \A q \in Savers : q # "hardware" => job'[q] = job[q]
  BY <1>1, <1>4, FilesParts DEF Savers
<1>6. FilesTyped'
  BY <1>1, <1>5, FilesParts DEF FilesTyped
<1>7. Alone'
  <2>1. ~InTmp("hardware")' /\ \A q \in Savers : q # "hardware" => (InTmp(q)' <=> InTmp(q))
    BY <1>4, <1>5 DEF InTmp
  <2> QED BY <1>1, <1>4, <1>5, <2>1, FilesParts DEF Alone
<1>8. Numbered'
  <2>1. Blank.n <= copies
    BY FilesParts, BlankCopy
  <2>2. \A q \in Savers : job'[q].copy.n <= copies
    BY <1>4, <1>5, <2>1, FilesParts DEF Numbered
  <2> QED BY <1>1, <2>2, FilesParts DEF Numbered
<1>9. NewestFresh' /\ ~Announced'
  <2>1. job'["hardware"].pc = "apply" /\ job'["hardware"] # Idle
    BY <1>4, <1>5, IdleIs
  <2> QED BY <2>1 DEF NewestFresh, Applying, Announced, Savers
<1> QED BY <1>3, <1>6, <1>7, <1>8, <1>9 DEF FilesInv

LEMMA CommitStep ==
  ASSUME LightInv, FilesInv, CommitApplied
  PROVE  LightInv' /\ FilesInv' /\ ~Announced'
<1> DEFINE s == Copy(lights, rest')
<1>1. /\ rest' = rest + 1 /\ Begin("hardware", s)
      /\ UNCHANGED <<lightVars, fileVars>>
  BY DEF CommitApplied
<1>2. LightInv' /\ UNCHANGED lights
  BY <1>1, LightsAlone, SameCounted DEF lightVars, hardware, watch
<1>3. s \in CopySet /\ s.lights = lights' /\ s.rest = rest' /\ s.n = copies + 1
  BY <1>1, <1>2, InvParts, FilesParts, CopyIntro DEF Copy
<1> HIDE DEF s
<1>4. FilesInv'
  BY <1>1, <1>3, BeginFiles DEF Savers
<1>5. job'["hardware"].pc = "open"
  BY <1>1, FilesParts DEF Begin, Savers
<1>6. ~Announced'
  BY <1>5, IdleIs DEF Announced, Savers
<1> QED BY <1>2, <1>4, <1>6

-----------------------------------------------------------------------------
(* Every step.                                                             *)

\* A command that has saved announces before it is done.
LEMMA SaveStep ==
  ASSUME LightInv, FilesInv, NEW p \in Savers,
         Save(p) \/ WriteFails(p) \/ RenameFails(p)
  PROVE  /\ LightInv' /\ FilesInv' /\ UNCHANGED <<rest, clientVars>>
         /\ Announced' => Announced
<1>1. job[p] # Idle
  BY IdleIs DEF Save, Open, Write, Rename, WriteFails, RenameFails
<1>2. FilesInv'
  BY OpenFiles, WriteFiles, RenameFiles, WriteFailsFiles, RenameFailsFiles DEF Save
<1>3. UNCHANGED <<rest, clientVars>>
  BY DEF Save, Open, Write, Rename, WriteFails, RenameFails, Fails, Unlit
<1>4. LightInv'
  <2>1. UNCHANGED <<hardware, watch, lights, drift, unsent, commands, outages>> /\ faults' \in 0..MaxFaults
    <3>1. CASE Save(p)
      BY <3>1, CountersTyped DEF Save, Open, Write, Rename, Unlit, lightVars, hardware, watch, Counted
    <3>2. CASE WriteFails(p) \/ RenameFails(p)
      <4>1. /\ UNCHANGED <<hardware, watch, lights, drift, unsent, commands, outages>>
            /\ faults < MaxFaults /\ faults' = faults + 1
        BY <3>2 DEF WriteFails, RenameFails, Fails
      <4> QED BY <4>1, CountersTyped DEF Counted
    <3> QED BY <3>1, <3>2
  <2>2. Counted'
    BY <2>1, CountersTyped DEF Counted
  <2> QED BY <2>1, <2>2, LightsAlone
<1>5. ASSUME NEW q \in Savers, q # p, job'[q] = Idle PROVE job[q] = Idle
  <2>1. \/ job'[q] = job[q]
        \/ job'[q] = Moved(job[q], "file")
        \/ job'[q] = Moved(job[q], "gone")
    <3>1. CASE Open(p)
      BY <1>5, <3>1, FilesParts DEF Open
    <3>2. CASE Write(p)
      BY <1>5, <3>2, FilesParts DEF Write
    <3>3. CASE Rename(p)
      BY <1>5, <3>3, FilesParts DEF Rename
    <3>4. CASE WriteFails(p)
      BY <1>5, <3>4, FilesParts DEF WriteFails, Fails
    <3>5. CASE RenameFails(p)
      BY <1>5, <3>5, FilesParts DEF RenameFails
    <3> QED BY <3>1, <3>2, <3>3, <3>4, <3>5 DEF Save
  <2> QED BY <1>5, <2>1, FilesParts, MovedIs
<1>6. ASSUME p # "lighting" PROVE job'[p] # Idle
  <2>1. AfterSave(p, TRUE) # Idle /\ AfterSave(p, FALSE) # Idle
    BY <1>6, AfterSaveIs, IdleIs
  <2>2. CASE Open(p)
    <3>1. job'[p].pc = "write"
      BY <2>2, FilesParts DEF Open, JobSet
    <3> QED BY <3>1, IdleIs
  <2>3. CASE Write(p)
    <3>1. job'[p].pc = "rename"
      BY <2>3, FilesParts DEF Write, JobSet
    <3> QED BY <3>1, IdleIs
  <2>4. CASE Rename(p)
    BY <2>1, <2>4, FilesParts DEF Rename
  <2>5. CASE WriteFails(p)
    BY <2>1, <2>5, FilesParts DEF WriteFails, Fails
  <2>6. CASE RenameFails(p)
    BY <2>1, <2>6, FilesParts DEF RenameFails
  <2> QED BY <2>2, <2>3, <2>4, <2>5, <2>6 DEF Save
<1>7. Announced' => Announced
  BY <1>5, <1>6 DEF Announced
<1> QED BY <1>2, <1>3, <1>4, <1>7

\* A step of the watchers or the nodes.
LEMMA UndisturbedStep ==
  ASSUME LightInv, FilesInv, Undisturbed,
         HotplugTick \/ TurnOffForSleep \/ Resume \/ Nodes
  PROVE  LightInv' /\ FilesInv' /\ UNCHANGED <<rest, job, clientVars>>
<1>1. UNCHANGED <<rest, job, copies, fileVars, clientVars>>
  BY DEF Undisturbed
<1>2. LightInv'
  BY HotplugStep, TurnOffStep, ResumeStep, NodesStep
<1>3. UNCHANGED lights
  BY DEF HotplugTick, TurnOffForSleep, Resume, Nodes, Detach, Attach, GiveAccess, SleepAndWake
<1>5. FilesInv'
  BY <1>1, <1>3, QuietFiles
<1> QED BY <1>1, <1>2, <1>5

\* A step of the client.
LEMMA ClientStep ==
  ASSUME LightInv, FilesInv, Subscribe \/ AddSubscriber \/ GetState \/ Hang
  PROVE  LightInv' /\ FilesInv' /\ UNCHANGED <<rest, job>>
<1>1. /\ UNCHANGED <<hardware, watch, lights, drift, unsent, commands, faults, rest, job, copies, fileVars>>
      /\ UNCHANGED outages \/ Outage
  BY DEF Subscribe, AddSubscriber, GetState, Hang, Unmoved, lightVars, hardware, watch
<1>2. Counted'
  BY <1>1, SameCounted, OutageCounted
<1>3. LightInv'
  BY <1>1, <1>2, LightsAlone
<1>5. FilesInv'
  BY <1>1, QuietFiles
<1> QED BY <1>1, <1>3, <1>5

LEMMA NotifyStep ==
  ASSUME LightInv, FilesInv, NEW p \in Savers, Notify(p)
  PROVE  LightInv' /\ FilesInv' /\ Subscribed'
<1>1. UNCHANGED lightVars
  BY DEF Notify, Unmoved
<1>2. LightInv'
  BY <1>1, LightsAlone, SameCounted DEF lightVars, hardware, watch
<1>3. sub' \in {"acked", "registered"} => inbox' \/ missed'
  BY DEF Notify, Deliver, TimesOut
<1> QED BY <1>2, <1>3, NotifyFiles DEF Subscribed

LEMMA Begun == Init => IInv
<1> SUFFICES ASSUME Init PROVE IInv
  OBVIOUS
<1>1. PICK l \in FirstLights :
        /\ LightInit(l)
        /\ file = IF l = Blank.lights THEN Absent ELSE Whole([lights |-> l, rest |-> 0, n |-> 0])
  BY DEF Init
<1>2. /\ rest = 0 /\ copies = 0 /\ job = [p \in Savers |-> Idle]
      /\ tmp = Absent /\ mishaps = {} /\ sub = "none"
  BY DEF Init
<1>3. LightInv
  BY <1>1, LightStart
<1> DEFINE s == [lights |-> l, rest |-> 0, n |-> 0]
<1>4. s \in CopySet /\ s.lights = l /\ s.rest = 0 /\ s.n = 0
  BY FirstLightsNamed, CopyIntro
<1>5. /\ file \in ContentSet /\ file.kind \in {"absent", "whole"} /\ file.state.n = 0
      /\ Loaded(file).lights = l /\ Loaded(file).rest = 0
  <2>1. CASE file = Whole(s)
    BY <1>4, <2>1, WholeIs, LoadedIs
  <2>2. CASE file = Absent /\ l = Blank.lights
    <3>1. Blank.rest = 0
      BY DEF Blank
    <3> QED BY <2>2, <3>1, FixedContents, LoadedIs, BlankCopy
  <2> QED BY <1>1, <2>1, <2>2
<1> HIDE DEF s
<1>6. \A p \in Savers : job[p] = Idle
  BY <1>2
<1>7. FilesTyped
  BY <1>2, <1>5, IdleIs, FixedContents DEF FilesTyped
<1>8. Alone
  BY <1>5, <1>6, IdleIs DEF Alone, InTmp
<1>9. Numbered
  <2>1. Blank.n <= copies
    BY <1>2, BlankCopy
  <2>2. \A p \in Savers : job[p].copy.n <= copies
    BY <1>6, <2>1, IdleIs
  <2> QED BY <1>2, <1>5, <2>1, <2>2, FixedContents DEF Numbered
<1>10. NewestFresh
  <2>1. \A p \in Savers : ~Saving(p)
    BY <1>6, IdleIs DEF Saving
  <2>2. lights = Repaired(l)
    BY <1>1 DEF LightInit
  <2>3. Repaired(l) = Repaired(Repaired(l))
    BY FirstLightsNamed, RepairComplete
  <2>4. Fresh(Loaded(file))
    BY <1>2, <1>5, <2>2, <2>3 DEF Fresh
  <2> QED BY <2>1, <2>4 DEF NewestFresh
<1>11. Subscribed
  BY <1>2 DEF Subscribed
<1> QED BY <1>3, <1>7, <1>8, <1>9, <1>10, <1>11 DEF IInv, FilesInv

LEMMA Step == IInv /\ [Next]_serverVars => IInv'
<1> SUFFICES ASSUME IInv, [Next]_serverVars PROVE IInv'
  OBVIOUS
<1>0. LightInv /\ FilesInv /\ Subscribed
  BY DEF IInv
<1>1. ASSUME UNCHANGED <<rest, clientVars>>, Announced' => Announced PROVE Subscribed'
  BY <1>0, <1>1 DEF Subscribed, clientVars
<1>2. CASE LightingHandler
  <2>1. LightInv' /\ FilesInv' /\ UNCHANGED <<rest, clientVars>>
        /\ \A p \in Savers \ {"lighting"} : job'[p] = job[p]
    BY <1>0, <1>2, LightingStep
  <2> QED BY <1>1, <2>1 DEF IInv, Announced
<1>3. ASSUME NEW p \in Savers, OtherHandler(p) PROVE IInv'
  BY <1>0, <1>3, OtherStep DEF IInv, Subscribed
<1>4. ASSUME NEW p \in Savers, Save(p) \/ WriteFails(p) \/ RenameFails(p) PROVE IInv'
  BY <1>0, <1>1, <1>4, SaveStep DEF IInv
<1>5. ASSUME NEW p \in Savers, Notify(p) PROVE IInv'
  BY <1>0, <1>5, NotifyStep DEF IInv
<1>6. CASE Subscribe \/ AddSubscriber \/ GetState \/ Hang
  <2>1. LightInv' /\ FilesInv' /\ UNCHANGED <<rest, job>>
    BY <1>0, <1>6, ClientStep
  <2>2. Announced' => Announced
    BY <2>1 DEF Announced
  <2>3. Subscribed'
    BY <1>0, <1>6, <2>1, <2>2 DEF Subscribed, Subscribe, AddSubscriber, GetState, Hang
  <2> QED BY <2>1, <2>3 DEF IInv
<1>7. CASE Poll \/ PrepareForSleep \/ Wake \/ Node
  <2>1. LightInv' /\ FilesInv' /\ UNCHANGED <<rest, job, clientVars>>
    BY <1>0, <1>7, UndisturbedStep DEF Poll, PrepareForSleep, Wake, Node
  <2> QED BY <1>1, <2>1 DEF IInv, Announced
<1>8. CASE Restarted
  <2>1. sub' = "none"
    BY <1>8 DEF Restarted
  <2> QED BY <1>0, <1>8, <2>1, RestartedStep DEF IInv, Subscribed
<1>9. CASE UNCHANGED serverVars
  <2>1. UNCHANGED <<lightVars, rest, job, copies, fileVars, clientVars>>
    BY <1>9 DEF serverVars
  <2>2. LightInv'
    BY <1>0, <2>1, LightsAlone, SameCounted DEF lightVars, hardware, watch
  <2>3. UNCHANGED lights
    BY <2>1 DEF lightVars
  <2>5. FilesInv'
    BY <1>0, <2>1, <2>3, QuietFiles
  <2> QED BY <1>1, <2>1, <2>2, <2>5 DEF IInv, Announced
<1>10. CASE SwitchProfile \/ CommitApplied
  BY <1>0, <1>10, SwitchStep, CommitStep DEF IInv, Subscribed
<1> QED BY <1>2, <1>3, <1>4, <1>5, <1>6, <1>7, <1>8, <1>9, <1>10 DEF Next

LEMMA Invariant == Spec => []IInv
  BY Begun, Step, PTL DEF Spec

-----------------------------------------------------------------------------
(* The theorems.                                                           *)

\* FileWhole: state.json parses at every moment, unless two saves had the
\* temporary file open at the same time.
THEOREM FileAlwaysWhole == Spec => []FileWhole
<1>1. IInv => FileWhole
  BY FilesParts DEF IInv, Alone, FileWhole
<1> QED BY <1>1, Invariant, PTL

\* FileKeepsUp: once no command is between its change and the end of its save
\* the file is what the daemon has, however many commands there were and in
\* whatever order they saved, unless a save failed, overlapped another, or
\* finished after a later one.
THEOREM FileAlwaysKeepsUp == Spec => []FileKeepsUp
<1>1. ASSUME IInv, mishaps = {}, ~Applying, \A p \in Savers : ~Saving(p) PROVE Fresh(Loaded(file))
  BY <1>1, FilesParts DEF IInv, NewestFresh, NoneLater
<1>2. IInv => FileKeepsUp
  BY <1>1 DEF FileKeepsUp, Fresh
<1> QED BY <1>2, Invariant, PTL

\* NoMissedChange: a registered client that has read the state after every
\* event it got shows the state as it is.
THEOREM NoChangeIsMissed == Spec => []NoMissedChange
<1>1. IInv => NoMissedChange
  BY DEF IInv, Subscribed, Announced, NoMissedChange
<1> QED BY <1>1, Invariant, PTL

\* LampsMatch in the whole daemon, where a start loads whatever the file says.
THEOREM LampsMatchWhatIsSaved == Spec => []LampsMatch
<1>1. IInv => LampsMatch
  BY Consequences DEF IInv
<1> QED BY <1>1, Invariant, PTL

\* Restorable in the whole daemon.
THEOREM SavedIsRestorable == Spec => []Restorable
<1>1. IInv => Restorable
  BY Consequences DEF IInv
<1> QED BY <1>1, Invariant, PTL

\* LatchedWhenShown in the whole daemon.
THEOREM LatchesOnlyWhenShown == Spec => LatchedWhenShown
<1> DEFINE Latched == ~present /\ present' /\ outages' = outages
                        => \A z \in Zones : dev'[z] = "live" => Shows(z)'
<1>1. ASSUME LightInv, FilesInv, Next PROVE Latched \/ UNCHANGED lightVars
  <2>1. CASE LightingHandler
    BY <1>1, <2>1, SavesOrKeeps DEF LightingHandler
  <2>2. ASSUME NEW p \in Savers, OtherHandler(p) \/ WriteFails(p) \/ RenameFails(p)
        PROVE  UNCHANGED present
    BY <2>2 DEF OtherHandler, WriteFails, RenameFails, Fails, watch
  <2>3. ASSUME NEW p \in Savers, Save(p) \/ Notify(p) PROVE UNCHANGED lightVars
    BY <2>3 DEF Save, Open, Write, Rename, Notify, Unlit, Unmoved
  <2>4. ASSUME Subscribe \/ AddSubscriber \/ GetState PROVE UNCHANGED lightVars
    BY <2>4 DEF Subscribe, AddSubscriber, GetState, Unmoved
  <2>5. CASE Hang
    BY <2>5 DEF Hang, watch
  <2>6. CASE Poll
    BY <1>1, <2>6, LatchedShown DEF Poll
  <2>7. ASSUME PrepareForSleep \/ Wake \/ Node PROVE UNCHANGED present
    BY <2>7 DEF PrepareForSleep, Wake, Node, TurnOffForSleep, Resume, Nodes,
                Detach, Attach, GiveAccess, SleepAndWake, watch
  <2>8. CASE Restarted
    BY <1>1, <2>8, OutageMoves DEF Restarted
  <2>9. Next => \/ LightingHandler \/ SwitchProfile \/ CommitApplied \/ Hang \/ Poll \/ Restarted
                \/ \E p \in Savers : OtherHandler(p) \/ WriteFails(p) \/ RenameFails(p)
                \/ \E p \in Savers : Save(p) \/ Notify(p)
                \/ Subscribe \/ AddSubscriber \/ GetState
                \/ PrepareForSleep \/ Wake \/ Node
    BY DEF Next
  <2>10. SwitchProfile \/ CommitApplied => UNCHANGED present
    BY DEF SwitchProfile, CommitApplied, watch, lightVars
  <2>11. UNCHANGED present => Latched
    OBVIOUS
  <2> HIDE DEF Latched
  <2> QED BY <1>1, <2>1, <2>2, <2>3, <2>4, <2>5, <2>6, <2>7, <2>8, <2>9, <2>10, <2>11
<1>2. ASSUME IInv, [Next]_serverVars PROVE [Latched]_lightVars
  <2>1. CASE Next
    BY <1>1, <1>2, <2>1 DEF IInv
  <2>2. CASE UNCHANGED serverVars
    BY <2>2 DEF serverVars
  <2> QED BY <1>2, <2>1, <2>2
<1>3. Spec => [][Latched]_lightVars
  BY <1>2, Invariant, PTL DEF Spec
<1> QED BY <1>3 DEF LatchedWhenShown

=============================================================================
