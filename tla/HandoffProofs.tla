---------------------------- MODULE HandoffProofs ----------------------------
(***************************************************************************)
(* Theorems about Handoff, for any number of processes and releases.       *)
(***************************************************************************)
EXTENDS Handoff, WellFoundedInduction, TLAPS

-----------------------------------------------------------------------------
(* The next process that starts is one that has not been started.          *)

LEMMA NatLess == IsWellFoundedOn({xy \in Nat \X Nat : xy[1] < xy[2]}, Nat)
BY NatLessThanWellFounded DEF OpToRel

LEMMA NextIsFree == ASSUME Free # {} PROVE NextFree \in Free
<1>1. Free \subseteq Nat
  BY HandoffConstants DEF Free, Proc
<1>2. PICK p \in Free : \A q \in Free : <<q, p>> \notin {xy \in Nat \X Nat : xy[1] < xy[2]}
  BY <1>1, NatLess, WFMin
<1>3. ASSUME NEW q \in Free PROVE p <= q
  <2>1. p \in Nat /\ q \in Nat /\ <<q, p>> \notin {xy \in Nat \X Nat : xy[1] < xy[2]}
    BY <1>1, <1>2
  <2>2. ~(q < p)
    BY <2>1
  <2> QED
    BY <2>1, <2>2
<1> QED
  BY <1>3 DEF NextFree

-----------------------------------------------------------------------------
(* Type correctness.                                                       *)

LEMMA NoneChosen == 0 \in 0 .. MaxRelease
BY HandoffConstants

LEMMA InitialRecords ==
  /\ NoRestart \in RestartRecord
  /\ NoHost \in HostRecord
  /\ NoHelper \in HelperRecord
<1>1. << >> \in Seq(Commands)
  OBVIOUS
<1>2. NoRestart \in RestartRecord
  BY DEF NoRestart, RestartRecord
<1> QED
  BY <1>1, <1>2, NoneChosen DEF NoHost, HostRecord, NoHelper, HelperRecord, Phases

\* What the window, the worker and the restart make of a host.
LEMMA SentType ==
  ASSUME NEW h \in HostRecord, NEW c \in Commands PROVE Sent(h, c) \in HostRecord
<1>1. Append(h.queue, c) \in Seq(Commands)
  BY DEF HostRecord
<1> QED
  BY <1>1 DEF Sent, HostRecord

LEMMA ReleasedType ==
  ASSUME NEW h \in HostRecord, NEW handoff PROVE Released(h, handoff) \in HostRecord
BY DEF Released, HostRecord

LEMMA PolledType == ASSUME NEW h \in HostRecord PROVE Polled(h) \in HostRecord
<1>1. CASE h.restart.at = "signalled"
  <2>1. [h.restart EXCEPT !.at = "done"] \in RestartRecord
    BY DEF HostRecord, RestartRecord
  <2>2. [h EXCEPT !.restart.at = "done", !.open = FALSE] \in HostRecord
    BY <2>1 DEF HostRecord
  <2> QED
    BY <1>1, <2>2 DEF Polled
<1>2. CASE h.restart.at = "failed"
  <2>1. [h EXCEPT !.restart = NoRestart] \in HostRecord
    BY InitialRecords DEF HostRecord
  <2> QED
    BY <1>2, <2>1, ReleasedType DEF Polled
<1> QED
  BY <1>1, <1>2 DEF Polled

LEMMA DownloadOfferedType ==
  ASSUME TypeOK, NEW h \in HostRecord PROVE DownloadOffered(h) \in HostRecord
<1>1. [does |-> "download", release |-> disk.latest] \in Commands
  BY DEF TypeOK, Commands
<1>2. [h EXCEPT !.chosen = disk.latest, !.phase = "downloading"] \in HostRecord
  BY DEF TypeOK, HostRecord, Phases
<1>3. [h EXCEPT !.chosen = 0, !.phase = "idle"] \in HostRecord
  BY NoneChosen DEF HostRecord, Phases
<1> QED
  BY <1>1, <1>2, <1>3, SentType DEF DownloadOffered

LEMMA TickedType ==
  ASSUME TypeOK, NEW h \in HostRecord, NEW g \in Ticked(h) PROVE g \in HostRecord
<1>1. /\ [h EXCEPT !.idle = FALSE] \in HostRecord
      /\ [h EXCEPT !.idle = TRUE] \in HostRecord
      /\ [h EXCEPT !.phase = "ready"] \in HostRecord
  BY DEF HostRecord, Phases
<1> QED
  BY <1>1, DownloadOfferedType DEF Ticked

LEMMA TakenReadyType ==
  ASSUME NEW h \in HostRecord PROVE TakenReady(h) \in HostRecord
<1>1. /\ [h EXCEPT !.phase = "queuedFile", !.idle = FALSE] \in HostRecord
      /\ [h EXCEPT !.phase = "idle", !.chosen = 0] \in HostRecord
      /\ [h EXCEPT !.gate = "update", !.phase = "installing"] \in HostRecord
  BY NoneChosen DEF HostRecord, Phases
<1>2. [does |-> "install", release |-> h.chosen] \in Commands
  BY DEF HostRecord, Commands
<1> QED
  BY <1>1, <1>2, SentType DEF TakenReady

LEMMA InstallFailedType ==
  ASSUME NEW h \in HostRecord PROVE InstallFailed(h) \in HostRecord
<1>1. [h EXCEPT !.worker = "idle", !.updating = FALSE, !.close = FALSE, !.phase = "failed"]
        \in HostRecord
  BY DEF HostRecord, Phases
<1> QED
  BY <1>1, ReleasedType DEF InstallFailed

LEMMA ProcTypes ==
  ASSUME TypeOK
  PROVE  /\ \A p : MutexWithout(p) \in [owner : {0} \cup Proc, open : SUBSET Proc]
         /\ Free # {} => NextFree \in Proc /\ procs[NextFree] = "free"
         /\ host.id \in {0} \cup Proc
<1>1. mutex.owner \in {0} \cup Proc /\ mutex.open \subseteq Proc
  BY DEF TypeOK
<1>2. Free # {} => NextFree \in Proc /\ procs[NextFree] = "free"
  BY NextIsFree DEF Free
<1>3. host.id \in {0} \cup Proc
  BY DEF TypeOK, HostRecord
<1> QED
  BY <1>1, <1>2, <1>3 DEF MutexWithout

LEMMA OwnsType ==
  ASSUME TypeOK, NEW p \in Proc, Owns(p), UNCHANGED <<helper, said, left, lost>>
  PROVE  TypeOK'
<1>1. mutex' \in [owner : {0} \cup Proc, open : SUBSET Proc]
  BY DEF Owns, TypeOK
<1>2. host' \in HostRecord
  BY InitialRecords DEF Owns, HostBegins, HostRecord, Phases
<1>3. disk' \in [version : 0 .. MaxRelease, latest : 0 .. MaxRelease, pending : 0 .. MaxRelease]
  BY NoneChosen DEF Owns, HostBegins, TypeOK
<1> QED
  BY <1>1, <1>2, <1>3 DEF Owns, TypeOK

LEMMA ChecksType ==
  ASSUME TypeOK, NEW p \in Proc, Checks(p) \/ CopyGivesUp(p) \/ CopyLeaves(p)
  PROVE  TypeOK'
<1>1. CASE Create(p)
  <2>1. CASE Owns(p) /\ UNCHANGED lost
    BY <1>1, <2>1, OwnsType DEF Create
  <2>2. CASE ~(Owns(p) /\ UNCHANGED lost)
    <3>1. lost' \in BOOLEAN
      BY <1>1, <2>2 DEF Create
    <3> QED
      BY <1>1, <2>2, <3>1 DEF Create, TypeOK
  <2> QED
    BY <2>1, <2>2
<1>2. CASE GivesWay(p)
  BY <1>2, ProcTypes DEF GivesWay, TypeOK
<1>3. CASE Signal(p)
  <2>1. [host.restart EXCEPT !.signal = TRUE] \in RestartRecord
    BY DEF TypeOK, HostRecord, RestartRecord
  <2>2. [host EXCEPT !.restart.signal = TRUE] \in HostRecord
    BY <2>1 DEF TypeOK, HostRecord
  <2> QED
    BY <1>3, <2>2 DEF Signal, TypeOK
<1>4. CASE CopyCreates(p)
  BY <1>4, OwnsType DEF CopyCreates, TypeOK
<1>5. CASE CopyOwns(p)
  BY <1>5, OwnsType DEF CopyOwns
<1>6. CASE CopyGivesUp(p)
  BY <1>6, ProcTypes DEF CopyGivesUp, TypeOK
<1>7. CASE CopyLeaves(p)
  BY <1>7 DEF CopyLeaves, TypeOK
<1> QED
  BY <1>1, <1>2, <1>3, <1>4, <1>5, <1>6, <1>7 DEF Checks

LEMMA RestartType == ASSUME TypeOK, BeginRestart \/ RestartThread PROVE TypeOK'
<1>1. CASE BeginRestart
  <2>1. [NoRestart EXCEPT !.at = "starting"] \in RestartRecord
    BY InitialRecords DEF RestartRecord
  <2> QED
    BY <1>1, <2>1 DEF BeginRestart, Others, TypeOK, HostRecord
<1>2. CASE StartCopy
  <2>1. Free # {} => [at |-> "waiting", copy |-> NextFree, signal |-> FALSE] \in RestartRecord
    BY ProcTypes DEF RestartRecord
  <2>2. [host.restart EXCEPT !.at = "failed"] \in RestartRecord
    BY DEF TypeOK, HostRecord, RestartRecord
  <2>3. host' \in HostRecord
    BY <1>2, <2>1, <2>2, ZenonT(60) DEF StartCopy, TypeOK, HostRecord
  <2> QED
    BY <1>2, <2>3 DEF StartCopy, TypeOK
<1>3. CASE WaitReady
  <2>1. \A at \in {"signalled", "failed", "stopping"} :
          [host.restart EXCEPT !.at = at] \in RestartRecord
    BY DEF TypeOK, HostRecord, RestartRecord
  <2>2. host' \in HostRecord
    BY <1>3, <2>1 DEF WaitReady, TypeOK, HostRecord
  <2> QED
    BY <1>3, <2>2 DEF WaitReady, Others, TypeOK
<1>4. CASE StopCopy
  <2>1. [host.restart EXCEPT !.at = "failed"] \in RestartRecord
    BY DEF TypeOK, HostRecord, RestartRecord
  <2>2. host' \in HostRecord
    BY <1>4, <2>1 DEF StopCopy, TypeOK, HostRecord
  <2> QED
    BY <1>4, <2>2, ProcTypes DEF StopCopy, TypeOK
<1> QED
  BY <1>1, <1>2, <1>3, <1>4 DEF RestartThread

LEMMA WindowType ==
  ASSUME TypeOK, UpdateNow \/ ForceNow \/ Cancel \/ AskCheck \/ Quit \/ Frame
  PROVE  TypeOK'
<1> USE DEF Others
<1>1. CASE UpdateNow
  <2>1. /\ [host EXCEPT !.force = FALSE, !.chosen = disk.latest, !.phase = "queued",
                        !.idle = FALSE] \in HostRecord
        /\ [host EXCEPT !.force = FALSE] \in HostRecord
    BY DEF TypeOK, HostRecord, Phases
  <2>2. host' \in HostRecord
    BY <1>1, <2>1, DownloadOfferedType DEF UpdateNow
  <2> QED
    BY <1>1, <2>2 DEF UpdateNow, TypeOK
<1>2. CASE ForceNow
  <2>1. [host EXCEPT !.force = TRUE, !.idle = FALSE] \in HostRecord
    BY DEF TypeOK, HostRecord
  <2>2. [[host EXCEPT !.force = TRUE, !.idle = FALSE] EXCEPT !.phase = "ready"] \in HostRecord
    BY <2>1 DEF HostRecord, Phases
  <2>3. host' \in HostRecord
    BY <1>2, <2>1, <2>2, DownloadOfferedType DEF ForceNow
  <2> QED
    BY <1>2, <2>3 DEF ForceNow, TypeOK
<1>3. CASE Cancel \/ Quit
  <2>1. /\ [host EXCEPT !.phase = "idle"] \in HostRecord
        /\ [host EXCEPT !.open = FALSE] \in HostRecord
    BY DEF TypeOK, HostRecord, Phases
  <2>2. host' \in HostRecord
    BY <1>3, <2>1 DEF Cancel, Quit
  <2> QED
    BY <1>3, <2>2 DEF Cancel, Quit, TypeOK
<1>4. CASE AskCheck
  <2>1. [does |-> "check", release |-> 0] \in Commands
    BY NoneChosen DEF Commands
  <2>2. host' \in HostRecord
    BY <1>4, <2>1, SentType DEF AskCheck, TypeOK
  <2> QED
    BY <1>4, <2>2 DEF AskCheck, TypeOK
<1>5. CASE Frame
  <2>1. Polled(host) \in HostRecord
    BY PolledType DEF TypeOK
  <2>2. PICK h \in Ticked(Polled(host)) :
          /\ host' = Closed(TakenReady(h))
          /\ disk' = IF TakenReady(h).phase = "installing" /\ h.phase = "ready"
                     THEN [disk EXCEPT !.pending = h.chosen] ELSE disk
    BY <1>5 DEF Frame
  <2>3. h \in HostRecord /\ TakenReady(h) \in HostRecord
    BY <2>1, TickedType, TakenReadyType
  <2>4. host' \in HostRecord
    BY <2>2, <2>3 DEF Closed, HostRecord
  <2>5. h.chosen \in 0 .. MaxRelease
    BY <2>3 DEF HostRecord
  <2>6. disk' \in [version : 0 .. MaxRelease, latest : 0 .. MaxRelease,
                   pending : 0 .. MaxRelease]
    BY <2>2, <2>5 DEF TypeOK
  <2>7. said' \subseteq Proc
    <3>1. host.restart.copy \in {0} \cup Proc
      BY DEF TypeOK, HostRecord, RestartRecord
    <3> QED
      BY <1>5, <3>1 DEF Frame, TypeOK
  <2> QED
    BY <1>5, <2>4, <2>6, <2>7 DEF Frame, TypeOK
<1> QED
  BY <1>1, <1>2, <1>3, <1>4, <1>5

LEMMA WorkerType == ASSUME TypeOK, CheckDue \/ Worker \/ ClientMoves PROVE TypeOK'
<1> USE DEF Others
<1>1. CASE CheckDue \/ ClientMoves
  <2>1. /\ [host EXCEPT !.worker = "checking"] \in HostRecord
        /\ [host EXCEPT !.streaming = ~host.streaming] \in HostRecord
    BY DEF TypeOK, HostRecord
  <2> QED
    BY <1>1, <2>1 DEF CheckDue, ClientMoves, TypeOK
<1>2. CASE TakeCommand
  <2> DEFINE rest == [host EXCEPT !.queue = Tail(@)]
  <2>1. Tail(host.queue) \in Seq(Commands)
    BY <1>2 DEF TakeCommand, TypeOK, HostRecord
  <2>2. rest \in HostRecord
    BY <2>1 DEF TypeOK, HostRecord
  <2>3. host' \in {[rest EXCEPT !.worker = "checking"], [rest EXCEPT !.worker = "installing"],
                   rest, [rest EXCEPT !.worker = "downloading"],
                   [rest EXCEPT !.phase = "idle", !.chosen = 0]}
    BY <1>2 DEF TakeCommand
  <2> HIDE DEF rest
  <2>4. /\ [rest EXCEPT !.worker = "checking"] \in HostRecord
        /\ [rest EXCEPT !.worker = "installing"] \in HostRecord
        /\ [rest EXCEPT !.worker = "downloading"] \in HostRecord
        /\ [rest EXCEPT !.phase = "idle", !.chosen = 0] \in HostRecord
    BY <2>2, NoneChosen DEF HostRecord, Phases
  <2> QED
    BY <1>2, <2>2, <2>3, <2>4 DEF TakeCommand, TypeOK
<1>3. CASE CheckAnswers
  BY <1>3 DEF CheckAnswers, TypeOK, HostRecord
<1>4. CASE DownloadEnds
  <2>1. \A phase \in {"ready", "failed"} :
          [host EXCEPT !.worker = "idle", !.phase = phase] \in HostRecord
    BY DEF TypeOK, HostRecord, Phases
  <2> QED
    BY <1>4, <2>1 DEF DownloadEnds, TypeOK
<1>5. CASE BeginUpdate
  <2>1. /\ [host EXCEPT !.worker = "idle", !.phase = "queuedFile", !.idle = FALSE] \in HostRecord
        /\ [host EXCEPT !.worker = "staging", !.streaming = FALSE, !.updating = TRUE]
             \in HostRecord
    BY DEF TypeOK, HostRecord, Phases
  <2>2. host' \in HostRecord
    <3>1. Released([host EXCEPT !.worker = "idle", !.phase = "queuedFile", !.idle = FALSE],
                   "update") \in HostRecord
      BY <2>1, ReleasedType
    <3> QED
      BY <1>5, <2>1, <3>1 DEF BeginUpdate
  <2> QED
    BY <1>5, <2>2, NoneChosen DEF BeginUpdate, TypeOK
<1>6. CASE StartHelper
  <2>1. host' \in HostRecord
    <3>1. host' \in {[host EXCEPT !.worker = "awaiting"], InstallFailed(host)}
      BY <1>6 DEF StartHelper
    <3> QED
      BY <3>1, InstallFailedType DEF TypeOK, HostRecord
  <2>2. helper' \in HelperRecord /\ procs' \in [Proc -> {"free", "reserved", "started", "opened",
                        "copy", "signalled", "waits", "telling", "host", "gone"}]
    BY <1>6, ProcTypes DEF StartHelper, TypeOK, HelperRecord, HostRecord
  <2> QED
    BY <1>6, <2>1, <2>2, NoneChosen DEF StartHelper, TypeOK
<1>7. CASE AwaitReady
  <2>1. (host.phase = "installing") \in BOOLEAN
    OBVIOUS
  <2>2. host' \in HostRecord
    BY <1>7, <2>1 DEF AwaitReady, TypeOK, HostRecord
  <2> QED
    BY <1>7, <2>2 DEF AwaitReady, TypeOK
<1>8. CASE StopHelper
  <2>1. host' \in HostRecord /\ helper' \in HelperRecord
    BY <1>8, InstallFailedType DEF StopHelper, TypeOK, HelperRecord
  <2> QED
    BY <1>8, <2>1, NoneChosen DEF StopHelper, TypeOK
<1> QED
  BY <1>1, <1>2, <1>3, <1>4, <1>5, <1>6, <1>7, <1>8 DEF Worker

LEMMA HelperType == ASSUME TypeOK, Helper \/ SetupCloses PROVE TypeOK'
<1> USE DEF Apart, HelperGoes
<1>1. CASE Prepare
  BY <1>1 DEF Prepare, TypeOK, HelperRecord
<1>2. CASE WaitHost
  BY <1>2 DEF WaitHost, TypeOK, HelperRecord
<1>3. CASE ListOthers
  <2>1. \A others \in SUBSET Proc :
          [helper EXCEPT !.at = "waitOthers", !.others = others] \in HelperRecord
    BY DEF TypeOK, HelperRecord
  <2>2. {Alive, {}} \subseteq SUBSET Proc
    BY DEF Alive
  <2>3. helper' \in HelperRecord
    BY <1>3, <2>1, <2>2 DEF ListOthers
  <2> QED
    BY <1>3, <2>3 DEF ListOthers, TypeOK
<1>4. CASE WaitOthers
  <2>1. helper' \in HelperRecord
    BY <1>4 DEF WaitOthers, TypeOK, HelperRecord
  <2> QED
    BY <1>4, <2>1 DEF WaitOthers, TypeOK
<1>5. CASE SetupEnds
  <2>1. helper.release \in 0 .. MaxRelease
    BY DEF TypeOK, HelperRecord
  <2> QED
    BY <1>5, <2>1 DEF SetupEnds, TypeOK, HelperRecord
<1>6. CASE Reopen
  BY <1>6 DEF Reopen, TypeOK, HelperRecord
<1>7. CASE SetupCloses
  BY <1>7 DEF SetupCloses, TypeOK, HostRecord
<1> QED
  BY <1>1, <1>2, <1>3, <1>4, <1>5, <1>6, <1>7 DEF Helper

\* Every behaviour of the installation keeps its state well-typed.
THEOREM TypeCorrect == Spec => []TypeOK
<1>1. Init => TypeOK
  <2> SUFFICES ASSUME Init PROVE TypeOK
    OBVIOUS
  <2>1. 1 \in Proc
    BY HandoffConstants DEF Proc
  <2>2. host \in HostRecord /\ helper \in HelperRecord
    BY <2>1, InitialRecords DEF Init, HostRecord
  <2> QED
    BY <2>1, <2>2, NoneChosen DEF Init, TypeOK
<1>2. TypeOK /\ [Next]_vars => TypeOK'
  <2> SUFFICES ASSUME TypeOK, [Next]_vars PROVE TypeOK'
    OBVIOUS
  <2>1. CASE Launch
    BY <2>1, ProcTypes DEF Launch, TypeOK
  <2>2. CASE Exit \/ Crash
    <3>1. left' \in BOOLEAN
      BY <2>2 DEF Exit, Crash, TypeOK
    <3>2. Gone /\ procs' \in [Proc -> {"free", "reserved", "started", "opened", "copy",
                            "signalled", "waits", "telling", "host", "gone"}]
      BY <2>2 DEF Exit, Crash, Gone, TypeOK
    <3> QED
      BY <3>1, <3>2, ProcTypes, InitialRecords DEF Gone, TypeOK
  <2>3. CASE UNCHANGED vars
    BY <2>3 DEF vars, TypeOK
  <2> QED
    BY <2>1, <2>2, <2>3, ChecksType, RestartType, WindowType, WorkerType, HelperType
    DEF Next, User
<1> QED
  BY <1>1, <1>2, PTL DEF Spec

-----------------------------------------------------------------------------
(* One host: it is the process that owns the mutex.                        *)

OwnerInv ==
  /\ \A p \in Proc : procs[p] = "host" <=> host.id = p
  /\ mutex.owner = host.id
  /\ host.id # 0 => host.id \in mutex.open
  /\ host.id = 0 => host = NoHost

\* The copy a restart started has not become the host: the host it is to
\* follow still owns the mutex.
CopyInv ==
  /\ host.restart.at \in {"none", "starting"} => host.restart.copy = 0
  /\ host.restart.copy # 0 =>
       procs[host.restart.copy] \in {"copy", "signalled", "waits", "telling", "gone"}

\* The app that a helper will start is kept for it, and the host it stands by
\* is the running one or gone.
HelperInv ==
  /\ helper.at \notin {"none", "gone"} => helper.app # 0 /\ procs[helper.app] = "reserved"
  /\ helper.host # 0 => procs[helper.host] \in {"host", "gone"}

InstanceInv == OwnerInv /\ CopyInv /\ HelperInv

\* Of the host's state, what the window and the worker leave to others.
Kept(g, h) == g.id = h.id /\ g.restart = h.restart

LEMMA OpsKeep ==
  ASSUME TypeOK, NEW h \in HostRecord
  PROVE  /\ \A c \in Commands : Kept(Sent(h, c), h)
         /\ \A handoff : Kept(Released(h, handoff), h)
         /\ Kept(DownloadOffered(h), h)
         /\ \A g \in Ticked(h) : Kept(g, h)
         /\ Kept(TakenReady(h), h)
         /\ Kept(Closed(h), h)
         /\ Kept(InstallFailed(h), h)
<1>1. ASSUME NEW g \in HostRecord, NEW c \in Commands PROVE Kept(Sent(g, c), g)
  BY DEF Sent, Kept, HostRecord
<1>2. ASSUME NEW g \in HostRecord, NEW handoff PROVE Kept(Released(g, handoff), g)
  BY DEF Released, Kept, HostRecord
<1>3. Kept(DownloadOffered(h), h)
  <2>1. [does |-> "download", release |-> disk.latest] \in Commands
    BY DEF TypeOK, Commands
  <2>2. [h EXCEPT !.chosen = disk.latest, !.phase = "downloading"] \in HostRecord
    BY DEF TypeOK, HostRecord, Phases
  <2>3. /\ Kept([h EXCEPT !.chosen = disk.latest, !.phase = "downloading"], h)
        /\ Kept([h EXCEPT !.chosen = 0, !.phase = "idle"], h)
    BY DEF HostRecord, Kept
  <2> QED
    BY <1>1, <2>1, <2>2, <2>3 DEF DownloadOffered, Kept
<1>4. \A g \in Ticked(h) : Kept(g, h)
  BY <1>3 DEF Ticked, Kept, HostRecord
<1>5. Kept(TakenReady(h), h)
  <2>1. [does |-> "install", release |-> h.chosen] \in Commands
    BY DEF HostRecord, Commands
  <2>2. [h EXCEPT !.gate = "update", !.phase = "installing"] \in HostRecord
    BY DEF HostRecord, Phases
  <2>3. /\ Kept([h EXCEPT !.gate = "update", !.phase = "installing"], h)
        /\ Kept([h EXCEPT !.phase = "queuedFile", !.idle = FALSE], h)
        /\ Kept([h EXCEPT !.phase = "idle", !.chosen = 0], h)
    BY DEF HostRecord, Kept
  <2> QED
    BY <1>1, <2>1, <2>2, <2>3 DEF TakenReady, Kept
<1>6. Kept(Closed(h), h)
  BY DEF Closed, Kept, HostRecord
<1>7. Kept(InstallFailed(h), h)
  <2>1. [h EXCEPT !.worker = "idle", !.updating = FALSE, !.close = FALSE, !.phase = "failed"]
          \in HostRecord
    BY DEF HostRecord, Phases
  <2>2. Kept([h EXCEPT !.worker = "idle", !.updating = FALSE, !.close = FALSE,
                       !.phase = "failed"], h)
    BY DEF HostRecord, Kept
  <2> QED
    BY <1>2, <2>1, <2>2 DEF InstallFailed, Kept
<1> QED
  BY <1>1, <1>2, <1>3, <1>4, <1>5, <1>6, <1>7

\* Steps of the window, the worker and the user touch no process.
WindowStep ==
  \/ UpdateNow \/ ForceNow \/ Cancel \/ AskCheck \/ Quit \/ SetupCloses
  \/ CheckDue \/ TakeCommand \/ CheckAnswers \/ DownloadEnds \/ BeginUpdate \/ AwaitReady
  \/ ClientMoves

LEMMA WindowStepKeeps ==
  ASSUME TypeOK, InstanceInv, WindowStep
  PROVE  host.id # 0 /\ Kept(host', host) /\ UNCHANGED <<procs, mutex, helper>>
<1> USE DEF Others
<1>1. host \in HostRecord /\ (host.id = 0 => host.worker = "idle" /\ host.queue = << >>)
  BY DEF TypeOK, InstanceInv, OwnerInv, NoHost
<1>2. CASE UpdateNow
  <2>1. [host EXCEPT !.force = FALSE] \in HostRecord /\ Kept([host EXCEPT !.force = FALSE], host)
    BY <1>1 DEF HostRecord, Kept
  <2>2. Kept([host EXCEPT !.force = FALSE, !.chosen = disk.latest, !.phase = "queued",
                          !.idle = FALSE], host)
    BY <1>1 DEF HostRecord, Kept
  <2> QED
    BY <1>2, <2>1, <2>2, OpsKeep DEF UpdateNow, Window, Kept
<1>3. CASE ForceNow
  <2> DEFINE forced == [host EXCEPT !.force = TRUE, !.idle = FALSE]
  <2>1. forced \in HostRecord /\ Kept(forced, host)
    BY <1>1 DEF HostRecord, Kept
  <2>2. Kept([forced EXCEPT !.phase = "ready"], host)
    BY <1>1 DEF HostRecord, Kept
  <2>3. host' \in {[forced EXCEPT !.phase = "ready"], DownloadOffered(forced)}
    BY <1>3 DEF ForceNow
  <2> HIDE DEF forced
  <2> QED
    BY <1>3, <2>1, <2>2, <2>3, OpsKeep DEF ForceNow, Window, Kept
<1>4. CASE AskCheck
  <2>1. [does |-> "check", release |-> 0] \in Commands
    BY NoneChosen DEF Commands
  <2> QED
    BY <1>1, <1>4, <2>1, OpsKeep DEF AskCheck, Window
<1>5. CASE \/ Cancel \/ Quit \/ SetupCloses \/ CheckDue \/ CheckAnswers \/ DownloadEnds
           \/ AwaitReady \/ ClientMoves
  BY <1>1, <1>5
  DEF Cancel, Quit, SetupCloses, CheckDue, CheckAnswers, DownloadEnds, AwaitReady, ClientMoves,
      Window, Kept, HostRecord
<1>6. CASE TakeCommand
  <2> DEFINE rest == [host EXCEPT !.queue = Tail(@)]
  <2>1. /\ Kept(rest, host)
        /\ Kept([rest EXCEPT !.worker = "checking"], host)
        /\ Kept([rest EXCEPT !.worker = "installing"], host)
        /\ Kept([rest EXCEPT !.worker = "downloading"], host)
        /\ Kept([rest EXCEPT !.phase = "idle", !.chosen = 0], host)
    BY <1>1 DEF Kept, HostRecord
  <2>2. host' \in {[rest EXCEPT !.worker = "checking"], [rest EXCEPT !.worker = "installing"],
                   rest, [rest EXCEPT !.worker = "downloading"],
                   [rest EXCEPT !.phase = "idle", !.chosen = 0]}
    BY <1>6 DEF TakeCommand
  <2>3. host.id # 0 /\ UNCHANGED <<procs, mutex, helper>>
    BY <1>1, <1>6 DEF TakeCommand
  <2> HIDE DEF rest
  <2> QED
    BY <2>1, <2>2, <2>3
<1>7. CASE BeginUpdate
  <2> DEFINE waits == [host EXCEPT !.worker = "idle", !.phase = "queuedFile", !.idle = FALSE]
  <2>1. waits \in HostRecord /\ Kept(waits, host)
    BY <1>1 DEF HostRecord, Phases, Kept
  <2>2. Kept([host EXCEPT !.worker = "staging", !.streaming = FALSE, !.updating = TRUE], host)
    BY <1>1 DEF HostRecord, Kept
  <2>3. /\ host' \in {Released(waits, "update"),
                     [host EXCEPT !.worker = "staging", !.streaming = FALSE, !.updating = TRUE]}
        /\ host.id # 0 /\ UNCHANGED <<procs, mutex, helper>>
    BY <1>1, <1>7 DEF BeginUpdate
  <2> HIDE DEF waits
  <2>4. Kept(Released(waits, "update"), waits)
    BY <2>1, OpsKeep
  <2>5. Kept(Released(waits, "update"), host)
    BY <2>1, <2>4 DEF Kept
  <2> QED
    BY <2>2, <2>3, <2>5
<1> QED
  BY <1>2, <1>3, <1>4, <1>5, <1>6, <1>7 DEF WindowStep

LEMMA RestartSteps ==
  ASSUME TypeOK, InstanceInv, BeginRestart \/ WaitReady \/ Frame
  PROVE  /\ host.id # 0 /\ host'.id = host.id /\ UNCHANGED <<procs, mutex, helper>>
         /\ host'.restart.copy \in {0, host.restart.copy}
         /\ host'.restart.at \in {"none", "starting"} => host'.restart.copy = 0
<1> USE DEF Others
<1>1. /\ host \in HostRecord /\ host.restart \in RestartRecord
      /\ host.id = 0 => host.restart.at = "none"
  BY DEF TypeOK, HostRecord, InstanceInv, OwnerInv, NoHost, NoRestart
<1>2. CASE BeginRestart
  <2>1. host'.restart = [NoRestart EXCEPT !.at = "starting"] /\ host'.id = host.id
    BY <1>1, <1>2 DEF BeginRestart, HostRecord
  <2> QED
    BY <1>2, <2>1 DEF BeginRestart, Window, NoRestart
<1>3. CASE WaitReady
  <2>1. PICK at \in {"signalled", "failed", "stopping"} :
          host' = [host EXCEPT !.restart = [@ EXCEPT !.at = at]]
    BY <1>3 DEF WaitReady
  <2>2. host'.restart = [host.restart EXCEPT !.at = at] /\ host'.id = host.id
    BY <1>1, <2>1 DEF HostRecord
  <2> QED
    BY <1>1, <1>3, <2>2 DEF WaitReady, RestartRecord
<1>4. CASE Frame
  <2>1. Polled(host) \in HostRecord
    BY <1>1, PolledType
  <2>2. PICK h \in Ticked(Polled(host)) : host' = Closed(TakenReady(h))
    BY <1>4 DEF Frame
  <2>3. h \in HostRecord /\ TakenReady(h) \in HostRecord
    BY <2>1, TickedType, TakenReadyType
  <2>4. Kept(host', Polled(host))
    BY <2>1, <2>2, <2>3, OpsKeep DEF Kept
  <2>5. /\ Polled(host).id = host.id
        /\ Polled(host).restart.copy \in {0, host.restart.copy}
        /\ Polled(host).restart.at \in {"none", "starting"} => Polled(host).restart.copy = 0
    <3>1. CASE host.restart.at = "signalled"
      BY <1>1, <3>1 DEF Polled, HostRecord, RestartRecord
    <3>2. CASE host.restart.at = "failed"
      <4>1. [host EXCEPT !.restart = NoRestart] \in HostRecord
        BY <1>1, InitialRecords DEF HostRecord
      <4>2. Kept(Polled(host), [host EXCEPT !.restart = NoRestart])
        BY <3>2, <4>1, OpsKeep DEF Polled
      <4> QED
        BY <1>1, <4>2 DEF Kept, HostRecord, NoRestart
    <3>3. CASE host.restart.at \notin {"signalled", "failed"}
      BY <3>3 DEF Polled, InstanceInv, CopyInv
    <3> QED
      BY <3>1, <3>2, <3>3
  <2> QED
    BY <1>4, <2>4, <2>5 DEF Frame, Window, Kept
<1> QED
  BY <1>2, <1>3, <1>4

LEMMA HostOnlyKeeps ==
  ASSUME TypeOK, InstanceInv, host.id # 0, host'.id = host.id, UNCHANGED <<procs, mutex, helper>>,
         host'.restart.copy \in {0, host.restart.copy},
         host'.restart.at \in {"none", "starting"} => host'.restart.copy = 0
  PROVE  InstanceInv'
BY DEF InstanceInv, OwnerInv, CopyInv, HelperInv

\* A process that is not the host moves on, and stays what it is for the
\* restart and for the helper.
LEMMA ProcMoves ==
  ASSUME TypeOK, InstanceInv, NEW p \in Proc, NEW place,
         procs[p] \notin {"host", "reserved"}, place # "host",
         procs' = [procs EXCEPT ![p] = place],
         mutex'.owner = mutex.owner, mutex.open \ {p} \subseteq mutex'.open,
         host.restart.copy = p => place \in {"copy", "signalled", "waits", "telling", "gone"},
         procs[p] = "gone" => place = "gone",
         Kept(host', host) \/ (host'.id = host.id /\ host'.restart.copy = host.restart.copy
                               /\ (host'.restart.at \in {"none", "starting"}
                                     => host.restart.copy = 0)),
         host.id = 0 => host' = host,
         helper' = helper
  PROVE  InstanceInv'
<1>1. \A q \in Proc : procs'[q] = IF q = p THEN place ELSE procs[q]
  BY DEF TypeOK
<1>2. host.restart.copy \in {0} \cup Proc /\ helper.app \in {0} \cup Proc /\ helper.host \in {0} \cup Proc
  BY DEF TypeOK, HostRecord, RestartRecord, HelperRecord
<1>3. OwnerInv'
  BY <1>1 DEF InstanceInv, OwnerInv, Kept
<1>4. CopyInv'
  BY <1>1, <1>2 DEF InstanceInv, CopyInv, Kept
<1>5. HelperInv'
  BY <1>1, <1>2 DEF InstanceInv, HelperInv
<1> QED
  BY <1>3, <1>4, <1>5 DEF InstanceInv

\* A process becomes the host only when there is none.
LEMMA OwnsInstance ==
  ASSUME TypeOK, InstanceInv, NEW p \in Proc, Owns(p), helper' = helper,
         procs[p] \in {"started", "signalled", "waits"},
         mutex.open = {} \/ mutex.owner = 0
  PROVE  InstanceInv'
<1>1. host.id = 0 /\ p # 0
  BY HandoffConstants DEF InstanceInv, OwnerInv, Proc
<1>2. host'.id = p /\ host'.restart = NoRestart
  BY DEF Owns, HostBegins, NoHost
<1>3. \A q \in Proc : procs'[q] = IF q = p THEN "host" ELSE procs[q]
  BY DEF Owns, TypeOK
<1>4. OwnerInv'
  <2>1. mutex'.owner = p /\ p \in mutex'.open
    BY DEF Owns
  <2>2. \A q \in Proc : procs[q] # "host"
    BY <1>1, HandoffConstants DEF InstanceInv, OwnerInv, Proc
  <2> QED
    BY <1>1, <1>2, <1>3, <2>1, <2>2 DEF OwnerInv
<1>5. HelperInv'
  BY <1>3 DEF InstanceInv, HelperInv, TypeOK, HelperRecord
<1>6. CopyInv'
  BY <1>2 DEF CopyInv, NoRestart
<1> QED
  BY <1>4, <1>5, <1>6 DEF InstanceInv

LEMMA ChecksInstance ==
  ASSUME TypeOK, InstanceInv, NEW p \in Proc, Checks(p) \/ CopyGivesUp(p) \/ CopyLeaves(p)
  PROVE  InstanceInv'
<1> USE DEF Kept
<1>1. mutex.owner = p => procs[p] = "host"
  BY DEF InstanceInv, OwnerInv
<1>2. procs[p] # "host" => MutexWithout(p).owner = mutex.owner
                           /\ mutex.open \ {p} \subseteq MutexWithout(p).open
  BY <1>1 DEF MutexWithout
<1>3. mutex.owner = [mutex EXCEPT !.open = @ \cup {p}].owner
      /\ mutex.open \ {p} \subseteq [mutex EXCEPT !.open = @ \cup {p}].open
  BY DEF TypeOK
<1>4. host.restart.copy = p =>
        procs[p] \in {"copy", "signalled", "waits", "telling", "gone"}
  BY HandoffConstants DEF InstanceInv, CopyInv, Proc
<1>5. CASE Create(p)
  BY <1>3, <1>4, <1>5, OwnsInstance, ProcMoves DEF Create
<1>6. CASE GivesWay(p)
  BY <1>2, <1>4, <1>6, ProcMoves DEF GivesWay
<1>7. CASE Signal(p)
  <2>1. CASE procs' = [procs EXCEPT ![p] = "gone"] /\ UNCHANGED host
    BY <1>7, <2>1, ProcMoves DEF Signal
  <2>2. CASE /\ procs' = [procs EXCEPT ![p] = "signalled"]
             /\ host' = IF host.restart.copy = p THEN [host EXCEPT !.restart.signal = TRUE]
                                                 ELSE host
    <3>1. /\ host'.id = host.id /\ host'.restart.copy = host.restart.copy
          /\ host'.restart.at = host.restart.at
      BY <2>2 DEF TypeOK, HostRecord, RestartRecord
    <3>2. host.id = 0 => host' = host
      BY <2>2, HandoffConstants DEF InstanceInv, OwnerInv, NoHost, NoRestart, Proc
    <3> QED
      BY <1>7, <2>2, <3>1, <3>2, ProcMoves DEF Signal, InstanceInv, CopyInv
  <2> QED
    BY <1>7, <2>1, <2>2 DEF Signal
<1>8. CASE CopyCreates(p)
  BY <1>3, <1>8, OwnsInstance, ProcMoves DEF CopyCreates
<1>9. CASE CopyOwns(p)
  BY <1>9, OwnsInstance DEF CopyOwns
<1>10. CASE CopyGivesUp(p)
  BY <1>2, <1>10, ProcMoves DEF CopyGivesUp
<1>11. CASE CopyLeaves(p)
  BY <1>11, ProcMoves DEF CopyLeaves
<1> QED
  BY <1>5, <1>6, <1>7, <1>8, <1>9, <1>10, <1>11 DEF Checks

LEMMA RestartInstance ==
  ASSUME TypeOK, InstanceInv, StartCopy \/ StopCopy PROVE InstanceInv'
<1>1. host \in HostRecord /\ host.restart \in RestartRecord
  BY DEF TypeOK, HostRecord
<1>2. host.id # 0
  BY DEF StartCopy, StopCopy, InstanceInv, OwnerInv, NoHost, NoRestart
<1>3. CASE StartCopy /\ host' = [host EXCEPT !.restart.at = "failed"] /\ UNCHANGED procs
  <2>1. host'.id = host.id /\ host'.restart.copy = host.restart.copy /\ host'.restart.at = "failed"
    BY <1>1, <1>3 DEF HostRecord, RestartRecord
  <2> QED
    BY <1>2, <1>3, <2>1, HostOnlyKeeps DEF StartCopy
<1>4. CASE StartCopy /\ ~(host' = [host EXCEPT !.restart.at = "failed"] /\ UNCHANGED procs)
  <2>1. /\ Free # {} /\ procs' = [procs EXCEPT ![NextFree] = "copy"]
        /\ host' = [host EXCEPT !.restart = [at |-> "waiting", copy |-> NextFree, signal |-> FALSE]]
        /\ mutex' = mutex /\ helper' = helper
    BY <1>4 DEF StartCopy
  <2>2. NextFree \in Proc /\ procs[NextFree] = "free"
    BY <2>1, ProcTypes
  <2>3. \A q \in Proc : procs'[q] = IF q = NextFree THEN "copy" ELSE procs[q]
    BY <2>1 DEF TypeOK
  <2>4. /\ host'.id = host.id /\ host'.restart.copy = NextFree
        /\ host'.restart.at = "waiting"
    BY <1>1, <2>1 DEF HostRecord
  <2>5. OwnerInv'
    BY <1>2, <2>1, <2>2, <2>3, <2>4 DEF InstanceInv, OwnerInv
  <2>6. CopyInv'
    BY <2>2, <2>3, <2>4 DEF CopyInv
  <2>7. HelperInv'
    BY <2>1, <2>2, <2>3 DEF InstanceInv, HelperInv, TypeOK, HelperRecord
  <2> QED
    BY <2>5, <2>6, <2>7 DEF InstanceInv
<1>5. CASE StopCopy
  <2> DEFINE copy == host.restart.copy
  <2>1. /\ procs' = [procs EXCEPT ![copy] = "gone"] /\ mutex' = MutexWithout(copy)
        /\ helper' = helper
        /\ host'.id = host.id /\ host'.restart.copy = copy /\ host'.restart.at = "failed"
    BY <1>1, <1>5 DEF StopCopy, HostRecord, RestartRecord
  <2>2. copy # host.id /\ copy \in {0} \cup Proc
    BY <1>1, <1>2 DEF RestartRecord, InstanceInv, OwnerInv, CopyInv, TypeOK, HostRecord
  <2>3. mutex'.owner = mutex.owner /\ (host.id \in mutex.open => host.id \in mutex'.open)
    BY <2>1, <2>2 DEF MutexWithout, InstanceInv, OwnerInv
  <2>4. \A q \in Proc : procs'[q] = IF q = copy THEN "gone" ELSE procs[q]
    BY <2>1 DEF TypeOK
  <2>5. OwnerInv'
    BY <1>2, <2>1, <2>2, <2>3, <2>4 DEF InstanceInv, OwnerInv
  <2>6. CopyInv'
    BY <2>1, <2>2, <2>4 DEF CopyInv
  <2>7. HelperInv'
    <3>1. copy # 0 => procs[copy] # "reserved"
      BY DEF InstanceInv, CopyInv
    <3> QED
      BY <2>1, <2>2, <2>4, <3>1 DEF InstanceInv, HelperInv, TypeOK, HelperRecord
  <2> QED
    BY <2>5, <2>6, <2>7 DEF InstanceInv
<1> QED
  BY <1>3, <1>4, <1>5

\* A free process is reserved or started, and one reserved for a helper's app
\* is started by it.
LEMMA StartsInstance ==
  ASSUME TypeOK, InstanceInv, Launch \/ StartHelper \/ StopHelper \/ Helper PROVE InstanceInv'
<1> USE DEF Apart, HelperGoes
<1>1. host.restart.copy \in {0} \cup Proc /\ helper.app \in {0} \cup Proc
      /\ helper.host \in {0} \cup Proc /\ host \in HostRecord
  BY DEF TypeOK, HostRecord, RestartRecord, HelperRecord
<1>2. CASE Launch
  <2>1. NextFree \in Proc /\ procs[NextFree] = "free"
    BY <1>2, ProcTypes DEF Launch
  <2>2. host.restart.copy # NextFree
    BY <2>1, HandoffConstants DEF InstanceInv, CopyInv, Proc
  <2> QED
    BY <1>2, <2>1, <2>2, ProcMoves DEF Launch, Kept
<1>3. CASE StartHelper
  <2>0. host.id # 0 /\ Kept(host', host) /\ UNCHANGED mutex
    <3>1. Kept([host EXCEPT !.worker = "awaiting"], host)
      BY <1>1 DEF HostRecord, Kept
    <3> QED
      BY <1>1, <1>3, <3>1, OpsKeep DEF StartHelper, InstanceInv, OwnerInv, NoHost
  <2>1. CASE UNCHANGED <<procs, helper>>
    BY <2>0, <2>1, HostOnlyKeeps DEF Kept, InstanceInv, CopyInv
  <2>2. CASE /\ Free # {}
             /\ procs' = [procs EXCEPT ![NextFree] = "reserved"]
             /\ helper' = [at |-> "preparing", host |-> host.id, app |-> NextFree,
                           release |-> host.chosen, others |-> {}]
    <3>1. NextFree \in Proc /\ procs[NextFree] = "free" /\ host.id \in Proc
      BY <2>0, <2>2, ProcTypes
    <3>2. \A q \in Proc : procs'[q] = IF q = NextFree THEN "reserved" ELSE procs[q]
      BY <2>2 DEF TypeOK
    <3>3. OwnerInv'
      BY <2>0, <3>1, <3>2 DEF InstanceInv, OwnerInv, Kept
    <3>4. CopyInv'
      BY <1>1, <2>0, <3>1, <3>2 DEF InstanceInv, CopyInv, Kept
    <3>5. HelperInv'
      <4>1. helper'.app = NextFree /\ helper'.host = host.id /\ procs[host.id] = "host"
        BY <2>2, <3>1 DEF InstanceInv, OwnerInv
      <4> QED
        BY <3>1, <3>2, <4>1, HandoffConstants DEF HelperInv, Proc
    <3> QED
      BY <3>3, <3>4, <3>5 DEF InstanceInv
  <2> QED
    BY <1>3, <2>1, <2>2 DEF StartHelper
<1>4. CASE StopHelper
  <2>1. host.id # 0 /\ Kept(host', host) /\ UNCHANGED <<procs, mutex>>
    BY <1>1, <1>4, OpsKeep DEF StopHelper, InstanceInv, OwnerInv, NoHost
  <2>2. helper'.at = "gone" /\ helper'.host = helper.host
    BY <1>4 DEF StopHelper, TypeOK, HelperRecord
  <2> QED
    BY <2>1, <2>2 DEF Kept, InstanceInv, OwnerInv, CopyInv, HelperInv
<1>5. CASE Prepare \/ WaitHost \/ ListOthers \/ WaitOthers \/ SetupEnds
  <2>1. /\ helper.at \notin {"none", "gone"}
        /\ helper'.app = helper.app /\ helper'.host = helper.host
        /\ UNCHANGED <<procs, mutex, host>>
    BY <1>5 DEF Prepare, WaitHost, ListOthers, WaitOthers, SetupEnds, TypeOK, HelperRecord
  <2> QED
    BY <2>1 DEF InstanceInv, OwnerInv, CopyInv, HelperInv
<1>6. CASE Reopen
  <2>1. /\ helper.app \in Proc /\ procs[helper.app] = "reserved"
        /\ procs' = [procs EXCEPT ![helper.app] = "started"] /\ UNCHANGED <<mutex, host>>
        /\ helper'.at = "gone" /\ helper'.host = helper.host
    BY <1>1, <1>6 DEF Reopen, InstanceInv, HelperInv, TypeOK, HelperRecord
  <2>2. \A q \in Proc : procs'[q] = IF q = helper.app THEN "started" ELSE procs[q]
    BY <2>1 DEF TypeOK
  <2>3. OwnerInv'
    BY <2>1, <2>2 DEF InstanceInv, OwnerInv
  <2>4. CopyInv'
    BY <1>1, <2>1, <2>2 DEF InstanceInv, CopyInv
  <2>5. HelperInv'
    BY <1>1, <2>1, <2>2 DEF InstanceInv, HelperInv
  <2> QED
    BY <2>3, <2>4, <2>5 DEF InstanceInv
<1> QED
  BY <1>2, <1>3, <1>4, <1>5, <1>6 DEF Helper

LEMMA GoneInstance == ASSUME TypeOK, InstanceInv, Exit \/ Crash PROVE InstanceInv'
<1>1. Gone /\ host.id \in Proc
  BY ProcTypes DEF Exit, Crash
<1>2. \A q \in Proc : procs'[q] = IF q = host.id THEN "gone" ELSE procs[q]
  BY <1>1 DEF Gone, TypeOK
<1>3. OwnerInv'
  <2>1. mutex'.owner = 0 /\ host' = NoHost /\ host'.id = 0
    BY <1>1 DEF Gone, MutexWithout, InstanceInv, OwnerInv, NoHost
  <2>2. \A q \in Proc : procs'[q] # "host" /\ q # 0
    BY <1>2, HandoffConstants DEF InstanceInv, OwnerInv, Proc
  <2> QED
    BY <2>1, <2>2 DEF OwnerInv
<1>4. CopyInv'
  BY <1>1 DEF Gone, CopyInv, NoHost, NoRestart
<1>5. HelperInv'
  <2>1. helper.app \in {0} \cup Proc /\ helper.host \in {0} \cup Proc /\ procs[host.id] = "host"
    BY <1>1 DEF TypeOK, HelperRecord, InstanceInv, OwnerInv
  <2> QED
    BY <1>1, <1>2, <2>1 DEF Gone, InstanceInv, HelperInv
<1> QED
  BY <1>3, <1>4, <1>5 DEF InstanceInv

LEMMA InstanceInvariant == Spec => []InstanceInv
<1>1. Init => InstanceInv
  BY HandoffConstants
  DEF Init, InstanceInv, OwnerInv, CopyInv, HelperInv, NoHost, NoRestart, NoHelper, Proc
<1>2. TypeOK /\ InstanceInv /\ [Next]_vars => InstanceInv'
  <2> SUFFICES ASSUME TypeOK, InstanceInv, [Next]_vars PROVE InstanceInv'
    OBVIOUS
  <2>1. CASE WindowStep
    BY <2>1, WindowStepKeeps, HostOnlyKeeps DEF Kept, InstanceInv, CopyInv
  <2>2. CASE BeginRestart \/ WaitReady \/ Frame
    BY <2>2, RestartSteps, HostOnlyKeeps
  <2>3. CASE UNCHANGED vars
    BY <2>3 DEF vars, InstanceInv, OwnerInv, CopyInv, HelperInv
  <2> QED
    BY <2>1, <2>2, <2>3, ChecksInstance, RestartInstance, StartsInstance, GoneInstance
    DEF Next, User, RestartThread, Worker, WindowStep
<1> QED
  BY TypeCorrect, <1>1, <1>2, PTL DEF Spec

\* Two processes of the app never both run as the host: whatever launches,
\* restart copies and reopened apps meet at the mutex, it is owned by the
\* host while it lives, and only who finds it without an owner becomes one.
THEOREM OneHostRuns == Spec => []OneHost
<1>1. InstanceInv => OneHost
  BY DEF InstanceInv, OwnerInv, OneHost
<1> QED
  BY InstanceInvariant, <1>1, PTL

-----------------------------------------------------------------------------
(* The gate: what it says of the update's phase, the worker and the helper. *)

Installs(queue) == {i \in 1 .. Len(queue) : queue[i].does = "install"}

LEMMA AppendInstalls ==
  ASSUME NEW q \in Seq(Commands), NEW c \in Commands
  PROVE  Installs(Append(q, c)) =
           IF c.does = "install" THEN Installs(q) \cup {Len(q) + 1} ELSE Installs(q)
<1>1. /\ Len(Append(q, c)) = Len(q) + 1 /\ Len(q) \in Nat
      /\ \A i \in 1 .. Len(q) : Append(q, c)[i] = q[i]
      /\ Append(q, c)[Len(q) + 1] = c
  OBVIOUS
<1> QED
  BY <1>1 DEF Installs

LEMMA TailInstalls ==
  ASSUME NEW q \in Seq(Commands), q # << >>
  PROVE  /\ \A i \in Installs(Tail(q)) : i + 1 \in Installs(q) /\ i # 0
         /\ Head(q).does = "install" => 1 \in Installs(q)
<1>1. /\ Len(q) \in Nat /\ Len(q) >= 1 /\ Len(Tail(q)) = Len(q) - 1
      /\ \A i \in 1 .. Len(q) - 1 : Tail(q)[i] = q[i + 1]
      /\ Head(q) = q[1]
  OBVIOUS
<1> QED
  BY <1>1 DEF Installs

\* A helper is at work for the host h.
StandsBy(h) == h.id # 0 /\ helper.host = h.id /\ helper.at \notin {"none", "gone"}

\* One of the two handoffs holds the gate, an install is asked for once, by
\* an update that holds it, and only what that update does goes on until it
\* fails, the helper it leaves behind included.
Sound(h) ==
  /\ (h.gate = "update") <=> (h.phase = "installing")
  /\ (h.gate = "restart") <=> (h.restart.at # "none")
  /\ h.worker = "downloading" => h.phase = "downloading"
  /\ h.worker \in {"installing", "staging", "awaiting", "stopping"} => h.phase = "installing"
  /\ Installs(h.queue) # {} =>
       h.phase = "installing" /\ h.worker \in {"idle", "checking"} /\ ~StandsBy(h)
  /\ \A i, j \in Installs(h.queue) : i = j
  /\ StandsBy(h) =>
       h.phase = "installing" /\ h.worker \in {"awaiting", "stopping", "idle", "checking"}

\* What the next start reports is an update that hands over.
PendingInv == host.id # 0 /\ disk.pending # 0 => host.phase = "installing"

GateInv == Sound(host) /\ PendingInv

\* h and g differ in nothing the gate is about.
SameGate(g, h) ==
  /\ g.id = h.id /\ g.gate = h.gate /\ g.phase = h.phase /\ g.restart.at = h.restart.at
  /\ g.worker = h.worker /\ g.queue = h.queue

LEMMA SameGateSound == ASSUME NEW g, NEW h, SameGate(g, h), Sound(h) PROVE Sound(g)
BY DEF SameGate, Sound, StandsBy

LEMMA PolledSound ==
  ASSUME NEW h \in HostRecord, Sound(h)
  PROVE  Sound(Polled(h)) /\ Polled(h).phase = h.phase /\ Polled(h).id = h.id
<1>1. h.restart \in RestartRecord
  BY DEF HostRecord
<1>2. CASE h.restart.at = "signalled"
  <2>1. /\ Polled(h).restart.at = "done"
        /\ Polled(h).id = h.id /\ Polled(h).gate = h.gate /\ Polled(h).phase = h.phase
        /\ Polled(h).worker = h.worker /\ Polled(h).queue = h.queue
    BY <1>1, <1>2 DEF Polled, HostRecord, RestartRecord
  <2> QED
    BY <1>2, <2>1 DEF Sound, StandsBy
<1>3. CASE h.restart.at = "failed"
  <2> DEFINE g == [h EXCEPT !.restart = NoRestart]
  <2>1. /\ g.restart.at = "none" /\ g.gate = h.gate /\ g \in HostRecord
        /\ g.id = h.id /\ g.phase = h.phase /\ g.worker = h.worker /\ g.queue = h.queue
    BY InitialRecords DEF HostRecord, NoRestart
  <2>2. h.gate = "restart"
    BY <1>3 DEF Sound
  <2>3. Polled(h) = [g EXCEPT !.gate = "none"]
    BY <1>3, <2>1, <2>2 DEF Polled, Released
  <2> HIDE DEF g
  <2>4. /\ Polled(h).gate = "none" /\ Polled(h).restart.at = "none"
        /\ Polled(h).id = h.id /\ Polled(h).phase = h.phase
        /\ Polled(h).worker = h.worker /\ Polled(h).queue = h.queue
    BY <2>1, <2>3 DEF HostRecord
  <2> QED
    BY <2>2, <2>4 DEF Sound, StandsBy
<1>4. CASE h.restart.at \notin {"signalled", "failed"}
  BY <1>4 DEF Polled
<1> QED
  BY <1>2, <1>3, <1>4

LEMMA DownloadOfferedSound ==
  ASSUME TypeOK, NEW h \in HostRecord, Sound(h), h.phase \in {"idle", "failed", "queued"}
  PROVE  Sound(DownloadOffered(h)) /\ DownloadOffered(h).phase # "installing"
<1>1. [does |-> "download", release |-> disk.latest] \in Commands
  BY DEF TypeOK, Commands
<1>2. Installs(h.queue) = {} /\ h.queue \in Seq(Commands) /\ h.worker \in {"idle", "checking"}
  BY DEF Sound, HostRecord
<1>3. CASE Available
  <2>1. Installs(Append(h.queue, [does |-> "download", release |-> disk.latest])) = {}
    BY <1>1, <1>2, AppendInstalls
  <2>2. /\ DownloadOffered(h).id = h.id /\ DownloadOffered(h).gate = h.gate
        /\ DownloadOffered(h).restart = h.restart /\ DownloadOffered(h).worker = h.worker
        /\ DownloadOffered(h).phase = "downloading"
        /\ DownloadOffered(h).queue =
             Append(h.queue, [does |-> "download", release |-> disk.latest])
    BY <1>3 DEF DownloadOffered, Sent, HostRecord
  <2> QED
    BY <1>2, <2>1, <2>2 DEF Sound, StandsBy
<1>4. CASE ~Available
  <2>1. /\ DownloadOffered(h).id = h.id /\ DownloadOffered(h).gate = h.gate
        /\ DownloadOffered(h).restart = h.restart /\ DownloadOffered(h).worker = h.worker
        /\ DownloadOffered(h).phase = "idle" /\ DownloadOffered(h).queue = h.queue
    BY <1>4 DEF DownloadOffered, HostRecord
  <2> QED
    BY <1>2, <2>1 DEF Sound, StandsBy
<1> QED
  BY <1>3, <1>4

\* A phase that no handoff is in may change to another, while no worker
\* depends on it.
LEMMA PhaseSound ==
  ASSUME NEW g, NEW h, Sound(h), h.phase # "installing", g.phase # "installing",
         h.phase # "downloading",
         g.id = h.id, g.gate = h.gate, g.restart.at = h.restart.at, g.worker = h.worker,
         g.queue = h.queue
  PROVE  Sound(g)
BY DEF Sound, StandsBy

LEMMA TickedSound ==
  ASSUME TypeOK, NEW h \in HostRecord, Sound(h), NEW g \in Ticked(h)
  PROVE  Sound(g) /\ (h.phase = "installing" <=> g.phase = "installing")
<1>1. CASE g \in {h, [h EXCEPT !.idle = FALSE], [h EXCEPT !.idle = TRUE]}
  <2>1. SameGate(g, h)
    BY <1>1 DEF SameGate, HostRecord
  <2> QED
    BY <2>1, SameGateSound DEF SameGate
<1>2. CASE h.phase = "queuedFile" /\ g = [h EXCEPT !.phase = "ready"]
  <2>1. /\ g.id = h.id /\ g.gate = h.gate /\ g.restart = h.restart /\ g.worker = h.worker
        /\ g.queue = h.queue /\ g.phase = "ready"
    BY <1>2 DEF HostRecord
  <2> QED
    BY <1>2, <2>1, PhaseSound
<1>3. CASE h.phase = "queued" /\ g = DownloadOffered(h)
  BY <1>3, DownloadOfferedSound
<1> QED
  BY <1>1, <1>2, <1>3 DEF Ticked

\* An update that hands over is one that was ready, and it asks for its
\* install once.
LEMMA TakenReadySound ==
  ASSUME NEW h \in HostRecord, Sound(h)
  PROVE  /\ Sound(TakenReady(h))
         /\ h.phase = "installing" => TakenReady(h).phase = "installing"
         /\ TakenReady(h).phase = "installing" => h.phase \in {"installing", "ready"}
<1>1. CASE TakenReady(h) = h
  BY <1>1
<1>2. CASE h.phase = "ready" /\ TakenReady(h) \in {[h EXCEPT !.phase = "queuedFile", !.idle = FALSE],
                                             [h EXCEPT !.phase = "idle", !.chosen = 0]}
  <2> DEFINE g == TakenReady(h)
  <2>1. /\ g.id = h.id /\ g.gate = h.gate /\ g.restart = h.restart /\ g.worker = h.worker
        /\ g.queue = h.queue /\ g.phase \in {"queuedFile", "idle"}
    BY <1>2 DEF HostRecord
  <2> HIDE DEF g
  <2>2. Sound(g)
    BY <1>2, <2>1, PhaseSound
  <2> QED
    BY <1>2, <2>1, <2>2 DEF g
<1>3. CASE /\ h.phase = "ready" /\ Claimable(h)
           /\ TakenReady(h) = Sent([h EXCEPT !.gate = "update", !.phase = "installing"],
                                   [does |-> "install", release |-> h.chosen])
  <2> DEFINE g == TakenReady(h)
             install == [does |-> "install", release |-> h.chosen]
  <2>1. install \in Commands /\ h.queue \in Seq(Commands) /\ install.does = "install"
    BY DEF HostRecord, Commands
  <2>2. /\ g.id = h.id /\ g.gate = "update" /\ g.restart = h.restart /\ g.worker = h.worker
        /\ g.queue = Append(h.queue, install) /\ g.phase = "installing"
    BY <1>3 DEF Sent, HostRecord
  <2>3. /\ Installs(h.queue) = {} /\ ~StandsBy(h) /\ h.worker \in {"idle", "checking"}
        /\ h.restart.at = "none"
    BY <1>3 DEF Sound, Claimable, HostRecord
  <2>4. Installs(g.queue) = {Len(h.queue) + 1}
    BY <2>1, <2>2, <2>3, AppendInstalls
  <2> HIDE DEF g, install
  <2>5. Sound(g)
    BY <2>2, <2>3, <2>4 DEF Sound, StandsBy
  <2> QED
    BY <1>3, <2>2, <2>5 DEF g
<1> QED
  BY <1>1, <1>2, <1>3 DEF TakenReady

LEMMA FrameGate ==
  ASSUME TypeOK, GateInv, Frame PROVE GateInv'
<1>1. host \in HostRecord /\ Sound(host)
  BY DEF TypeOK, GateInv
<1>2. Polled(host) \in HostRecord /\ Sound(Polled(host)) /\ Polled(host).phase = host.phase
  BY <1>1, PolledType, PolledSound
<1>3. PICK h \in Ticked(Polled(host)) :
        /\ host' = Closed(TakenReady(h))
        /\ disk' = IF TakenReady(h).phase = "installing" /\ h.phase = "ready"
                   THEN [disk EXCEPT !.pending = h.chosen] ELSE disk
  BY DEF Frame
<1>4. h \in HostRecord /\ Sound(h) /\ (host.phase = "installing" => h.phase = "installing")
  BY <1>2, TickedType, TickedSound
<1>5. /\ TakenReady(h) \in HostRecord /\ Sound(TakenReady(h))
      /\ host.phase = "installing" => TakenReady(h).phase = "installing"
  BY <1>4, TakenReadyType, TakenReadySound
<1>6. SameGate(host', TakenReady(h))
  BY <1>3, <1>5 DEF Closed, SameGate, HostRecord
<1>7. Sound(host') /\ (TakenReady(h).phase = "installing" => host'.phase = "installing")
  BY <1>5, <1>6, SameGateSound DEF SameGate
<1>8. helper' = helper /\ host.id # 0
  BY DEF Frame, Window
<1>9. Sound(host)'
  BY <1>7, <1>8 DEF Sound, StandsBy
<1>10. PendingInv'
  BY <1>3, <1>5, <1>7, <1>8 DEF GateInv, PendingInv
<1> QED
  BY <1>9, <1>10 DEF GateInv

\* A helper that only goes on, or goes, changes nothing for the host.
LEMMA GateStep ==
  ASSUME Sound(host'), helper'.host = helper.host,
         helper'.at \notin {"none", "gone"} => helper.at \notin {"none", "gone"},
         host'.id # 0 /\ disk'.pending # 0 => host'.phase = "installing"
  PROVE  GateInv'
BY DEF GateInv, PendingInv, Sound, StandsBy

LEMMA WindowGate ==
  ASSUME TypeOK, GateInv,
         \/ UpdateNow \/ ForceNow \/ Cancel \/ AskCheck \/ Quit \/ SetupCloses
         \/ CheckDue \/ ClientMoves \/ BeginRestart \/ WaitReady
  PROVE  GateInv'
<1> USE DEF Others
<1>1. host \in HostRecord /\ Sound(host) /\ host.restart \in RestartRecord
  BY DEF TypeOK, GateInv, HostRecord
<1>2. UNCHANGED <<helper, disk>>
  BY DEF UpdateNow, ForceNow, Cancel, AskCheck, Quit, SetupCloses, CheckDue, ClientMoves,
         BeginRestart, WaitReady
<1>3. ASSUME Sound(host'), host'.id = host.id,
             host.phase = "installing" => host'.phase = "installing"
      PROVE  GateInv'
  BY <1>2, <1>3, GateStep DEF GateInv, PendingInv
<1>4. CASE UpdateNow
  <2> DEFINE f == [host EXCEPT !.force = FALSE]
             g == [host EXCEPT !.force = FALSE, !.chosen = disk.latest, !.phase = "queued",
                               !.idle = FALSE]
  <2>1. f \in HostRecord /\ SameGate(f, host) /\ f.phase = host.phase
    BY <1>1 DEF HostRecord, SameGate
  <2>2. /\ g.id = host.id /\ g.gate = host.gate /\ g.restart = host.restart
        /\ g.worker = host.worker /\ g.queue = host.queue /\ g.phase = "queued"
    BY <1>1 DEF HostRecord
  <2>3. host' \in {g, DownloadOffered(f)} /\ host.phase \in {"idle", "failed"}
    BY <1>4 DEF UpdateNow
  <2> HIDE DEF f, g
  <2>4. Sound(g)
    BY <1>1, <2>2, <2>3, PhaseSound
  <2>5. Sound(f)
    BY <1>1, <2>1, SameGateSound
  <2>6. Sound(DownloadOffered(f)) /\ Kept(DownloadOffered(f), f)
    BY <2>1, <2>3, <2>5, DownloadOfferedSound, OpsKeep
  <2> QED
    BY <1>3, <2>1, <2>2, <2>3, <2>4, <2>6 DEF Kept, SameGate
<1>5. CASE ForceNow
  <2> DEFINE f == [host EXCEPT !.force = TRUE, !.idle = FALSE]
             g == [f EXCEPT !.phase = "ready"]
  <2>1. f \in HostRecord /\ SameGate(f, host) /\ f.phase = host.phase
    BY <1>1 DEF HostRecord, SameGate
  <2>2. /\ g.id = host.id /\ g.gate = host.gate /\ g.restart = host.restart
        /\ g.worker = host.worker /\ g.queue = host.queue /\ g.phase = "ready"
    BY <1>1 DEF HostRecord
  <2>3. \/ host.phase = "queuedFile" /\ host' = g
        \/ host.phase = "queued" /\ host' = DownloadOffered(f)
    BY <1>5 DEF ForceNow
  <2> HIDE DEF f, g
  <2>4. CASE host.phase = "queuedFile" /\ host' = g
    <3>1. Sound(g)
      BY <1>1, <2>2, <2>4, PhaseSound
    <3> QED
      BY <1>3, <2>2, <2>4, <3>1
  <2>5. CASE host.phase = "queued" /\ host' = DownloadOffered(f)
    <3>1. Sound(f)
      BY <1>1, <2>1, SameGateSound
    <3>2. Sound(DownloadOffered(f)) /\ Kept(DownloadOffered(f), f)
      BY <2>1, <2>5, <3>1, DownloadOfferedSound, OpsKeep
    <3> QED
      BY <1>3, <2>1, <2>5, <3>2 DEF Kept, SameGate
  <2> QED
    BY <2>3, <2>4, <2>5
<1>6. CASE Cancel
  <2>1. /\ host'.id = host.id /\ host'.gate = host.gate /\ host'.restart = host.restart
        /\ host'.worker = host.worker /\ host'.queue = host.queue /\ host'.phase = "idle"
        /\ host.phase \in {"queued", "queuedFile"}
    BY <1>1, <1>6 DEF Cancel, HostRecord
  <2>2. Sound(host')
    BY <1>1, <2>1, PhaseSound
  <2> QED
    BY <1>3, <2>1, <2>2
<1>7. CASE AskCheck
  <2> DEFINE check == [does |-> "check", release |-> 0]
  <2>1. check \in Commands /\ check.does = "check" /\ host.queue \in Seq(Commands)
    BY <1>1, NoneChosen DEF Commands, HostRecord
  <2>2. /\ host'.id = host.id /\ host'.gate = host.gate /\ host'.restart = host.restart
        /\ host'.worker = host.worker /\ host'.queue = Append(host.queue, check)
        /\ host'.phase = host.phase
    BY <1>1, <1>7 DEF AskCheck, Sent, HostRecord
  <2> HIDE DEF check
  <2>3. Installs(host'.queue) = Installs(host.queue)
    BY <2>1, <2>2, AppendInstalls
  <2>4. Sound(host')
    BY <1>1, <2>2, <2>3 DEF Sound, StandsBy
  <2> QED
    BY <1>3, <2>2, <2>4
<1>8. CASE Quit \/ SetupCloses \/ ClientMoves
  <2>1. SameGate(host', host)
    <3>1. [host EXCEPT !.streaming = ~host.streaming] \in HostRecord
      BY <1>1 DEF HostRecord
    <3> QED
      BY <1>1, <1>8, <3>1 DEF Quit, SetupCloses, ClientMoves, SameGate, HostRecord
  <2>2. Sound(host')
    BY <1>1, <2>1, SameGateSound
  <2> QED
    BY <1>3, <2>1, <2>2 DEF SameGate
<1>9. CASE CheckDue
  <2>1. /\ host'.id = host.id /\ host'.gate = host.gate /\ host'.restart = host.restart
        /\ host.worker = "idle" /\ host'.worker = "checking" /\ host'.queue = host.queue
        /\ host'.phase = host.phase
    BY <1>1, <1>9 DEF CheckDue, HostRecord
  <2>2. Sound(host')
    BY <1>1, <2>1 DEF Sound, StandsBy
  <2> QED
    BY <1>3, <2>1, <2>2
<1>10. CASE BeginRestart
  <2>1. /\ host'.id = host.id /\ host'.gate = "restart" /\ host'.restart.at = "starting"
        /\ host'.worker = host.worker /\ host'.queue = host.queue
        /\ host'.phase = host.phase /\ host.gate = "none"
    BY <1>1, <1>10 DEF BeginRestart, Claimable, NoRestart, HostRecord
  <2>2. Sound(host')
    BY <1>1, <2>1 DEF Sound, StandsBy
  <2> QED
    BY <1>3, <2>1, <2>2
<1>11. CASE WaitReady
  <2>1. PICK at \in {"signalled", "failed", "stopping"} :
          host' = [host EXCEPT !.restart = [@ EXCEPT !.at = at]]
    BY <1>11 DEF WaitReady
  <2>2. /\ host'.id = host.id /\ host'.gate = host.gate /\ host'.restart.at = at
        /\ host'.worker = host.worker /\ host'.queue = host.queue /\ host'.phase = host.phase
    BY <1>1, <2>1 DEF HostRecord, RestartRecord
  <2>3. host.restart.at # "none"
    BY <1>11 DEF WaitReady
  <2>4. Sound(host')
    BY <1>1, <2>2, <2>3 DEF Sound, StandsBy
  <2> QED
    BY <1>3, <2>2, <2>4
<1> QED
  BY <1>4, <1>5, <1>6, <1>7, <1>8, <1>9, <1>10, <1>11

\* A failed install lets the gate go, and nothing of it is left to be done.
LEMMA InstallFailedGate ==
  ASSUME NEW h \in HostRecord, Sound(h), h.worker \in {"staging", "stopping"}
  PROVE  /\ InstallFailed(h).gate = "none" /\ InstallFailed(h).restart.at = "none"
         /\ InstallFailed(h).phase = "failed" /\ InstallFailed(h).worker = "idle"
         /\ Installs(InstallFailed(h).queue) = {} /\ InstallFailed(h).id = h.id
         /\ h.worker = "staging" => ~StandsBy(h) /\ Sound(InstallFailed(h))
<1> DEFINE g == [h EXCEPT !.worker = "idle", !.updating = FALSE, !.close = FALSE,
                          !.phase = "failed"]
<1>1. /\ h.gate = "update" /\ h.restart.at = "none" /\ Installs(h.queue) = {}
      /\ h.worker = "staging" => ~StandsBy(h)
  BY DEF Sound
<1>2. /\ g \in HostRecord /\ g.gate = h.gate /\ g.restart = h.restart /\ g.id = h.id
      /\ g.phase = "failed" /\ g.worker = "idle" /\ g.queue = h.queue
  BY DEF HostRecord, Phases
<1>3. InstallFailed(h) = [g EXCEPT !.gate = "none"]
  BY <1>1, <1>2 DEF InstallFailed, Released
<1> HIDE DEF g
<1>4. /\ InstallFailed(h).gate = "none" /\ InstallFailed(h).restart = h.restart
      /\ InstallFailed(h).phase = "failed" /\ InstallFailed(h).worker = "idle"
      /\ InstallFailed(h).queue = h.queue /\ InstallFailed(h).id = h.id
  BY <1>2, <1>3 DEF HostRecord
<1> QED
  BY <1>1, <1>4 DEF Sound, StandsBy

LEMMA WorkerGate ==
  ASSUME TypeOK, GateInv, Worker PROVE GateInv'
<1> USE DEF Others
<1>1. host \in HostRecord /\ Sound(host) /\ host.queue \in Seq(Commands)
  BY DEF TypeOK, GateInv, HostRecord
<1>2. CASE TakeCommand
  <2> DEFINE command == Head(host.queue)
             rest == [host EXCEPT !.queue = Tail(@)]
  <2>1. host.worker = "idle" /\ host.queue # << >> /\ UNCHANGED <<helper, disk>>
    BY <1>2 DEF TakeCommand
  <2>2. /\ rest \in HostRecord /\ rest.queue = Tail(host.queue)
        /\ rest.id = host.id /\ rest.gate = host.gate /\ rest.restart = host.restart
        /\ rest.phase = host.phase /\ rest.worker = host.worker
    <3>1. Tail(host.queue) \in Seq(Commands)
      BY <1>1, <2>1
    <3> QED
      BY <1>1, <3>1 DEF HostRecord
  <2>3. /\ \A i \in Installs(rest.queue) : i + 1 \in Installs(host.queue) /\ i # 0 /\ i \in Nat
        /\ command.does = "install" => 1 \in Installs(host.queue)
    <3>1. \A i \in Installs(Tail(host.queue)) : i \in Nat
      BY DEF Installs
    <3> QED
      BY <1>1, <2>1, <2>2, <3>1, TailInstalls
  <2>4. /\ Installs(rest.queue) # {} => Installs(host.queue) # {}
        /\ \A i, j \in Installs(rest.queue) : i = j
        /\ command.does = "install" => Installs(rest.queue) = {} /\ Installs(host.queue) # {}
    <3>1. \A i, j \in Installs(host.queue) : i = j
      BY <1>1 DEF Sound
    <3>2. ASSUME NEW i \in Installs(rest.queue), NEW j \in Installs(rest.queue) PROVE i = j
      <4>1. i + 1 = j + 1 /\ i \in Nat /\ j \in Nat
        BY <2>3, <3>1
      <4> QED
        BY <4>1
    <3>3. ASSUME command.does = "install", NEW i \in Installs(rest.queue) PROVE FALSE
      <4>1. i + 1 = 1 /\ i \in Nat /\ i # 0
        BY <2>3, <3>1, <3>3
      <4> QED
        BY <4>1
    <3> QED
      BY <2>3, <3>2, <3>3
  <2>5. \/ host' = [rest EXCEPT !.worker = "checking"]
        \/ host' = [rest EXCEPT !.worker = "installing"] /\ command.does = "install"
        \/ host' = rest
        \/ host' = [rest EXCEPT !.worker = "downloading"] /\ host.phase = "downloading"
        \/ host' = [rest EXCEPT !.phase = "idle", !.chosen = 0] /\ host.phase = "downloading"
    BY <1>2 DEF TakeCommand
  <2> HIDE DEF rest, command
  <2>6. /\ host'.id = host.id /\ host'.gate = host.gate /\ host'.restart = host.restart
        /\ host'.queue = rest.queue
        /\ \/ host'.phase = host.phase
           \/ host'.phase = "idle" /\ host.phase = "downloading" /\ host'.worker = "idle"
        /\ \/ host'.worker \in {"checking", "idle"}
           \/ host'.worker = "installing" /\ command.does = "install"
           \/ host'.worker = "downloading" /\ host'.phase = "downloading"
    BY <2>1, <2>2, <2>5 DEF HostRecord
  <2>7. Sound(host')
    BY <1>1, <2>1, <2>4, <2>6 DEF Sound, StandsBy
  <2> QED
    BY <2>1, <2>6, <2>7, GateStep DEF GateInv, PendingInv, Sound
<1>3. CASE CheckAnswers
  <2>1. /\ host'.id = host.id /\ host'.gate = host.gate /\ host'.restart = host.restart
        /\ host.worker = "checking" /\ host'.worker = "idle" /\ host'.queue = host.queue
        /\ host'.phase = host.phase /\ helper' = helper /\ disk'.pending = disk.pending
    BY <1>1, <1>3 DEF CheckAnswers, HostRecord, TypeOK
  <2>2. Sound(host')
    BY <1>1, <2>1 DEF Sound, StandsBy
  <2> QED
    BY <2>1, <2>2, GateStep DEF GateInv, PendingInv
<1>4. CASE DownloadEnds
  <2>1. /\ host'.id = host.id /\ host'.gate = host.gate /\ host'.restart = host.restart
        /\ host.worker = "downloading" /\ host'.worker = "idle" /\ host'.queue = host.queue
        /\ host'.phase \in {"ready", "failed"} /\ UNCHANGED <<helper, disk>>
    BY <1>1, <1>4 DEF DownloadEnds, HostRecord
  <2>2. Sound(host') /\ host.phase = "downloading"
    BY <1>1, <2>1 DEF Sound, StandsBy
  <2> QED
    BY <2>1, <2>2, GateStep DEF GateInv, PendingInv
<1>5. CASE BeginUpdate /\ host.streaming /\ ~host.force
  <2> DEFINE g == [host EXCEPT !.worker = "idle", !.phase = "queuedFile", !.idle = FALSE]
  <2>1. /\ g \in HostRecord /\ g.id = host.id /\ g.gate = host.gate
        /\ g.restart = host.restart /\ g.queue = host.queue /\ g.worker = "idle"
        /\ g.phase = "queuedFile"
    BY <1>1 DEF HostRecord, Phases
  <2>2. /\ host.gate = "update" /\ host.restart.at = "none" /\ Installs(host.queue) = {}
        /\ ~StandsBy(host)
    BY <1>1, <1>5 DEF BeginUpdate, Sound
  <2>3. host' = [g EXCEPT !.gate = "none"] /\ helper' = helper /\ disk'.pending = 0
    BY <1>5, <2>1, <2>2 DEF BeginUpdate, Released, TypeOK
  <2> HIDE DEF g
  <2>4. /\ host'.id = host.id /\ host'.gate = "none" /\ host'.restart = host.restart
        /\ host'.queue = host.queue /\ host'.worker = "idle" /\ host'.phase = "queuedFile"
    BY <2>1, <2>3 DEF HostRecord
  <2>5. Sound(host')
    BY <2>2, <2>4 DEF Sound, StandsBy
  <2> QED
    BY <2>3, <2>5, GateStep
<1>6. CASE BeginUpdate /\ ~(host.streaming /\ ~host.force)
  <2>1. /\ host'.id = host.id /\ host'.gate = host.gate /\ host'.restart = host.restart
        /\ host.worker = "installing" /\ host'.worker = "staging" /\ host'.queue = host.queue
        /\ host'.phase = host.phase /\ UNCHANGED <<helper, disk>>
    BY <1>1, <1>6 DEF BeginUpdate, HostRecord
  <2>2. Sound(host')
    BY <1>1, <2>1 DEF Sound, StandsBy
  <2> QED
    BY <2>1, <2>2, GateStep DEF GateInv, PendingInv
<1>7. CASE StartHelper
  <2>1. CASE host' = InstallFailed(host) /\ disk' = [disk EXCEPT !.pending = 0]
             /\ UNCHANGED helper
    <3>1. disk'.pending = 0 /\ host.worker = "staging"
      BY <1>7, <2>1 DEF StartHelper, TypeOK
    <3>2. Sound(host')
      BY <1>1, <2>1, <3>1, InstallFailedGate
    <3> QED
      BY <2>1, <3>1, <3>2, GateStep
  <2>2. CASE host' = [host EXCEPT !.worker = "awaiting"] /\ UNCHANGED disk
    <3>1. /\ host'.id = host.id /\ host'.gate = host.gate /\ host'.restart = host.restart
          /\ host'.worker = "awaiting" /\ host'.queue = host.queue /\ host'.phase = host.phase
      BY <1>1, <2>2 DEF HostRecord
    <3>2. host.phase = "installing" /\ Installs(host.queue) = {}
      BY <1>1, <1>7 DEF StartHelper, Sound
    <3>3. Sound(host)'
      BY <1>1, <3>1, <3>2 DEF Sound, StandsBy
    <3> QED
      BY <3>1, <3>2, <3>3 DEF GateInv, PendingInv
  <2> QED
    BY <1>7, <2>1, <2>2 DEF StartHelper
<1>8. CASE AwaitReady
  <2>1. /\ host'.id = host.id /\ host'.gate = host.gate /\ host'.restart = host.restart
        /\ host.worker = "awaiting" /\ host'.worker \in {"idle", "stopping"}
        /\ host'.queue = host.queue /\ host'.phase = host.phase
        /\ UNCHANGED <<helper, disk>>
    <3>1. host' \in {[host EXCEPT !.worker = "idle", !.close = (host.phase = "installing")],
                     [host EXCEPT !.worker = "stopping"]}
      BY <1>8 DEF AwaitReady
    <3> QED
      BY <1>1, <1>8, <3>1 DEF AwaitReady, HostRecord
  <2>2. Sound(host')
    BY <1>1, <2>1 DEF Sound, StandsBy
  <2> QED
    BY <2>1, <2>2, GateStep DEF GateInv, PendingInv
<1>9. CASE StopHelper
  <2>1. helper'.at = "gone" /\ disk'.pending = 0 /\ host' = InstallFailed(host)
        /\ host.worker = "stopping"
    BY <1>9 DEF StopHelper, TypeOK, HelperRecord
  <2>2. /\ host'.gate = "none" /\ host'.restart.at = "none" /\ host'.phase = "failed"
        /\ host'.worker = "idle" /\ Installs(host'.queue) = {}
    BY <1>1, <2>1, InstallFailedGate
  <2> QED
    BY <2>1, <2>2 DEF GateInv, PendingInv, Sound, StandsBy
<1> QED
  BY <1>2, <1>3, <1>4, <1>5, <1>6, <1>7, <1>8, <1>9 DEF Worker

\* A host begins without a handoff, and no helper stands by it.
LEMMA OwnsGate ==
  ASSUME TypeOK, InstanceInv, NEW p \in Proc, Owns(p), helper' = helper,
         procs[p] \in {"started", "signalled", "waits"}
  PROVE  GateInv'
<1>1. disk'.pending = 0
  BY DEF Owns, HostBegins, TypeOK
<1>2. /\ host'.id = p /\ host'.gate = "none" /\ host'.restart.at = "none"
      /\ host'.worker = "idle" /\ host'.queue = << >> /\ host'.phase \in {"idle", "failed"}
  BY DEF Owns, HostBegins, NoHost, NoRestart
<1>3. p # 0 /\ helper.host # p
  BY HandoffConstants DEF InstanceInv, HelperInv, Proc
<1>4. Installs(<< >>) = {}
  BY DEF Installs
<1> QED
  BY <1>1, <1>2, <1>3, <1>4 DEF GateInv, PendingInv, Sound, StandsBy

LEMMA ChecksGate ==
  ASSUME TypeOK, InstanceInv, GateInv, NEW p \in Proc,
         Checks(p) \/ CopyGivesUp(p) \/ CopyLeaves(p)
  PROVE  GateInv'
<1>1. host \in HostRecord /\ Sound(host)
  BY DEF TypeOK, GateInv
<1>2. ASSUME UNCHANGED <<host, helper, disk>> PROVE GateInv'
  BY <1>2 DEF GateInv, PendingInv, Sound, StandsBy
<1>3. CASE Create(p)
  BY <1>2, <1>3, OwnsGate DEF Create
<1>4. CASE Signal(p)
  <2>1. SameGate(host', host) /\ UNCHANGED <<helper, disk>>
    BY <1>1, <1>4 DEF Signal, SameGate, HostRecord, RestartRecord
  <2>2. Sound(host')
    BY <1>1, <2>1, SameGateSound
  <2> QED
    BY <2>1, <2>2, GateStep DEF GateInv, PendingInv, SameGate
<1>5. CASE CopyCreates(p)
  BY <1>2, <1>5, OwnsGate DEF CopyCreates
<1>6. CASE CopyOwns(p)
  BY <1>6, OwnsGate DEF CopyOwns
<1>7. CASE GivesWay(p) \/ CopyGivesUp(p) \/ CopyLeaves(p)
  BY <1>2, <1>7 DEF GivesWay, CopyGivesUp, CopyLeaves
<1> QED
  BY <1>3, <1>4, <1>5, <1>6, <1>7 DEF Checks

LEMMA ThreadsGate ==
  ASSUME TypeOK, InstanceInv, GateInv, StartCopy \/ StopCopy \/ Helper \/ Exit \/ Crash
  PROVE  GateInv'
<1> USE DEF Apart, HelperGoes
<1>1. host \in HostRecord /\ Sound(host) /\ host.restart \in RestartRecord
  BY DEF TypeOK, GateInv, HostRecord
<1>2. CASE StartCopy \/ StopCopy
  <2>1. /\ host'.id = host.id /\ host'.gate = host.gate /\ host.restart.at # "none"
        /\ host'.restart.at # "none" /\ host'.worker = host.worker
        /\ host'.queue = host.queue /\ host'.phase = host.phase
    <3>1. host' \in {[host EXCEPT !.restart = [at |-> "waiting", copy |-> NextFree,
                                               signal |-> FALSE]],
                     [host EXCEPT !.restart.at = "failed"]}
      BY <1>2 DEF StartCopy, StopCopy
    <3> QED
      BY <1>1, <1>2, <3>1 DEF StartCopy, StopCopy, HostRecord, RestartRecord
  <2>2. UNCHANGED <<helper, disk>>
    BY <1>2 DEF StartCopy, StopCopy
  <2>3. Sound(host')
    BY <1>1, <2>1 DEF Sound, StandsBy
  <2> QED
    BY <2>1, <2>2, <2>3, GateStep DEF GateInv, PendingInv
<1>3. CASE Helper
  <2>1. /\ helper'.host = helper.host /\ host' = host /\ disk'.pending = disk.pending
        /\ helper.at \notin {"none", "gone"}
    BY <1>3 DEF Helper, Prepare, WaitHost, ListOthers, WaitOthers, SetupEnds, Reopen, TypeOK,
                HelperRecord
  <2> QED
    BY <1>1, <2>1, GateStep DEF GateInv, PendingInv
<1>4. CASE Exit \/ Crash
  <2>1. host' = NoHost
    BY <1>4 DEF Exit, Crash, Gone
  <2>2. Installs(<< >>) = {}
    BY DEF Installs
  <2> QED
    BY <2>1, <2>2 DEF GateInv, PendingInv, Sound, StandsBy, NoHost, NoRestart
<1> QED
  BY <1>2, <1>3, <1>4

LEMMA GateInvariant == Spec => []GateInv
<1>1. Init => GateInv
  <2>1. Installs(<< >>) = {}
    BY DEF Installs
  <2> QED
    BY <2>1 DEF Init, GateInv, PendingInv, Sound, StandsBy, NoHost, NoRestart, NoHelper
<1>2. TypeOK /\ InstanceInv /\ GateInv /\ [Next]_vars => GateInv'
  <2> SUFFICES ASSUME TypeOK, InstanceInv, GateInv, [Next]_vars PROVE GateInv'
    OBVIOUS
  <2>1. CASE Launch \/ UNCHANGED vars
    BY <2>1 DEF Launch, vars, GateInv, PendingInv, Sound, StandsBy
  <2> QED
    BY <2>1, ChecksGate, WindowGate, FrameGate, ThreadsGate, WorkerGate
    DEF Next, User, RestartThread
<1> QED
  BY TypeCorrect, InstanceInvariant, <1>1, <1>2, PTL DEF Spec

\* The two handoffs never cross: while a helper waits for its host, that host
\* has no restart copy that could take over; the gate is held by what hands
\* over, and only an update that hands over is one the next start reports.
THEOREM GateKept == Spec => []GateKeeps
<1>1. InstanceInv /\ GateInv => HandoffsApart
  <2> SUFFICES ASSUME InstanceInv, GateInv, helper.at = "waitHost", host.id = helper.host
               PROVE  host.restart.copy = 0
    BY DEF HandoffsApart
  <2>1. CASE host.id = 0
    BY <2>1 DEF InstanceInv, OwnerInv, NoHost, NoRestart
  <2>2. CASE host.id # 0
    <3>1. host.restart.at = "none"
      BY <2>2 DEF GateInv, Sound, StandsBy
    <3> QED
      BY <3>1 DEF InstanceInv, CopyInv
  <2> QED
    BY <2>1, <2>2
<1>2. GateInv => HandoffAccounted
  BY DEF GateInv, PendingInv, Sound, HandoffAccounted
<1> QED
  BY InstanceInvariant, GateInvariant, <1>1, <1>2, PTL DEF GateKeeps
=============================================================================
