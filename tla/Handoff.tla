------------------------------ MODULE Handoff ------------------------------
(***************************************************************************)
(* The processes of one installation. One host runs; a restart starts a    *)
(* copy of it, an update leaves a helper that runs Setup and opens the app *)
(* again, and the user may start the app at any moment. Between them stand *)
(* a named mutex, which tells a launch that a host runs, and in the host a *)
(* gate that one of the two handoffs holds (src/host/src/handoff.rs,       *)
(* relaunch.rs, single_instance.rs, updates.rs, src/updater/src/lib.rs).   *)
(*                                                                         *)
(* A process p of 1..MaxProcs is "free" (no such process yet), "reserved"  *)
(* (the start a helper will make), and then                                *)
(*   an ordinary launch: "started", "opened" (it found the mutex), "host"  *)
(*     or "gone";                                                          *)
(*   a restart copy: "copy", "signalled", "waits", "telling", "host" or    *)
(*     "gone".                                                             *)
(* The record host holds what lives and dies with the host's process:      *)
(*   gate, restart  the handoff under way and the restart's own thread;    *)
(*   phase .. close the update's State;  queue, worker  its worker;        *)
(*   streaming, updating  the session's client, and begin_update's refusal *)
(*     of further ones.                                                    *)
(* Releases are numbers that grow; disk holds the version installed, the   *)
(* latest release a check brought, and the version that a handed-over      *)
(* update was to bring.                                                    *)
(*                                                                         *)
(* Bounds: MaxProcs processes are ever started, one helper works at a time *)
(* and one check waits in the worker's queue.  Left out: the banner's      *)
(* Later, notices and rollouts; the launch check of a saved release; a     *)
(* mutex check that fails or is denied; a copy or helper killed from       *)
(* outside; a last start that fails; the helper's result file, which only  *)
(* words the banner.  Timeouts (15 s, 30 s, 60 s, 120 s, the idle 3 s)     *)
(* may pass at any moment at which the awaited thing has not happened.     *)
(***************************************************************************)
EXTENDS Naturals, Sequences, FiniteSets

CONSTANTS
  MaxProcs,     \* Processes of the app that are ever started.
  MaxRelease    \* Releases 1..MaxRelease; release 0 is installed at first.

ASSUME HandoffConstants == MaxProcs \in Nat \ {0} /\ MaxRelease \in Nat

VARIABLES
  procs,     \* Where each process is.
  mutex,     \* The single-instance mutex: its owner, and who has it open.
  host,      \* The running host's own state.
  helper,    \* The update helper: where it is, its host, the app it opens.
  disk,      \* What survives every process.
  said,      \* History: copies whose failure a message explained.
  left,      \* History: the user or Setup closed a host, or a host crashed.
  lost       \* History: a launch gave way to a host that had already gone.

vars == <<procs, mutex, host, helper, disk, said, left, lost>>

Proc == 1 .. MaxProcs
Alive == {p \in Proc : procs[p] \notin {"free", "reserved", "gone"}}
Free == {p \in Proc : procs[p] = "free"}
NextFree == CHOOSE p \in Free : \A q \in Free : p <= q

NoRestart == [at |-> "none", copy |-> 0, signal |-> FALSE]
NoHost ==
  [id |-> 0, open |-> FALSE, gate |-> "none", restart |-> NoRestart,
   phase |-> "idle", chosen |-> 0, force |-> FALSE, idle |-> FALSE, close |-> FALSE,
   queue |-> << >>, worker |-> "idle", streaming |-> FALSE, updating |-> FALSE]
NoHelper == [at |-> "none", host |-> 0, app |-> 0, release |-> 0, others |-> {}]

\* A host begins: it takes the update a previous run handed over, and the
\* banner says "failed" when the version that update was to bring is not here.
HostBegins(p) ==
  /\ host' = [NoHost EXCEPT !.id = p, !.open = TRUE,
                !.phase = IF disk.pending > disk.version THEN "failed" ELSE "idle"]
  /\ disk' = [disk EXCEPT !.pending = 0]

Init ==
  /\ procs = [p \in Proc |-> IF p = 1 THEN "host" ELSE "free"]
  /\ mutex = [owner |-> 1, open |-> {1}]
  /\ host = [NoHost EXCEPT !.id = 1, !.open = TRUE]
  /\ helper = NoHelper
  /\ disk \in [version : {0}, latest : 0 .. MaxRelease, pending : {0}]
  /\ said = {} /\ left = FALSE /\ lost = FALSE

-----------------------------------------------------------------------------
(* The mutex, and the launches and copies that check it. *)

\* The process p ends: Windows closes its handles and abandons what it owns.
MutexWithout(p) ==
  [owner |-> IF mutex.owner = p THEN 0 ELSE mutex.owner, open |-> mutex.open \ {p}]

\* p creates the mutex and is the host.
Owns(p) ==
  /\ mutex' = [owner |-> p, open |-> mutex.open \cup {p}]
  /\ procs' = [procs EXCEPT ![p] = "host"]
  /\ HostBegins(p)

\* An ordinary launch creates the mutex, or finds that it exists: a name
\* that is still open counts, whoever has it open.
Create(p) ==
  /\ procs[p] = "started"
  /\ \/ mutex.open = {} /\ Owns(p) /\ UNCHANGED lost
     \/ /\ mutex.open # {}
        /\ mutex' = [mutex EXCEPT !.open = @ \cup {p}]
        /\ procs' = [procs EXCEPT ![p] = "opened"]
        /\ lost' = (lost \/ (mutex.owner = 0 /\ \A q \in mutex.open : procs[q] = "opened"))
        /\ UNCHANGED <<host, disk>>
  /\ UNCHANGED <<helper, said, left>>

\* It closes its handle, shows the running window, if any, and exits.
GivesWay(p) ==
  /\ procs[p] = "opened"
  /\ mutex' = MutexWithout(p)
  /\ procs' = [procs EXCEPT ![p] = "gone"]
  /\ UNCHANGED <<host, helper, disk, said, left, lost>>

\* A restart copy signals the old window before anything else, or exits when
\* it cannot.
Signal(p) ==
  /\ procs[p] = "copy"
  /\ \/ /\ procs' = [procs EXCEPT ![p] = "signalled"]
        /\ host' = IF host.restart.copy = p THEN [host EXCEPT !.restart.signal = TRUE] ELSE host
     \/ procs' = [procs EXCEPT ![p] = "gone"] /\ UNCHANGED host
  /\ UNCHANGED <<mutex, helper, disk, said, left, lost>>

\* Then it creates the mutex, or opens it and waits for its owner to go.
CopyCreates(p) ==
  /\ procs[p] = "signalled"
  /\ \/ mutex.open = {} /\ Owns(p)
     \/ /\ mutex.open # {}
        /\ mutex' = [mutex EXCEPT !.open = @ \cup {p}]
        /\ procs' = [procs EXCEPT ![p] = "waits"]
        /\ UNCHANGED <<host, disk>>
  /\ UNCHANGED <<helper, said, left, lost>>

\* Mutant: the copy goes on at its deadline, whoever still owns the mutex.
CopyOwnsAtDeadline(p) ==
  /\ procs[p] = "waits"
  /\ Owns(p)
  /\ UNCHANGED <<helper, said, left, lost>>

CopyOwns(p) ==
  /\ procs[p] = "waits" /\ mutex.owner = 0
  /\ Owns(p)
  /\ UNCHANGED <<helper, said, left, lost>>

\* Mutant: it leaves without a word.
CopyGivesUpSilently(p) ==
  /\ procs[p] = "waits" /\ mutex.owner # 0
  /\ mutex' = MutexWithout(p)
  /\ procs' = [procs EXCEPT ![p] = "gone"]
  /\ UNCHANGED <<host, helper, disk, said, left, lost>>

\* LOCK_TIMEOUT passed with the owner still there: the copy says so.
CopyGivesUp(p) ==
  /\ procs[p] = "waits" /\ mutex.owner # 0
  /\ mutex' = MutexWithout(p)
  /\ procs' = [procs EXCEPT ![p] = "telling"]
  /\ said' = said \cup {p}
  /\ UNCHANGED <<host, helper, disk, left, lost>>

\* The user clicks OK.
CopyLeaves(p) ==
  /\ procs[p] = "telling"
  /\ procs' = [procs EXCEPT ![p] = "gone"]
  /\ UNCHANGED <<mutex, host, helper, disk, said, left, lost>>

\* The user opens the app.
Launch ==
  /\ Free # {}
  /\ procs' = [procs EXCEPT ![NextFree] = "started"]
  /\ UNCHANGED <<mutex, host, helper, disk, said, left, lost>>

-----------------------------------------------------------------------------
(* The gate and the restart. *)

Window == host.id # 0 /\ host.open
Others == <<procs, mutex, helper, disk, said, left, lost>>

\* Mutant: the two handoffs don't look at each other.
ClaimableAlways(h) == TRUE
Claimable(h) == h.gate = "none"
Released(h, handoff) == IF h.gate = handoff THEN [h EXCEPT !.gate = "none"] ELSE h

\* A restart button.
BeginRestart ==
  /\ Window /\ host.restart.at = "none" /\ Claimable(host)
  /\ host' = [host EXCEPT !.gate = "restart", !.restart = [NoRestart EXCEPT !.at = "starting"]]
  /\ UNCHANGED Others

\* The restart's thread starts the copy, or cannot.
StartCopy ==
  /\ host.restart.at = "starting"
  /\ \/ /\ Free # {}
        /\ procs' = [procs EXCEPT ![NextFree] = "copy"]
        /\ host' = [host EXCEPT !.restart = [at |-> "waiting", copy |-> NextFree, signal |-> FALSE]]
     \/ /\ host' = [host EXCEPT !.restart.at = "failed"]
        /\ UNCHANGED procs
  /\ UNCHANGED <<mutex, helper, disk, said, left, lost>>

\* The wait for the copy: its signal counts first, then its end; after
\* READY_TIMEOUT the thread goes on to end the copy.
WaitReady ==
  /\ host.restart.at = "waiting"
  /\ \E at \in IF host.restart.signal THEN {"signalled"}
               ELSE IF procs[host.restart.copy] = "gone" THEN {"failed"} ELSE {"stopping"} :
       host' = [host EXCEPT !.restart.at = at]
  /\ UNCHANGED Others

StopCopy ==
  /\ host.restart.at = "stopping"
  /\ procs' = [procs EXCEPT ![host.restart.copy] = "gone"]
  /\ mutex' = MutexWithout(host.restart.copy)
  /\ host' = [host EXCEPT !.restart.at = "failed"]
  /\ UNCHANGED <<helper, disk, said, left, lost>>

\* Mutant: a failed restart keeps the gate.
PolledKeepsGate(h) ==
  CASE h.restart.at = "signalled" -> [h EXCEPT !.restart.at = "done", !.open = FALSE]
    [] h.restart.at = "failed" -> [h EXCEPT !.restart = NoRestart]
    [] OTHER -> h

\* Restart::poll: the window leaves for a copy that runs, and the gate stays
\* held; or it stays, says that the restart failed, and lets the gate go.
Polled(h) ==
  CASE h.restart.at = "signalled" -> [h EXCEPT !.restart.at = "done", !.open = FALSE]
    [] h.restart.at = "failed" -> Released([h EXCEPT !.restart = NoRestart], "restart")
    [] OTHER -> h

-----------------------------------------------------------------------------
(* The update's State and its worker. *)

Available == disk.latest > disk.version
StillOffered(release) == Available /\ release = disk.latest
Sent(h, command) == [h EXCEPT !.queue = Append(@, command)]

DownloadOffered(h) ==
  IF Available
  THEN Sent([h EXCEPT !.chosen = disk.latest, !.phase = "downloading"],
            [does |-> "download", release |-> disk.latest])
  ELSE [h EXCEPT !.chosen = 0, !.phase = "idle"]

\* Update now, or Try again.  The window goes by the stream its last frame
\* saw, which may have begun or ended since.
UpdateNow ==
  /\ Window /\ host.gate # "restart"
  /\ host.phase \in {"idle", "failed"} /\ Available
  /\ \E streaming \in BOOLEAN :
       host' = IF streaming
               THEN [host EXCEPT !.force = FALSE, !.chosen = disk.latest,
                                 !.phase = "queued", !.idle = FALSE]
               ELSE DownloadOffered([host EXCEPT !.force = FALSE])
  /\ UNCHANGED Others

\* Stop and update.
ForceNow ==
  /\ Window /\ host.gate # "restart"
  /\ LET forced == [host EXCEPT !.force = TRUE, !.idle = FALSE] IN
       \/ host.phase = "queuedFile" /\ host' = [forced EXCEPT !.phase = "ready"]
       \/ host.phase = "queued" /\ host' = DownloadOffered(forced)
  /\ UNCHANGED Others

Cancel ==
  /\ Window /\ host.phase \in {"queued", "queuedFile"}
  /\ host' = [host EXCEPT !.phase = "idle"]
  /\ UNCHANGED Others

\* State::tick: a queued update goes on once the stream stayed off.
Ticked(h) ==
  IF h.phase \notin {"queued", "queuedFile"} THEN {h}
  ELSE IF h.streaming THEN {[h EXCEPT !.idle = FALSE]}
  ELSE {[h EXCEPT !.idle = TRUE]} \cup
       (IF ~h.idle THEN {}
        ELSE IF h.phase = "queuedFile" THEN {[h EXCEPT !.phase = "ready"]}
        ELSE {DownloadOffered(h)})

\* State::take_ready, under the gate.
TakenReady(h) ==
  IF h.phase # "ready" THEN h
  ELSE IF h.streaming /\ ~h.force THEN [h EXCEPT !.phase = "queuedFile", !.idle = FALSE]
  ELSE IF ~StillOffered(h.chosen) THEN [h EXCEPT !.phase = "idle", !.chosen = 0]
  ELSE IF ~Claimable(h) THEN h
  ELSE Sent([h EXCEPT !.gate = "update", !.phase = "installing"],
            [does |-> "install", release |-> h.chosen])

\* The helper has taken over: the window closes.
Closed(h) == IF h.close THEN [h EXCEPT !.close = FALSE, !.open = FALSE] ELSE h

\* One frame of the window: the restart's poll, then the banner's tick.
Frame ==
  /\ Window
  /\ \E h \in Ticked(Polled(host)) :
       LET ready == TakenReady(h) IN
       /\ host' = Closed(ready)
       /\ disk' = IF ready.phase = "installing" /\ h.phase = "ready"
                  THEN [disk EXCEPT !.pending = h.chosen] ELSE disk
  /\ said' = IF host.restart.at = "failed" THEN said \cup ({host.restart.copy} \ {0}) ELSE said
  /\ UNCHANGED <<procs, mutex, helper, left, lost>>

\* Automatic checks are switched on again when a check is due.
AskCheck ==
  /\ Window /\ host.worker # "checking" /\ \A i \in DOMAIN host.queue : host.queue[i].does # "check"
  /\ host' = Sent(host, [does |-> "check", release |-> 0])
  /\ UNCHANGED Others

\* The worker is idle for so long that a check is due: half an hour, which
\* passes only in the phases that wait for the user or for the stream.
CheckDue ==
  /\ host.id # 0 /\ host.worker = "idle" /\ host.queue = << >>
  /\ host.phase \in {"idle", "failed", "queued", "queuedFile"}
  /\ host' = [host EXCEPT !.worker = "checking"]
  /\ UNCHANGED Others

\* The worker takes its next command; a download stops at once when the
\* release is no longer the one offered.
TakeCommand ==
  /\ host.worker = "idle" /\ host.queue # << >>
  /\ LET command == Head(host.queue)
         rest == [host EXCEPT !.queue = Tail(@)] IN
     \/ command.does = "check" /\ host' = [rest EXCEPT !.worker = "checking"]
     \/ command.does = "install" /\ host' = [rest EXCEPT !.worker = "installing"]
     \/ /\ command.does = "download"
        /\ host' = IF host.phase # "downloading" THEN rest
                   ELSE IF StillOffered(command.release) THEN [rest EXCEPT !.worker = "downloading"]
                   ELSE [rest EXCEPT !.phase = "idle", !.chosen = 0]
  /\ UNCHANGED Others

\* The check answers with a release or with nothing.  A release may also be
\* taken back.
CheckAnswers ==
  /\ host.worker = "checking"
  /\ \E latest \in 0 .. MaxRelease : disk' = [disk EXCEPT !.latest = latest]
  /\ host' = [host EXCEPT !.worker = "idle"]
  /\ UNCHANGED <<procs, mutex, helper, said, left, lost>>

DownloadEnds ==
  /\ host.worker = "downloading"
  /\ \E phase \in {"ready", "failed"} : host' = [host EXCEPT !.worker = "idle", !.phase = phase]
  /\ UNCHANGED Others

\* Session::begin_update, under the session's lock: a client that got in
\* first sends the update back to waiting, unless the user chose to stop it.
BeginUpdate ==
  /\ host.worker = "installing"
  /\ IF host.streaming /\ ~host.force
     THEN /\ host' = Released([host EXCEPT !.worker = "idle", !.phase = "queuedFile",
                                           !.idle = FALSE], "update")
          /\ disk' = [disk EXCEPT !.pending = 0]
     ELSE /\ host' = [host EXCEPT !.worker = "staging", !.streaming = FALSE, !.updating = TRUE]
          /\ UNCHANGED disk
  /\ UNCHANGED <<procs, mutex, helper, said, left, lost>>

\* Mutant: a failed install keeps the gate.
InstallFailedKeepsGate(h) ==
  [h EXCEPT !.worker = "idle", !.updating = FALSE, !.close = FALSE, !.phase = "failed"]

\* State::install_failed, after the session lets clients in again.
InstallFailed(h) ==
  Released([h EXCEPT !.worker = "idle", !.updating = FALSE, !.close = FALSE,
                     !.phase = "failed"], "update")

\* The worker stages and starts the helper, or cannot.
StartHelper ==
  /\ host.worker = "staging"
  /\ \/ /\ Free # {} /\ helper.at \in {"none", "gone"}
        /\ procs' = [procs EXCEPT ![NextFree] = "reserved"]
        /\ helper' = [at |-> "preparing", host |-> host.id, app |-> NextFree,
                      release |-> host.chosen, others |-> {}]
        /\ host' = [host EXCEPT !.worker = "awaiting"]
        /\ UNCHANGED disk
     \/ /\ host' = InstallFailed(host)
        /\ disk' = [disk EXCEPT !.pending = 0]
        /\ UNCHANGED <<procs, helper>>
  /\ UNCHANGED <<mutex, said, left, lost>>

\* await_ready: the helper's "ready"; otherwise, or after HELPER_READY, the
\* worker goes on to end the helper.
AwaitReady ==
  /\ host.worker = "awaiting"
  /\ host' = IF helper.at \notin {"preparing", "gone"}
             THEN [host EXCEPT !.worker = "idle", !.close = (host.phase = "installing")]
             ELSE [host EXCEPT !.worker = "stopping"]
  /\ UNCHANGED Others

StopHelper ==
  /\ host.worker = "stopping"
  /\ helper' = [helper EXCEPT !.at = "gone"]
  /\ host' = InstallFailed(host)
  /\ disk' = [disk EXCEPT !.pending = 0]
  /\ UNCHANGED <<procs, mutex, said, left, lost>>

\* A client connects, unless an update refuses it, or leaves.
ClientMoves ==
  /\ host.id # 0 /\ (host.streaming \/ ~host.updating)
  /\ host' = [host EXCEPT !.streaming = ~@]
  /\ UNCHANGED Others

-----------------------------------------------------------------------------
(* The host's end, the helper and Setup. *)

\* The user closes the window.
Quit ==
  /\ Window
  /\ host' = [host EXCEPT !.open = FALSE]
  /\ left' = TRUE
  /\ UNCHANGED <<procs, mutex, helper, disk, said, lost>>

\* The process ends, its threads with it: after its window, or by a crash.
Gone ==
  /\ procs' = [procs EXCEPT ![host.id] = "gone"]
  /\ mutex' = MutexWithout(host.id)
  /\ host' = NoHost
  /\ UNCHANGED <<helper, disk, said, lost>>

Exit == host.id # 0 /\ ~host.open /\ Gone /\ UNCHANGED left
Crash == host.id # 0 /\ Gone /\ left' = TRUE

HostGone == procs[helper.host] = "gone"
HelperGoes(at) == helper' = [helper EXCEPT !.at = at]
Apart == <<mutex, host, said, left, lost>>
\* The helper checks the installer and says "ready": it may refuse, or find
\* its pipe closed because the host is gone.
Prepare ==
  /\ helper.at = "preparing"
  /\ \/ ~HostGone /\ HelperGoes("waitHost")
     \/ HelperGoes("gone")
  /\ UNCHANGED <<procs, disk>> /\ UNCHANGED Apart

\* It waits for the host, for HOST_EXIT_WAIT at most.
WaitHost ==
  /\ helper.at = "waitHost"
  /\ HelperGoes(IF HostGone THEN "listing" ELSE "closing")
  /\ UNCHANGED <<procs, disk>> /\ UNCHANGED Apart

\* It lists the other processes of the app; if it cannot, it goes on.
ListOthers ==
  /\ helper.at = "listing"
  /\ \E others \in {Alive, {}} : helper' = [helper EXCEPT !.at = "waitOthers", !.others = others]
  /\ UNCHANGED <<procs, disk>> /\ UNCHANGED Apart

\* Mutant: with another process still there, the helper just ends.
WaitOthersEnds ==
  /\ helper.at = "waitOthers"
  /\ helper' = [helper EXCEPT !.others = {},
                  !.at = IF helper.others \cap Alive = {} THEN "setup" ELSE "gone"]
  /\ UNCHANGED <<procs, disk>> /\ UNCHANGED Apart

WaitOthers ==
  /\ helper.at = "waitOthers"
  /\ helper' = [helper EXCEPT !.others = {},
                  !.at = IF helper.others \cap Alive = {} THEN "setup" ELSE "closing"]
  /\ UNCHANGED <<procs, disk>> /\ UNCHANGED Apart

\* Setup asks a host that started meanwhile to close.
SetupCloses ==
  /\ helper.at = "setup" /\ Window
  /\ host' = [host EXCEPT !.open = FALSE]
  /\ left' = TRUE
  /\ UNCHANGED <<procs, mutex, helper, disk, said, lost>>

\* Setup replaces the app only when nothing runs it; it may fail before or
\* after that.  The helper writes how it ended.
SetupEnds ==
  /\ helper.at = "setup"
  /\ \/ Alive = {} /\ disk' = [disk EXCEPT !.version = helper.release]
     \/ UNCHANGED disk
  /\ HelperGoes("closing")
  /\ UNCHANGED procs /\ UNCHANGED Apart

\* Once the host has gone, it starts the app again.
Reopen ==
  /\ helper.at = "closing" /\ HostGone
  /\ procs' = [procs EXCEPT ![helper.app] = "started"]
  /\ HelperGoes("gone")
  /\ UNCHANGED disk /\ UNCHANGED Apart
-----------------------------------------------------------------------------
Checks(p) == Create(p) \/ GivesWay(p) \/ Signal(p) \/ CopyCreates(p) \/ CopyOwns(p)
RestartThread == StartCopy \/ WaitReady \/ StopCopy
Worker ==
  \/ TakeCommand \/ CheckAnswers \/ DownloadEnds
  \/ BeginUpdate \/ StartHelper \/ AwaitReady \/ StopHelper
Helper == Prepare \/ WaitHost \/ ListOthers \/ WaitOthers \/ SetupEnds \/ Reopen
User ==
  \/ Launch \/ BeginRestart \/ UpdateNow \/ ForceNow \/ Cancel \/ AskCheck \/ Quit

Next ==
  \/ \E p \in Proc : Checks(p) \/ CopyGivesUp(p) \/ CopyLeaves(p)
  \/ User \/ Frame \/ RestartThread \/ CheckDue \/ Worker \/ ClientMoves
  \/ Helper \/ SetupCloses \/ Exit \/ Crash

Spec == Init /\ [][Next]_vars

\* Threads run, waits end at their deadline at the latest, a closing host
\* ends, Setup ends, the window draws frames.
\* Nothing makes the user act, a client move or a host crash.
Fairness ==
  /\ \A p \in Proc : WF_vars(Checks(p)) /\ WF_vars(CopyGivesUp(p))
  /\ WF_vars(RestartThread) /\ WF_vars(Worker) /\ WF_vars(Frame)
  /\ WF_vars(Helper) /\ WF_vars(Exit)

FairSpec == Spec /\ Fairness

-----------------------------------------------------------------------------
(* Properties. *)

Phases == {"idle", "failed", "queued", "queuedFile", "downloading", "ready", "installing"}
Commands == [does : {"check", "download", "install"}, release : 0 .. MaxRelease]

RestartRecord ==
  [at : {"none", "starting", "waiting", "stopping", "signalled", "failed", "done"},
   copy : {0} \cup Proc, signal : BOOLEAN]

HostRecord ==
  [id : {0} \cup Proc, open : BOOLEAN, gate : {"none", "restart", "update"},
   restart : RestartRecord, phase : Phases, chosen : 0 .. MaxRelease, force : BOOLEAN,
   idle : BOOLEAN, close : BOOLEAN, queue : Seq(Commands),
   worker : {"idle", "checking", "downloading", "installing", "staging", "awaiting",
             "stopping"},
   streaming : BOOLEAN, updating : BOOLEAN]

HelperRecord ==
  [at : {"none", "preparing", "waitHost", "listing", "waitOthers", "setup", "closing", "gone"},
   host : {0} \cup Proc, app : {0} \cup Proc, release : 0 .. MaxRelease, others : SUBSET Proc]

TypeOK ==
  /\ procs \in [Proc -> {"free", "reserved", "started", "opened", "copy", "signalled", "waits",
                         "telling", "host", "gone"}]
  /\ said \subseteq Proc
  /\ mutex \in [owner : {0} \cup Proc, open : SUBSET Proc]
  /\ host \in HostRecord
  /\ helper \in HelperRecord
  /\ disk \in [version : 0 .. MaxRelease, latest : 0 .. MaxRelease, pending : 0 .. MaxRelease]
  /\ left \in BOOLEAN /\ lost \in BOOLEAN

\* Two hosts never run, whatever launches, copies and reopened apps meet at
\* the mutex: they would share the display and the port
\* (single_instance.rs:1-4).
OneHost == \A p, q \in Proc : procs[p] = "host" /\ procs[q] = "host" => p = q

\* While an update hands over, its host has no restart copy that could take
\* over: the helper would wait on it, and it would be the running app
\* (handoff.rs:1-6).
HandoffsApart ==
  helper.at = "waitHost" /\ host.id = helper.host /\ host.restart.copy # 0 =>
    procs[host.restart.copy] = "gone"

\* The gate is held by what hands over, and an update that is to be reported
\* after the next start is one that hands over: one that went back to waiting
\* or failed leaves neither behind (updates.rs:1485-1512).
HandoffAccounted ==
  host.id # 0 =>
    /\ (host.gate = "update") <=> (host.phase = "installing")
    /\ (host.gate = "restart") <=> (host.restart.at # "none")
    /\ disk.pending # 0 => host.phase = "installing"

\* So both handoffs keep to the gate.
GateKeeps == HandoffsApart /\ HandoffAccounted

\* A handoff ends: its host leaves, or the gate is free for the next one
\* (updates.rs:1963, relaunch.rs:303).
HandoffEnds == host.gate # "none" ~> host.gate = "none"

\* Once the helper said "ready" and its host has gone, the app runs again,
\* whatever failed (updater/src/lib.rs:17-19).  The one gap: a launch of the
\* user's that was checking the mutex while the old host went.
Reopens ==
  (helper.at \in {"waitHost", "listing", "waitOthers", "setup", "closing"} /\ HostGone)
    ~> (host.id # 0 \/ lost)

\* A restart copy that signalled runs as the host in the end, or somebody
\* says why it does not (relaunch.rs:14-25), unless the old host was closed
\* by somebody else or crashed.
RestartSaid ==
  \A p \in Proc : procs[p] = "signalled" ~> (procs[p] = "host" \/ p \in said \/ left)

\* An update hands over only the release that is offered: a check that
\* replaced it stops the update before its handoff (updates.rs:942-944).
OfferedHandsOver ==
  [][host.worker = "installing" /\ host'.worker = "staging" => StillOffered(host.chosen)]_vars
=============================================================================
