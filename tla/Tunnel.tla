------------------------------- MODULE Tunnel -------------------------------
(***************************************************************************)
(* The USB tunnel that carries a stream to the iPad: FramedLink, its queue *)
(* of video and control packets and its writer (transport/link.rs), with   *)
(* the two ends that feed and relieve it: the transport loop, which cuts   *)
(* the encoder's frames into fragments (transport/mod.rs), and the encoder *)
(* that answers a forced keyframe (encoder/mod.rs).  Sender and writer are *)
(* threads of their own and share the queue fragment by fragment.  The     *)
(* tunnel outlives a restart of the pipeline and serves several sessions.  *)
(*                                                                         *)
(* A fragment is one unit of bytes; a frame is its age, whether it is a    *)
(* keyframe, and its count of fragments.  Its age stands for frame_seq:    *)
(* how many frames were numbered after it, modulo SeqSpace.  Waits are     *)
(* countdowns, in units of KEYFRAME_BACKOFF_MIN.  The audio queue and the  *)
(* frame over 4 MiB that never reaches the tunnel are left out.            *)
(***************************************************************************)
EXTENDS Integers, Sequences, FiniteSets, SequencesExt

CONSTANTS FRAME_LIMIT, BYTE_LIMIT, CONTROL_LIMIT, NAL_CHANNEL_CAPACITY,
          KEYFRAME_BACKOFF_MAX,    \* in units of the first wait
          KeySizes, FrameSizes,    \* fragments of a keyframe, of another frame
          SeqSpace,                \* ages wrap here
          MaxMoves                 \* bound on viewers, restarts and messages

ASSUME TunnelAssumption ==
    /\ FRAME_LIMIT \in Nat \ {0} /\ BYTE_LIMIT \in Nat \ {0}
    /\ CONTROL_LIMIT \in Nat \ {0} /\ NAL_CHANNEL_CAPACITY \in Nat \ {0}
    /\ KEYFRAME_BACKOFF_MAX \in Nat \ {0}
    /\ KeySizes \subseteq Nat \ {0} /\ FrameSizes \subseteq Nat \ {0}
    /\ SeqSpace \in Nat /\ SeqSpace > FRAME_LIMIT
    /\ MaxMoves \in Nat

VARIABLES
    force,      \* force_next_idr: the encoder owes a keyframe
    nals,       \* encoded frames on their way to the transport loop
    watched,    \* a session is served
    phase,      \* "run", or "goodbye" while say_goodbye waits for the tunnel
    gate,       \* the loop's awaiting_keyframe, also set by a new session id
    sending,    \* the frame being cut into fragments, and how many are pushed
    video,      \* VideoQueue
    backoff,    \* KeyframeBackoff
    controls,   \* queued control packets
    flushing,   \* controls_queued - controls_written that flush waits for
    told,       \* what say_goodbye reports: "none", "ok" or "failed"
    ready,      \* the permit of Notify
    writer,     \* write_loop
    closed,     \* the tunnel is closed
    \* history
    shown,      \* age of the last frame written whole to the iPad
    owed,       \* a frame was lost and no keyframe written since
    byeWritten, \* the goodbye has left
    moves

host == <<force, nals, watched, phase, gate, sending>>
queue == <<video, backoff, controls, flushing, told, ready>>
history == <<shown, owed, byeWritten>>
vars == <<host, queue, writer, closed, history, moves>>

----------------------------------------------------------------------------
None == "none"

NoFrame == [age |-> 0, key |-> FALSE, count |-> 0]
NotSending == [key |-> FALSE, count |-> 0, at |-> 0]

\* Default of KeyframeBackoff.  A next_allowed that has passed is a wait of 0.
NoBackoff == [pending |-> FALSE, wait |-> 0]

NewQueue == [frames |-> <<>>, bytes |-> 0, awaiting |-> FALSE, discarded |-> FALSE,
             other |-> FALSE]
NewWriter == [at |-> "head", job |-> None, frame |-> NoFrame, left |-> 0, armed |-> FALSE]

\* A session has just begun over the tunnel; its answer is queued.
Init ==
    /\ force = TRUE
    /\ nals = <<>>
    /\ watched = TRUE
    /\ phase = "run"
    /\ gate = TRUE
    /\ sending = NotSending
    /\ video = NewQueue
    /\ backoff = NoBackoff
    /\ controls = <<"ack">>
    /\ flushing = 0
    /\ told = "none"
    /\ ready = TRUE
    /\ writer = NewWriter
    /\ closed = FALSE
    /\ shown = 0
    /\ owed = FALSE
    /\ byeWritten = FALSE
    /\ moves = 0

----------------------------------------------------------------------------
(* KeyframeBackoff *)

LostBackoff(b) == [b EXCEPT !.pending = TRUE]

Due(b) == b.pending /\ b.wait = 0

\* record_drops: a request that is due forces a keyframe and starts a wait.  Its
\* length doubles from the first to the longest, and starts again after losses
\* KEYFRAME_BACKOFF_RESET apart: here it is any of these.
RecordDrops(b) ==
    \/ /\ Due(b)
       /\ \E wait \in 1..KEYFRAME_BACKOFF_MAX : backoff' = [pending |-> FALSE, wait |-> wait]
       /\ force' = TRUE
    \/ /\ ~Due(b)
       /\ backoff' = b
       /\ UNCHANGED force

----------------------------------------------------------------------------
(* The encoder and the transport loop. *)

\* The writer's own steps take far less than a frame interval, only the tunnel
\* may take longer: a writer that can run has looked at the queue before the
\* next frame comes.  An assumption: nothing in the code makes it so.
WriterAwake ==
    /\ ~closed
    /\ \/ writer.at = "parked" /\ ready
       \/ writer.at = "head" /\ writer.job = None /\ controls = <<>> /\ writer.left = 0

\* The encoder's next frame; a forced keyframe is latched until one is encoded.
Encode ==
    /\ ~closed /\ ~WriterAwake /\ Len(nals) < NAL_CHANNEL_CAPACITY
    /\ nals' = Append(nals, [key |-> force, old |-> FALSE])
    /\ force' = FALSE
    /\ UNCHANGED <<watched, phase, gate, sending, queue, writer, closed, history, moves>>

Older(age) == (age + 1) % SeqSpace
Aged(frames) == [i \in DOMAIN frames |-> [frames[i] EXCEPT !.age = Older(@)]]

\* frame_seq is counted up: every frame before is one older.
Numbered ==
    /\ video' = [video EXCEPT !.frames = Aged(@)]
    /\ writer' = IF writer.left > 0 THEN [writer EXCEPT !.frame.age = Older(@)] ELSE writer
    /\ shown' = Older(shown)

\* nal_rx.recv: dropped while nobody watches, held back until a session's first
\* keyframe, else numbered and cut up.
TakeNal ==
    /\ ~closed /\ phase = "run" /\ sending = NotSending /\ nals # <<>>
    /\ LET nal == Head(nals)
           starts == nal.key /\ ~nal.old
       IN  \/ /\ ~watched
              /\ UNCHANGED <<force, gate, sending, video, writer, shown>>
           \/ /\ watched /\ gate /\ ~starts
              /\ force' = (force \/ nal.key)
              /\ UNCHANGED <<gate, sending, video, writer, shown>>
           \/ /\ watched /\ (gate => starts)
              /\ gate' = FALSE
              /\ \E count \in IF nal.key THEN KeySizes ELSE FrameSizes :
                    sending' = [key |-> nal.key, count |-> count, at |-> 0]
              /\ Numbered
              /\ UNCHANGED force
    /\ nals' = Tail(nals)
    /\ UNCHANGED <<watched, phase, backoff, controls, flushing, told, ready, closed,
                   owed, byeWritten, moves>>

\* A decision of the session that asks for a keyframe (act).
Ask ==
    /\ ~closed /\ phase = "run" /\ sending = NotSending /\ watched /\ ~force
    /\ moves < MaxMoves /\ moves' = moves + 1
    /\ force' = TRUE
    /\ UNCHANGED <<nals, watched, phase, gate, sending, queue, writer, closed, history>>

\* A session begins.  Frames made before are older than it, and its first must
\* be a keyframe; the queue will meet another stream.
Arrive ==
    /\ ~closed /\ phase = "run" /\ sending = NotSending /\ ~watched
    /\ watched' = TRUE
    /\ force' = TRUE
    /\ nals' = [i \in DOMAIN nals |-> [nals[i] EXCEPT !.old = TRUE]]
    /\ gate' = TRUE
    /\ video' = [video EXCEPT !.other = TRUE]
    /\ UNCHANGED <<phase, sending, backoff, controls, flushing, told, ready, writer,
                   closed, history, moves>>

Leave ==
    /\ ~closed /\ phase = "run" /\ sending = NotSending /\ watched
    /\ moves < MaxMoves /\ moves' = moves + 1
    /\ watched' = FALSE
    /\ UNCHANGED <<force, nals, phase, gate, sending, queue, writer, closed, history>>

----------------------------------------------------------------------------
(* VideoQueue.push of the next fragment of the frame being sent. *)

\* The fragments queued, a unit of bytes each.
Fragments(frames) == UNION {{i} \X (1..frames[i].got) : i \in DOMAIN frames}
BytesOf(frames) == Cardinality(Fragments(frames))

\* The backoff once the frame's first fragment was seen: a new stream owes
\* nothing to the losses of the old one, and a keyframe answers the request.
MetBackoff ==
    LET renewed == IF video.other THEN NoBackoff ELSE backoff
    IN  IF sending.key THEN [renewed EXCEPT !.pending = FALSE] ELSE renewed

First == sending.at = 0
Met == IF First THEN MetBackoff ELSE backoff

\* A frame that needs a lost one, or that finds the queue full, is not let in.
Dependent == First /\ ~sending.key /\ video.awaiting
NoRoom == /\ First /\ ~sending.key /\ ~video.awaiting
          /\ Len(video.frames) >= FRAME_LIMIT \/ video.bytes >= BYTE_LIMIT

\* The queue with a place for the frame: a keyframe replaces a full queue.
Opened ==
    IF ~First THEN video
    ELSE LET full == sending.key /\ Len(video.frames) >= FRAME_LIMIT
         IN  [video EXCEPT
                !.frames = Append(IF full THEN <<>> ELSE @,
                                  [age |-> 0, key |-> sending.key,
                                   count |-> sending.count, got |-> 0]),
                !.bytes = IF full THEN 0 ELSE @,
                !.awaiting = IF sending.key THEN FALSE ELSE @]

\* ... and replaces what it cannot fit behind when it grows.
Cleared ==
    IF sending.key /\ Opened.bytes >= BYTE_LIMIT
    THEN [Opened EXCEPT !.frames = <<Last(@)>>, !.bytes = Last(Opened.frames).got]
    ELSE Opened

Fits == Cleared.bytes < BYTE_LIMIT

Grown == [Cleared EXCEPT !.frames[Len(Cleared.frames)].got = @ + 1, !.bytes = @ + 1]

\* Mutant: dependents of the lost frame still follow.
LoseAlone(v) == [v EXCEPT !.discarded = TRUE]

\* VideoQueue.lose, for the frame whose number is being discarded.
Lose(v) == [v EXCEPT !.discarded = TRUE, !.awaiting = TRUE]

\* Mutant: the lost frame's bytes stay counted.
WithoutLastCounted(v) == [v EXCEPT !.frames = Front(@)]

WithoutLast(v) == [v EXCEPT !.frames = Front(@), !.bytes = @ - Last(v.frames).got]

\* The discarded number is never met again after its last fragment.
Settled(v) == IF sending.at + 1 = sending.count THEN [v EXCEPT !.discarded = FALSE] ELSE v

Named(v) == IF First THEN [v EXCEPT !.other = FALSE] ELSE v

Pushed(v, b) ==
    /\ video' = Settled(Named(v))
    /\ RecordDrops(b)
    /\ ready' = TRUE

\* One fragment handed to FramedLink.send.
PushFragment ==
    /\ sending # NotSending
    /\ \/ /\ video.discarded
          /\ Pushed(video, backoff)
          /\ UNCHANGED owed
       \/ /\ ~video.discarded /\ Dependent
          /\ Pushed([video EXCEPT !.discarded = TRUE], Met)
          /\ UNCHANGED owed
       \/ /\ ~video.discarded /\ NoRoom
          /\ Pushed(Lose(video), LostBackoff(Met))
          /\ owed' = TRUE
       \/ /\ ~video.discarded /\ ~Dependent /\ ~NoRoom /\ Fits
          /\ Pushed(Grown, Met)
          /\ UNCHANGED owed
       \/ /\ ~video.discarded /\ ~Dependent /\ ~NoRoom /\ ~Fits
          /\ Pushed(Lose(WithoutLast(Cleared)), LostBackoff(Met))
          /\ owed' = TRUE
    /\ sending' = IF sending.at + 1 = sending.count THEN NotSending
                  ELSE [sending EXCEPT !.at = @ + 1]
    /\ UNCHANGED <<nals, watched, phase, gate, controls, flushing, told,
                   writer, closed, shown, byeWritten, moves>>

----------------------------------------------------------------------------
(* Control packets, and the goodbye that must leave before the loop ends. *)

\* Mutant: the packet the writer has taken counts as written.
UnwrittenQueued == Len(controls)

Unwritten == Len(controls) + (IF writer.job \in {"ack", "bye"} THEN 1 ELSE 0)

\* Heartbeats and answers; a full queue refuses them.
SendControl ==
    /\ ~closed /\ phase = "run" /\ sending = NotSending /\ watched
    /\ moves < MaxMoves /\ moves' = moves + 1
    /\ Len(controls) < CONTROL_LIMIT
    /\ controls' = Append(controls, "ack")
    /\ ready' = TRUE
    /\ UNCHANGED <<host, video, backoff, flushing, told, writer, closed, history>>

\* The loop ends with a goodbye to say: queued, or refused at once.
Goodbye ==
    /\ ~closed /\ phase = "run" /\ sending = NotSending /\ watched
    /\ moves < MaxMoves /\ moves' = moves + 1
    /\ watched' = FALSE
    /\ phase' = "goodbye"
    /\ byeWritten' = FALSE
    /\ IF Len(controls) >= CONTROL_LIMIT
       THEN /\ told' = "failed"
            /\ UNCHANGED <<controls, flushing, ready>>
       ELSE /\ controls' = Append(controls, "bye")
            /\ flushing' = Unwritten + 1
            /\ told' = "none"
            /\ ready' = TRUE
    /\ UNCHANGED <<force, nals, gate, sending, video, backoff, writer, closed,
                   shown, owed>>

\* FramedLink.flush: all written, or the tunnel closed, or out of time.
Flush ==
    /\ phase = "goodbye" /\ told = "none"
    /\ \/ flushing = 0 /\ told' = "ok"
       \/ flushing > 0 /\ told' = "failed"
    /\ UNCHANGED <<host, video, backoff, controls, flushing, ready, writer, closed, history, moves>>

\* The next pipeline: a new encoder, whose first frame is a keyframe, a new
\* epoch, and the tunnel as the old loop left it.
Restart ==
    /\ ~closed /\ sending = NotSending
    /\ \/ phase = "run" /\ moves < MaxMoves /\ moves' = moves + 1
       \/ phase = "goodbye" /\ told # "none" /\ moves' = moves
    /\ phase' = "run"
    /\ force' = TRUE
    /\ nals' = <<>>
    /\ gate' = TRUE
    /\ video' = [video EXCEPT !.other = TRUE]
    /\ told' = "none" /\ flushing' = 0 /\ byeWritten' = FALSE
    /\ UNCHANGED <<watched, sending, backoff, controls, ready, writer, closed, shown, owed>>

----------------------------------------------------------------------------
(* write_loop *)

Writing == writer.job # None
Ready(v) == v.frames # <<>> /\ Head(v.frames).got = Head(v.frames).count

\* Control packets go first, also between two fragments of a frame.  (The code
\* looks for one and for a frame under two locks; here that is one step.)
TakeControl ==
    /\ ~closed /\ writer.at = "head" /\ ~Writing /\ controls # <<>>
    /\ writer' = [writer EXCEPT !.job = Head(controls)]
    /\ controls' = Tail(controls)
    /\ UNCHANGED <<host, video, backoff, flushing, told, ready, closed, history, moves>>

\* VideoQueue.pop
StartFrame ==
    /\ ~closed /\ writer.at = "head" /\ ~Writing /\ controls = <<>> /\ writer.left = 0 /\ Ready(video)
    /\ LET frame == Head(video.frames)
       IN  /\ writer' = [writer EXCEPT !.left = frame.count,
                         !.frame = [age |-> frame.age, key |-> frame.key, count |-> frame.count]]
           /\ video' = [video EXCEPT !.frames = Tail(@), !.bytes = @ - frame.got]
    /\ UNCHANGED <<host, backoff, controls, flushing, told, ready, closed, history, moves>>

\* The tunnel took the next fragment of a frame that has started.
WriteFragment ==
    /\ ~closed /\ writer.at = "head" /\ ~Writing /\ controls = <<>> /\ writer.left > 0
    /\ IF writer.left = 1
       THEN /\ writer' = [writer EXCEPT !.frame = NoFrame, !.left = 0]
            /\ shown' = writer.frame.age
            /\ owed' = (owed /\ ~writer.frame.key)
       ELSE /\ writer' = [writer EXCEPT !.left = @ - 1]
            /\ UNCHANGED <<shown, owed>>
    /\ UNCHANGED <<host, queue, closed, byeWritten, moves>>

\* Mutant: no deadline for a deferred request.
ParkUnarmed ==
    /\ ~closed /\ writer.at = "head" /\ ~Writing /\ controls = <<>> /\ writer.left = 0
    /\ ~Ready(video)
    /\ writer' = [writer EXCEPT !.at = "parked"]
    /\ UNCHANGED <<host, queue, closed, history, moves>>

\* Nothing to write: wait for a packet or for a deferred request to fall due.
Park ==
    /\ ~closed /\ writer.at = "head" /\ ~Writing /\ controls = <<>> /\ writer.left = 0 /\ ~Ready(video)
    /\ writer' = [writer EXCEPT !.at = "parked",
                                !.armed = backoff.pending]
    /\ UNCHANGED <<host, queue, closed, history, moves>>

Wake ==
    /\ ~closed /\ writer.at = "parked" /\ ready
    /\ ready' = FALSE
    /\ writer' = [writer EXCEPT !.at = "head", !.armed = FALSE]
    /\ UNCHANGED <<host, video, backoff, controls, flushing, told, closed, history, moves>>

Alarm ==
    /\ ~closed /\ writer.at = "parked" /\ writer.armed /\ backoff.wait = 0
    /\ RecordDrops(backoff)
    /\ writer' = [writer EXCEPT !.at = "head", !.armed = FALSE]
    /\ UNCHANGED <<nals, watched, phase, gate, sending, video, controls, flushing,
                   told, ready, closed, shown, owed, byeWritten, moves>>

\* The tunnel took the packet.
WroteControl ==
    /\ ~closed /\ writer.job \in {"ack", "bye"}
    /\ writer' = [writer EXCEPT !.job = None]
    /\ flushing' = IF flushing > 0 THEN flushing - 1 ELSE 0
    /\ byeWritten' = (byeWritten \/ writer.job = "bye")
    /\ UNCHANGED <<host, video, backoff, controls, told, ready, closed, shown, owed, moves>>

\* The iPad is unplugged, its app ends, or a read or write fails: the hub drops
\* the link with its queue, and a flush that still waits has failed.
Close ==
    /\ ~closed
    /\ moves < MaxMoves /\ moves' = moves + 1
    /\ closed' = TRUE
    /\ sending' = NotSending
    /\ video' = NewQueue /\ backoff' = NoBackoff /\ controls' = <<>>
    /\ writer' = NewWriter /\ ready' = FALSE
    /\ told' = IF phase = "goodbye" /\ told = "none" /\ flushing > 0 THEN "failed" ELSE told
    /\ UNCHANGED <<force, nals, watched, phase, gate, flushing, history>>

Tick ==
    /\ ~closed /\ backoff.wait > 0
    /\ backoff' = [backoff EXCEPT !.wait = @ - 1]
    /\ UNCHANGED <<host, video, controls, flushing, told, ready, writer, closed, history, moves>>

----------------------------------------------------------------------------
Next ==
    \/ Encode \/ TakeNal \/ PushFragment \/ Flush
    \/ TakeControl \/ StartFrame \/ WriteFragment \/ Park \/ Wake \/ Alarm
    \/ WroteControl
    \/ Ask \/ Arrive \/ Leave \/ SendControl \/ Goodbye \/ Restart \/ Close
    \/ Tick

Spec == Init /\ [][Next]_vars

\* The threads run, the iPad takes what is written until the tunnel closes, the
\* keepalive gives the encoder a frame when a keyframe is forced (a still desktop
\* may give none), and time passes.  The
\* writer is not kept from a frame for ever by senders that come just before it.
Fairness ==
    /\ WF_vars(force /\ Encode) /\ WF_vars(TakeNal) /\ WF_vars(PushFragment)
    /\ WF_vars(TakeControl) /\ SF_vars(StartFrame) /\ SF_vars(WriteFragment)
    /\ WF_vars(Park) /\ WF_vars(Wake) /\ WF_vars(Alarm)
    /\ WF_vars(WroteControl)
    /\ WF_vars(Flush) /\ SF_vars(Tick)

FairSpec == Spec /\ Fairness

----------------------------------------------------------------------------
(* Properties. *)

Ages == 0..SeqSpace - 1
Frame == [age : Ages, key : BOOLEAN, count : Nat \ {0}, got : Nat]
VideoRecord == [frames : Seq(Frame), bytes : Nat, awaiting : BOOLEAN, discarded : BOOLEAN,
                other : BOOLEAN]
WriterRecord == [at : {"head", "parked"}, job : {None, "ack", "bye"},
                 frame : [age : Ages, key : BOOLEAN, count : Nat], left : Nat, armed : BOOLEAN]

TypeOK ==
    /\ force \in BOOLEAN /\ watched \in BOOLEAN /\ gate \in BOOLEAN
    /\ nals \in Seq([key : BOOLEAN, old : BOOLEAN]) /\ Len(nals) <= NAL_CHANNEL_CAPACITY
    /\ phase \in {"run", "goodbye"} /\ told \in {"none", "ok", "failed"}
    /\ sending \in [key : BOOLEAN, count : Nat, at : Nat]
    /\ video \in VideoRecord /\ writer \in WriterRecord
    /\ backoff \in [pending : BOOLEAN, wait : 0..KEYFRAME_BACKOFF_MAX]
    /\ controls \in Seq({"ack", "bye"}) /\ Len(controls) <= CONTROL_LIMIT
    /\ flushing \in 0..CONTROL_LIMIT + 1
    /\ ready \in BOOLEAN /\ closed \in BOOLEAN /\ shown \in Ages
    /\ owed \in BOOLEAN /\ byeWritten \in BOOLEAN /\ moves \in 0..MaxMoves

\* The queue's byte count is that of its fragments, both limits hold, and only
\* the frame still being sent is partial: its next fragment always finds it.
QueueSound ==
    /\ video.bytes = BytesOf(video.frames) /\ video.bytes <= BYTE_LIMIT
    /\ Len(video.frames) <= FRAME_LIMIT
    /\ \A i \in DOMAIN video.frames :
          video.frames[i].got < video.frames[i].count =>
            /\ i = Len(video.frames)
            /\ [video.frames[i] EXCEPT !.got = 0] =
                    [age |-> 0, key |-> sending.key, count |-> sending.count, got |-> 0]
    /\ sending.at > 0 /\ ~closed /\ ~video.discarded =>
          video.frames # <<>> /\ Last(video.frames).got = sending.at

\* What reaches the iPad decodes: a frame that is not a keyframe is written only
\* right after the frame it was coded from, whatever was dropped between.
OnlyDecodable ==
    [][writer.left = 1 /\ writer'.left = 0 =>
          \/ writer.frame.key
          \/ shown = Older(writer.frame.age)]_vars

\* A goodbye said to have left has left.
ToldMeansWritten == told = "ok" => byeWritten

\* What the queue says of itself is true, whatever was dropped on the way: its
\* byte count, its limits, and of a goodbye that it has left.
TunnelSound == QueueSound /\ ToldMeansWritten

\* After a loss a keyframe reaches the iPad, as long as somebody watches and the
\* tunnel stays open: no request is lost in its backoff or in the parked writer.
KeyframeComes == owed ~> (~owed \/ closed \/ ~watched)
=============================================================================
