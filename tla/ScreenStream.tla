---------------------------- MODULE ScreenStream ----------------------------
(***************************************************************************)
(* The screen stream of the PC: start_stream with its video and audio      *)
(* threads (stream.rs), the capture they need and only one can hold        *)
(* (capture/dxgi.rs), and what run_connection does about it                *)
(* (connection.rs): StreamRequest, StreamStop, KeyframeRequest, the        *)
(* packets it forwards or drops, the end of the stream and its own end.    *)
(*                                                                         *)
(* A stream is numbered; a packet is "key" (an IDR with its SPS/PPS),      *)
(* "delta" or "audio".  Sessions are authenticated run_connections.  The   *)
(* screen changes when it likes.  On the way to the phone the control      *)
(* queue and the queue of packets are two: the LAN's writer is biased to   *)
(* control, the relay puts text behind file chunks and packets before it.  *)
(***************************************************************************)
EXTENDS Naturals, Sequences, FiniteSets

CONSTANTS
    Sessions,   \* bound: run_connections
    Relayed,    \* those that come through the relay
    MaxStream,  \* bound: streams started
    Cap,        \* the packets channel of a stream (32 in the code)
    VideoCap,   \* OUTBOUND_VIDEO_CAP
    Attempts,   \* bound: ATTEMPTS of start_stream
    MaxAsk,     \* bound: keyframe requests
    MaxOut,     \* bound: packets that one turn of the encoder hands out
    Audios,     \* bound: whether audio comes up: a subset of BOOLEAN
    Faults      \* bound: what can fail: "encoder", "capture", "audio", "peer";
                \* "lag": an encoder that keeps frames back

ASSUME StreamAssumption ==
    /\ Relayed \subseteq Sessions
    /\ MaxStream \in Nat \ {0} /\ MaxAsk \in Nat
    /\ Cap \in Nat \ {0} /\ VideoCap \in Nat \ {0} /\ Attempts \in Nat \ {0}
    /\ MaxOut \in Nat \ {0} /\ Audios \subseteq BOOLEAN

Stream == 1..MaxStream
None == 0

VARIABLES
    at,       \* a session: in its "loop", in "starting" (start_stream) or "back"
    tries,    \* attempts of its start_stream
    active,   \* its active_stream
    control,  \* its outbox: StreamStarted and StreamStopped, by stream
    out,      \* its outbox_video: the streams the packets are of
    heard,    \* the streams whose StreamStarted the phone has seen
    streams,  \* how many streams were started
    dup,      \* the stream whose thread owns the desktop duplication
    video,    \* a video thread: "none", "loop", "send" or "exited"
    audio,
    inHand,   \* the packets of its turn, the first of them in blocking_send
    packets,  \* the packets channel
    rx,       \* its receiver is alive
    stop,     \* the stop flag
    forceKf,  \* the force_keyframe flag
    pendingIdr, \* the encoder's own
    asked,    \* history: a key frame is due
    kept,     \* history: the encoder took the request in with a frame and
              \* has handed out no key frame since
    asks      \* keyframe requests so far

sessionVars == <<at, tries, active, control, out, heard>>
threadVars  == <<video, audio, inHand, packets, pendingIdr>>
history     == <<asked, kept>>
vars == <<sessionVars, threadVars, streams, dup, rx, stop, forceKf, history, asks>>

Started(n) == [kind |-> "started", stream |-> n]
Stopped(n) == [kind |-> "stopped", stream |-> n]

Init ==
    /\ at = [s \in Sessions |-> "loop"]
    /\ tries = [s \in Sessions |-> 0]
    /\ active = [s \in Sessions |-> None]
    /\ control = [s \in Sessions |-> <<>>]
    /\ out = [s \in Sessions |-> <<>>]
    /\ heard = [s \in Sessions |-> {}]
    /\ streams = 0 /\ dup = None /\ asks = 0
    /\ video = [n \in Stream |-> "none"]
    /\ audio = [n \in Stream |-> "none"]
    /\ inHand = [n \in Stream |-> <<>>]
    /\ packets = [n \in Stream |-> <<>>]
    /\ rx = [n \in Stream |-> FALSE]
    /\ stop = [n \in Stream |-> FALSE]
    /\ forceKf = [n \in Stream |-> FALSE]
    /\ pendingIdr = [n \in Stream |-> FALSE]
    /\ asked = [n \in Stream |-> FALSE]
    /\ kept = [n \in Stream |-> FALSE]

-----------------------------------------------------------------------------
(* run_connection: starting and stopping *)

\* StreamRequest, when no stream is active (otherwise an error is sent).
Request(s) ==
    /\ at[s] = "loop" /\ active[s] = None /\ streams < MaxStream
    /\ at' = [at EXCEPT ![s] = "starting"]
    /\ tries' = [tries EXCEPT ![s] = 0]
    /\ UNCHANGED <<active, control, out, heard, threadVars, streams, dup,
                   rx, stop, forceKf, history, asks>>

\* DxgiCapture::new fails: somebody else duplicates the desktop.  After the
\* last attempt StreamUnavailable is sent.
CaptureBusy(s) ==
    /\ at[s] = "starting" /\ dup # None
    /\ tries' = [tries EXCEPT ![s] = @ + 1]
    /\ at' = [at EXCEPT ![s] = IF tries[s] + 1 < Attempts THEN "starting" ELSE "loop"]
    /\ UNCHANGED <<active, control, out, heard, threadVars, streams, dup,
                   rx, stop, forceKf, history, asks>>

\* No encoder of the chain comes up: the capture is dropped again.
NoEncoder(s) ==
    /\ "encoder" \in Faults
    /\ at[s] = "starting" /\ dup = None
    /\ at' = [at EXCEPT ![s] = "loop"]
    /\ UNCHANGED <<tries, active, control, out, heard, threadVars, streams,
                   dup, rx, stop, forceKf, history, asks>>

\* The channel has one sender per thread and start_stream's own, dropped at
\* its end.  Mutated: it stays with the handle.
OwnSender(n) == TRUE
Dropped(n)   == FALSE

\* The threads start; every encoder's first frame is a key frame.
StartStream(s) ==
    LET n == streams + 1 IN
    /\ at[s] = "starting" /\ dup = None /\ n \in Stream
    /\ at' = [at EXCEPT ![s] = "loop"]
    /\ active' = [active EXCEPT ![s] = n]
    /\ control' = [control EXCEPT ![s] = Append(@, Started(n))]
    /\ streams' = n
    /\ dup' = n
    /\ video' = [video EXCEPT ![n] = "loop"]
    /\ \E a \in Audios : audio' = [audio EXCEPT ![n] = IF a THEN "loop" ELSE "none"]
    /\ rx' = [rx EXCEPT ![n] = TRUE]
    /\ pendingIdr' = [pendingIdr EXCEPT ![n] = TRUE]
    /\ asked' = [asked EXCEPT ![n] = TRUE]
    /\ UNCHANGED kept
    /\ UNCHANGED <<tries, out, heard, inHand, packets, stop, forceKf, asks>>

\* StreamHandle's drop: the stop flag, and the receiver with what it holds.
\* Mutated: the flag alone.
FlagOnly(n) == stop' = [stop EXCEPT ![n] = TRUE] /\ UNCHANGED <<rx, packets>>
DropHandle(n) ==
    /\ stop' = [stop EXCEPT ![n] = TRUE]
    /\ rx' = [rx EXCEPT ![n] = FALSE]
    /\ packets' = [packets EXCEPT ![n] = <<>>]

TellStopped(s) == control' = [control EXCEPT ![s] = Append(@, Stopped(active[s]))]

StreamStop(s) ==
    /\ at[s] = "loop" /\ active[s] # None
    /\ DropHandle(active[s])
    /\ TellStopped(s)
    /\ active' = [active EXCEPT ![s] = None]
    /\ UNCHANGED <<at, tries, out, heard, video, audio, inHand, pendingIdr,
                   streams, dup, forceKf, history, asks>>

KeyframeRequest(s) ==
    /\ at[s] = "loop" /\ active[s] # None
    /\ asks < MaxAsk
    /\ asks' = asks + 1
    /\ forceKf' = [forceKf EXCEPT ![active[s]] = TRUE]
    /\ asked' = [asked EXCEPT ![active[s]] = TRUE]
    /\ kept' = [kept EXCEPT ![active[s]] = FALSE]
    /\ UNCHANGED <<sessionVars, threadVars, streams, dup, rx, stop>>

\* The peer is gone: run_connection's teardown.
PeerGone(s) ==
    /\ "peer" \in Faults
    /\ at[s] = "loop"
    /\ at' = [at EXCEPT ![s] = "back"]
    /\ IF active[s] # None THEN DropHandle(active[s]) ELSE UNCHANGED <<stop, rx, packets>>
    /\ active' = [active EXCEPT ![s] = None]
    /\ control' = [control EXCEPT ![s] = <<>>]
    /\ out' = [out EXCEPT ![s] = <<>>]
    /\ UNCHANGED <<tries, heard, video, audio, inHand, pendingIdr, streams,
                   dup, forceKf, history, asks>>

-----------------------------------------------------------------------------
(* run_connection: the packets *)

\* Room in the bounded queue.  Mutated: off by one.
OneTooMany(s) == Len(out[s]) <= VideoCap
HasRoom(s)    == Len(out[s]) < VideoCap

\* A packet is passed to the writer, or dropped when it is behind.
Forward(s) ==
    LET n == active[s] IN
    /\ at[s] = "loop" /\ n # None
    /\ packets[n] # <<>>
    /\ packets' = [packets EXCEPT ![n] = Tail(@)]
    /\ \/ /\ HasRoom(s)
          /\ out' = [out EXCEPT ![s] = Append(@, n)]
       \/ /\ ~HasRoom(s)
          /\ UNCHANGED out
    /\ UNCHANGED <<at, tries, active, control, heard, video, audio, inHand,
                   pendingIdr, streams, dup, rx, stop, forceKf, history, asks>>

SendersGone(n) == video[n] = "exited" /\ audio[n] \in {"none", "exited"} /\ ~Dropped(n)

\* packets.recv() is None: the threads are gone.
WorkersExited(s) ==
    LET n == active[s] IN
    /\ at[s] = "loop" /\ n # None
    /\ packets[n] = <<>> /\ SendersGone(n)
    /\ DropHandle(n)
    /\ TellStopped(s)
    /\ active' = [active EXCEPT ![s] = None]
    /\ UNCHANGED <<at, tries, out, heard, video, audio, inHand, pendingIdr,
                   streams, dup, forceKf, history, asks>>

-----------------------------------------------------------------------------
(* The threads *)

workersUnchanged == <<sessionVars, streams, dup, rx, stop, asks>>

\* The encoder's flag after a turn without a frame: it is kept, and 30 idle
\* turns set it.  Mutated: the turn uses it up.
IdleLoses(n) == FALSE
IdleKeeps(n) == pendingIdr[n] \/ forceKf[n]

\* The force_keyframe flag is taken over, then a frame is waited for.
NoFrame(n) ==
    /\ video[n] = "loop" /\ ~stop[n]
    /\ forceKf' = [forceKf EXCEPT ![n] = FALSE]
    /\ \E idle \in BOOLEAN :
         pendingIdr' = [pendingIdr EXCEPT ![n] = IdleKeeps(n) \/ idle]
    /\ UNCHANGED <<video, audio, inHand, packets, history, workersUnchanged>>

\* What one turn of an encoder hands out.
Outputs == UNION {[1..c -> {"key", "delta"}] : c \in 0..MaxOut}
HasKey(ps) == \E i \in DOMAIN ps : ps[i] = "key"

\* Its own frame's packet, a key frame if one is due (or the GOP is over).
Prompt(ps, due) == Len(ps) = 1 /\ (due => HasKey(ps))

\* The screen has changed, and the encoder has taken the flag in with the
\* frame.  One that keeps frames back (NEED_MORE_INPUT, pending_inputs) may
\* hand out nothing, or earlier frames' packets; nothing, from NVENC, counts
\* as an idle turn.
Frame(n) ==
    LET due == pendingIdr[n] \/ forceKf[n] IN
    /\ video[n] = "loop" /\ ~stop[n]
    /\ forceKf' = [forceKf EXCEPT ![n] = FALSE]
    /\ \E ps \in Outputs, idle \in BOOLEAN :
         /\ "lag" \in Faults \/ Prompt(ps, due)
         /\ idle => ps = <<>>
         /\ pendingIdr' = [pendingIdr EXCEPT ![n] = idle]
         /\ inHand' = [inHand EXCEPT ![n] = ps]
         /\ video' = [video EXCEPT ![n] = IF ps = <<>> THEN "loop" ELSE "send"]
         /\ asked' = [asked EXCEPT ![n] = @ /\ ~HasKey(ps)]
         /\ kept' = [kept EXCEPT ![n] = (@ \/ due) /\ ~HasKey(ps)]
    /\ UNCHANGED <<audio, packets, workersUnchanged>>

\* The loop returns: the encoder goes with the thread, and what it owed.
ThreadEnds(n) ==
    /\ video' = [video EXCEPT ![n] = "exited"]
    /\ inHand' = [inHand EXCEPT ![n] = <<>>]
    /\ pendingIdr' = [pendingIdr EXCEPT ![n] = FALSE]
    /\ asked' = [asked EXCEPT ![n] = FALSE]
    /\ kept' = [kept EXCEPT ![n] = FALSE]

\* The flag is seen, or capture or encoder fail.
VideoExits(n) ==
    /\ video[n] = "loop"
    /\ stop[n] \/ "capture" \in Faults
    /\ ThreadEnds(n)
    /\ UNCHANGED <<audio, packets, forceKf, workersUnchanged>>

\* blocking_send, packet by packet: waits for room, fails when the receiver is
\* gone.
VideoSends(n) ==
    /\ video[n] = "send"
    /\ \/ /\ rx[n] /\ Len(packets[n]) < Cap
          /\ packets' = [packets EXCEPT ![n] = Append(@, Head(inHand[n]))]
          /\ inHand' = [inHand EXCEPT ![n] = Tail(@)]
          /\ video' = [video EXCEPT ![n] =
                          IF Tail(inHand[n]) = <<>> THEN "loop" ELSE "send"]
          /\ UNCHANGED <<pendingIdr, history>>
       \/ /\ ~rx[n]
          /\ ThreadEnds(n)
          /\ UNCHANGED packets
    /\ UNCHANGED <<audio, forceKf, workersUnchanged>>

\* 20 ms of sound are there and encoded.
Sound(n) ==
    /\ audio[n] = "loop" /\ ~stop[n]
    /\ audio' = [audio EXCEPT ![n] = "send"]
    /\ UNCHANGED <<video, inHand, packets, pendingIdr, forceKf, history, workersUnchanged>>

AudioExits(n) ==
    /\ audio[n] = "loop"
    /\ stop[n] \/ "audio" \in Faults
    /\ audio' = [audio EXCEPT ![n] = "exited"]
    /\ UNCHANGED <<video, inHand, packets, pendingIdr, forceKf, history, workersUnchanged>>

AudioSends(n) ==
    /\ audio[n] = "send"
    /\ \/ /\ rx[n] /\ Len(packets[n]) < Cap
          /\ packets' = [packets EXCEPT ![n] = Append(@, "audio")]
          /\ audio' = [audio EXCEPT ![n] = "loop"]
       \/ /\ ~rx[n]
          /\ audio' = [audio EXCEPT ![n] = "exited"]
          /\ UNCHANGED packets
    /\ UNCHANGED <<video, inHand, pendingIdr, forceKf, history, workersUnchanged>>

\* Windows has released the duplication of a thread that is gone.
Release ==
    /\ dup # None /\ video[dup] = "exited"
    /\ dup' = None
    /\ UNCHANGED <<sessionVars, threadVars, streams, rx, stop, forceKf, history, asks>>

-----------------------------------------------------------------------------
(* The way to the phone *)

DeliverControl(s) ==
    /\ control[s] # <<>>
    /\ control' = [control EXCEPT ![s] = Tail(@)]
    /\ heard' = IF Head(control[s]).kind = "started"
                THEN [heard EXCEPT ![s] = @ \cup {Head(control[s]).stream}]
                ELSE heard
    /\ UNCHANGED <<at, tries, active, out, threadVars, streams, dup, rx,
                   stop, forceKf, history, asks>>

\* `biased` on the LAN: a packet goes when no control message waits.
\* Mutated: the select is fair.
EitherFirst(s)  == TRUE
ControlFirst(s) == s \in Relayed \/ control[s] = <<>>

DeliverPacket(s) ==
    /\ out[s] # <<>> /\ ControlFirst(s)
    /\ out' = [out EXCEPT ![s] = Tail(@)]
    /\ UNCHANGED <<at, tries, active, control, heard, threadVars, streams,
                   dup, rx, stop, forceKf, history, asks>>

-----------------------------------------------------------------------------
Starting(s) == CaptureBusy(s) \/ NoEncoder(s) \/ StartStream(s)

Packets(s) == Forward(s) \/ WorkersExited(s)

VideoThread(n) == NoFrame(n) \/ Frame(n) \/ VideoExits(n) \/ VideoSends(n)
AudioThread(n) == Sound(n) \/ AudioExits(n) \/ AudioSends(n)

Next ==
    \/ \E s \in Sessions :
         \/ Request(s) \/ Starting(s) \/ StreamStop(s) \/ KeyframeRequest(s)
         \/ PeerGone(s) \/ Packets(s) \/ DeliverControl(s) \/ DeliverPacket(s)
    \/ \E n \in Stream : VideoThread(n) \/ AudioThread(n)
    \/ Release

Spec == Init /\ [][Next]_vars

\* Threads and tasks run; sound goes on as long as the audio thread does; the
\* screen may stay as it is.
FairSpec ==
    /\ Spec
    /\ \A s \in Sessions :
         /\ WF_vars(Starting(s)) /\ SF_vars(Packets(s))
         /\ WF_vars(DeliverControl(s)) /\ WF_vars(DeliverPacket(s))
    /\ \A n \in Stream :
         /\ WF_vars(stop[n] /\ VideoExits(n)) /\ WF_vars(stop[n] /\ AudioExits(n))
         /\ SF_vars(VideoSends(n)) /\ SF_vars(AudioSends(n)) /\ WF_vars(Sound(n))
    /\ WF_vars(Release)

-----------------------------------------------------------------------------
(* Properties *)

\* Every variable stays in its domain, and the queues keep their caps.
TypeOK ==
    /\ at \in [Sessions -> {"loop", "starting", "back"}]
    /\ tries \in [Sessions -> 0..Attempts]
    /\ active \in [Sessions -> Stream \cup {None}]
    /\ control \in [Sessions -> Seq([kind : {"started", "stopped"}, stream : Stream])]
    /\ out \in [Sessions -> Seq(Stream)] /\ \A s \in Sessions : Len(out[s]) <= VideoCap
    /\ heard \in [Sessions -> SUBSET Stream]
    /\ streams \in 0..MaxStream /\ dup \in Stream \cup {None} /\ asks \in 0..MaxAsk
    /\ video \in [Stream -> {"none", "loop", "send", "exited"}]
    /\ audio \in [Stream -> {"none", "loop", "send", "exited"}]
    /\ inHand \in [Stream -> Seq({"key", "delta"})]
    /\ packets \in [Stream -> Seq({"key", "delta", "audio"})]
    /\ \A n \in Stream : Len(packets[n]) <= Cap
    /\ rx \in [Stream -> BOOLEAN] /\ stop \in [Stream -> BOOLEAN]
    /\ forceKf \in [Stream -> BOOLEAN] /\ pendingIdr \in [Stream -> BOOLEAN]
    /\ asked \in [Stream -> BOOLEAN] /\ kept \in [Stream -> BOOLEAN]

\* No key frame that is due is forgotten on its way to the encoder, neither a
\* stream's first nor a requested one: the threads hand it over from flag to
\* flag, over turns in which the screen does not change (stream.rs:413-432,
\* nvenc_sdk.rs:344, 411), until a frame takes it in.  From there it is the
\* encoder's: the flag is cleared whether or not a packet comes out
\* (nvenc_sdk.rs:411-428, nvenc_mft.rs:308-318, mf_h264.rs:208-222), and for a
\* frame that is kept back nobody asks again but the phone, or 30 idle turns.
KeyframeNotLost ==
    \A n \in Stream :
        asked[n] /\ video[n] = "loop" => forceKf[n] \/ pendingIdr[n] \/ kept[n]

\* A stream nobody receives any more ends: its threads leave their loops and
\* their blocking_send, and the screen can be captured again (stream.rs:98-112,
\* connection.rs:391-393).
ScreenIsFreed ==
    \A n \in Stream :
        (video[n] # "none" /\ \A s \in Sessions : active[s] # n)
            ~> (video[n] = "exited" /\ audio[n] \in {"none", "exited"} /\ dup # n)

\* When the threads of a stream are gone of their own accord, the session
\* notices, tells the phone, and the phone may ask for a new stream
\* (connection.rs:300-311).  A failed video thread is not enough as long as
\* the audio thread holds its sender.
FailureEndsStream ==
    \A s \in Sessions : \A n \in Stream :
        (/\ active[s] = n /\ video[n] = "exited"
         /\ audio[n] \in {"none", "exited"}) ~> (active[s] # n)

\* On the LAN no packet of a stream reaches the phone before the stream's
\* StreamStarted (docs/PROTOCOL.md:256-258, the life of a stream;
\* ws_server.rs:124-136).  Behind the relay it may: its host reader puts text
\* in the queue that the writer polls last (main.rs:666-693).
AnnouncedFirst ==
    [][\A s \in Sessions \ Relayed :
         DeliverPacket(s) => Head(out[s]) \in heard[s]]_vars

=============================================================================
