---------------------------- MODULE VideoPlayer ----------------------------
(***************************************************************************)
(* The way of the video frames of one stream through the phone: okhttp's   *)
(* reader thread emits them into a SharedFlow (ConnectionClient.kt), the   *)
(* composable of the stream collects them (StreamSurface.kt) and feeds     *)
(* them to an H264Player, which hands them to a MediaCodec.                *)
(*                                                                         *)
(* The collector, the surface's listener and the codec's callbacks all run *)
(* on the main looper, so that each is one step and H264Player's lock is   *)
(* never waited for.  A frame is its number; those in Keys are IDR frames. *)
(* Of the codec there are its input buffers: an empty one is announced by  *)
(* onInputBufferAvailable, a filled one is emptied by decoding.  What      *)
(* comes out of it is the module FrameClock's.                             *)
(***************************************************************************)
EXTENDS Naturals, Sequences, SequencesExt

CONSTANTS
    MaxFrame,    \* bound: frames of the stream
    Keys,        \* the IDR frames among them
    FlowCap,     \* extraBufferCapacity of _frames (32)
    PendingCap,  \* what pendingFrames keeps (32)
    MaxInput,    \* input buffers of a codec
    MaxSurface,  \* bound: times a surface becomes available
    Faults       \* bound: what fails: "codec"

ASSUME VideoAssumption ==
    /\ MaxFrame \in Nat /\ Keys \subseteq 1..MaxFrame
    /\ FlowCap \in Nat \ {0} /\ PendingCap \in Nat \ {0}
    /\ MaxInput \in Nat \ {0} /\ MaxSurface \in Nat

Frame == 1..MaxFrame

VARIABLES
    emitted,      \* frames the reader has emitted
    collector,    \* the LaunchedEffect: "none", "collecting" or "cancelled"
    flow,         \* the SharedFlow's buffer for it
    dropped,      \* frames that a full buffer pushed out (history)
    surface,      \* the TextureView has its SurfaceTexture
    surfaces,     \* times it got one
    codec,        \* codec # null
    sawKeyframe,
    pending,      \* pendingFrames
    available,    \* the number of availableInputIndices
    empty,        \* empty input buffers the codec has not announced yet
    input,        \* the frames the codec was given since it was started
    threads,      \* render threads that run
    handler       \* renderThread # null

flowVars   == <<emitted, collector, flow>>
feedVars   == <<flowVars, dropped>>
viewVars   == <<surface, surfaces>>
threadVars == <<threads, handler>>
vars == <<feedVars, viewVars, codec, sawKeyframe, pending, available, empty,
          input, threadVars>>

Init ==
    /\ emitted = 0 /\ collector = "none" /\ flow = <<>> /\ dropped = {}
    /\ surface = FALSE /\ surfaces = 0
    /\ codec = FALSE /\ sawKeyframe = FALSE
    /\ pending = <<>> /\ available = 0 /\ empty = 0 /\ input = <<>>
    /\ threads = 0 /\ handler = FALSE

\* A buffer of size cap that drops its oldest element.
Push(s, e, cap) == IF Len(s) < cap THEN Append(s, e) ELSE Append(Tail(s), e)
PushedOut(s, cap) == IF Len(s) < cap THEN {} ELSE {Head(s)}

-----------------------------------------------------------------------------
(* The flow *)

playerUnchanged == <<viewVars, codec, sawKeyframe, pending, available, empty,
                     input, threadVars>>

\* onMessage of a video frame.  Without replay, what is emitted while nobody
\* collects is gone.
Emit ==
    /\ emitted < MaxFrame
    /\ emitted' = emitted + 1
    /\ IF collector = "collecting"
       THEN /\ flow' = Push(flow, emitted + 1, FlowCap)
            /\ dropped' = dropped \cup PushedOut(flow, FlowCap)
       ELSE UNCHANGED <<flow, dropped>>
    /\ UNCHANGED <<collector, playerUnchanged>>

Collect ==
    /\ collector = "none"
    /\ collector' = "collecting"
    /\ UNCHANGED <<emitted, flow, dropped, playerUnchanged>>

-----------------------------------------------------------------------------
(* H264Player *)

\* feed looks for the first IDR frame only.  Mutated: it takes any frame.
AnyFrame(n) == TRUE
Wanted(n)   == sawKeyframe \/ n \in Keys

Queue(n) ==
    /\ pending' = Push(pending, n, PendingCap)
    /\ dropped' = dropped \cup PushedOut(pending, PendingCap)
    /\ UNCHANGED <<available, input>>

Submit(n) == input' = Append(input, n)

\* The collector has a frame: feed.
Feed ==
    /\ collector = "collecting" /\ flow # <<>>
    /\ flow' = Tail(flow)
    /\ LET n == Head(flow)
       IN  \/ /\ ~Wanted(n)
              /\ UNCHANGED <<dropped, sawKeyframe, pending, available, input>>
           \/ /\ Wanted(n)
              /\ sawKeyframe' = TRUE
              /\ \/ ~codec /\ Queue(n)
                 \/ codec /\ available = 0 /\ Queue(n)
                 \/ /\ codec /\ available > 0
                    /\ available' = available - 1
                    /\ Submit(n) /\ UNCHANGED <<dropped, pending>>
    /\ UNCHANGED <<emitted, collector, viewVars, codec, empty, threadVars>>

\* What a new input buffer is for.  Mutated: it is put by; it waits for a feed.
PutBy ==
    available' = available + 1 /\ UNCHANGED <<pending, input>>
TakePending ==
    IF pending = <<>>
    THEN available' = available + 1 /\ UNCHANGED <<pending, input>>
    ELSE pending' = Tail(pending) /\ Submit(Head(pending)) /\ UNCHANGED available

\* onInputBufferAvailable.
InputBufferAvailable ==
    /\ codec /\ empty > 0
    /\ empty' = empty - 1
    /\ TakePending
    /\ UNCHANGED <<feedVars, viewVars, codec, sawKeyframe, threadVars>>

\* The codec has decoded the frame of an input buffer.
Decode ==
    /\ codec /\ empty + available < MaxInput
    /\ empty' = empty + 1
    /\ UNCHANGED <<feedVars, viewVars, codec, sawKeyframe, pending, available,
                   input, threadVars>>

\* What stop forgets of the frames.  Mutated: the first IDR frame stays seen;
\* the indices stay.
StillSeen ==
    sawKeyframe' = sawKeyframe /\ available' = 0 /\ pending' = <<>>
KeepIndices ==
    sawKeyframe' = FALSE /\ available' = available /\ pending' = <<>>
Forget ==
    sawKeyframe' = FALSE /\ available' = 0 /\ pending' = <<>>

\* stop: nothing without a codec.
Stop ==
    \/ /\ ~codec
       /\ UNCHANGED <<codec, sawKeyframe, pending, available, empty, input,
                      threadVars>>
    \/ /\ codec
       /\ codec' = FALSE
       /\ Forget
       /\ empty' = 0 /\ input' = <<>>
       /\ threads' = threads - 1 /\ handler' = FALSE

\* What start does to sawKeyframe.  Mutated: it resets it.
ResetSeen == sawKeyframe' = FALSE
LeaveSeen == sawKeyframe' = sawKeyframe

\* start: its stop finds no codec, for the surface's end has stopped it.
\* Then the render thread, then the codec, which may fail to configure twice.
Start ==
    /\ ~codec
    /\ threads' = threads + 1 /\ handler' = TRUE
    /\ \/ /\ codec' = TRUE /\ empty' = MaxInput
          /\ LeaveSeen
       \/ /\ "codec" \in Faults
          /\ UNCHANGED <<codec, sawKeyframe, empty>>
    /\ UNCHANGED <<pending, available, input>>

-----------------------------------------------------------------------------
(* StreamSurface *)

SurfaceTextureAvailable ==
    /\ collector # "cancelled"
    /\ ~surface /\ surfaces < MaxSurface
    /\ surface' = TRUE /\ surfaces' = surfaces + 1
    /\ Start
    /\ UNCHANGED feedVars

SurfaceTextureDestroyed ==
    /\ surface
    /\ surface' = FALSE
    /\ Stop
    /\ UNCHANGED <<feedVars, surfaces>>

\* The stream is over: its composable leaves.
Dispose ==
    /\ collector = "collecting"
    /\ collector' = "cancelled" /\ flow' = <<>>
    /\ Stop
    /\ UNCHANGED <<emitted, dropped, viewVars>>

-----------------------------------------------------------------------------
Next ==
    \/ Emit \/ Collect \/ Feed
    \/ InputBufferAvailable \/ Decode
    \/ SurfaceTextureAvailable \/ SurfaceTextureDestroyed \/ Dispose

Spec == Init /\ [][Next]_vars

\* The looper runs what is posted to it, and the codec decodes.
Fairness ==
    /\ WF_vars(Feed) /\ WF_vars(InputBufferAvailable) /\ WF_vars(Decode)

FairSpec == Spec /\ Fairness

-----------------------------------------------------------------------------
(* Properties *)

\* Type correctness; the input buffers are the codec's, announced or filled.
TypeOK ==
    /\ emitted \in 0..MaxFrame
    /\ collector \in {"none", "collecting", "cancelled"}
    /\ flow \in Seq(Frame) /\ Len(flow) <= FlowCap /\ dropped \subseteq Frame
    /\ surface \in BOOLEAN /\ surfaces \in 0..MaxSurface
    /\ codec \in BOOLEAN /\ sawKeyframe \in BOOLEAN
    /\ pending \in Seq(Frame) /\ Len(pending) <= PendingCap
    /\ available \in Nat /\ empty \in Nat
    /\ empty + available <= (IF codec THEN MaxInput ELSE 0)
    /\ input \in Seq(Frame)
    /\ threads \in 0..MaxSurface /\ handler \in BOOLEAN

Rises(s) == \A i \in 1..(Len(s) - 1) : s[i] < s[i + 1]

\* However the feeds, the codec's callbacks and the drops interleave, the
\* codec gets the frames in the order of the stream, each once: feed and
\* onInputBufferAvailable draw from the same queue.
InOrder == Rises(input \o pending \o flow)

\* No frame waits in pendingFrames for an input buffer that waits in
\* availableInputIndices (feed, onInputBufferAvailable, stop).
NobodyWaits == ~(available > 0 /\ pending # <<>>)

\* "Frames before the first IDR are dropped (decoder needs SPS/PPS+IDR to
\* start)": the first frame a codec is given is an IDR frame, or the full
\* pendingFrames pushed out the one before it.
StartsWithIdr ==
    input # <<>> => Head(input) \in Keys \/ Head(input) - 1 \in dropped

\* From the first IDR frame on the codec gets the frames of the stream in their
\* order, each once, and nothing is skipped but what a full buffer pushed out:
\* what was queued before start is followed by what is fed after.
Gapless ==
    LET given == input \o pending
    IN  /\ InOrder
        /\ \A i \in 1..(Len(given) - 1) : (given[i] + 1)..(given[i + 1] - 1) \subseteq dropped

\* A codec is given a stream it can decode: an IDR frame first, then what
\* follows it, whichever of feed and onInputBufferAvailable gives it, whatever
\* comes before the surface, between two surfaces or after a codec that failed.
Decodable == StartsWithIdr /\ Gapless

\* While a codec runs, what is queued for it does not stay queued.
PlayerCatchesUp == (codec /\ pending # <<>>) ~> (~codec \/ pending = <<>>)

\* The comment in feed: "`stop()` ran. Drop the frame in that case."
AfterStopDropped ==
    [][surfaces > 0 /\ ~surface /\ ~codec => Len(pending') <= Len(pending)]_vars

\* The comment of _frames: its buffer holds "a full IDR + a few P-frames for
\* the brief window between `streamStarted` arriving [...] and the actual
\* `frames.collect` LaunchedEffect starting up".
WindowBridged ==
    collector = "collecting" /\ surfaces = 0 /\ emitted \in 1..FlowCap
        => 1 \in Range(flow \o pending)

\* The comment of renderThread: it is "recreated per `start()` so we don't
\* leak it across stream sessions".
OneRenderThread == threads = (IF handler THEN 1 ELSE 0)
=============================================================================
