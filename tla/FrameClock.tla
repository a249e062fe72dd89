----------------------------- MODULE FrameClock -----------------------------
(***************************************************************************)
(* When a decoded frame is shown: VideoPlayer with the output half of the  *)
(* codec.  The callbacks of the two MediaCodecs run on the phone's main    *)
(* looper.  The one of OpusPlayer publishes in AvSyncClock when the audio  *)
(* is audible; the one of H264Player fits its clock to that and shows each *)
(* frame, at once or through a Handler with a thread of its own.           *)
(*                                                                         *)
(* Time is in ticks.  Of an audio reference, a wall clock time and a pts,  *)
(* only the difference is ever used: that is its origin here.  What the    *)
(* audio device says is any member of Origins, and so is what an audio     *)
(* player of the stream before left in AvSyncClock: it may publish after   *)
(* handleStreamStarted's reset, from another thread.  The server's clock   *)
(* counts from the phone's 0: a frame comes no earlier than its pts.       *)
(***************************************************************************)
EXTENDS VideoPlayer, Integers, FiniteSets

CONSTANTS
    MaxTime,   \* bound: ticks in which frames come
    Period,    \* ticks from one frame's pts to the next
    Origins,   \* origins the audio device may report
    MaxAudio,  \* bound: times the audio publishes
    Startup,   \* standaloneStartupLatencyNs
    MaxDelay,  \* maxRenderDelayMs
    Slack,     \* the drift that re-anchors (30 ms)
    Grain,     \* the shift that is published again (5 ms)
    None       \* no origin yet

ASSUME ClockAssumption ==
    /\ MaxTime \in Nat /\ Period \in Nat \ {0}
    /\ Origins \subseteq Int /\ MaxAudio \in Nat /\ Startup \in Nat
    /\ MaxDelay \in Nat /\ Slack \in Nat /\ Grain \in Nat \ {0}

Pts(n) == n * Period

VARIABLES
    now,
    reference,   \* AvSyncClock: the origin published, or None
    published,   \* times the audio of this stream has published
    refined,     \* lastRefinedFrame0WallNs, as an origin, or None
    origin,      \* clockOriginNs, or None
    decoded,     \* how many frames came out of this codec
    posted,      \* frames the handler holds, with when they are due
    shown        \* frames this codec released to the surface, in that order

audioVars == <<reference, published, refined>>
clockVars == <<now, audioVars, origin, decoded, posted, shown>>

ClockInit ==
    /\ Init
    /\ now = 0
    /\ reference \in Origins \union {None} /\ published = 0 /\ refined = None
    /\ origin = None /\ decoded = 0 /\ posted = {} /\ shown = <<>>

Distance(a, b) == IF a < b THEN b - a ELSE a - b
AtMost(a, b) == IF a < b THEN a ELSE b

-----------------------------------------------------------------------------
(* OpusPlayer *)

audioUnchanged == <<vars, now, origin, decoded, posted, shown>>

\* onOutputBufferAvailable of the first sample: a guess.
Seed ==
    /\ published = 0 /\ MaxAudio > 0
    /\ published' = 1
    /\ reference' \in Origins
    /\ UNCHANGED <<refined, audioUnchanged>>

\* tryRefineAudioRef, on every later sample.
Refine ==
    /\ published \in 1..(MaxAudio - 1)
    /\ \E o \in Origins :
          /\ refined # None => Distance(o, refined) >= Grain
          /\ reference' = o /\ refined' = o
    /\ published' = published + 1
    /\ UNCHANGED audioUnchanged

-----------------------------------------------------------------------------
(* H264Player *)

\* When a new reference is worth a jump.  Mutated: the sign of the drift counts.
Ahead(o)  == reference - o > Slack
Drifts(o) == Distance(reference, o) > Slack

\* The origin by which a frame is shown.
Anchor(n) ==
    IF origin = None
    THEN IF reference = None THEN now - Pts(n) + Startup ELSE reference
    ELSE IF reference # None /\ Drifts(origin) THEN reference ELSE origin

Due(n, o) == now + AtMost(o + Pts(n) - now, MaxDelay)

\* onOutputBufferAvailable.
Output ==
    /\ codec /\ decoded < Len(input)
    /\ decoded' = decoded + 1
    /\ LET n == input[decoded + 1]
       IN  /\ origin' = Anchor(n)
           /\ \/ /\ origin' + Pts(n) > now
                 /\ posted' = posted \union {[frame |-> n, due |-> Due(n, origin')]}
                 /\ UNCHANGED shown
              \/ /\ origin' + Pts(n) <= now
                 /\ shown' = Append(shown, n)
                 /\ UNCHANGED posted
    /\ UNCHANGED <<vars, now, audioVars>>

\* The handler's queue is by time, then by when it was posted.
Earlier(p, q) == p.due < q.due \/ (p.due = q.due /\ p.frame < q.frame)

\* Mutated: a message that was due before.
WasDue(p)  == p.due < now /\ \A q \in posted \ {p} : Earlier(p, q)
NextDue(p) == p.due <= now /\ \A q \in posted \ {p} : Earlier(p, q)

\* The delayed releaseOutputBuffer, on the render thread.
Show ==
    \E p \in posted :
        /\ NextDue(p)
        /\ posted' = posted \ {p}
        /\ shown' = Append(shown, p.frame)
        /\ UNCHANGED <<vars, now, audioVars, origin, decoded>>

\* What stop forgets beside the frames.  Mutated: the handler keeps its posts.
KeepPosts == UNCHANGED posted
Unpost    == posted' = {}

\* Where VideoPlayer's steps touch the clock: a codec that ends takes the
\* handler's posts with it, start clears the origin.
PlayerStep ==
    /\ Feed \/ InputBufferAvailable \/ Decode \/ Collect
    /\ UNCHANGED clockVars

FrameComes ==
    /\ Emit /\ now >= Pts(emitted + 1)
    /\ UNCHANGED clockVars

CodecStarts ==
    /\ SurfaceTextureAvailable
    /\ origin' = None /\ decoded' = 0 /\ shown' = <<>>
    /\ UNCHANGED <<now, audioVars, posted>>

CodecEnds ==
    /\ SurfaceTextureDestroyed \/ Dispose
    /\ IF codec THEN Unpost ELSE UNCHANGED posted
    /\ UNCHANGED <<now, audioVars, origin, decoded, shown>>

\* The render thread is on time: no tick passes over a message that is due.
Tick ==
    /\ now < MaxTime \/ posted # {}
    /\ \A p \in posted : p.due > now
    /\ now' = now + 1
    /\ UNCHANGED <<vars, audioVars, origin, decoded, posted, shown>>

-----------------------------------------------------------------------------
ClockNext ==
    \/ Seed \/ Refine \/ Output \/ Show \/ Tick
    \/ PlayerStep \/ FrameComes \/ CodecStarts \/ CodecEnds

ClockSpec == ClockInit /\ [][ClockNext]_<<vars, clockVars>>

\* The looper, the codec and the render thread run, and time passes.
FairClock ==
    /\ ClockSpec
    /\ WF_<<vars, clockVars>>(InputBufferAvailable /\ UNCHANGED clockVars)
    /\ WF_<<vars, clockVars>>(Decode /\ UNCHANGED clockVars)
    /\ WF_<<vars, clockVars>>(Output) /\ WF_<<vars, clockVars>>(Show)
    /\ WF_<<vars, clockVars>>(Tick)

-----------------------------------------------------------------------------
(* Properties *)

\* When the audio of the time of the frame that comes out next is heard.
Heard == reference + Pts(input[decoded + 1])

\* "Treat audio as the master clock": whatever reference a frame finds, and
\* whatever origin the player had before, the frame is shown when the audio of
\* its time is heard, give or take the slack; but no later than the delay a
\* codec's buffers allow, nor in the past.
InSync ==
    [][Output /\ reference # None =>
          /\ \A p \in posted' \ posted :
                /\ p.due <= Heard + Slack
                /\ p.due >= AtMost(Heard - Slack, now + MaxDelay)
          /\ shown' # shown => Heard - Slack <= now]_<<vars, clockVars>>

\* A frame that waits for its time is of the codec that runs, and that codec
\* gets the buffer back once: no frame is posted twice nor posted and shown,
\* and none of an older codec is left in the handler.
PostedOnce ==
    /\ posted # {} => codec
    /\ \A p \in posted : p.frame \notin Range(shown)
    /\ Cardinality(posted) + Len(shown) = decoded \/ ~codec

\* Whatever is kept for a codec comes to the screen, unless the codec ends
\* before: feed and onInputBufferAvailable leave no frame in pendingFrames
\* beside a free buffer, and however the clock delays a frame, none stays in
\* the handler.
EveryFrameShown ==
    (codec /\ Len(shown) < Len(input \o pending))
        ~> (~codec \/ Len(shown) = Len(input \o pending))

\* The comment of the re-anchoring: "a couple frames render slightly fast or
\* slow".
ShownInOrder == Rises(shown)

\* The comment of handleStreamStarted: a stale reference does not anchor the
\* new stream.
OwnAudio == published = 0 => origin = None \/ reference = None

\* The comment of tryRefineAudioRef: once it has published,
\* "publishAudioStart locks the value so subsequent calls here are no-ops".
RefinedOnce == [][refined # None => reference' = reference]_<<vars, clockVars>>
=============================================================================
