----------------------------- MODULE MftEncoder -----------------------------
(***************************************************************************)
(* NVENC behind an asynchronous Media Foundation transform: the stream's   *)
(* thread queues each captured frame in pending_inputs and then polls the  *)
(* transform's events, which ask for input and offer output                *)
(* (nvenc_mft.rs).  encode and force_keyframe are the only calls the       *)
(* stream's loop makes, one after the other, and only when a frame was     *)
(* captured (stream.rs).                                                   *)
(*                                                                         *)
(* The transform is not part of the program.  It holds at most Depth       *)
(* frames and unanswered requests, asks whenever it likes, once for each   *)
(* frame, and returns its frames in an order of its own (B frames).        *)
(***************************************************************************)
EXTENDS Naturals, Sequences, FiniteSets, SequencesExt

CONSTANTS
    MaxFrame,  \* bound: frames captured
    Depth      \* what the transform asks for ahead

ASSUME EncoderAssumption == MaxFrame \in Nat /\ Depth \in Nat \ {0}

Frame == 1..MaxFrame

VARIABLES
    frames,   \* frames captured
    key,      \* pending_keyframe
    clean,    \* frames marked as CleanPoint
    waiting,  \* pending_inputs
    polling,  \* encode is in drain_events
    events,   \* the transform's events: "need" or "have"
    owed,     \* transform: requests it has not got a frame for
    inside,   \* transform: frames it works on
    ready,    \* transform: packets it has announced
    packets,  \* packets sent
    forced,   \* history: what should be key frames
    early,    \* history: requests to be read that are older than the call
    hasty     \* history: one made while encode polled was read in vain

callVars      == <<frames, key, clean, forced>>
transformVars == <<events, owed, inside, ready>>
requestVars   == <<early, hasty>>
vars == <<callVars, waiting, polling, transformVars, packets, requestVars>>

Init ==
    /\ frames = 0 /\ key = TRUE /\ clean = {} /\ forced = {1}
    /\ waiting = <<>> /\ polling = FALSE
    /\ events = <<>> /\ owed = 0 /\ inside = {} /\ ready = {}
    /\ packets = {} /\ early = 0 /\ hasty = FALSE

Count(kind) == Cardinality({i \in 1..Len(events) : events[i] = kind})

-----------------------------------------------------------------------------
(* The transform *)

Ask ==
    /\ owed + Cardinality(inside) < Depth
    /\ owed' = owed + 1
    /\ events' = Append(events, "need")
    /\ UNCHANGED <<callVars, waiting, polling, inside, ready, packets, requestVars>>

Produce ==
    \E n \in inside :
        /\ inside' = inside \ {n}
        /\ ready' = ready \union {n}
        /\ events' = Append(events, "have")
        /\ UNCHANGED <<callVars, waiting, polling, owed, packets, requestVars>>

-----------------------------------------------------------------------------
(* The stream's thread *)

\* What encode leaves of pending_keyframe.  Mutated: it stays.
Kept == key
Used == FALSE

\* encode: the frame is queued, then the events are polled.
Encode ==
    /\ ~polling /\ frames < MaxFrame
    /\ frames' = frames + 1
    /\ clean' = IF key THEN clean \union {frames + 1} ELSE clean
    /\ key' = Used
    /\ waiting' = Append(waiting, frames + 1)
    /\ polling' = TRUE
    /\ early' = Count("need")
    /\ UNCHANGED <<forced, transformVars, packets, hasty>>

\* force_keyframe.
ForceKeyframe ==
    /\ ~polling /\ frames < MaxFrame
    /\ key' = TRUE
    /\ forced' = forced \union {frames + 1}
    /\ UNCHANGED <<frames, clean, waiting, polling, transformVars, packets, requestVars>>

\* What a request is answered with: the oldest frame, if any.  Mutated: all
\* the frames; the oldest of several.
AllWaiting == waiting
LastStays  == IF Len(waiting) < 2 THEN <<>> ELSE SubSeq(waiting, 1, 1)
Fed        == IF waiting = <<>> THEN <<>> ELSE SubSeq(waiting, 1, 1)

\* METransformNeedInput.  Without a frame the request is dropped.
NeedInput ==
    /\ polling /\ events # <<>> /\ Head(events) = "need"
    /\ events' = Tail(events)
    /\ waiting' = SubSeq(waiting, Len(Fed) + 1, Len(waiting))
    /\ inside' = inside \union Range(Fed)
    /\ owed' = IF Len(Fed) > owed THEN 0 ELSE owed - Len(Fed)
    /\ early' = IF early > 0 THEN early - 1 ELSE 0
    /\ hasty' = (hasty \/ (early = 0 /\ waiting = <<>>))
    /\ UNCHANGED <<callVars, polling, ready, packets>>

\* METransformHaveOutput: process_one_output.  Mutated: the packet stays.
Peek(n)    == UNCHANGED ready
TakeOut(n) == ready' = ready \ {n}
HaveOutput ==
    /\ polling /\ events # <<>> /\ Head(events) = "have"
    /\ events' = Tail(events)
    /\ \E n \in ready :
          TakeOut(n) /\ packets' = packets \union {n}
    /\ UNCHANGED <<callVars, waiting, polling, owed, inside, requestVars>>

\* MF_E_NO_EVENTS_AVAILABLE: encode returns.
NoEvents ==
    /\ polling /\ events = <<>>
    /\ polling' = FALSE
    /\ UNCHANGED <<callVars, waiting, transformVars, packets, requestVars>>

-----------------------------------------------------------------------------
Next ==
    \/ Ask \/ Produce
    \/ Encode \/ ForceKeyframe \/ NeedInput \/ HaveOutput \/ NoEvents

Spec == Init /\ [][Next]_vars

-----------------------------------------------------------------------------
(* Properties *)

\* Type correctness; every captured frame is in one place, and an output is
\* fetched once for each time it is announced.
TypeOK ==
    /\ frames \in 0..MaxFrame /\ key \in BOOLEAN /\ polling \in BOOLEAN
    /\ clean \subseteq Frame /\ forced \subseteq 1..(MaxFrame + 1)
    /\ early \in Nat /\ hasty \in BOOLEAN
    /\ waiting \in Seq(Frame)
    /\ \A i \in 1..Len(events) : events[i] \in {"need", "have"}
    /\ Cardinality(ready) = Count("have")
    /\ Len(waiting) + Cardinality(inside) + Cardinality(ready)
         + Cardinality(packets) = frames

\* ProcessInput is called only for a request: the transform never gets a
\* frame it has no room for (drain_events would fail and end the stream).
NeverOverfed ==
    owed + Cardinality(inside) <= Depth /\ Count("need") <= owed

\* However force_keyframe, captures and the transform interleave, the frames
\* marked are the first one and those that follow a force_keyframe.
MarkedAsAsked == clean = forced \intersect (1..frames)

\* Between two calls the transform does not wait for the frame that
\* pending_inputs holds for it, with no event left that would bring them
\* together ("pulling queued frames into the encoder when it asks",
\* nvenc_mft.rs:17-20), although drain_events forgets the requests that find
\* no frame (nvenc_mft.rs:221): there is always one it has still to read.
\* Only a request that comes while encode polls, and is forgotten in that very
\* call, refutes it: nobody asks again.
NeverStarved ==
    ~polling /\ waiting # <<>> /\ owed = Depth => Count("need") > 0 \/ hasty
=============================================================================
