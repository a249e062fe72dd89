-------------------------- MODULE FrameClock_proofs --------------------------
(***************************************************************************)
(* The safety of the phone's video player, for any number of frames,       *)
(* surfaces, input buffers and any capacity of the two queues: a codec is  *)
(* given a stream it can decode (Decodable), it gets each output buffer    *)
(* back once (PostedOnce), and a frame is shown with the audio of its time *)
(* (InSync).                                                               *)
(*                                                                         *)
(* Decodable says what follows what in the codec's input and the frames    *)
(* that wait for it.  That is not inductive, since the queues drop their   *)
(* oldest frames.  What is: the frames that are anywhere, in the input, in *)
(* pendingFrames or in the flow, rise from one to the next queue, and each *)
(* frame between two of them that is nowhere was dropped.                  *)
(***************************************************************************)
EXTENDS FrameClock, SequenceTheorems, FiniteSetTheorems, TLAPS

-----------------------------------------------------------------------------
(* Rising sequences *)

\* A sequence whose elements rise, from any to any later one.
Up(s) == \A i, j \in 1..Len(s) : i < j => s[i] < s[j]

\* The elements of one sequence come before those of another.
Below(s, t) == \A a \in Range(s), b \in Range(t) : a < b

\* A queue that grows.
LEMMA Appended ==
    ASSUME NEW S, NEW q \in Seq(S), NEW e \in S
    PROVE  /\ Append(q, e) \in Seq(S)
           /\ Len(Append(q, e)) = Len(q) + 1 /\ Len(q) \in Nat
           /\ Append(q, e)[Len(q) + 1] = e
           /\ \A i \in 1..Len(q) : Append(q, e)[i] = q[i]
           /\ Range(Append(q, e)) = Range(q) \union {e}
           /\ Append(q, e) # <<>>
           /\ Head(Append(q, e)) = IF q = <<>> THEN e ELSE Head(q)
<1>1. /\ Append(q, e) \in Seq(S)
      /\ Len(Append(q, e)) = Len(q) + 1 /\ Len(q) \in Nat
      /\ Append(q, e)[Len(q) + 1] = e
      /\ \A i \in 1..Len(q) : Append(q, e)[i] = q[i]
  BY AppendProperties
<1>2. Range(Append(q, e)) = {Append(q, e)[i] : i \in 1..Len(q) + 1}
  BY <1>1, RangeEquality
<1>3. Range(q) = {q[i] : i \in 1..Len(q)}
  BY RangeEquality
<1>4. Range(Append(q, e)) = Range(q) \union {e}
  BY <1>1, <1>2, <1>3
<1>5. Append(q, e) # <<>> /\ Head(Append(q, e)) = Append(q, e)[1]
  BY <1>1
<1>6. CASE q = <<>>
  BY <1>1, <1>4, <1>5, <1>6
<1>7. CASE q # <<>>
  <2>1. Len(q) > 0 /\ Head(q) = q[1]
    BY <1>1, <1>7
  <2>. QED  BY <1>1, <1>4, <1>5, <1>7, <2>1
<1>. QED  BY <1>6, <1>7

\* A queue whose head is taken.
LEMMA Shortened ==
    ASSUME NEW S, NEW q \in Seq(S), q # <<>>
    PROVE  /\ Tail(q) \in Seq(S) /\ Len(Tail(q)) = Len(q) - 1
           /\ Head(q) = q[1] /\ Head(q) \in S /\ Len(q) \in Nat /\ Len(q) > 0
           /\ \A i \in 1..Len(q) - 1 : Tail(q)[i] = q[i + 1]
           /\ Range(q) = Range(Tail(q)) \union {Head(q)}
<1>1. /\ Tail(q) \in Seq(S) /\ Len(Tail(q)) = Len(q) - 1
      /\ Head(q) = q[1] /\ Head(q) \in S /\ Len(q) \in Nat /\ Len(q) > 0
      /\ \A i \in 1..Len(q) - 1 : Tail(q)[i] = q[i + 1]
  BY HeadTailProperties
<1>2. Range(q) = {q[i] : i \in 1..Len(q)}
  BY RangeEquality
<1>3. Range(Tail(q)) = {Tail(q)[i] : i \in 1..Len(q) - 1}
  BY <1>1, RangeEquality
<1>4. \A i \in 1..Len(q) : i = 1 \/ i - 1 \in 1..Len(q) - 1
  BY <1>1
<1>5. \A i \in 1..Len(q) - 1 : i + 1 \in 1..Len(q)
  BY <1>1
<1>6. Range(q) \subseteq Range(Tail(q)) \union {Head(q)}
  <2> SUFFICES ASSUME NEW i \in 1..Len(q)
               PROVE  q[i] = Head(q) \/ \E j \in 1..Len(q) - 1 : Tail(q)[j] = q[i]
    BY <1>2, <1>3
  <2>1. CASE i = 1
    BY <1>1, <2>1
  <2>2. CASE i - 1 \in 1..Len(q) - 1
    <3>1. Tail(q)[i - 1] = q[(i - 1) + 1] /\ (i - 1) + 1 = i
      BY <1>1, <2>2
    <3>. QED  BY <2>2, <3>1
  <2>. QED  BY <1>4, <2>1, <2>2
<1>7. Range(Tail(q)) \union {Head(q)} \subseteq Range(q)
  BY <1>1, <1>2, <1>3, <1>5
<1>. QED  BY <1>1, <1>6, <1>7

\* Nothing is in an empty queue.
LEMMA EmptyRange ==
    ASSUME NEW S, NEW q \in Seq(S)
    PROVE  Range(<<>>) = {} /\ (Range(q) = {} <=> q = <<>>) /\ Range(q) \subseteq S
<1>1. Range(q) = {q[i] : i \in 1..Len(q)} /\ Range(q) \subseteq S
  BY RangeEquality, RangeOfSeq
<1>2. Range(<<>>) = {}
  BY DEF Range
<1>3. q # <<>> => Head(q) \in Range(q)
  BY Shortened
<1>. QED  BY <1>1, <1>2, <1>3

\* A rising queue still rises when a later element is queued, or its first
\* one taken.
LEMMA UpAppended ==
    ASSUME NEW S \in SUBSET Nat, NEW q \in Seq(S), NEW e \in S, Up(q), \A a \in Range(q) : a < e
    PROVE  Up(Append(q, e))
<1>1. \A i \in 1..Len(q) : q[i] \in Range(q)
  BY RangeEquality
<1>2. /\ Len(Append(q, e)) = Len(q) + 1 /\ Len(q) \in Nat
      /\ Append(q, e)[Len(q) + 1] = e
      /\ \A i \in 1..Len(q) : Append(q, e)[i] = q[i]
  BY Appended
<1> SUFFICES ASSUME NEW i \in 1..Len(q) + 1, NEW j \in 1..Len(q) + 1, i < j
             PROVE  Append(q, e)[i] < Append(q, e)[j]
  BY <1>2 DEF Up
<1>3. i \in 1..Len(q) /\ (j \in 1..Len(q) \/ j = Len(q) + 1)
  BY <1>2
<1>. QED  BY <1>1, <1>2, <1>3 DEF Up

LEMMA UpShortened ==
    ASSUME NEW S \in SUBSET Nat, NEW q \in Seq(S), q # <<>>, Up(q)
    PROVE  Up(Tail(q)) /\ (\A a \in Range(Tail(q)) : Head(q) < a)
<1>1. /\ Tail(q) \in Seq(S) /\ Len(Tail(q)) = Len(q) - 1
      /\ Head(q) = q[1] /\ Len(q) \in Nat /\ Len(q) > 0
      /\ \A i \in 1..Len(q) - 1 : Tail(q)[i] = q[i + 1]
  BY Shortened
<1>2. \A i \in 1..Len(q) - 1 : i + 1 \in 1..Len(q) /\ 1 < i + 1
  BY <1>1
<1>3. Up(Tail(q))
  <2> SUFFICES ASSUME NEW i \in 1..Len(q) - 1, NEW j \in 1..Len(q) - 1, i < j
               PROVE  Tail(q)[i] < Tail(q)[j]
    BY <1>1 DEF Up
  <2>1. i + 1 < j + 1
    OBVIOUS
  <2>. QED  BY <1>1, <1>2, <2>1 DEF Up
<1>4. Range(Tail(q)) = {Tail(q)[i] : i \in 1..Len(q) - 1}
  BY <1>1, RangeEquality
<1>5. \A i \in 1..Len(q) - 1 : Head(q) < Tail(q)[i]
  BY <1>1, <1>2 DEF Up
<1>. QED  BY <1>3, <1>4, <1>5

\* A buffer that drops its oldest element: what is dropped comes before what
\* is kept, and nothing else is lost.
LEMMA Pushes ==
    ASSUME NEW S \in SUBSET Nat, NEW q \in Seq(S), NEW e \in S, NEW cap \in Nat \ {0}, Up(q),
           \A a \in Range(q) : a < e, Len(q) <= cap
    PROVE  /\ Push(q, e, cap) \in Seq(S) /\ Len(Push(q, e, cap)) <= cap
           /\ Up(Push(q, e, cap)) /\ Push(q, e, cap) # <<>>
           /\ Range(Push(q, e, cap)) \union PushedOut(q, cap) = Range(q) \union {e}
           /\ e \in Range(Push(q, e, cap))
           /\ \A a \in PushedOut(q, cap) : a \in Range(q) /\ \A b \in Range(Push(q, e, cap)) : a < b
           /\ PushedOut(q, cap) = {} =>
                 Head(Push(q, e, cap)) = IF q = <<>> THEN e ELSE Head(q)
<1>0. Len(q) \in Nat /\ Range(q) \subseteq S /\ S \subseteq Nat
  BY EmptyRange
<1>1. CASE Len(q) < cap
  <2>1. Push(q, e, cap) = Append(q, e) /\ PushedOut(q, cap) = {}
    BY <1>1 DEF Push, PushedOut
  <2>2. Up(Append(q, e))
    BY UpAppended
  <2>3. /\ Append(q, e) \in Seq(S) /\ Len(Append(q, e)) = Len(q) + 1
        /\ Range(Append(q, e)) = Range(q) \union {e} /\ Append(q, e) # <<>>
        /\ Head(Append(q, e)) = IF q = <<>> THEN e ELSE Head(q)
    BY Appended
  <2>. QED  BY <1>0, <1>1, <2>1, <2>2, <2>3
<1>2. CASE ~(Len(q) < cap)
  <2>1. Push(q, e, cap) = Append(Tail(q), e) /\ PushedOut(q, cap) = {Head(q)}
    BY <1>2 DEF Push, PushedOut
  <2>2. q # <<>> /\ Len(q) = cap
    BY <1>0, <1>2
  <2>3. /\ Tail(q) \in Seq(S) /\ Len(Tail(q)) = Len(q) - 1 /\ Head(q) \in S
        /\ Range(q) = Range(Tail(q)) \union {Head(q)}
    BY <2>2, Shortened
  <2>4. Up(Tail(q)) /\ (\A a \in Range(Tail(q)) : Head(q) < a)
    BY <2>2, UpShortened
  <2>5. Up(Append(Tail(q), e))
    BY <2>3, <2>4, UpAppended
  <2>6. /\ Append(Tail(q), e) \in Seq(S) /\ Len(Append(Tail(q), e)) = Len(Tail(q)) + 1
        /\ Range(Append(Tail(q), e)) = Range(Tail(q)) \union {e} /\ Append(Tail(q), e) # <<>>
    <3>1. PICK r \in Seq(S) : r = Tail(q)
      BY <2>3
    <3>2. /\ Append(r, e) \in Seq(S) /\ Len(Append(r, e)) = Len(r) + 1
          /\ Range(Append(r, e)) = Range(r) \union {e} /\ Append(r, e) # <<>>
      BY Appended
    <3>. QED  BY <3>1, <3>2
  <2>7. Len(Append(Tail(q), e)) <= cap
    BY <1>0, <2>2, <2>3, <2>6
  <2>. QED  BY <1>0, <2>1, <2>3, <2>4, <2>5, <2>6, <2>7
<1>. QED  BY <1>1, <1>2

-----------------------------------------------------------------------------
(* What the player keeps *)

\* Each codec has a render thread, and each surface started one at most.
ThreadCount == threads <= surfaces /\ (codec => threads > 0)

PlayerTypeInv == TypeOK /\ ThreadCount

\* The frames that are anywhere between the reader and the codec.
Anywhere == Range(input) \union Range(pending) \union Range(flow)

\* They rise in each queue and from one to the next, up to the last emitted.
Rising ==
    /\ Up(input) /\ Up(pending) /\ Up(flow)
    /\ Below(input, pending) /\ Below(input, flow) /\ Below(pending, flow)
    /\ \A f \in Anywhere : f <= emitted

\* A frame between two of them that is nowhere was dropped.
NothingLost ==
    \A f \in Frame : \A g, h \in Anywhere :
        g < f /\ f < h => f \in Anywhere \union dropped

\* While it is collected the flow gets every frame; else it is empty.
Collected ==
    /\ collector = "collecting" /\ Anywhere # {} => emitted \in Anywhere
    /\ collector = "none" => Anywhere = {}
    /\ collector = "cancelled" => flow = <<>>

\* sawKeyframe means that something was kept for the codec, or given to it.
SeenMeansKept ==
    /\ sawKeyframe <=> input # <<>> \/ pending # <<>>
    /\ ~codec => input = <<>>

IsFirst(f) == f \in Keys \/ f - 1 \in dropped

\* What the codec was given first, or will be, is an IDR frame, or follows one
\* that was dropped.
FirstIsIdr ==
    /\ input # <<>> => IsFirst(Head(input))
    /\ input = <<>> /\ pending # <<>> => IsFirst(Head(pending))

QueueInv ==
    Rising /\ NothingLost /\ Collected /\ SeenMeansKept /\ FirstIsIdr /\ NobodyWaits

LEMMA FramesAreNumbers == Frame \in SUBSET Nat
  BY DEF Frame

LEMMA PlayerTypeInit == Init => PlayerTypeInv
<1> SUFFICES ASSUME Init
             PROVE  PlayerTypeInv
  OBVIOUS
<1>1. /\ flow \in Seq(Frame) /\ pending \in Seq(Frame) /\ input \in Seq(Frame)
      /\ dropped \subseteq Frame
  BY EmptySeq DEF Init
<1>2. /\ emitted \in 0..MaxFrame /\ surfaces \in 0..MaxSurface /\ threads \in 0..MaxSurface
      /\ Len(flow) <= FlowCap /\ Len(pending) <= PendingCap
      /\ available \in Nat /\ empty \in Nat
      /\ empty + available <= (IF codec THEN MaxInput ELSE 0)
  BY VideoAssumption DEF Init
<1>3. ThreadCount
  BY DEF Init, ThreadCount
<1>4. /\ collector \in {"none", "collecting", "cancelled"}
      /\ surface \in BOOLEAN /\ codec \in BOOLEAN /\ sawKeyframe \in BOOLEAN
      /\ handler \in BOOLEAN
  BY DEF Init
<1>. QED  BY <1>1, <1>2, <1>3, <1>4 DEF PlayerTypeInv, TypeOK

\* stop keeps the types.
LEMMA StopTypes ==
    ASSUME PlayerTypeInv, Stop
    PROVE  /\ codec' \in BOOLEAN /\ sawKeyframe' \in BOOLEAN
           /\ pending' \in Seq(Frame) /\ Len(pending') <= PendingCap /\ input' \in Seq(Frame)
           /\ available' \in Nat /\ empty' \in Nat
           /\ empty' + available' <= (IF codec' THEN MaxInput ELSE 0)
           /\ threads' \in 0..MaxSurface /\ handler' \in BOOLEAN
           /\ threads' <= surfaces /\ (codec' => threads' > 0)
<1>1. CASE ~codec
  <2>1. UNCHANGED <<codec, sawKeyframe, pending, available, empty, input, threads, handler>>
    BY <1>1 DEF Stop, threadVars
  <2>. QED  BY <2>1 DEF PlayerTypeInv, TypeOK, ThreadCount
<1>2. CASE codec
  <2>1. /\ codec' = FALSE /\ sawKeyframe' = FALSE /\ available' = 0 /\ pending' = <<>>
        /\ empty' = 0 /\ input' = <<>> /\ threads' = threads - 1 /\ handler' = FALSE
    BY <1>2 DEF Stop, Forget
  <2>2. pending' \in Seq(Frame) /\ input' \in Seq(Frame) /\ Len(pending') = 0
    BY <2>1, EmptySeq
  <2>3. threads' \in 0..MaxSurface /\ threads' <= surfaces
    BY <1>2, <2>1, VideoAssumption DEF PlayerTypeInv, TypeOK, ThreadCount
  <2>4. Len(pending') <= PendingCap
    BY <2>2, VideoAssumption
  <2>5. empty' + available' <= (IF codec' THEN MaxInput ELSE 0) /\ available' \in Nat /\ empty' \in Nat
    BY <2>1
  <2>. QED  BY <2>1, <2>2, <2>3, <2>4, <2>5
<1>. QED  BY <1>1, <1>2 DEF PlayerTypeInv, TypeOK

LEMMA PlayerTypeStep == PlayerTypeInv /\ Rising /\ [Next]_vars => PlayerTypeInv'
<1> SUFFICES ASSUME PlayerTypeInv, Rising, [Next]_vars
             PROVE  PlayerTypeInv'
  OBVIOUS
<1> USE VideoAssumption
<1>0. /\ TypeOK /\ ThreadCount /\ flow \in Seq(Frame) /\ pending \in Seq(Frame)
      /\ input \in Seq(Frame) /\ Len(flow) <= FlowCap /\ Len(pending) <= PendingCap
      /\ dropped \in SUBSET Frame
  BY DEF PlayerTypeInv, TypeOK
<1>1. CASE UNCHANGED vars
  BY <1>0, <1>1
  DEF PlayerTypeInv, TypeOK, ThreadCount, vars, feedVars, flowVars, viewVars, threadVars
<1>2. CASE Emit
  <2>1. /\ emitted' = emitted + 1 /\ emitted' \in 0..MaxFrame /\ emitted + 1 \in Frame
        /\ UNCHANGED <<collector, playerUnchanged>>
    BY <1>0, <1>2 DEF Emit, TypeOK, Frame
  <2>2. flow' \in Seq(Frame) /\ Len(flow') <= FlowCap /\ dropped' \subseteq Frame
    <3>1. CASE collector = "collecting"
      <4>1. \A a \in Range(flow) : a < emitted + 1
        <5> SUFFICES ASSUME NEW a \in Range(flow)
                     PROVE  a < emitted + 1
          OBVIOUS
        <5>1. a \in Nat
          BY <1>0, EmptyRange, FramesAreNumbers
        <5>2. a <= emitted
          BY DEF Rising, Anywhere
        <5>. QED  BY <1>0, <5>1, <5>2 DEF TypeOK
      <4>2. /\ Push(flow, emitted + 1, FlowCap) \in Seq(Frame)
            /\ Len(Push(flow, emitted + 1, FlowCap)) <= FlowCap
            /\ \A a \in PushedOut(flow, FlowCap) : a \in Range(flow)
        BY <1>0, <2>1, <4>1, FramesAreNumbers, Pushes DEF Rising
      <4>3. Range(flow) \subseteq Frame
        BY <1>0, EmptyRange
      <4>. QED  BY <1>0, <1>2, <3>1, <4>2, <4>3 DEF Emit
    <3>2. CASE collector # "collecting"
      BY <1>0, <1>2, <3>2 DEF Emit
    <3>. QED  BY <3>1, <3>2
  <2>. QED
    BY <1>0, <2>1, <2>2
    DEF PlayerTypeInv, TypeOK, ThreadCount, playerUnchanged, viewVars, threadVars
<1>3. CASE Collect
  BY <1>0, <1>3
  DEF PlayerTypeInv, TypeOK, ThreadCount, Collect, playerUnchanged, viewVars, threadVars
<1>4. CASE Feed
  <2>1. /\ flow # <<>> /\ flow' = Tail(flow)
        /\ UNCHANGED <<emitted, collector, surface, surfaces, codec, empty, threads, handler>>
    BY <1>4 DEF Feed, viewVars, threadVars
  <2>2. /\ Tail(flow) \in Seq(Frame) /\ Len(Tail(flow)) = Len(flow) - 1
        /\ Head(flow) \in Frame /\ Len(flow) \in Nat
        /\ Range(flow) = Range(Tail(flow)) \union {Head(flow)}
    BY <1>0, <2>1, Shortened
  <2>3. flow' \in Seq(Frame) /\ Len(flow') <= FlowCap
    BY <1>0, <2>1, <2>2
  <2>4. CASE UNCHANGED <<dropped, sawKeyframe, pending, available, input>>
    BY <1>0, <2>1, <2>3, <2>4 DEF PlayerTypeInv, TypeOK, ThreadCount
  <2>5. CASE sawKeyframe' = TRUE /\ Queue(Head(flow))
    <3>1. \A a \in Range(pending) : a < Head(flow)
      BY <2>2 DEF Rising, Below
    <3>2. /\ pending' \in Seq(Frame) /\ Len(pending') <= PendingCap
          /\ \A a \in PushedOut(pending, PendingCap) : a \in Range(pending)
      BY <1>0, <2>2, <2>5, <3>1, FramesAreNumbers, Pushes DEF Rising, Queue
    <3>3. Range(pending) \subseteq Frame
      BY <1>0, EmptyRange
    <3>4. dropped' \subseteq Frame /\ UNCHANGED <<available, input>>
      BY <1>0, <2>5, <3>2, <3>3 DEF Queue
    <3>. QED
      BY <1>0, <2>1, <2>3, <2>5, <3>2, <3>4 DEF PlayerTypeInv, TypeOK, ThreadCount
  <2>6. CASE /\ sawKeyframe' = TRUE /\ codec /\ available > 0 /\ available' = available - 1
             /\ Submit(Head(flow)) /\ UNCHANGED <<dropped, pending>>
    <3>1. input' \in Seq(Frame)
      BY <1>0, <2>2, <2>6, Appended DEF Submit
    <3>2. available' \in Nat /\ empty + available' <= (IF codec THEN MaxInput ELSE 0)
      BY <1>0, <2>6 DEF TypeOK
    <3>. QED
      BY <1>0, <2>1, <2>3, <2>6, <3>1, <3>2 DEF PlayerTypeInv, TypeOK, ThreadCount
  <2>. QED  BY <1>4, <2>4, <2>5, <2>6 DEF Feed
<1>5. CASE InputBufferAvailable
  <2>1. /\ codec /\ empty > 0 /\ empty' = empty - 1 /\ TakePending
        /\ UNCHANGED <<emitted, collector, flow, dropped, surface, surfaces, codec,
                       sawKeyframe, threads, handler>>
    BY <1>5 DEF InputBufferAvailable, feedVars, flowVars, viewVars, threadVars
  <2>2. CASE available' = available + 1 /\ UNCHANGED <<pending, input>>
    BY <1>0, <2>1, <2>2 DEF PlayerTypeInv, TypeOK, ThreadCount
  <2>3. CASE /\ pending # <<>> /\ pending' = Tail(pending) /\ Submit(Head(pending))
             /\ UNCHANGED available
    <3>1. /\ Tail(pending) \in Seq(Frame) /\ Len(Tail(pending)) = Len(pending) - 1
          /\ Head(pending) \in Frame /\ Len(pending) \in Nat
      BY <1>0, <2>3, Shortened
    <3>2. pending' \in Seq(Frame) /\ Len(pending') <= PendingCap /\ input' \in Seq(Frame)
      BY <1>0, <2>3, <3>1, Appended DEF Submit
    <3>3. empty' \in Nat /\ empty' + available <= (IF codec THEN MaxInput ELSE 0)
      BY <1>0, <2>1 DEF TypeOK
    <3>. QED
      BY <1>0, <2>1, <2>3, <3>2, <3>3 DEF PlayerTypeInv, TypeOK, ThreadCount
  <2>. QED  BY <2>1, <2>2, <2>3 DEF TakePending
<1>6. CASE Decode
  BY <1>0, <1>6
  DEF PlayerTypeInv, TypeOK, ThreadCount, Decode, feedVars, flowVars, viewVars, threadVars
<1>7. CASE SurfaceTextureAvailable
  <2>1. /\ UNCHANGED <<emitted, collector, flow, dropped, pending, available, input, sawKeyframe>>
        /\ ~codec /\ surface' = TRUE /\ surfaces' = surfaces + 1 /\ surfaces < MaxSurface
        /\ threads' = threads + 1 /\ handler' = TRUE
        /\ (codec' = TRUE /\ empty' = MaxInput) \/ UNCHANGED <<codec, empty>>
    BY <1>7 DEF SurfaceTextureAvailable, Start, LeaveSeen, feedVars, flowVars
  <2>2. /\ surfaces' \in 0..MaxSurface /\ threads' \in 0..MaxSurface
        /\ threads' <= surfaces' /\ threads' > 0
    BY <1>0, <2>1 DEF TypeOK, ThreadCount
  <2>3. /\ codec' \in BOOLEAN /\ empty' \in Nat
        /\ empty' + available <= (IF codec' THEN MaxInput ELSE 0)
    <3>1. available = 0 /\ empty = 0 /\ MaxInput \in Nat /\ codec = FALSE
      BY <1>0, <2>1 DEF TypeOK
    <3>2. CASE codec' = TRUE /\ empty' = MaxInput
      BY <3>1, <3>2
    <3>3. CASE codec' = codec /\ empty' = empty
      <4>1. codec' = FALSE /\ empty' = 0
        BY <3>1, <3>3
      <4>2. (IF codec' THEN MaxInput ELSE 0) = 0
        BY <4>1
      <4>3. empty' + available <= 0 /\ empty' \in Nat
        <5>1. empty' = 0 /\ available = 0
          BY <3>1, <4>1
        <5>. QED  BY <5>1
      <4>4. empty' + available <= (IF codec' THEN MaxInput ELSE 0)
        BY <4>2, <4>3
      <4>5. codec' \in BOOLEAN
        BY <4>1
      <4>. QED  BY <4>3, <4>4, <4>5
    <3>. QED  BY <2>1, <3>2, <3>3
  <2>. QED  BY <1>0, <2>1, <2>2, <2>3 DEF PlayerTypeInv, TypeOK, ThreadCount
<1>8. CASE SurfaceTextureDestroyed
  <2>1. Stop /\ surface' = FALSE /\ UNCHANGED <<emitted, collector, flow, dropped, surfaces>>
    BY <1>8 DEF SurfaceTextureDestroyed, feedVars, flowVars
  <2>2. PlayerTypeInv
    BY <1>0 DEF PlayerTypeInv
  <2>. QED
    BY <1>0, <2>1, <2>2, StopTypes DEF PlayerTypeInv, TypeOK, ThreadCount
<1>9. CASE Dispose
  <2>1. /\ Stop /\ collector' = "cancelled" /\ flow' = <<>>
        /\ UNCHANGED <<emitted, dropped, surface, surfaces>>
    BY <1>9 DEF Dispose, viewVars
  <2>2. PlayerTypeInv /\ <<>> \in Seq(Frame) /\ Len(<<>>) <= FlowCap
    BY <1>0 DEF PlayerTypeInv
  <2>. QED
    BY <1>0, <2>1, <2>2, StopTypes DEF PlayerTypeInv, TypeOK, ThreadCount
<1>. QED  BY <1>1, <1>2, <1>3, <1>4, <1>5, <1>6, <1>7, <1>8, <1>9 DEF Next

\* The head of a rising queue is its least element.
LEMMA HeadIsLeast ==
    ASSUME NEW S \in SUBSET Nat, NEW q \in Seq(S), q # <<>>, Up(q)
    PROVE  Head(q) \in Range(q) /\ \A a \in Range(q) : Head(q) <= a
<1>1. Range(q) = Range(Tail(q)) \union {Head(q)} /\ Head(q) \in Nat /\ Range(q) \subseteq Nat
  BY Shortened, EmptyRange
<1>2. \A a \in Range(Tail(q)) : Head(q) < a
  BY UpShortened
<1>. QED  BY <1>1, <1>2

LEMMA QueueInit == Init => QueueInv
<1> SUFFICES ASSUME Init
             PROVE  QueueInv
  OBVIOUS
<1>1. input = <<>> /\ pending = <<>> /\ flow = <<>> /\ <<>> \in Seq(Frame)
  BY DEF Init
<1>2. Range(<<>>) = {} /\ Up(<<>>)
  <2>1. Range(<<>>) = {}
    BY <1>1, EmptyRange
  <2>2. Len(<<>>) = 0
    OBVIOUS
  <2>3. Up(<<>>)
    BY <2>2 DEF Up
  <2>. QED  BY <2>1, <2>3
<1>3. Anywhere = {}
  BY <1>1, <1>2 DEF Anywhere
<1>. QED
  BY <1>1, <1>2, <1>3
  DEF Init, QueueInv, Rising, NothingLost, Collected, SeenMeansKept, FirstIsIdr,
      NobodyWaits, Below

\* What the invariants say of the values, for the steps below.
LEMMA QueueTypes ==
    ASSUME PlayerTypeInv
    PROVE  /\ flow \in Seq(Frame) /\ pending \in Seq(Frame) /\ input \in Seq(Frame)
           /\ Len(flow) <= FlowCap /\ Len(pending) <= PendingCap
           /\ Anywhere \subseteq Nat /\ emitted \in Nat /\ codec \in BOOLEAN
           /\ available \in Nat /\ (~codec => available = 0)
<1>1. /\ flow \in Seq(Frame) /\ pending \in Seq(Frame) /\ input \in Seq(Frame)
      /\ Len(flow) <= FlowCap /\ Len(pending) <= PendingCap
      /\ emitted \in Nat /\ codec \in BOOLEAN /\ available \in Nat /\ empty \in Nat
      /\ (~codec => available = 0)
  BY DEF PlayerTypeInv, TypeOK
<1>2. Range(input) \subseteq Nat /\ Range(pending) \subseteq Nat /\ Range(flow) \subseteq Nat
  BY <1>1, EmptyRange, FramesAreNumbers
<1>. QED  BY <1>1, <1>2 DEF Anywhere

LEMMA EmitKeeps == PlayerTypeInv /\ QueueInv /\ Emit => QueueInv'
<1> SUFFICES ASSUME PlayerTypeInv, QueueInv, Emit
             PROVE  QueueInv'
  OBVIOUS
<1>0. /\ Rising /\ NothingLost /\ Collected /\ SeenMeansKept /\ FirstIsIdr /\ NobodyWaits
      /\ flow \in Seq(Frame) /\ pending \in Seq(Frame) /\ input \in Seq(Frame)
      /\ Len(flow) <= FlowCap /\ Anywhere \subseteq Nat /\ emitted \in Nat
  BY QueueTypes DEF QueueInv
<1>1. /\ emitted' = emitted + 1 /\ emitted + 1 \in Frame
      /\ UNCHANGED <<collector, input, pending, codec, sawKeyframe, available>>
  BY <1>0, VideoAssumption DEF Emit, Frame, playerUnchanged
<1>2. CASE collector # "collecting"
  <2>1. UNCHANGED <<flow, dropped>>
    BY <1>2 DEF Emit
  <2>2. Anywhere' = Anywhere
    BY <1>1, <2>1 DEF Anywhere
  <2>3. Rising'
    BY <1>0, <1>1, <2>1, <2>2 DEF Rising, Below
  <2>. QED
    BY <1>0, <1>1, <1>2, <2>1, <2>2, <2>3
    DEF QueueInv, NothingLost, Collected, SeenMeansKept, FirstIsIdr, IsFirst, NobodyWaits
<1>3. CASE collector = "collecting"
  <2>1. PICK n \in Frame : n = emitted + 1
    BY <1>1
  <2>2. PICK D : D = PushedOut(flow, FlowCap)
    OBVIOUS
  <2>3. flow' = Push(flow, n, FlowCap) /\ dropped' = dropped \union D
    BY <1>3, <2>1, <2>2 DEF Emit
  <2>4. \A a \in Anywhere : a < n
    BY <1>0, <2>1 DEF Rising
  <2>5. Range(flow) \subseteq Anywhere
    BY DEF Anywhere
  <2>6. /\ Up(flow') /\ Range(flow') \union D = Range(flow) \union {n}
        /\ n \in Range(flow')
    BY <1>0, <2>2, <2>3, <2>4, <2>5, FramesAreNumbers, VideoAssumption, Pushes DEF Rising
  <2>7. Anywhere' \union D = Anywhere \union {n} /\ n \in Anywhere'
    <3>1. Anywhere' = Range(input) \union Range(pending) \union Range(flow')
      BY <1>1 DEF Anywhere
    <3>. QED  BY <2>6, <3>1, <2>5 DEF Anywhere
  <2>8. Rising'
    <3>1. /\ Up(input') /\ Up(pending') /\ Below(input', pending')
          /\ Below(input', flow') /\ Below(pending', flow')
      BY <1>0, <1>1, <2>4, <2>6 DEF Rising, Below, Anywhere
    <3>2. \A f \in Anywhere' : f <= emitted'
      BY <1>0, <1>1, <2>1, <2>4, <2>7
    <3>. QED  BY <2>6, <3>1, <3>2 DEF Rising
  <2>9. NothingLost'
    <3> SUFFICES ASSUME NEW f \in Frame, NEW g \in Anywhere', NEW h \in Anywhere',
                        g < f, f < h
                 PROVE  f \in Anywhere' \union dropped'
      BY DEF NothingLost
    <3>1. f \in Nat /\ g \in Anywhere \union {n} /\ h \in Anywhere \union {n} /\ n \in Nat
      BY <2>7, FramesAreNumbers
    <3>2. g \in Anywhere /\ g \in Nat /\ h \in Nat
      BY <1>0, <2>4, <3>1
    <3>3. f \in Anywhere \union dropped
      <4>1. CASE h \in Anywhere
        BY <1>0, <3>2, <4>1 DEF NothingLost
      <4>2. CASE h = n
        <5>1. emitted \in Anywhere
          BY <1>0, <1>3, <3>2 DEF Collected
        <5>2. f = emitted \/ f < emitted
          BY <1>0, <2>1, <3>1, <4>2
        <5>. QED  BY <1>0, <3>2, <5>1, <5>2 DEF NothingLost
      <4>. QED  BY <3>1, <4>1, <4>2
    <3>. QED  BY <2>3, <2>7, <3>3
  <2>10. Collected'
    BY <1>1, <1>3, <2>1, <2>7 DEF Collected
  <2>. QED
    BY <1>0, <1>1, <2>3, <2>8, <2>9, <2>10
    DEF QueueInv, SeenMeansKept, FirstIsIdr, IsFirst, NobodyWaits
<1>. QED  BY <1>2, <1>3

LEMMA FeedKeeps == PlayerTypeInv /\ QueueInv /\ Feed => QueueInv'
<1> SUFFICES ASSUME PlayerTypeInv, QueueInv, Feed
             PROVE  QueueInv'
  OBVIOUS
<1>0. /\ Rising /\ NothingLost /\ Collected /\ SeenMeansKept /\ FirstIsIdr /\ NobodyWaits
      /\ flow \in Seq(Frame) /\ pending \in Seq(Frame) /\ input \in Seq(Frame)
      /\ Len(pending) <= PendingCap /\ Anywhere \subseteq Nat /\ emitted \in Nat
      /\ codec \in BOOLEAN /\ available \in Nat /\ (~codec => available = 0)
  BY QueueTypes DEF QueueInv
<1>1. PICK n \in Frame : n = Head(flow)
  BY <1>0, Shortened DEF Feed
<1>2. /\ flow # <<>> /\ flow' = Tail(flow) /\ collector = "collecting"
      /\ UNCHANGED <<emitted, collector, codec>>
  BY DEF Feed
<1>3. /\ Range(flow) = Range(flow') \union {n} /\ flow' \in Seq(Frame)
      /\ Up(flow') /\ \A a \in Range(flow') : n < a
  BY <1>0, <1>1, <1>2, FramesAreNumbers, Shortened, UpShortened DEF Rising
<1>4. /\ Anywhere = Range(input) \union Range(pending) \union Range(flow)
      /\ Anywhere' = Range(input') \union Range(pending') \union Range(flow')
      /\ n \in Anywhere /\ n \in Nat /\ n <= emitted /\ emitted \in Anywhere
  BY <1>0, <1>2, <1>3, FramesAreNumbers DEF Anywhere, Rising, Collected
<1>5. CASE ~Wanted(n) /\ UNCHANGED <<dropped, sawKeyframe, pending, available, input>>
  <2>1. input = <<>> /\ pending = <<>>
    BY <1>0, <1>5 DEF Wanted, SeenMeansKept
  <2>2. Range(input) = {} /\ Range(pending) = {}
    BY <1>0, <2>1, EmptyRange
  <2>3. Anywhere' = Range(flow') /\ Anywhere = Anywhere' \union {n}
    BY <1>3, <1>4, <1>5, <2>2
  <2>4. Rising'
    BY <1>0, <1>2, <1>3, <1>5, <2>2, <2>3 DEF Rising, Below
  <2>5. NothingLost'
    <3> SUFFICES ASSUME NEW f \in Frame, NEW g \in Anywhere', NEW h \in Anywhere',
                        g < f, f < h
                 PROVE  f \in Anywhere' \union dropped
      BY <1>5 DEF NothingLost
    <3>1. f \in Anywhere \union dropped /\ f \in Nat /\ g \in Nat
      BY <1>0, <2>3, FramesAreNumbers DEF NothingLost
    <3>2. f # n
      BY <1>3, <1>4, <2>3, <3>1
    <3>. QED  BY <2>3, <3>1, <3>2
  <2>6. Collected'
    <3>1. ASSUME NEW a \in Anywhere'
          PROVE  emitted \in Anywhere'
      <4>1. n < a /\ a <= emitted /\ a \in Nat
        BY <1>0, <1>3, <2>3 DEF Rising
      <4>. QED  BY <1>0, <1>4, <2>3, <4>1
    <3>. QED  BY <1>2, <3>1 DEF Collected
  <2>. QED
    BY <1>0, <1>2, <1>5, <2>4, <2>5, <2>6
    DEF QueueInv, SeenMeansKept, FirstIsIdr, IsFirst, NobodyWaits
<1>6. CASE /\ Wanted(n) /\ sawKeyframe' = TRUE /\ Queue(n) /\ available = 0
  <2>1. PICK D : D = PushedOut(pending, PendingCap)
    OBVIOUS
  <2>2. /\ pending' = Push(pending, n, PendingCap) /\ dropped' = dropped \union D
        /\ UNCHANGED <<available, input>>
    BY <1>6, <2>1 DEF Queue
  <2>3. \A a \in Range(pending) : a < n
    BY <1>0, <1>3 DEF Rising, Below
  <2>4. /\ pending' \in Seq(Frame) /\ Up(pending') /\ pending' # <<>>
        /\ Range(pending') \union D = Range(pending) \union {n}
        /\ n \in Range(pending')
        /\ \A a \in D : a \in Range(pending) /\ \A b \in Range(pending') : a < b
        /\ D = {} => Head(pending') = IF pending = <<>> THEN n ELSE Head(pending)
    BY <1>0, <2>1, <2>2, <2>3, FramesAreNumbers, VideoAssumption, Pushes DEF Rising
  <2>5. Anywhere' \union D = Anywhere /\ Anywhere' \subseteq Anywhere
    BY <1>3, <1>4, <2>2, <2>4
  <2>6. Rising'
    <3>1. Below(input, pending') /\ Below(pending', flow') /\ Below(input, flow')
      BY <1>0, <1>3, <2>4 DEF Rising, Below
    <3>. QED  BY <1>0, <1>2, <1>3, <2>2, <2>4, <2>5, <3>1 DEF Rising
  <2>7. NothingLost'
    BY <1>0, <2>2, <2>5 DEF NothingLost
  <2>8. Collected'
    <3>1. emitted \notin D
      BY <1>4, <2>4, <1>0
    <3>. QED  BY <1>2, <1>4, <2>5, <3>1 DEF Collected
  <2>9. FirstIsIdr'
    <3>1. CASE input # <<>>
      BY <1>0, <2>2, <3>1 DEF FirstIsIdr, IsFirst
    <3>2. CASE input = <<>> /\ D = {}
      <4>1. CASE pending = <<>>
        <5>1. n \in Keys
          BY <1>0, <1>6, <3>2, <4>1 DEF Wanted, SeenMeansKept
        <5>. QED  BY <2>2, <2>4, <3>2, <4>1, <5>1 DEF FirstIsIdr, IsFirst
      <4>2. CASE pending # <<>>
        BY <1>0, <2>2, <2>4, <3>2, <4>2 DEF FirstIsIdr, IsFirst
      <4>. QED  BY <4>1, <4>2
    <3>3. ASSUME input = <<>>, NEW d \in D
          PROVE  FirstIsIdr'
      <4>1. PICK k : k = Head(pending')
        OBVIOUS
      <4>2. k \in Range(pending') /\ (\A a \in Range(pending') : k <= a)
        BY <2>4, <4>1, FramesAreNumbers, HeadIsLeast
      <4>3. /\ k \in Anywhere' /\ k \in Anywhere /\ k \in Nat /\ k \in Frame
            /\ d \in Anywhere /\ d \in Nat /\ d < k /\ d \in Frame
        <5>1. Range(pending') \subseteq Frame /\ Range(pending) \subseteq Frame
          BY <1>0, <2>4, EmptyRange
        <5>. QED  BY <1>0, <1>4, <2>4, <2>5, <4>2, <5>1, FramesAreNumbers
      <4>4. k - 1 \in Frame /\ k - 1 \in Nat
        <5>1. 1 <= d /\ k <= MaxFrame /\ MaxFrame \in Nat
          BY <4>3, VideoAssumption DEF Frame
        <5>. QED  BY <4>3, <5>1 DEF Frame
      <4>5. k - 1 = d \/ (d < k - 1 /\ k - 1 < k)
        BY <4>3
      <4>6. k - 1 \in Anywhere \union dropped
        BY <1>0, <4>3, <4>4, <4>5 DEF NothingLost
      <4>7. k - 1 \notin Anywhere'
        <5>1. k - 1 \notin Range(pending')
          BY <4>2, <4>3, <4>4
        <5>2. k - 1 \notin Range(flow')
          <6>1. k <= n
            BY <2>4, <4>2
          <6>2. ASSUME k - 1 \in Range(flow')
                PROVE  FALSE
            <7>1. n < k - 1
              BY <1>3, <6>2
            <7>. QED  BY <1>4, <4>3, <6>1, <7>1
          <6>. QED  BY <6>2
        <5>3. Range(input') = {}
          BY <1>0, <2>2, <3>3, EmptyRange
        <5>. QED  BY <1>4, <5>1, <5>2, <5>3
      <4>8. k - 1 \in dropped'
        BY <2>2, <2>5, <4>6, <4>7
      <4>. QED  BY <2>2, <3>3, <4>1, <4>8 DEF FirstIsIdr, IsFirst
    <3>. QED  BY <3>1, <3>2, <3>3
  <2>10. SeenMeansKept' /\ NobodyWaits'
    BY <1>0, <1>2, <1>6, <2>2, <2>4 DEF SeenMeansKept, NobodyWaits
  <2>. QED  BY <2>6, <2>7, <2>8, <2>9, <2>10 DEF QueueInv
<1>7. CASE /\ Wanted(n) /\ sawKeyframe' = TRUE /\ codec /\ available > 0
           /\ available' = available - 1 /\ Submit(n) /\ UNCHANGED <<dropped, pending>>
  <2>1. pending = <<>> /\ Range(pending) = {}
    BY <1>0, <1>7, EmptyRange DEF NobodyWaits
  <2>2. /\ input' = Append(input, n) /\ input' \in Seq(Frame)
        /\ Range(input') = Range(input) \union {n} /\ input' # <<>>
        /\ Head(input') = IF input = <<>> THEN n ELSE Head(input)
    BY <1>0, <1>7, Appended DEF Submit
  <2>3. \A a \in Range(input) : a < n
    BY <1>0, <1>3 DEF Rising, Below
  <2>4. Up(input')
    BY <1>0, <2>2, <2>3, FramesAreNumbers, UpAppended DEF Rising
  <2>5. Anywhere' = Anywhere
    BY <1>3, <1>4, <1>7, <2>1, <2>2
  <2>6. Rising'
    <3>1. Below(input', pending) /\ Below(input', flow') /\ Below(pending, flow')
      BY <1>0, <1>3, <2>1, <2>2 DEF Rising, Below
    <3>. QED  BY <1>0, <1>2, <1>3, <1>7, <2>4, <2>5, <3>1 DEF Rising
  <2>7. NothingLost' /\ Collected'
    BY <1>0, <1>2, <1>4, <1>7, <2>5 DEF NothingLost, Collected
  <2>8. FirstIsIdr'
    <3>1. input = <<>> => n \in Keys
      BY <1>0, <1>7, <2>1 DEF Wanted, SeenMeansKept
    <3>. QED  BY <1>0, <1>7, <2>2, <3>1 DEF FirstIsIdr, IsFirst
  <2>9. SeenMeansKept' /\ NobodyWaits'
    BY <1>0, <1>2, <1>7, <2>1, <2>2 DEF SeenMeansKept, NobodyWaits
  <2>. QED  BY <2>6, <2>7, <2>8, <2>9 DEF QueueInv
<1>. QED  BY <1>0, <1>1, <1>5, <1>6, <1>7 DEF Feed


LEMMA InputBufferKeeps == PlayerTypeInv /\ QueueInv /\ InputBufferAvailable => QueueInv'
<1> SUFFICES ASSUME PlayerTypeInv, QueueInv, InputBufferAvailable
             PROVE  QueueInv'
  OBVIOUS
<1>0. /\ Rising /\ NothingLost /\ Collected /\ SeenMeansKept /\ FirstIsIdr /\ NobodyWaits
      /\ flow \in Seq(Frame) /\ pending \in Seq(Frame) /\ input \in Seq(Frame)
      /\ Anywhere \subseteq Nat /\ emitted \in Nat
      /\ codec \in BOOLEAN /\ available \in Nat
  BY QueueTypes DEF QueueInv
<1>1. /\ codec /\ TakePending
      /\ UNCHANGED <<emitted, collector, flow, dropped, codec, sawKeyframe>>
  BY DEF InputBufferAvailable, feedVars, flowVars
<1>2. CASE pending = <<>> /\ UNCHANGED <<pending, input>>
  <2>1. Anywhere' = Anywhere
    BY <1>1, <1>2 DEF Anywhere
  <2>. QED
    BY <1>0, <1>1, <1>2, <2>1
    DEF QueueInv, Rising, Below, NothingLost, Collected, SeenMeansKept, FirstIsIdr, IsFirst,
        NobodyWaits
<1>3. CASE /\ pending # <<>> /\ pending' = Tail(pending) /\ Submit(Head(pending))
           /\ UNCHANGED available
  <2>1. PICK n \in Frame : n = Head(pending)
    BY <1>0, <1>3, Shortened
  <2>2. /\ Range(pending) = Range(pending') \union {n} /\ pending' \in Seq(Frame)
        /\ Up(pending') /\ \A a \in Range(pending') : n < a
    BY <1>0, <1>3, <2>1, FramesAreNumbers, Shortened, UpShortened DEF Rising
  <2>3. /\ input' = Append(input, n) /\ input' \in Seq(Frame)
        /\ Range(input') = Range(input) \union {n} /\ input' # <<>>
        /\ Head(input') = IF input = <<>> THEN n ELSE Head(input)
    BY <1>0, <1>3, <2>1, Appended DEF Submit
  <2>4. (\A a \in Range(input) : a < n) /\ (\A b \in Range(flow) : n < b)
    BY <1>0, <2>2 DEF Rising, Below
  <2>5. Up(input')
    BY <1>0, <2>3, <2>4, FramesAreNumbers, UpAppended DEF Rising
  <2>6. Anywhere' = Anywhere
    BY <1>1, <2>2, <2>3 DEF Anywhere
  <2>7. Rising'
    <3>1. Below(input', pending') /\ Below(input', flow) /\ Below(pending', flow)
      BY <1>0, <2>2, <2>3, <2>4 DEF Rising, Below
    <3>. QED  BY <1>0, <1>1, <2>2, <2>5, <2>6, <3>1 DEF Rising
  <2>8. NothingLost' /\ Collected'
    BY <1>0, <1>1, <2>6 DEF NothingLost, Collected
  <2>9. FirstIsIdr'
    <3>1. IsFirst(Head(input'))
      BY <1>0, <1>3, <2>1, <2>3 DEF FirstIsIdr
    <3>. QED  BY <1>1, <2>3, <3>1 DEF FirstIsIdr, IsFirst
  <2>10. SeenMeansKept' /\ NobodyWaits'
    BY <1>0, <1>1, <1>3, <2>3 DEF SeenMeansKept, NobodyWaits
  <2>. QED  BY <2>7, <2>8, <2>9, <2>10 DEF QueueInv
<1>. QED  BY <1>1, <1>2, <1>3 DEF TakePending

\* Where neither the queues nor the collector change.
LEMMA QuietKeeps ==
    ASSUME PlayerTypeInv, QueueInv, codec' = codec \/ ~codec,
           UNCHANGED <<emitted, collector, flow, dropped, sawKeyframe, pending, available, input>>
    PROVE  QueueInv'
<1>0. Rising /\ NothingLost /\ Collected /\ SeenMeansKept /\ FirstIsIdr /\ NobodyWaits
  BY DEF QueueInv
<1>1. Anywhere' = Anywhere
  BY DEF Anywhere
<1>2. Rising' /\ NothingLost' /\ Collected'
  BY <1>0, <1>1 DEF Rising, Below, NothingLost, Collected
<1>3. SeenMeansKept' /\ FirstIsIdr' /\ NobodyWaits'
  BY <1>0 DEF SeenMeansKept, FirstIsIdr, IsFirst, NobodyWaits
<1>. QED  BY <1>2, <1>3 DEF QueueInv

\* stop of a codec forgets what it was given and what waited for it; the flow
\* stays, or goes as well.
LEMMA StopKeeps ==
    ASSUME PlayerTypeInv, QueueInv, Stop, UNCHANGED <<emitted, dropped>>,
           \/ UNCHANGED <<collector, flow>>
           \/ collector' = "cancelled" /\ flow' = <<>>
    PROVE  QueueInv'
<1>0. /\ Rising /\ NothingLost /\ Collected /\ SeenMeansKept /\ FirstIsIdr /\ NobodyWaits
      /\ flow \in Seq(Frame) /\ pending \in Seq(Frame) /\ input \in Seq(Frame)
      /\ Anywhere \subseteq Nat /\ emitted \in Nat
  BY QueueTypes DEF QueueInv
<1>1. Range(<<>>) = {} /\ Up(<<>>)
  <2>1. Range(<<>>) = {}
    BY <1>0, EmptyRange
  <2>2. Len(<<>>) = 0
    OBVIOUS
  <2>. QED  BY <2>1, <2>2 DEF Up
<1>2. CASE ~codec
  <2>1. UNCHANGED <<codec, sawKeyframe, pending, available, input>>
    BY <1>2 DEF Stop
  <2>2. CASE UNCHANGED <<collector, flow>>
    BY <2>1, <2>2, QuietKeeps
  <2>3. CASE collector' = "cancelled" /\ flow' = <<>>
    <3>1. input = <<>> /\ Range(input) = {} /\ Range(flow') = {}
      BY <1>0, <1>1, <1>2, <2>3 DEF SeenMeansKept
    <3>2. Anywhere' = Range(pending) /\ Anywhere' \subseteq Anywhere
      BY <2>1, <3>1 DEF Anywhere
    <3>3. Rising'
      BY <1>0, <1>1, <2>1, <2>3, <3>1, <3>2 DEF Rising, Below
    <3>4. NothingLost'
      <4> SUFFICES ASSUME NEW f \in Frame, NEW g \in Anywhere', NEW h \in Anywhere',
                          g < f, f < h
                   PROVE  f \in Anywhere' \union dropped
        BY DEF NothingLost
      <4>1. f \in Anywhere \union dropped /\ f \in Nat /\ h \in Nat
        BY <1>0, <3>2, FramesAreNumbers DEF NothingLost
      <4>2. f \notin Range(flow)
        BY <1>0, <3>2, <4>1 DEF Rising, Below
      <4>. QED  BY <3>1, <3>2, <4>1, <4>2 DEF Anywhere
    <3>5. Collected'
      BY <2>3 DEF Collected
    <3>. QED
      BY <1>0, <2>1, <3>3, <3>4, <3>5
      DEF QueueInv, SeenMeansKept, FirstIsIdr, IsFirst, NobodyWaits
  <2>. QED  BY <2>2, <2>3
<1>3. CASE codec
  <2>1. /\ codec' = FALSE /\ sawKeyframe' = FALSE /\ available' = 0 /\ pending' = <<>>
        /\ input' = <<>>
    BY <1>3 DEF Stop, Forget
  <2>2. Range(input') = {} /\ Range(pending') = {} /\ Up(input') /\ Up(pending')
    BY <1>1, <2>1
  <2>3. Anywhere' = Range(flow')
    BY <2>2 DEF Anywhere
  <2>4. SeenMeansKept' /\ FirstIsIdr' /\ NobodyWaits'
    BY <2>1 DEF SeenMeansKept, FirstIsIdr, NobodyWaits
  <2>5. CASE UNCHANGED <<collector, flow>>
    <3>1. Rising'
      BY <1>0, <2>2, <2>3, <2>5 DEF Rising, Below, Anywhere
    <3>2. NothingLost'
      <4> SUFFICES ASSUME NEW f \in Frame, NEW g \in Range(flow), NEW h \in Range(flow),
                          g < f, f < h
                   PROVE  f \in Range(flow) \union dropped
        BY <2>3, <2>5 DEF NothingLost
      <4>1. f \in Anywhere \union dropped /\ f \in Nat /\ g \in Nat
        BY <1>0, FramesAreNumbers DEF NothingLost, Anywhere
      <4>2. f \notin Range(input) /\ f \notin Range(pending)
        BY <1>0, <4>1 DEF Rising, Below
      <4>. QED  BY <4>1, <4>2 DEF Anywhere
    <3>3. Collected'
      <4>1. collector = "none" => Range(flow) = {}
        BY <1>0 DEF Collected, Anywhere
      <4>2. ASSUME collector = "collecting", NEW a \in Range(flow)
            PROVE  emitted \in Range(flow)
        <5>1. emitted \in Anywhere /\ a \in Nat /\ a <= emitted
          BY <1>0, <4>2 DEF Collected, Anywhere, Rising
        <5>2. emitted \notin Range(input) /\ emitted \notin Range(pending)
          BY <1>0, <4>2, <5>1 DEF Rising, Below
        <5>. QED  BY <5>1, <5>2 DEF Anywhere
      <4>. QED  BY <1>0, <2>3, <2>5, <4>1, <4>2 DEF Collected
    <3>. QED  BY <2>4, <3>1, <3>2, <3>3 DEF QueueInv
  <2>6. CASE collector' = "cancelled" /\ flow' = <<>>
    <3>1. Anywhere' = {} /\ Range(flow') = {} /\ Up(flow')
      BY <1>1, <2>3, <2>6
    <3>. QED
      BY <2>2, <2>4, <2>6, <3>1 DEF QueueInv, Rising, Below, NothingLost, Collected
  <2>. QED  BY <2>5, <2>6
<1>. QED  BY <1>2, <1>3

LEMMA QueueStep == PlayerTypeInv /\ QueueInv /\ [Next]_vars => QueueInv'
<1> SUFFICES ASSUME PlayerTypeInv, QueueInv, [Next]_vars
             PROVE  QueueInv'
  OBVIOUS
<1>1. CASE UNCHANGED vars
  BY <1>1, QuietKeeps DEF vars, feedVars, flowVars
<1>2. CASE Collect
  <2>1. /\ collector = "none" /\ collector' = "collecting"
        /\ UNCHANGED <<emitted, flow, dropped, sawKeyframe, pending, available, input, codec>>
    BY <1>2 DEF Collect, playerUnchanged
  <2>2. Anywhere' = Anywhere /\ Anywhere = {}
    BY <2>1 DEF Anywhere, QueueInv, Collected
  <2>. QED
    BY <2>1, <2>2
    DEF QueueInv, Rising, Below, NothingLost, Collected, SeenMeansKept, FirstIsIdr, IsFirst,
        NobodyWaits
<1>3. CASE Decode
  <2>1. UNCHANGED <<emitted, collector, flow, dropped, sawKeyframe, pending, available, input,
                    codec>>
    BY <1>3 DEF Decode, feedVars, flowVars
  <2>. QED  BY <2>1, QuietKeeps
<1>4. CASE SurfaceTextureAvailable
  <2>1. /\ ~codec
        /\ UNCHANGED <<emitted, collector, flow, dropped, sawKeyframe, pending, available, input>>
    BY <1>4 DEF SurfaceTextureAvailable, Start, LeaveSeen, feedVars, flowVars
  <2>. QED  BY <2>1, QuietKeeps
<1>5. CASE SurfaceTextureDestroyed
  <2>1. Stop /\ UNCHANGED <<emitted, collector, flow, dropped>>
    BY <1>5 DEF SurfaceTextureDestroyed, feedVars, flowVars
  <2>. QED  BY <2>1, StopKeeps
<1>6. CASE Dispose
  <2>1. Stop /\ UNCHANGED <<emitted, dropped>> /\ collector' = "cancelled" /\ flow' = <<>>
    BY <1>6 DEF Dispose
  <2>. QED  BY <2>1, StopKeeps
<1>. QED
  BY <1>1, <1>2, <1>3, <1>4, <1>5, <1>6, EmitKeeps, FeedKeeps, InputBufferKeeps DEF Next

-----------------------------------------------------------------------------
(* What a codec is given *)

\* Two rising sequences, the one below the other, rise together.
LEMMA UpJoined ==
    ASSUME NEW S \in SUBSET Nat, NEW q \in Seq(S), NEW r \in Seq(S), Up(q), Up(r), Below(q, r)
    PROVE  q \o r \in Seq(S) /\ Up(q \o r) /\ Range(q \o r) = Range(q) \union Range(r)
<1>1. /\ q \o r \in Seq(S) /\ Len(q \o r) = Len(q) + Len(r)
      /\ Len(q) \in Nat /\ Len(r) \in Nat
      /\ \A i \in 1..Len(q) + Len(r) :
            (q \o r)[i] = IF i <= Len(q) THEN q[i] ELSE r[i - Len(q)]
  BY ConcatProperties
<1>2. /\ \A i \in 1..Len(q) : q[i] \in Range(q)
      /\ \A i \in 1..Len(r) : r[i] \in Range(r)
  BY RangeEquality
<1>3. Up(q \o r)
  <2> SUFFICES ASSUME NEW i \in 1..Len(q) + Len(r), NEW j \in 1..Len(q) + Len(r), i < j
               PROVE  (q \o r)[i] < (q \o r)[j]
    BY <1>1 DEF Up
  <2>1. CASE j <= Len(q)
    <3>1. i \in 1..Len(q) /\ j \in 1..Len(q) /\ (q \o r)[i] = q[i] /\ (q \o r)[j] = q[j]
      BY <1>1, <2>1
    <3>. QED  BY <3>1 DEF Up
  <2>2. CASE i <= Len(q) /\ ~(j <= Len(q))
    <3>1. /\ i \in 1..Len(q) /\ j - Len(q) \in 1..Len(r)
          /\ (q \o r)[i] = q[i] /\ (q \o r)[j] = r[j - Len(q)]
      BY <1>1, <2>2
    <3>. QED  BY <1>2, <3>1 DEF Below
  <2>3. CASE ~(i <= Len(q))
    <3>1. /\ i - Len(q) \in 1..Len(r) /\ j - Len(q) \in 1..Len(r) /\ i - Len(q) < j - Len(q)
          /\ (q \o r)[i] = r[i - Len(q)] /\ (q \o r)[j] = r[j - Len(q)]
      BY <1>1, <2>3
    <3>. QED  BY <3>1 DEF Up
  <2>. QED  BY <1>1, <2>1, <2>2, <2>3
<1>4. Range(q \o r) = Range(q) \union Range(r)
  BY RangeConcatenation
<1>. QED  BY <1>1, <1>3, <1>4

\* What lies between two neighbours of a rising sequence is not in it.
LEMMA NothingBetween ==
    ASSUME NEW S \in SUBSET Nat, NEW s \in Seq(S), Up(s)
    PROVE  /\ Rises(s)
           /\ \A i \in 1..(Len(s) - 1), f \in Nat :
                 s[i] < f /\ f < s[i + 1] => f \notin Range(s)
<1>1. Len(s) \in Nat /\ \A i \in 1..Len(s) : s[i] \in Nat
  <2>1. Len(s) \in Nat /\ \A i \in 1..Len(s) : s[i] \in S
    BY LenProperties, ElementOfSeq
  <2>. QED  BY <2>1
<1>2. \A i \in 1..(Len(s) - 1) : i \in 1..Len(s) /\ i + 1 \in 1..Len(s) /\ i < i + 1
  BY <1>1
<1>3. Rises(s)
  BY <1>2 DEF Rises, Up
<1>4. ASSUME NEW i \in 1..(Len(s) - 1), NEW f \in Nat, s[i] < f, f < s[i + 1],
             NEW k \in 1..Len(s), f = s[k]
      PROVE  FALSE
  <2>1. k <= i \/ k >= i + 1
    BY <1>1
  <2>2. s[k] <= s[i] \/ s[i + 1] <= s[k]
    <3>1. CASE k = i \/ k = i + 1
      BY <1>1, <1>2, <3>1
    <3>2. CASE k < i
      BY <1>1, <1>2, <3>2 DEF Up
    <3>3. CASE i + 1 < k
      BY <1>1, <1>2, <3>3 DEF Up
    <3>. QED  BY <2>1, <3>1, <3>2, <3>3
  <2>. QED  BY <1>1, <1>2, <1>4, <2>2
<1>. QED  BY <1>3, <1>4, RangeEquality

LEMMA QueueDecodable == PlayerTypeInv /\ QueueInv => Decodable
<1> SUFFICES ASSUME PlayerTypeInv, QueueInv
             PROVE  Decodable
  OBVIOUS
<1>0. /\ Rising /\ NothingLost /\ FirstIsIdr
      /\ flow \in Seq(Frame) /\ pending \in Seq(Frame) /\ input \in Seq(Frame)
  BY QueueTypes DEF QueueInv
<1>1. StartsWithIdr
  BY <1>0 DEF StartsWithIdr, FirstIsIdr, IsFirst
<1>2. PICK given \in Seq(Frame) : /\ given = input \o pending /\ Up(given)
                                  /\ Range(given) = Range(input) \union Range(pending)
  BY <1>0, FramesAreNumbers, UpJoined DEF Rising
<1>3. Below(given, flow)
  BY <1>0, <1>2 DEF Rising, Below
<1>4. given \o flow \in Seq(Frame) /\ Up(given \o flow)
  BY <1>0, <1>2, <1>3, FramesAreNumbers, UpJoined DEF Rising
<1>5. InOrder
  BY <1>2, <1>4, FramesAreNumbers, NothingBetween DEF InOrder
<1>6. ASSUME NEW i \in 1..(Len(given) - 1), NEW f \in (given[i] + 1)..(given[i + 1] - 1)
      PROVE  f \in dropped
  <2>1. Len(given) \in Nat /\ i \in 1..Len(given) /\ i + 1 \in 1..Len(given)
    BY <1>2, LenProperties
  <2>2. PICK a \in Frame, b \in Frame : a = given[i] /\ b = given[i + 1]
    BY <1>2, <2>1, ElementOfSeq
  <2>3. a \in Range(given) /\ b \in Range(given)
    BY <1>2, <2>1, <2>2, RangeEquality
  <2>4. f \in Nat /\ a < f /\ f < b /\ f \in Frame
    <3>1. a \in 1..MaxFrame /\ b \in 1..MaxFrame /\ MaxFrame \in Nat /\ f \in (a + 1)..(b - 1)
      BY <1>6, <2>2, VideoAssumption DEF Frame
    <3>. QED  BY <3>1 DEF Frame
  <2>5. f \notin Range(given)
    BY <1>2, <2>2, <2>4, FramesAreNumbers, NothingBetween
  <2>6. f \notin Range(flow)
    <3>1. ASSUME f \in Range(flow)
          PROVE  FALSE
      <4>1. b < f /\ b \in Nat
        BY <1>3, <2>3, <3>1, FramesAreNumbers DEF Below
      <4>. QED  BY <2>4, <4>1
    <3>. QED  BY <3>1
  <2>7. f \in Anywhere \union dropped
    BY <1>0, <1>2, <2>3, <2>4 DEF NothingLost, Anywhere
  <2>. QED  BY <1>2, <2>5, <2>6, <2>7 DEF Anywhere
<1>. QED  BY <1>1, <1>2, <1>5, <1>6 DEF Decodable, Gapless

\* A codec is given a stream it can decode: an IDR frame first, then the frames
\* of the stream in order, each once, with no gap but what a full queue pushed
\* out (feed, onInputBufferAvailable, start, stop).
THEOREM PlayerDecodable == Spec => []Decodable
<1>1. Init => PlayerTypeInv /\ QueueInv
  BY PlayerTypeInit, QueueInit
<1>2. PlayerTypeInv /\ QueueInv /\ [Next]_vars => (PlayerTypeInv /\ QueueInv)'
  <2>1. QueueInv => Rising
    BY DEF QueueInv
  <2>. QED  BY <2>1, PlayerTypeStep, QueueStep
<1>3. PlayerTypeInv /\ QueueInv => Decodable
  BY QueueDecodable
<1>. QED  BY <1>1, <1>2, <1>3, PTL DEF Spec

-----------------------------------------------------------------------------
(* The player and its clock *)

\* With the clock the player takes no step it would not take without.
LEMMA ClockStepsThePlayer == [ClockNext]_<<vars, clockVars>> => [Next]_vars
<1>1. Seed \/ Refine \/ Output \/ Show \/ Tick => UNCHANGED vars
  BY DEF Seed, Refine, Output, Show, Tick, audioUnchanged
<1>2. PlayerStep \/ FrameComes \/ CodecStarts \/ CodecEnds => Next
  BY DEF PlayerStep, FrameComes, CodecStarts, CodecEnds, Next
<1>. QED  BY <1>1, <1>2 DEF ClockNext

\* The same of the player with its clock: whenever what it outputs is shown,
\* what it is given can be decoded.
THEOREM FramesDecodable == ClockSpec => []Decodable
<1>1. ClockInit => Init
  BY DEF ClockInit
<1>2. ClockSpec => Spec
  BY <1>1, ClockStepsThePlayer, PTL DEF ClockSpec, Spec
<1>. QED  BY <1>2, PlayerDecodable, PTL

\* The values of the clock.
ClockTypes ==
    /\ now \in Nat /\ reference \in Origins \union {None} /\ origin \in Int \union {None}
    /\ decoded \in Nat /\ shown \in Seq(Frame)

LEMMA FrameTimes ==
    ASSUME NEW n \in Nat
    PROVE  Pts(n) \in Int
  BY ClockAssumption DEF Pts

\* What Output outputs.
LEMMA OutputFrame ==
    ASSUME PlayerTypeInv, ClockTypes, Output
    PROVE  /\ input[decoded + 1] \in Frame /\ decoded + 1 \in 1..Len(input)
           /\ Len(input) \in Nat /\ decoded' \in Nat /\ decoded' = decoded + 1
<1>1. input \in Seq(Frame) /\ decoded \in Nat /\ decoded < Len(input) /\ decoded' = decoded + 1
  BY DEF PlayerTypeInv, TypeOK, ClockTypes, Output
<1>2. decoded + 1 \in 1..Len(input) /\ Len(input) \in Nat
  BY <1>1, LenProperties
<1>. QED  BY <1>1, <1>2, ElementOfSeq

\* The posts are of frames the codec has put out, each of one of its own, and
\* so are the frames shown.
ItsOwn ==
    /\ posted # {} => codec
    /\ codec => decoded <= Len(input)
    /\ \A p \in posted : \E i \in 1..decoded : p.frame = input[i]
    /\ codec => \A f \in Range(shown) : \E i \in 1..decoded : f = input[i]
    /\ \A p, q \in posted : p.frame = q.frame => p = q
    /\ \A p \in posted : p.frame \in Frame /\ p.frame \notin Range(shown)

\* Each frame put out is posted or shown.
Counted ==
    /\ IsFiniteSet(posted)
    /\ codec => Cardinality(posted) + Len(shown) = decoded

PostInv == ClockTypes /\ ItsOwn /\ Counted

LEMMA PostInit == ClockInit => PostInv
<1> SUFFICES ASSUME ClockInit
             PROVE  PostInv
  OBVIOUS
<1>1. /\ codec = FALSE /\ now = 0 /\ reference \in Origins \union {None} /\ origin = None
      /\ decoded = 0 /\ posted = {} /\ shown = <<>> /\ shown \in Seq(Frame)
  BY EmptySeq DEF ClockInit, Init
<1>2. ClockTypes
  BY <1>1 DEF ClockTypes
<1>3. ItsOwn /\ Counted
  BY <1>1, FS_EmptySet DEF ItsOwn, Counted
<1>. QED  BY <1>2, <1>3 DEF PostInv

\* While a codec runs, what it was given stays where it is.
LEMMA InputGrows ==
    ASSUME PlayerTypeInv, QueueInv, Feed \/ InputBufferAvailable \/ Decode \/ Collect \/ Emit
    PROVE  /\ codec' = codec /\ Len(input) <= Len(input')
           /\ \A i \in 1..Len(input) : input'[i] = input[i]
<1>0. input \in Seq(Frame) /\ flow \in Seq(Frame) /\ pending \in Seq(Frame) /\ Len(input) \in Nat
  BY QueueTypes, LenProperties
<1>1. codec' = codec
  BY DEF Feed, InputBufferAvailable, Decode, Collect, Emit, playerUnchanged
<1>2. input' = input \/ \E n \in Frame : input' = Append(input, n)
  <2>1. CASE Decode \/ Collect \/ Emit
    BY <2>1 DEF Decode, Collect, Emit, playerUnchanged
  <2>2. CASE Feed
    <3>1. Head(flow) \in Frame
      BY <1>0, <2>2, Shortened DEF Feed
    <3>2. input' = input \/ input' = Append(input, Head(flow))
      BY <2>2 DEF Feed, Queue, Submit
    <3>. QED  BY <3>1, <3>2
  <2>3. CASE InputBufferAvailable
    <3>1. CASE pending = <<>>
      BY <2>3, <3>1 DEF InputBufferAvailable, TakePending
    <3>2. CASE pending # <<>>
      <4>1. Head(pending) \in Frame
        BY <1>0, <3>2, Shortened
      <4>. QED  BY <2>3, <3>2, <4>1 DEF InputBufferAvailable, TakePending, Submit
    <3>. QED  BY <3>1, <3>2
  <2>. QED  BY <2>1, <2>2, <2>3
<1>3. CASE input' = input
  BY <1>0, <1>1, <1>3
<1>4. CASE \E n \in Frame : input' = Append(input, n)
  <2>1. PICK n \in Frame : input' = Append(input, n)
    BY <1>4
  <2>. QED  BY <1>0, <1>1, <2>1, Appended
<1>. QED  BY <1>2, <1>3, <1>4

\* A step of the player alone keeps them.
LEMMA GrowthKeepsPosts ==
    ASSUME PlayerTypeInv, PostInv, UNCHANGED clockVars, codec' = codec,
           Len(input) <= Len(input'), \A i \in 1..Len(input) : input'[i] = input[i],
           Len(input') \in Nat
    PROVE  PostInv'
<1>0. /\ ClockTypes /\ ItsOwn /\ Counted /\ input \in Seq(Frame) /\ Len(input) \in Nat
      /\ decoded \in Nat
      /\ UNCHANGED <<now, reference, origin, decoded, posted, shown, codec>>
  BY LenProperties DEF PostInv, ClockTypes, PlayerTypeInv, TypeOK, clockVars, audioVars
<1>1. ClockTypes' /\ Counted'
  BY <1>0 DEF ClockTypes, Counted
<1>2. codec => decoded <= Len(input') /\ \A i \in 1..decoded : input'[i] = input[i]
  BY <1>0 DEF ItsOwn
<1>3. ItsOwn'
  BY <1>0, <1>2 DEF ItsOwn
<1>. QED  BY <1>1, <1>3 DEF PostInv

LEMMA OutputKeepsPosts == PlayerTypeInv /\ QueueInv /\ PostInv /\ Output => PostInv'
<1> SUFFICES ASSUME PlayerTypeInv, QueueInv, PostInv, Output
             PROVE  PostInv'
  OBVIOUS
<1>0. /\ ClockTypes /\ ItsOwn /\ Counted /\ codec /\ input \in Seq(Frame) /\ Up(input)
      /\ decoded \in Nat /\ now \in Nat /\ shown \in Seq(Frame)
      /\ UNCHANGED <<now, reference, codec, input>>
  BY DEF PostInv, ClockTypes, PlayerTypeInv, TypeOK, QueueInv, Rising, Output, vars, audioVars
<1>1. PICK n \in Frame : n = input[decoded + 1]
  BY <1>0, OutputFrame
<1>2. /\ decoded + 1 \in 1..Len(input) /\ decoded' = decoded + 1 /\ Len(input) \in Nat
      /\ n \in Nat
  BY <1>0, <1>1, OutputFrame, FramesAreNumbers
<1>3. \A i \in 1..decoded : i \in 1..Len(input) /\ i < decoded + 1
  BY <1>0, <1>2
<1>4. \A i \in 1..decoded : input[i] # n
  <2> SUFFICES ASSUME NEW i \in 1..decoded
               PROVE  input[i] # n
    OBVIOUS
  <2>1. input[i] < n
    BY <1>0, <1>1, <1>2, <1>3 DEF Up
  <2>. QED  BY <1>2, <2>1
<1>5. origin' \in Int \union {None}
  <2>1. Pts(n) \in Int
    BY <1>2, FrameTimes
  <2>2. origin' = Anchor(n)
    BY <1>1 DEF Output
  <2>3. now - Pts(n) + Startup \in Int
    BY <1>0, <2>1, ClockAssumption
  <2>. QED  BY <1>0, <2>2, <2>3, ClockAssumption DEF Anchor, ClockTypes
<1>6. (\A p \in posted : p.frame # n) /\ n \notin Range(shown)
  BY <1>0, <1>4 DEF ItsOwn
<1>7. \A i \in 1..decoded : i \in 1..decoded'
  BY <1>0, <1>2
<1>8. decoded' \in 1..decoded' /\ input[decoded'] = n /\ decoded' <= Len(input) /\ decoded' \in Nat
  BY <1>0, <1>1, <1>2
<1>9. CASE /\ posted' = posted \union {[frame |-> n, due |-> Due(n, origin')]}
           /\ UNCHANGED shown
  <2>1. PICK m : m = [frame |-> n, due |-> Due(n, origin')]
    OBVIOUS
  <2>2. m.frame = n /\ posted' = posted \union {m} /\ m \notin posted
    BY <1>6, <1>9, <2>1
  <2>3. IsFiniteSet(posted') /\ Cardinality(posted') = Cardinality(posted) + 1
    BY <1>0, <2>2, FS_AddElement DEF Counted
  <2>4. Counted'
    <3>1. Cardinality(posted) \in Nat /\ Len(shown) \in Nat
      BY <1>0, FS_CardinalityType, LenProperties DEF Counted
    <3>2. Cardinality(posted) + Len(shown) = decoded
      BY <1>0 DEF Counted
    <3>3. Len(shown') = Len(shown)
      BY <1>9
    <3>4. Cardinality(posted') + Len(shown') = decoded'
      BY <1>2, <2>3, <3>1, <3>2, <3>3
    <3>. QED  BY <2>3, <3>4 DEF Counted
  <2>5. ClockTypes'
    BY <1>0, <1>5, <1>8, <1>9 DEF ClockTypes
  <2>6. ItsOwn'
    <3>1. \A p \in posted' : \E i \in 1..decoded' : p.frame = input[i]
      BY <1>0, <1>7, <1>8, <2>2 DEF ItsOwn
    <3>2. \A f \in Range(shown) : \E i \in 1..decoded' : f = input[i]
      BY <1>0, <1>7 DEF ItsOwn
    <3>3. \A p, q \in posted' : p.frame = q.frame => p = q
      BY <1>0, <1>6, <2>2 DEF ItsOwn
    <3>4. \A p \in posted' : p.frame \in Frame /\ p.frame \notin Range(shown)
      BY <1>0, <1>6, <2>2 DEF ItsOwn
    <3>. QED  BY <1>0, <1>8, <1>9, <3>1, <3>2, <3>3, <3>4 DEF ItsOwn
  <2>. QED  BY <2>4, <2>5, <2>6 DEF PostInv
<1>10. CASE shown' = Append(shown, n) /\ UNCHANGED posted
  <2>1. /\ shown' \in Seq(Frame) /\ Len(shown') = Len(shown) + 1 /\ Len(shown) \in Nat
        /\ Range(shown') = Range(shown) \union {n}
    BY <1>0, <1>10, Appended
  <2>2. Counted'
    <3>1. Cardinality(posted) \in Nat
      BY <1>0, FS_CardinalityType DEF Counted
    <3>2. Cardinality(posted) + Len(shown) = decoded
      BY <1>0 DEF Counted
    <3>3. Cardinality(posted') = Cardinality(posted) /\ IsFiniteSet(posted')
      BY <1>0, <1>10 DEF Counted
    <3>4. Cardinality(posted') + Len(shown') = decoded'
      BY <1>2, <2>1, <3>1, <3>2, <3>3
    <3>. QED  BY <3>3, <3>4 DEF Counted
  <2>3. ClockTypes'
    BY <1>0, <1>5, <1>8, <2>1 DEF ClockTypes
  <2>4. ItsOwn'
    <3>1. \A p \in posted : \E i \in 1..decoded' : p.frame = input[i]
      BY <1>0, <1>7 DEF ItsOwn
    <3>2. \A f \in Range(shown') : \E i \in 1..decoded' : f = input[i]
      BY <1>0, <1>7, <1>8, <2>1 DEF ItsOwn
    <3>3. \A p \in posted : p.frame \in Frame /\ p.frame \notin Range(shown')
      BY <1>0, <1>6, <2>1 DEF ItsOwn
    <3>. QED  BY <1>0, <1>8, <1>10, <3>1, <3>2, <3>3 DEF ItsOwn
  <2>. QED  BY <2>2, <2>3, <2>4 DEF PostInv
<1>. QED  BY <1>1, <1>9, <1>10 DEF Output

LEMMA ShowKeepsPosts == PlayerTypeInv /\ PostInv /\ Show => PostInv'
<1> SUFFICES ASSUME PlayerTypeInv, PostInv, Show
             PROVE  PostInv'
  OBVIOUS
<1>0. /\ ClockTypes /\ ItsOwn /\ Counted /\ shown \in Seq(Frame) /\ decoded \in Nat
      /\ UNCHANGED <<now, reference, origin, decoded, codec, input>>
  BY DEF PostInv, ClockTypes, Show, vars, audioVars
<1>1. PICK m \in posted : posted' = posted \ {m} /\ shown' = Append(shown, m.frame)
  BY DEF Show
<1>2. codec /\ m.frame \in Frame
  BY <1>0, <1>1 DEF ItsOwn
<1>3. /\ shown' \in Seq(Frame) /\ Len(shown') = Len(shown) + 1 /\ Len(shown) \in Nat
      /\ Range(shown') = Range(shown) \union {m.frame}
  BY <1>0, <1>1, <1>2, Appended
<1>4. /\ IsFiniteSet(posted') /\ Cardinality(posted') = Cardinality(posted) - 1
      /\ Cardinality(posted) \in Nat
  BY <1>0, <1>1, FS_RemoveElement, FS_CardinalityType DEF Counted
<1>5. ClockTypes' /\ Counted'
  BY <1>0, <1>2, <1>3, <1>4 DEF ClockTypes, Counted
<1>6. ItsOwn'
  <2>1. \A p \in posted' : p \in posted /\ p # m
    BY <1>1
  <2>2. \A f \in Range(shown') : \E i \in 1..decoded : f = input[i]
    BY <1>0, <1>1, <1>2, <1>3 DEF ItsOwn
  <2>3. \A p \in posted' : p.frame \in Frame /\ p.frame \notin Range(shown')
    BY <1>0, <1>1, <1>3, <2>1 DEF ItsOwn
  <2>. QED  BY <1>0, <1>2, <2>1, <2>2, <2>3 DEF ItsOwn
<1>. QED  BY <1>5, <1>6 DEF PostInv

LEMMA PostStep ==
    PlayerTypeInv /\ QueueInv /\ PostInv /\ [ClockNext]_<<vars, clockVars>> => PostInv'
<1> SUFFICES ASSUME PlayerTypeInv, QueueInv, PostInv, [ClockNext]_<<vars, clockVars>>
             PROVE  PostInv'
  OBVIOUS
<1>0. /\ ClockTypes /\ ItsOwn /\ Counted /\ input \in Seq(Frame) /\ Len(input) \in Nat
      /\ decoded \in Nat /\ now \in Nat
  BY LenProperties DEF PostInv, ClockTypes, PlayerTypeInv, TypeOK
<1>1. CASE UNCHANGED <<vars, clockVars>>
  <2>1. UNCHANGED clockVars /\ input' = input /\ codec' = codec
    BY <1>1 DEF vars
  <2>. QED  BY <1>0, <2>1, GrowthKeepsPosts
<1>2. CASE Seed \/ Refine
  <2>1. /\ reference' \in Origins
        /\ UNCHANGED <<now, origin, decoded, posted, shown, codec, input>>
    BY <1>2 DEF Seed, Refine, audioUnchanged, vars
  <2>. QED  BY <1>0, <2>1 DEF PostInv, ClockTypes, ItsOwn, Counted
<1>3. CASE Tick
  <2>1. /\ now' = now + 1
        /\ UNCHANGED <<reference, origin, decoded, posted, shown, codec, input>>
    BY <1>3 DEF Tick, audioVars, vars
  <2>2. now' \in Nat
    BY <1>0, <2>1
  <2>. QED  BY <1>0, <2>1, <2>2 DEF PostInv, ClockTypes, ItsOwn, Counted
<1>4. CASE PlayerStep \/ FrameComes
  <2>1. /\ Feed \/ InputBufferAvailable \/ Decode \/ Collect \/ Emit
        /\ UNCHANGED clockVars
    BY <1>4 DEF PlayerStep, FrameComes
  <2>2. [Next]_vars /\ Rising
    BY <2>1 DEF Next, QueueInv
  <2>3. Len(input') \in Nat
    <3>1. PlayerTypeInv'
      BY <2>2, PlayerTypeStep
    <3>2. input' \in Seq(Frame)
      BY <3>1 DEF PlayerTypeInv, TypeOK
    <3>. QED  BY <3>2, LenProperties
  <2>. QED  BY <2>1, <2>3, InputGrows, GrowthKeepsPosts
<1>5. CASE CodecStarts
  <2>1. /\ ~codec /\ input' = input
        /\ origin' = None /\ decoded' = 0 /\ shown' = <<>>
        /\ UNCHANGED <<now, reference, posted>>
    BY <1>5 DEF CodecStarts, SurfaceTextureAvailable, Start, audioVars
  <2>2. posted = {} /\ <<>> \in Seq(Frame) /\ Len(<<>>) = 0 /\ Range(<<>>) = {}
    BY <1>0, <2>1, EmptyRange DEF ItsOwn
  <2>3. ClockTypes'
    BY <1>0, <2>1, <2>2 DEF ClockTypes
  <2>4. ItsOwn'
    BY <1>0, <2>1, <2>2 DEF ItsOwn
  <2>5. Counted'
    <3>1. IsFiniteSet({}) /\ Cardinality({}) = 0
      BY FS_EmptySet
    <3>. QED  BY <2>1, <2>2, <3>1 DEF Counted
  <2>. QED  BY <2>3, <2>4, <2>5 DEF PostInv
<1>6. CASE CodecEnds
  <2>1. /\ UNCHANGED <<now, reference, origin, decoded, shown>>
        /\ IF codec THEN posted' = {} ELSE UNCHANGED posted
        /\ Stop
    BY <1>6 DEF CodecEnds, Unpost, audioVars, SurfaceTextureDestroyed, Dispose
  <2>2. codec' = FALSE
    <3>1. CASE codec
      BY <2>1, <3>1 DEF Stop
    <3>2. CASE ~codec
      BY <2>1, <3>2 DEF Stop, PlayerTypeInv, TypeOK
    <3>. QED  BY <3>1, <3>2
  <2>3. posted' = {}
    BY <1>0, <2>1 DEF ItsOwn
  <2>4. ClockTypes' /\ ItsOwn' /\ Counted'
    BY <1>0, <2>1, <2>2, <2>3, FS_EmptySet DEF ClockTypes, ItsOwn, Counted
  <2>. QED  BY <2>4 DEF PostInv
<1>. QED
  BY <1>1, <1>2, <1>3, <1>4, <1>5, <1>6, OutputKeepsPosts, ShowKeepsPosts DEF ClockNext

LEMMA ClockInductive ==
    ClockSpec => [](PlayerTypeInv /\ QueueInv /\ PostInv)
<1>1. ClockInit => PlayerTypeInv /\ QueueInv /\ PostInv
  BY PlayerTypeInit, QueueInit, PostInit DEF ClockInit
<1>2. /\ PlayerTypeInv /\ QueueInv /\ PostInv
      /\ [ClockNext]_<<vars, clockVars>>
      => (PlayerTypeInv /\ QueueInv /\ PostInv)'
  <2>1. QueueInv => Rising
    BY DEF QueueInv
  <2>. QED  BY <2>1, ClockStepsThePlayer, PlayerTypeStep, QueueStep, PostStep
<1>. QED  BY <1>1, <1>2, PTL DEF ClockSpec

\* A frame the handler holds is of the codec that runs, and that codec gets
\* each of its output buffers back once: none is posted twice, nor posted and
\* shown, and none stays with neither (onOutputBufferAvailable, stop).
THEOREM BuffersGoBackOnce == ClockSpec => []PostedOnce
<1>1. PostInv => PostedOnce
  BY DEF PostInv, ItsOwn, Counted, PostedOnce
<1>. QED  BY <1>1, ClockInductive, PTL

-----------------------------------------------------------------------------
(* Shown in time *)

\* The step of InSync: the frame's origin is the audio's, or no further from it
\* than the slack.
LEMMA SyncStep ==
    ASSUME PlayerTypeInv, ClockTypes, Output, reference # None
    PROVE  /\ \A p \in posted' \ posted :
                 /\ p.due <= Heard + Slack
                 /\ p.due >= AtMost(Heard - Slack, now + MaxDelay)
           /\ shown' # shown => Heard - Slack <= now
<1>1. PICK n \in Frame : n = input[decoded + 1]
  BY OutputFrame
<1>2. n \in Nat
  BY FramesAreNumbers
<1>3. PICK d \in Int : d = Pts(n)
  BY <1>2, FrameTimes
<1>4. PICK o : o = origin'
  OBVIOUS
<1>5. /\ o = Anchor(n)
      /\ \/ posted' = posted \union {[frame |-> n, due |-> Due(n, o)]} /\ shown' = shown
         \/ o + d <= now /\ posted' = posted
  BY <1>1, <1>3, <1>4 DEF Output
<1>6. /\ now \in Int /\ reference \in Int /\ Slack \in Nat /\ MaxDelay \in Nat
      /\ (origin = None \/ origin \in Int)
  BY ClockAssumption DEF ClockTypes
<1>7. o \in Int /\ reference - Slack <= o /\ o <= reference + Slack
  <2>1. CASE o = reference
    BY <1>6, <2>1
  <2>2. CASE o = origin /\ origin # None /\ ~Drifts(origin)
    <3>1. origin \in Int /\ ~(Distance(reference, origin) > Slack)
      BY <1>6, <2>2 DEF Drifts
    <3>2. reference - Slack <= origin /\ origin <= reference + Slack
      BY <1>6, <3>1 DEF Distance
    <3>. QED  BY <2>2, <3>1, <3>2
  <2>. QED  BY <1>5, <2>1, <2>2 DEF Anchor
<1>8. PICK due : due = Due(n, o)
  OBVIOUS
<1>9. due = now + AtMost(o + d - now, MaxDelay)
  BY <1>3, <1>8 DEF Due
<1>10. PICK h : h = Heard
  OBVIOUS
<1>11. h = reference + d /\ h \in Int
  BY <1>1, <1>3, <1>6, <1>10 DEF Heard
<1>12. due <= h + Slack /\ due >= AtMost(h - Slack, now + MaxDelay)
  BY <1>6, <1>7, <1>9, <1>11 DEF AtMost
<1>13. \A p \in posted' \ posted : p.due = due
  BY <1>5, <1>8
<1>14. shown' # shown => h - Slack <= now
  BY <1>5, <1>6, <1>7, <1>11
<1>. QED  BY <1>10, <1>12, <1>13, <1>14

\* Whatever the audio has published by the time a frame comes out of the codec,
\* the frame is due when the audio of its time is heard, give or take the slack
\* (onOutputBufferAvailable, AvSyncClock).
THEOREM FramesInSync == ClockSpec => InSync
<1>1. PlayerTypeInv /\ QueueInv /\ PostInv /\ [ClockNext]_<<vars, clockVars>> =>
         [Output /\ reference # None =>
             /\ \A p \in posted' \ posted :
                   /\ p.due <= Heard + Slack
                   /\ p.due >= AtMost(Heard - Slack, now + MaxDelay)
             /\ shown' # shown => Heard - Slack <= now]_<<vars, clockVars>>
  BY SyncStep DEF PostInv
<1>. QED  BY <1>1, ClockInductive, PTL DEF ClockSpec, InSync
=============================================================================
