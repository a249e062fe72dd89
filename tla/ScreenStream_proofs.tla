-------------------------- MODULE ScreenStream_proofs --------------------------
(***************************************************************************)
(* The safety of the screen stream, for any number of sessions, streams,   *)
(* attempts and requests and any capacity of the queues: no key frame that *)
(* is due is forgotten (KeyframeNotLost), on the LAN a packet comes after  *)
(* its stream's StreamStarted (AnnouncedFirst), only one stream captures   *)
(* the screen (OneCapture), and a stream no session holds has been told to *)
(* stop and has lost its receiver (AbandonedIsStopped), which is what its  *)
(* threads leave their loops and their blocking_send for.                  *)
(*                                                                         *)
(* The last two need who holds a stream: one session that is in its loop,  *)
(* and no stream that is not started yet.                                  *)
(***************************************************************************)
EXTENDS ScreenStream, SequenceTheorems, TLAPS

Command == [kind : {"started", "stopped"}, stream : Stream]
Packet  == {"key", "delta", "audio"}
Picture == {"key", "delta"}

\* A session in start_stream has attempts left and no stream.
StartingHasNone ==
    \A s \in Sessions : /\ at[s] = "starting" => tries[s] < Attempts
                        /\ at[s] # "loop" => active[s] = None

\* A video thread in blocking_send has a packet.
SendsAPacket == \A n \in Stream : video[n] = "send" => inHand[n] # <<>>

StreamTypeInv == TypeOK /\ StartingHasNone /\ SendsAPacket

-----------------------------------------------------------------------------
(* Types *)

\* A queue that grows, and one whose head is taken.
LEMMA Appended ==
    ASSUME NEW S, NEW q \in Seq(S), NEW e \in S
    PROVE  /\ Append(q, e) \in Seq(S)
           /\ Len(Append(q, e)) = Len(q) + 1 /\ Len(q) \in Nat
           /\ Append(q, e)[Len(q) + 1] = e
           /\ \A i \in 1..Len(q) : Append(q, e)[i] = q[i]
  BY AppendProperties

LEMMA Shortened ==
    ASSUME NEW S, NEW q \in Seq(S), q # <<>>
    PROVE  /\ Tail(q) \in Seq(S) /\ Len(Tail(q)) = Len(q) - 1
           /\ Head(q) = q[1] /\ Head(q) \in S /\ Len(q) \in Nat /\ Len(q) > 0
           /\ \A i \in 1..Len(q) - 1 : Tail(q)[i] = q[i + 1]
  BY HeadTailProperties

\* Of the commands and packets only the sets they are from matter here.
StreamTypes ==
    /\ at \in [Sessions -> {"loop", "starting", "back"}]
    /\ tries \in [Sessions -> 0..Attempts]
    /\ active \in [Sessions -> Stream \cup {None}]
    /\ control \in [Sessions -> Seq(Command)]
    /\ out \in [Sessions -> Seq(Stream)] /\ \A s \in Sessions : Len(out[s]) <= VideoCap
    /\ heard \in [Sessions -> SUBSET Stream]
    /\ streams \in 0..MaxStream /\ dup \in Stream \cup {None} /\ asks \in 0..MaxAsk
    /\ video \in [Stream -> {"none", "loop", "send", "exited"}]
    /\ audio \in [Stream -> {"none", "loop", "send", "exited"}]
    /\ inHand \in [Stream -> Seq(Picture)]
    /\ packets \in [Stream -> Seq(Packet)] /\ \A n \in Stream : Len(packets[n]) <= Cap
    /\ rx \in [Stream -> BOOLEAN] /\ stop \in [Stream -> BOOLEAN]
    /\ forceKf \in [Stream -> BOOLEAN] /\ pendingIdr \in [Stream -> BOOLEAN]
    /\ asked \in [Stream -> BOOLEAN] /\ kept \in [Stream -> BOOLEAN]

LEMMA Types == TypeOK <=> StreamTypes
  BY DEF TypeOK, StreamTypes, Command, Packet, Picture

LEMMA StreamInit == Init => StreamTypeInv
<1> SUFFICES ASSUME Init
             PROVE  StreamTypeInv
  OBVIOUS
<1>1. /\ at \in [Sessions -> {"loop", "starting", "back"}]
      /\ active \in [Sessions -> Stream \cup {None}]
      /\ heard \in [Sessions -> SUBSET Stream]
      /\ video \in [Stream -> {"none", "loop", "send", "exited"}]
      /\ audio \in [Stream -> {"none", "loop", "send", "exited"}]
      /\ rx \in [Stream -> BOOLEAN] /\ stop \in [Stream -> BOOLEAN]
      /\ forceKf \in [Stream -> BOOLEAN] /\ pendingIdr \in [Stream -> BOOLEAN]
      /\ asked \in [Stream -> BOOLEAN] /\ kept \in [Stream -> BOOLEAN]
  BY DEF Init
<1>2. /\ tries \in [Sessions -> 0..Attempts] /\ streams \in 0..MaxStream
      /\ asks \in 0..MaxAsk /\ dup \in Stream \cup {None}
      /\ Cap \in Nat /\ VideoCap \in Nat
  BY StreamAssumption DEF Init
<1>3. /\ control \in [Sessions -> Seq(Command)] /\ out \in [Sessions -> Seq(Stream)]
      /\ packets \in [Stream -> Seq(Packet)] /\ inHand \in [Stream -> Seq(Picture)]
  BY EmptySeq DEF Init
<1>4. /\ \A s \in Sessions : Len(out[s]) <= VideoCap
      /\ \A n \in Stream : Len(packets[n]) <= Cap
  BY <1>2 DEF Init
<1>5. StartingHasNone /\ SendsAPacket
  BY DEF Init, StartingHasNone, SendsAPacket
<1>. QED  BY <1>1, <1>2, <1>3, <1>4, <1>5, Types DEF StreamTypeInv, StreamTypes

\* A session's stop of its stream keeps the types.
LEMMA DropTypes ==
    ASSUME StreamTypes, NEW n \in Stream, DropHandle(n)
    PROVE  /\ rx' \in [Stream -> BOOLEAN] /\ stop' \in [Stream -> BOOLEAN]
           /\ packets' \in [Stream -> Seq(Packet)]
           /\ \A m \in Stream : Len(packets'[m]) <= Cap
<1>1. packets' = [packets EXCEPT ![n] = <<>>]
  BY DEF DropHandle
<1>2. Len(<<>>) <= Cap /\ <<>> \in Seq(Packet)
  BY StreamAssumption
<1>3. packets' \in [Stream -> Seq(Packet)] /\ \A m \in Stream : Len(packets'[m]) <= Cap
  BY <1>1, <1>2 DEF StreamTypes
<1>. QED  BY <1>3 DEF DropHandle, StreamTypes

\* A control message that is queued keeps the types.
LEMMA TellTypes ==
    ASSUME StreamTypes, NEW s \in Sessions, NEW m \in Command,
           control' = [control EXCEPT ![s] = Append(@, m)]
    PROVE  control' \in [Sessions -> Seq(Command)]
<1>1. Append(control[s], m) \in Seq(Command)
  BY Appended DEF StreamTypes
<1>. QED  BY <1>1 DEF StreamTypes

LEMMA Commands ==
    /\ \A n \in Stream : Started(n) \in Command /\ Stopped(n) \in Command
    /\ \A n \in Stream : n # None /\ n \in Nat
    /\ None \notin Stream
  BY StreamAssumption DEF Started, Stopped, Command, Stream, None

\* A packet that a thread sends fits.
LEMMA PacketTypes ==
    ASSUME StreamTypes, NEW n \in Stream, NEW p \in Packet, Len(packets[n]) < Cap,
           packets' = [packets EXCEPT ![n] = Append(@, p)]
    PROVE  /\ packets' \in [Stream -> Seq(Packet)]
           /\ \A m \in Stream : Len(packets'[m]) <= Cap
<1>1. /\ Append(packets[n], p) \in Seq(Packet)
      /\ Len(Append(packets[n], p)) = Len(packets[n]) + 1 /\ Len(packets[n]) \in Nat
  BY Appended DEF StreamTypes
<1>2. Len(packets[n]) + 1 <= Cap
  BY <1>1, StreamAssumption
<1>. QED  BY <1>1, <1>2 DEF StreamTypes

\* What an encoder hands out is a sequence of pictures.
LEMMA OutputTypes ==
    ASSUME NEW ps \in Outputs
    PROVE  ps \in Seq(Picture)
<1>1. PICK c \in 0..MaxOut : ps \in [1..c -> Picture]
  BY DEF Outputs, Picture
<1>2. c \in Nat
  BY StreamAssumption
<1>. QED  BY <1>1, <1>2

\* When a video thread ends, what is left of it has its types.
LEMMA EndTypes ==
    ASSUME StreamTypes, SendsAPacket, NEW n \in Stream, ThreadEnds(n)
    PROVE  /\ video' \in [Stream -> {"none", "loop", "send", "exited"}]
           /\ inHand' \in [Stream -> Seq(Picture)] /\ pendingIdr' \in [Stream -> BOOLEAN]
           /\ asked' \in [Stream -> BOOLEAN] /\ kept' \in [Stream -> BOOLEAN]
           /\ SendsAPacket'
<1>1. <<>> \in Seq(Picture) /\ inHand' = [inHand EXCEPT ![n] = <<>>]
  BY DEF ThreadEnds
<1>2. inHand' \in [Stream -> Seq(Picture)]
  BY <1>1 DEF StreamTypes
<1>3. /\ \A m \in Stream \ {n} : video'[m] = video[m] /\ inHand'[m] = inHand[m]
      /\ video'[n] = "exited"
  BY <1>1 DEF StreamTypes, ThreadEnds
<1>. QED  BY <1>2, <1>3 DEF StreamTypes, ThreadEnds, SendsAPacket

LEMMA StreamTypeStep == StreamTypeInv /\ [Next]_vars => StreamTypeInv'
<1> SUFFICES ASSUME StreamTypeInv, [Next]_vars
             PROVE  StreamTypes' /\ StartingHasNone' /\ SendsAPacket'
  BY DEF StreamTypeInv, TypeOK, StreamTypes, Command, Packet, Picture
<1>0. StreamTypes /\ StartingHasNone /\ SendsAPacket
  BY Types DEF StreamTypeInv
<1> USE StreamAssumption DEF history
<1>1. CASE UNCHANGED vars
  BY <1>0, <1>1 DEF StreamTypes, StartingHasNone, SendsAPacket, vars, sessionVars, threadVars
<1>2. ASSUME NEW s \in Sessions, Request(s)
      PROVE  StreamTypes' /\ StartingHasNone' /\ SendsAPacket'
  BY <1>0, <1>2 DEF StreamTypes, StartingHasNone, SendsAPacket, Request, threadVars
<1>3. ASSUME NEW s \in Sessions, CaptureBusy(s)
      PROVE  StreamTypes' /\ StartingHasNone' /\ SendsAPacket'
  BY <1>0, <1>3 DEF StreamTypes, StartingHasNone, SendsAPacket, CaptureBusy, threadVars
<1>4. ASSUME NEW s \in Sessions, NoEncoder(s)
      PROVE  StreamTypes' /\ StartingHasNone' /\ SendsAPacket'
  BY <1>0, <1>4 DEF StreamTypes, StartingHasNone, SendsAPacket, NoEncoder, threadVars
<1>5. ASSUME NEW s \in Sessions, StartStream(s)
      PROVE  StreamTypes' /\ StartingHasNone' /\ SendsAPacket'
  <2> DEFINE n == streams + 1
  <2>1. n \in Stream /\ Started(n) \in Command
    BY <1>5, Commands DEF StartStream
  <2>2. control' \in [Sessions -> Seq(Command)]
    BY <1>0, <1>5, <2>1, TellTypes DEF StartStream
  <2>3. streams' \in 0..MaxStream
    BY <1>0, <1>5, <2>1 DEF StartStream, Stream
  <2>4. PICK a \in Audios : audio' = [audio EXCEPT ![n] = IF a THEN "loop" ELSE "none"]
    BY <1>5 DEF StartStream
  <2>5. audio' \in [Stream -> {"none", "loop", "send", "exited"}]
    BY <1>0, <2>4 DEF StreamTypes
  <2>. QED
    BY <1>0, <1>5, <2>1, <2>2, <2>3, <2>5 DEF StreamTypes, StartingHasNone, SendsAPacket, StartStream
<1>6. ASSUME NEW s \in Sessions, StreamStop(s)
      PROVE  StreamTypes' /\ StartingHasNone' /\ SendsAPacket'
  <2>1. active[s] \in Stream
    BY <1>0, <1>6 DEF StreamStop, StreamTypes
  <2>2. /\ rx' \in [Stream -> BOOLEAN] /\ stop' \in [Stream -> BOOLEAN]
        /\ packets' \in [Stream -> Seq(Packet)]
        /\ \A m \in Stream : Len(packets'[m]) <= Cap
    BY <1>0, <1>6, <2>1, DropTypes DEF StreamStop
  <2>3. control' \in [Sessions -> Seq(Command)]
    BY <1>0, <1>6, <2>1, Commands, TellTypes DEF StreamStop, TellStopped
  <2>. QED
    BY <1>0, <1>6, <2>1, <2>2, <2>3 DEF StreamTypes, StartingHasNone, SendsAPacket, StreamStop
<1>7. ASSUME NEW s \in Sessions, KeyframeRequest(s)
      PROVE  StreamTypes' /\ StartingHasNone' /\ SendsAPacket'
  <2>1. active[s] \in Stream
    BY <1>0, <1>7 DEF KeyframeRequest, StreamTypes
  <2>. QED
    BY <1>0, <1>7, <2>1
    DEF StreamTypes, StartingHasNone, SendsAPacket, KeyframeRequest, sessionVars, threadVars
<1>8. ASSUME NEW s \in Sessions, PeerGone(s)
      PROVE  StreamTypes' /\ StartingHasNone' /\ SendsAPacket'
  <2>1. /\ rx' \in [Stream -> BOOLEAN] /\ stop' \in [Stream -> BOOLEAN]
        /\ packets' \in [Stream -> Seq(Packet)]
        /\ \A m \in Stream : Len(packets'[m]) <= Cap
    <3>1. CASE active[s] # None
      <4>1. active[s] \in Stream
        BY <1>0, <3>1 DEF StreamTypes
      <4>. QED  BY <1>0, <1>8, <3>1, <4>1, DropTypes DEF PeerGone
    <3>2. CASE active[s] = None
      BY <1>0, <1>8, <3>2 DEF PeerGone, StreamTypes
    <3>. QED  BY <3>1, <3>2
  <2>2. /\ control' = [control EXCEPT ![s] = <<>>] /\ out' = [out EXCEPT ![s] = <<>>]
        /\ <<>> \in Seq(Command) /\ <<>> \in Seq(Stream) /\ Len(<<>>) <= VideoCap
    BY <1>8 DEF PeerGone
  <2>3. /\ control' \in [Sessions -> Seq(Command)] /\ out' \in [Sessions -> Seq(Stream)]
        /\ \A t \in Sessions : Len(out'[t]) <= VideoCap
    BY <1>0, <2>2 DEF StreamTypes
  <2>. QED
    BY <1>0, <1>8, <2>1, <2>3 DEF StreamTypes, StartingHasNone, SendsAPacket, PeerGone
<1>9. ASSUME NEW s \in Sessions, Forward(s)
      PROVE  StreamTypes' /\ StartingHasNone' /\ SendsAPacket'
  <2> DEFINE n == active[s]
  <2>1. n \in Stream /\ packets[n] # <<>>
    BY <1>0, <1>9 DEF Forward, StreamTypes
  <2>2. /\ Tail(packets[n]) \in Seq(Packet) /\ Len(packets[n]) \in Nat
        /\ Len(Tail(packets[n])) = Len(packets[n]) - 1 /\ Len(packets[n]) <= Cap
    BY <1>0, <2>1, Shortened DEF StreamTypes
  <2>3. packets' = [packets EXCEPT ![n] = Tail(@)]
    BY <1>9 DEF Forward
  <2>4. /\ packets' \in [Stream -> Seq(Packet)]
        /\ \A m \in Stream : Len(packets'[m]) <= Cap
    <3>1. Len(Tail(packets[n])) <= Cap
      BY <2>2
    <3>. QED  BY <1>0, <2>1, <2>2, <2>3, <3>1 DEF StreamTypes
  <2>5. out' \in [Sessions -> Seq(Stream)] /\ \A t \in Sessions : Len(out'[t]) <= VideoCap
    <3>1. CASE out' = [out EXCEPT ![s] = Append(@, n)] /\ HasRoom(s)
      <4>1. /\ Append(out[s], n) \in Seq(Stream)
            /\ Len(Append(out[s], n)) = Len(out[s]) + 1 /\ Len(out[s]) \in Nat
        BY <1>0, <2>1, Appended DEF StreamTypes
      <4>2. Len(out[s]) + 1 <= VideoCap
        BY <3>1, <4>1 DEF HasRoom
      <4>. QED  BY <1>0, <3>1, <4>1, <4>2 DEF StreamTypes
    <3>2. CASE out' = out
      BY <1>0, <3>2 DEF StreamTypes
    <3>. QED  BY <1>9, <3>1, <3>2 DEF Forward
  <2>. QED
    BY <1>0, <1>9, <2>4, <2>5 DEF StreamTypes, StartingHasNone, SendsAPacket, Forward
<1>10. ASSUME NEW s \in Sessions, WorkersExited(s)
       PROVE  StreamTypes' /\ StartingHasNone' /\ SendsAPacket'
  <2>1. active[s] \in Stream
    BY <1>0, <1>10 DEF WorkersExited, StreamTypes
  <2>2. /\ rx' \in [Stream -> BOOLEAN] /\ stop' \in [Stream -> BOOLEAN]
        /\ packets' \in [Stream -> Seq(Packet)]
        /\ \A m \in Stream : Len(packets'[m]) <= Cap
    BY <1>0, <1>10, <2>1, DropTypes DEF WorkersExited
  <2>3. control' \in [Sessions -> Seq(Command)]
    BY <1>0, <1>10, <2>1, Commands, TellTypes DEF WorkersExited, TellStopped
  <2>. QED
    BY <1>0, <1>10, <2>1, <2>2, <2>3 DEF StreamTypes, StartingHasNone, SendsAPacket, WorkersExited
<1>11. ASSUME NEW s \in Sessions, DeliverControl(s)
       PROVE  StreamTypes' /\ StartingHasNone' /\ SendsAPacket'
  <2>a. control[s] \in Seq(Command) /\ control[s] # <<>>
    BY <1>0, <1>11 DEF DeliverControl, StreamTypes
  <2>b. Tail(control[s]) \in Seq(Command) /\ Head(control[s]) \in Command
    BY <2>a, Shortened
  <2>1. Tail(control[s]) \in Seq(Command) /\ Head(control[s]).stream \in Stream
    BY <2>b DEF Command
  <2>2. control' \in [Sessions -> Seq(Command)] /\ heard' \in [Sessions -> SUBSET Stream]
    BY <1>0, <1>11, <2>1 DEF DeliverControl, StreamTypes
  <2>. QED
    BY <1>0, <1>11, <2>2 DEF StreamTypes, StartingHasNone, SendsAPacket, DeliverControl, threadVars
<1>12. ASSUME NEW s \in Sessions, DeliverPacket(s)
       PROVE  StreamTypes' /\ StartingHasNone' /\ SendsAPacket'
  <2>1. /\ Tail(out[s]) \in Seq(Stream) /\ Len(out[s]) \in Nat
        /\ Len(Tail(out[s])) = Len(out[s]) - 1 /\ Len(out[s]) <= VideoCap
    BY <1>0, <1>12, Shortened DEF DeliverPacket, StreamTypes
  <2>2. Len(Tail(out[s])) <= VideoCap /\ out' = [out EXCEPT ![s] = Tail(@)]
    BY <1>12, <2>1 DEF DeliverPacket
  <2>3. out' \in [Sessions -> Seq(Stream)] /\ \A t \in Sessions : Len(out'[t]) <= VideoCap
    BY <1>0, <2>1, <2>2 DEF StreamTypes
  <2>. QED
    BY <1>0, <1>12, <2>3 DEF StreamTypes, StartingHasNone, SendsAPacket, DeliverPacket, threadVars
<1>13. ASSUME NEW n \in Stream, NoFrame(n)
       PROVE  StreamTypes' /\ StartingHasNone' /\ SendsAPacket'
  <2>1. PICK idle \in BOOLEAN :
          pendingIdr' = [pendingIdr EXCEPT ![n] = IdleKeeps(n) \/ idle]
    BY <1>13 DEF NoFrame
  <2>2. pendingIdr' \in [Stream -> BOOLEAN]
    BY <1>0, <2>1 DEF StreamTypes
  <2>. QED
    BY <1>0, <1>13, <2>2
    DEF StreamTypes, StartingHasNone, SendsAPacket, NoFrame, workersUnchanged, sessionVars
<1>14. ASSUME NEW n \in Stream, Frame(n)
       PROVE  StreamTypes' /\ StartingHasNone' /\ SendsAPacket'
  <2>1. PICK ps \in Outputs, idle \in BOOLEAN :
          /\ pendingIdr' = [pendingIdr EXCEPT ![n] = idle]
          /\ inHand' = [inHand EXCEPT ![n] = ps]
          /\ video' = [video EXCEPT ![n] = IF ps = <<>> THEN "loop" ELSE "send"]
          /\ asked' = [asked EXCEPT ![n] = @ /\ ~HasKey(ps)]
          /\ kept' = [kept EXCEPT ![n] =
                         (@ \/ (pendingIdr[n] \/ forceKf[n])) /\ ~HasKey(ps)]
    BY <1>14 DEF Frame
  <2>2. ps \in Seq(Picture)
    BY OutputTypes
  <2>3. inHand' \in [Stream -> Seq(Picture)]
    BY <1>0, <2>1, <2>2 DEF StreamTypes
  <2>4. /\ video' \in [Stream -> {"none", "loop", "send", "exited"}]
        /\ pendingIdr' \in [Stream -> BOOLEAN]
    BY <1>0, <2>1 DEF StreamTypes
  <2>5. asked' \in [Stream -> BOOLEAN] /\ kept' \in [Stream -> BOOLEAN]
    BY <1>0, <2>1 DEF StreamTypes
  <2>6. SendsAPacket'
    BY <1>0, <2>1 DEF StreamTypes, SendsAPacket
  <2>. QED
    BY <1>0, <1>14, <2>3, <2>4, <2>5, <2>6
    DEF StreamTypes, StartingHasNone, Frame, workersUnchanged, sessionVars
<1>15. ASSUME NEW n \in Stream, VideoExits(n)
       PROVE  StreamTypes' /\ StartingHasNone' /\ SendsAPacket'
  <2>1. ThreadEnds(n)
    BY <1>15 DEF VideoExits
  <2>. QED
    BY <1>0, <1>15, <2>1, EndTypes
    DEF StreamTypes, StartingHasNone, VideoExits, workersUnchanged, sessionVars
<1>16. ASSUME NEW n \in Stream, Sound(n)
       PROVE  StreamTypes' /\ StartingHasNone' /\ SendsAPacket'
  BY <1>0, <1>16
  DEF StreamTypes, StartingHasNone, SendsAPacket, Sound, workersUnchanged, sessionVars
<1>17. ASSUME NEW n \in Stream, AudioExits(n)
       PROVE  StreamTypes' /\ StartingHasNone' /\ SendsAPacket'
  BY <1>0, <1>17
  DEF StreamTypes, StartingHasNone, SendsAPacket, AudioExits, workersUnchanged, sessionVars
<1>18. ASSUME NEW n \in Stream, VideoSends(n)
       PROVE  StreamTypes' /\ StartingHasNone' /\ SendsAPacket'
  <2>1. CASE ~rx[n] /\ ThreadEnds(n) /\ UNCHANGED packets
    BY <1>0, <1>18, <2>1, EndTypes
    DEF StreamTypes, StartingHasNone, VideoSends, workersUnchanged, sessionVars
  <2>2. CASE /\ Len(packets[n]) < Cap
             /\ packets' = [packets EXCEPT ![n] = Append(@, Head(inHand[n]))]
             /\ inHand' = [inHand EXCEPT ![n] = Tail(@)]
             /\ video' = [video EXCEPT ![n] =
                             IF Tail(inHand[n]) = <<>> THEN "loop" ELSE "send"]
             /\ UNCHANGED <<pendingIdr, history>>
    <3>1. inHand[n] \in Seq(Picture) /\ inHand[n] # <<>>
      BY <1>0, <1>18 DEF VideoSends, SendsAPacket, StreamTypes
    <3>2. Tail(inHand[n]) \in Seq(Picture) /\ Head(inHand[n]) \in Picture
      BY <3>1, Shortened
    <3>3. Head(inHand[n]) \in Packet
      BY <3>2 DEF Packet, Picture
    <3>4. /\ packets' \in [Stream -> Seq(Packet)]
          /\ \A m \in Stream : Len(packets'[m]) <= Cap
      BY <1>0, <2>2, <3>3, PacketTypes
    <3>5. inHand' \in [Stream -> Seq(Picture)]
      BY <1>0, <2>2, <3>2 DEF StreamTypes
    <3>6. video' \in [Stream -> {"none", "loop", "send", "exited"}] /\ SendsAPacket'
      BY <1>0, <2>2 DEF StreamTypes, SendsAPacket
    <3>. QED
      BY <1>0, <1>18, <2>2, <3>4, <3>5, <3>6
      DEF StreamTypes, StartingHasNone, VideoSends, workersUnchanged, sessionVars
  <2>. QED  BY <1>18, <2>1, <2>2 DEF VideoSends
<1>19. ASSUME NEW n \in Stream, AudioSends(n)
       PROVE  StreamTypes' /\ StartingHasNone' /\ SendsAPacket'
  <2>1. /\ packets' \in [Stream -> Seq(Packet)]
        /\ \A m \in Stream : Len(packets'[m]) <= Cap
    <3>1. CASE /\ Len(packets[n]) < Cap
               /\ packets' = [packets EXCEPT ![n] = Append(@, "audio")]
      BY <1>0, <3>1, PacketTypes DEF Packet
    <3>2. CASE packets' = packets
      BY <1>0, <3>2 DEF StreamTypes
    <3>. QED  BY <1>19, <3>1, <3>2 DEF AudioSends
  <2>2. PICK v \in {"loop", "exited"} : audio' = [audio EXCEPT ![n] = v]
    BY <1>19 DEF AudioSends
  <2>3. audio' \in [Stream -> {"none", "loop", "send", "exited"}]
    BY <1>0, <2>2 DEF StreamTypes
  <2>4. inHand' = inHand /\ video' = video
    BY <1>19 DEF AudioSends
  <2>. QED
    BY <1>0, <1>19, <2>1, <2>3, <2>4
    DEF StreamTypes, StartingHasNone, SendsAPacket, AudioSends, workersUnchanged, sessionVars
<1>20. ASSUME Release
       PROVE  StreamTypes' /\ StartingHasNone' /\ SendsAPacket'
  BY <1>0, <1>20 DEF StreamTypes, StartingHasNone, SendsAPacket, Release, sessionVars, threadVars
<1>. QED
  BY <1>1, <1>2, <1>3, <1>4, <1>5, <1>6, <1>7, <1>8, <1>9, <1>10, <1>11, <1>12, <1>13, <1>14, <1>15, <1>16, <1>17, <1>18, <1>19, <1>20
  DEF Next, Starting, Packets, VideoThread, AudioThread

\* Type correctness of the screen stream, for any number of sessions and
\* streams; it includes that the channels keep their capacities.
THEOREM StreamTypesHold == Spec => []TypeOK
<1>1. StreamTypeInv => TypeOK
  BY DEF StreamTypeInv
<1>. QED  BY <1>1, StreamInit, StreamTypeStep, PTL DEF Spec

-----------------------------------------------------------------------------
(* The key frames *)

\* Also while the thread is in blocking_send.
KeyframeDue ==
    \A n \in Stream :
        asked[n] /\ video[n] \in {"loop", "send"} =>
            forceKf[n] \/ pendingIdr[n] \/ kept[n]

\* Only these steps touch what a key frame depends on.
LEMMA FlagSteps ==
    ASSUME [Next]_vars
    PROVE  \/ \E s \in Sessions : StartStream(s) \/ KeyframeRequest(s)
           \/ \E n \in Stream : NoFrame(n) \/ Frame(n) \/ VideoExits(n) \/ VideoSends(n)
           \/ UNCHANGED <<asked, kept, video, forceKf, pendingIdr>>
  BY DEF Next, Starting, Packets, VideoThread, AudioThread, vars, threadVars, history, Request,
     CaptureBusy, NoEncoder, StreamStop, PeerGone, Forward, WorkersExited, DeliverControl,
     DeliverPacket, Sound, AudioExits, AudioSends, Release

LEMMA KeyframeInit == Init => KeyframeDue
  BY DEF Init, KeyframeDue

LEMMA KeyframeStep == StreamTypeInv /\ KeyframeDue /\ [Next]_vars => KeyframeDue'
<1> SUFFICES ASSUME StreamTypeInv, KeyframeDue, [Next]_vars
             PROVE  KeyframeDue'
  OBVIOUS
<1>0. StreamTypes
  BY DEF StreamTypeInv, TypeOK, StreamTypes, Command, Packet, Picture
<1>1. CASE UNCHANGED <<asked, kept, video, forceKf, pendingIdr>>
  BY <1>1 DEF KeyframeDue
<1>2. ASSUME NEW s \in Sessions, StartStream(s)
      PROVE  KeyframeDue'
  BY <1>0, <1>2 DEF StartStream, KeyframeDue, StreamTypes
<1>3. ASSUME NEW s \in Sessions, KeyframeRequest(s)
      PROVE  KeyframeDue'
  BY <1>0, <1>3 DEF KeyframeRequest, KeyframeDue, StreamTypes, threadVars
<1>4. ASSUME NEW n \in Stream, NoFrame(n)
      PROVE  KeyframeDue'
  <2>1. /\ UNCHANGED <<video, asked, kept>> /\ forceKf' = [forceKf EXCEPT ![n] = FALSE]
        /\ \E idle \in BOOLEAN :
              pendingIdr' = [pendingIdr EXCEPT ![n] = (pendingIdr[n] \/ forceKf[n]) \/ idle]
    BY <1>4 DEF NoFrame, IdleKeeps, history
  <2>2. PICK idle \in BOOLEAN :
          pendingIdr' = [pendingIdr EXCEPT ![n] = (pendingIdr[n] \/ forceKf[n]) \/ idle]
    BY <2>1
  <2>3. pendingIdr'[n] = ((pendingIdr[n] \/ forceKf[n]) \/ idle)
    BY <1>0, <2>2 DEF StreamTypes
  <2>4. \A m \in Stream \ {n} : pendingIdr'[m] = pendingIdr[m] /\ forceKf'[m] = forceKf[m]
    BY <1>0, <2>1, <2>2 DEF StreamTypes
  <2>. QED  BY <2>1, <2>3, <2>4 DEF KeyframeDue
<1>5. ASSUME NEW n \in Stream, Frame(n)
      PROVE  KeyframeDue'
  <2>1. PICK ps \in Outputs :
          /\ asked' = [asked EXCEPT ![n] = @ /\ ~HasKey(ps)]
          /\ kept' = [kept EXCEPT ![n] =
                         (@ \/ (pendingIdr[n] \/ forceKf[n])) /\ ~HasKey(ps)]
    BY <1>5 DEF Frame
  <2>2. /\ video[n] = "loop" /\ asked'[n] = (asked[n] /\ ~HasKey(ps))
        /\ kept'[n] = ((kept[n] \/ (pendingIdr[n] \/ forceKf[n])) /\ ~HasKey(ps))
    BY <1>0, <1>5, <2>1 DEF Frame, StreamTypes
  <2>3. asked'[n] => kept'[n]
    BY <2>2 DEF KeyframeDue
  <2>4. \A m \in Stream \ {n} : /\ asked'[m] = asked[m] /\ video'[m] = video[m]
                                /\ forceKf'[m] = forceKf[m] /\ pendingIdr'[m] = pendingIdr[m]
                                /\ kept'[m] = kept[m]
    BY <1>0, <1>5, <2>1 DEF Frame, StreamTypes
  <2>. QED  BY <2>3, <2>4 DEF KeyframeDue
<1>6. ASSUME NEW n \in Stream, VideoExits(n) \/ VideoSends(n)
      PROVE  KeyframeDue'
  <2>1. CASE ThreadEnds(n) /\ UNCHANGED forceKf
    BY <1>0, <2>1 DEF ThreadEnds, KeyframeDue, StreamTypes
  <2>2. CASE UNCHANGED <<asked, kept, forceKf, pendingIdr>> /\ VideoSends(n)
    <3>1. /\ video[n] = "send"
          /\ \A m \in Stream \ {n} : video'[m] = video[m]
      BY <1>0, <2>2 DEF VideoSends, ThreadEnds, StreamTypes
    <3>. QED  BY <2>2, <3>1 DEF KeyframeDue
  <2>. QED  BY <1>6, <2>1, <2>2 DEF VideoExits, VideoSends, history
<1>. QED  BY <1>1, <1>2, <1>3, <1>4, <1>5, <1>6, FlagSteps

\* No key frame that is due is forgotten before a frame takes it into the
\* encoder, neither a stream's first nor a requested one, in whatever order
\* requests and turns of the thread come, and whether or not the encoder keeps
\* frames back.
THEOREM KeyframesComeThrough == Spec => []KeyframeNotLost
<1>1. KeyframeDue => KeyframeNotLost
  BY DEF KeyframeDue, KeyframeNotLost
<1>. QED  BY <1>1, StreamInit, StreamTypeStep, KeyframeInit, KeyframeStep, PTL DEF Spec

-----------------------------------------------------------------------------
(* Who holds a stream *)

\* No session holds a stream that is not started, nor do two hold the same.
HeldByOne ==
    /\ \A s \in Sessions : active[s] # None => active[s] <= streams
    /\ \A s, t \in Sessions : active[s] # None /\ active[s] = active[t] => s = t

\* A stream's receiver lives as long as a session holds it.
HeldIsReceived ==
    \A n \in Stream :
        /\ rx[n] <=> \E s \in Sessions : active[s] = n
        /\ stop[n] <=> n <= streams /\ ~\E s \in Sessions : active[s] = n

\* Nothing of a stream runs before it is started.
UnstartedIsQuiet == \A n \in Stream : n > streams => video[n] = "none" /\ audio[n] = "none"

\* A stream whose session is gone, or has stopped it, has been told to stop
\* and has lost its receiver: its threads cannot stay in their loops or wait
\* in blocking_send for ever (stream.rs:98-112).
AbandonedIsStopped ==
    \A n \in Stream :
        n <= streams /\ (\A s \in Sessions : active[s] # n) => stop[n] /\ ~rx[n]

\* Two streams never capture the screen at once: a video thread that has not
\* returned owns the desktop duplication.
OneCapture ==
    \A n \in Stream : video[n] \in {"loop", "send"} => dup = n

HolderInv == HeldByOne /\ HeldIsReceived /\ UnstartedIsQuiet /\ OneCapture

LEMMA HolderInit == Init => HolderInv
  BY StreamAssumption
  DEF Init, HolderInv, HeldByOne, HeldIsReceived, UnstartedIsQuiet, OneCapture, Stream, None

\* Only these steps touch what the holders of streams are about.
LEMMA HolderSteps ==
    ASSUME [Next]_vars
    PROVE  \/ \E s \in Sessions :
                StartStream(s) \/ StreamStop(s) \/ PeerGone(s) \/ WorkersExited(s)
           \/ \E n \in Stream : VideoThread(n) \/ AudioThread(n)
           \/ Release
           \/ UNCHANGED <<active, streams, rx, stop, video, audio, dup>>
  BY DEF Next, Starting, Packets, vars, sessionVars, threadVars, Request, CaptureBusy,
     NoEncoder, KeyframeRequest, Forward, DeliverControl, DeliverPacket

\* Threads leave a stream's holder alone, and start no stream.
LEMMA ThreadsLeave ==
    ASSUME StreamTypes, NEW n \in Stream, VideoThread(n) \/ AudioThread(n)
    PROVE  /\ UNCHANGED <<active, streams, rx, stop, dup>>
           /\ video[n] # "none" \/ audio[n] # "none"
           /\ \A m \in Stream \ {n} : video'[m] = video[m] /\ audio'[m] = audio[m]
           /\ video'[n] \in {"loop", "send"} => video[n] \in {"loop", "send"}
<1>1. \/ \E v \in {"send", "loop", "exited"} : video' = [video EXCEPT ![n] = v] /\ audio' = audio
      \/ \E a \in {"send", "loop", "exited"} : audio' = [audio EXCEPT ![n] = a] /\ video' = video
      \/ UNCHANGED <<video, audio>>
  BY DEF VideoThread, AudioThread, NoFrame, Frame, VideoExits, VideoSends, ThreadEnds,
     Sound, AudioExits, AudioSends
<1>2. /\ UNCHANGED <<active, streams, rx, stop, dup>>
      /\ \/ video[n] \in {"loop", "send"}
         \/ video' = video /\ audio[n] \in {"loop", "send"}
  BY DEF VideoThread, AudioThread, NoFrame, Frame, VideoExits, VideoSends, ThreadEnds,
     Sound, AudioExits, AudioSends, workersUnchanged, sessionVars
<1>. QED  BY <1>1, <1>2 DEF StreamTypes

\* A session gives up its stream.
LEMMA GivesUp ==
    ASSUME StreamTypes, HolderInv, NEW s \in Sessions, active[s] # None,
           DropHandle(active[s]), active' = [active EXCEPT ![s] = None],
           UNCHANGED <<streams, video, audio, dup>>
    PROVE  HolderInv'
<1>1. PICK n \in Stream : n = active[s]
  BY DEF StreamTypes
<1>2. /\ \A t \in Sessions \ {s} : active'[t] = active[t] /\ active[t] # n
      /\ active'[s] = None
  BY <1>1 DEF StreamTypes, HolderInv, HeldByOne
<1>3. /\ rx' = [rx EXCEPT ![n] = FALSE] /\ stop' = [stop EXCEPT ![n] = TRUE]
      /\ n <= streams /\ None \notin Stream
  BY <1>1, Commands DEF DropHandle, HolderInv, HeldByOne
<1>4. HeldIsReceived'
  <2> SUFFICES ASSUME NEW m \in Stream
               PROVE  /\ rx'[m] <=> \E t \in Sessions : active'[t] = m
                      /\ stop'[m] <=> m <= streams' /\ ~\E t \in Sessions : active'[t] = m
    BY DEF HeldIsReceived
  <2>1. CASE m = n
    <3>1. ~\E t \in Sessions : active'[t] = m
      BY <1>2, <1>3, <2>1
    <3>2. ~rx'[m] /\ stop'[m] /\ m <= streams'
      BY <1>3, <2>1 DEF StreamTypes
    <3>. QED  BY <3>1, <3>2
  <2>2. CASE m # n
    <3>1. (\E t \in Sessions : active'[t] = m) <=> (\E t \in Sessions : active[t] = m)
      BY <1>1, <1>2, <1>3, <2>2
    <3>2. rx'[m] = rx[m] /\ stop'[m] = stop[m]
      BY <1>3, <2>2 DEF StreamTypes
    <3>. QED  BY <3>1, <3>2 DEF HolderInv, HeldIsReceived
  <2>. QED  BY <2>1, <2>2
<1>5. HeldByOne'
  BY <1>2 DEF HolderInv, HeldByOne
<1>. QED  BY <1>4, <1>5 DEF HolderInv, UnstartedIsQuiet, OneCapture

LEMMA HolderStep == StreamTypeInv /\ HolderInv /\ [Next]_vars => HolderInv'
<1> SUFFICES ASSUME StreamTypeInv, HolderInv, [Next]_vars
             PROVE  HolderInv'
  OBVIOUS
<1>0. StreamTypes /\ StartingHasNone
  BY DEF StreamTypeInv, TypeOK, StreamTypes, Command, Packet, Picture
<1>1. CASE UNCHANGED <<active, streams, rx, stop, video, audio, dup>>
  BY <1>1
  DEF HolderInv, HeldByOne, HeldIsReceived, UnstartedIsQuiet, OneCapture
<1>2. ASSUME NEW s \in Sessions, StartStream(s)
      PROVE  HolderInv'
  <2>1. PICK n \in Stream : n = streams + 1
    BY <1>2 DEF StartStream
  <2>2. /\ dup = None /\ dup' = n /\ streams' = n
        /\ active' = [active EXCEPT ![s] = n]
        /\ video' = [video EXCEPT ![n] = "loop"]
        /\ rx' = [rx EXCEPT ![n] = TRUE] /\ stop' = stop
        /\ \E a \in {"loop", "none"} : audio' = [audio EXCEPT ![n] = a]
    BY <1>2, <2>1 DEF StartStream
  <2>3. /\ active[s] = None /\ n # None /\ streams \in Nat /\ n > streams /\ ~(n <= streams)
        /\ \A m \in Stream : (m <= n <=> m <= streams \/ m = n) /\ (m > n => m > streams)
    BY <1>0, <1>2, <2>1, Commands, StreamAssumption
    DEF StartStream, StartingHasNone, StreamTypes, Stream
  <2>4. \A t \in Sessions : active[t] # n
    BY <1>0, <2>3 DEF HolderInv, HeldByOne
  <2>5. HeldByOne'
    BY <1>0, <2>2, <2>3, <2>4 DEF HolderInv, HeldByOne, StreamTypes
  <2>6. HeldIsReceived'
    <3> SUFFICES ASSUME NEW m \in Stream
                 PROVE  /\ rx'[m] <=> \E t \in Sessions : active'[t] = m
                        /\ stop'[m] <=> m <= streams' /\ ~\E t \in Sessions : active'[t] = m
      BY DEF HeldIsReceived
    <3>1. (\E t \in Sessions : active'[t] = m) <=> m = n \/ \E t \in Sessions : active[t] = m
      BY <1>0, <2>2, <2>3, Commands DEF StreamTypes
    <3>2. rx'[m] <=> m = n \/ rx[m]
      BY <1>0, <2>2 DEF StreamTypes
    <3>3. /\ rx[m] <=> \E t \in Sessions : active[t] = m
          /\ stop[m] <=> m <= streams /\ ~\E t \in Sessions : active[t] = m
      BY DEF HolderInv, HeldIsReceived
    <3>. QED  BY <2>2, <2>3, <3>1, <3>2, <3>3
  <2>7. UnstartedIsQuiet'
    <3> SUFFICES ASSUME NEW m \in Stream, m > n
                 PROVE  video'[m] = "none" /\ audio'[m] = "none"
      BY <2>2 DEF UnstartedIsQuiet
    <3>1. m > streams /\ m # n
      BY <2>3 DEF Stream
    <3>2. video'[m] = video[m] /\ audio'[m] = audio[m]
      BY <1>0, <2>2, <3>1 DEF StreamTypes
    <3>. QED  BY <3>1, <3>2 DEF HolderInv, UnstartedIsQuiet
  <2>8. OneCapture'
    BY <1>0, <2>2, <2>3, Commands DEF HolderInv, OneCapture, StreamTypes
  <2>. QED  BY <2>5, <2>6, <2>7, <2>8 DEF HolderInv
<1>3. ASSUME NEW s \in Sessions, StreamStop(s) \/ WorkersExited(s)
      PROVE  HolderInv'
  BY <1>0, <1>3, GivesUp DEF StreamStop, WorkersExited
<1>4. ASSUME NEW s \in Sessions, PeerGone(s)
      PROVE  HolderInv'
  <2>1. CASE active[s] # None
    BY <1>0, <1>4, <2>1, GivesUp DEF PeerGone
  <2>2. CASE active[s] = None
    <3>1. UNCHANGED <<active, streams, rx, stop, video, audio, dup>>
      BY <1>0, <1>4, <2>2 DEF PeerGone, StreamTypes
    <3>. QED  BY <3>1 DEF HolderInv, HeldByOne, HeldIsReceived, UnstartedIsQuiet, OneCapture
  <2>. QED  BY <2>1, <2>2
<1>5. ASSUME NEW n \in Stream, VideoThread(n) \/ AudioThread(n)
      PROVE  HolderInv'
  <2>1. /\ UNCHANGED <<active, streams, rx, stop, dup>>
        /\ video[n] # "none" \/ audio[n] # "none"
        /\ \A m \in Stream \ {n} : video'[m] = video[m] /\ audio'[m] = audio[m]
        /\ video'[n] \in {"loop", "send"} => video[n] \in {"loop", "send"}
    BY <1>0, <1>5, ThreadsLeave
  <2>2. HeldByOne' /\ HeldIsReceived'
    BY <2>1 DEF HolderInv, HeldByOne, HeldIsReceived
  <2>3. UnstartedIsQuiet' /\ OneCapture'
    BY <2>1 DEF HolderInv, UnstartedIsQuiet, OneCapture
  <2>. QED  BY <2>2, <2>3 DEF HolderInv
<1>6. CASE Release
  <2>1. /\ UNCHANGED <<active, streams, rx, stop, video, audio>>
        /\ dup # None /\ video[dup] = "exited"
    BY <1>6 DEF Release, sessionVars, threadVars
  <2>. QED
    BY <1>0, <2>1 DEF HolderInv, HeldByOne, HeldIsReceived, UnstartedIsQuiet, OneCapture
<1>. QED  BY <1>1, <1>2, <1>3, <1>4, <1>5, <1>6, HolderSteps

\* A stream no session holds has been told to stop and has no receiver.
THEOREM AbandonedStreamsStop == Spec => []AbandonedIsStopped
<1>1. HolderInv => AbandonedIsStopped
  BY DEF HolderInv, HeldIsReceived, AbandonedIsStopped
<1>. QED  BY <1>1, StreamInit, StreamTypeStep, HolderInit, HolderStep, PTL DEF Spec

\* At most one stream captures the screen.
THEOREM OneStreamCaptures == Spec => []OneCapture
<1>1. HolderInv => OneCapture
  BY DEF HolderInv
<1>. QED  BY <1>1, StreamInit, StreamTypeStep, HolderInit, HolderStep, PTL DEF Spec

-----------------------------------------------------------------------------
(* The announcement *)

\* A stream that a session holds or whose packets wait has been announced:
\* the phone has seen its StreamStarted, or it waits among the control
\* messages.
Announced ==
    \A s \in Sessions : \A n \in Stream :
        active[s] = n \/ (\E i \in 1..Len(out[s]) : out[s][i] = n) =>
            n \in heard[s] \/ \E i \in 1..Len(control[s]) : control[s][i] = Started(n)

LEMMA AnnouncedInit == Init => Announced
  BY Commands DEF Init, Announced

\* A control message that is queued keeps what was announced.
LEMMA StillAnnounced ==
    ASSUME StreamTypes, NEW s \in Sessions, NEW m \in Command,
           control' = [control EXCEPT ![s] = Append(@, m)]
    PROVE  /\ \A t \in Sessions \ {s} : control'[t] = control[t]
           /\ \A n \in Stream :
                (\E i \in 1..Len(control'[s]) : control'[s][i] = Started(n)) <=>
                (m = Started(n) \/ \E i \in 1..Len(control[s]) : control[s][i] = Started(n))
<1>1. /\ control'[s] = Append(control[s], m) /\ control[s] \in Seq(Command)
      /\ \A t \in Sessions \ {s} : control'[t] = control[t]
  BY DEF StreamTypes
<1>2. /\ Len(control'[s]) = Len(control[s]) + 1 /\ Len(control[s]) \in Nat
      /\ control'[s][Len(control[s]) + 1] = m
      /\ \A i \in 1..Len(control[s]) : control'[s][i] = control[s][i]
  BY <1>1, Appended
<1>. QED  BY <1>1, <1>2

\* Only these steps touch what the announcement is about.
LEMMA AnnouncedSteps ==
    ASSUME [Next]_vars
    PROVE  \/ \E s \in Sessions :
                \/ StartStream(s) \/ StreamStop(s) \/ PeerGone(s) \/ WorkersExited(s)
                \/ Forward(s) \/ DeliverControl(s) \/ DeliverPacket(s)
           \/ UNCHANGED <<active, out, heard, control>>
  BY DEF Next, Starting, Packets, VideoThread, AudioThread, vars, sessionVars, Request,
     CaptureBusy, NoEncoder, KeyframeRequest, NoFrame, Frame, VideoExits, VideoSends, Sound,
     AudioExits, AudioSends, Release, workersUnchanged

\* A session that gives its stream up tells the phone.
LEMMA StopAnnounced ==
    ASSUME StreamTypes, Announced, NEW s \in Sessions, active[s] # None, TellStopped(s),
           active' = [active EXCEPT ![s] = None], UNCHANGED <<out, heard>>
    PROVE  Announced'
<1>1. PICK m \in Command : m = Stopped(active[s])
  BY Commands DEF StreamTypes
<1>2. control' = [control EXCEPT ![s] = Append(@, m)]
  BY <1>1 DEF TellStopped
<1> SUFFICES ASSUME NEW t \in Sessions, NEW n \in Stream,
                    active'[t] = n \/ (\E i \in 1..Len(out[t]) : out[t][i] = n)
             PROVE  n \in heard[t] \/ \E i \in 1..Len(control'[t]) : control'[t][i] = Started(n)
  BY DEF Announced
<1>3. active[t] = n \/ (\E i \in 1..Len(out[t]) : out[t][i] = n)
  BY Commands DEF StreamTypes
<1>4. n \in heard[t] \/ \E i \in 1..Len(control[t]) : control[t][i] = Started(n)
  BY <1>3 DEF Announced
<1>. QED  BY <1>2, <1>4, StillAnnounced

LEMMA AnnouncedStep == StreamTypeInv /\ Announced /\ [Next]_vars => Announced'
<1> SUFFICES ASSUME StreamTypeInv, Announced, [Next]_vars
             PROVE  Announced'
  OBVIOUS
<1>0. StreamTypes /\ StartingHasNone
  BY DEF StreamTypeInv, TypeOK, StreamTypes, Command, Packet, Picture
<1>1. CASE UNCHANGED <<active, out, heard, control>>
  BY <1>1 DEF Announced
<1>2. ASSUME NEW s \in Sessions, StartStream(s)
      PROVE  Announced'
  <2>1. PICK n \in Stream : n = streams + 1
    BY <1>2 DEF StartStream
  <2>2. PICK m \in Command : m = Started(n)
    BY Commands
  <2>3. /\ control' = [control EXCEPT ![s] = Append(@, m)]
        /\ active' = [active EXCEPT ![s] = n] /\ UNCHANGED <<out, heard>>
    BY <1>2, <2>1, <2>2 DEF StartStream
  <2> SUFFICES ASSUME NEW t \in Sessions, NEW k \in Stream,
                      active'[t] = k \/ (\E i \in 1..Len(out[t]) : out[t][i] = k)
               PROVE  k \in heard[t] \/ \E i \in 1..Len(control'[t]) : control'[t][i] = Started(k)
    BY <2>3 DEF Announced
  <2>4. (t = s /\ k = n) \/ active[t] = k \/ (\E i \in 1..Len(out[t]) : out[t][i] = k)
    BY <1>0, <2>3 DEF StreamTypes
  <2>5. CASE t = s /\ k = n
    <3>1. \A j \in Stream :
            (\E i \in 1..Len(control'[s]) : control'[s][i] = Started(j))
              <=> \/ m = Started(j)
                  \/ \E i \in 1..Len(control[s]) : control[s][i] = Started(j)
      BY <1>0, <2>3, StillAnnounced
    <3>. QED  BY <2>2, <2>5, <3>1
  <2>6. CASE active[t] = k \/ (\E i \in 1..Len(out[t]) : out[t][i] = k)
    <3>1. k \in heard[t] \/ \E i \in 1..Len(control[t]) : control[t][i] = Started(k)
      BY <2>6 DEF Announced
    <3>. QED  BY <1>0, <2>3, <3>1, StillAnnounced
  <2>. QED  BY <2>4, <2>5, <2>6
<1>3. ASSUME NEW s \in Sessions, StreamStop(s) \/ WorkersExited(s)
      PROVE  Announced'
  <2>1. /\ active[s] # None /\ TellStopped(s) /\ active' = [active EXCEPT ![s] = None]
        /\ UNCHANGED <<out, heard>>
    BY <1>3 DEF StreamStop, WorkersExited
  <2>. QED  BY <1>0, <2>1, StopAnnounced
<1>4. ASSUME NEW s \in Sessions, PeerGone(s)
      PROVE  Announced'
  <2>1. /\ active' = [active EXCEPT ![s] = None] /\ control' = [control EXCEPT ![s] = <<>>]
        /\ out' = [out EXCEPT ![s] = <<>>] /\ heard' = heard
    BY <1>4 DEF PeerGone
  <2>2. /\ active'[s] = None /\ out'[s] = <<>>
        /\ \A t \in Sessions \ {s} :
              active'[t] = active[t] /\ control'[t] = control[t] /\ out'[t] = out[t]
    BY <1>0, <2>1 DEF StreamTypes
  <2>. QED  BY <2>1, <2>2, Commands DEF Announced
<1>5. ASSUME NEW s \in Sessions, Forward(s)
      PROVE  Announced'
  <2>1. PICK n \in Stream : n = active[s]
    BY <1>0, <1>5 DEF Forward, StreamTypes
  <2>2. /\ UNCHANGED <<active, heard, control>>
        /\ out' = [out EXCEPT ![s] = Append(@, n)] \/ out' = out
    BY <1>5, <2>1 DEF Forward
  <2> SUFFICES ASSUME NEW t \in Sessions, NEW k \in Stream, NEW i \in 1..Len(out'[t]),
                      out'[t][i] = k
               PROVE  active[t] = k \/ \E j \in 1..Len(out[t]) : out[t][j] = k
    BY <2>2 DEF Announced
  <2>3. CASE out'[t] = out[t]
    BY <2>3
  <2>4. CASE t = s /\ out'[t] = Append(out[s], n)
    <3>1. /\ Len(out'[t]) = Len(out[s]) + 1 /\ Len(out[s]) \in Nat
          /\ out'[t][Len(out[s]) + 1] = n
          /\ \A j \in 1..Len(out[s]) : out'[t][j] = out[s][j]
      BY <1>0, <2>4, Appended DEF StreamTypes
    <3>. QED  BY <2>1, <2>4, <3>1
  <2>. QED  BY <1>0, <2>2, <2>3, <2>4 DEF StreamTypes
<1>6. ASSUME NEW s \in Sessions, DeliverControl(s)
      PROVE  Announced'
  <2>1. /\ control[s] \in Seq(Command) /\ control[s] # <<>>
        /\ UNCHANGED <<active, out>>
        /\ control'[s] = Tail(control[s])
        /\ \A t \in Sessions \ {s} : control'[t] = control[t]
    BY <1>0, <1>6 DEF DeliverControl, StreamTypes
  <2>2. /\ Head(control[s]) = control[s][1] /\ Len(control[s]) \in Nat
        /\ Len(Tail(control[s])) = Len(control[s]) - 1
        /\ \A i \in 1..Len(control[s]) - 1 : Tail(control[s])[i] = control[s][i + 1]
    BY <2>1, Shortened
  <2>3. /\ \A t \in Sessions : heard[t] \subseteq heard'[t]
        /\ \A n \in Stream : Head(control[s]) = Started(n) => n \in heard'[s]
    BY <1>0, <1>6 DEF DeliverControl, StreamTypes, Started
  <2> SUFFICES ASSUME NEW t \in Sessions, NEW n \in Stream,
                      n \in heard[t] \/ \E i \in 1..Len(control[t]) : control[t][i] = Started(n)
               PROVE  n \in heard'[t] \/ \E i \in 1..Len(control'[t]) : control'[t][i] = Started(n)
    BY <2>1 DEF Announced
  <2>4. CASE n \in heard[t] \/ t # s
    BY <2>1, <2>3, <2>4
  <2>5. CASE n \notin heard[t] /\ t = s
    <3>1. PICK i \in 1..Len(control[s]) : control[s][i] = Started(n)
      BY <2>5
    <3>2. CASE i = 1
      BY <2>2, <2>3, <2>5, <3>1, <3>2
    <3>3. CASE i > 1
      <4>1. i - 1 \in 1..Len(Tail(control[s])) /\ Tail(control[s])[i - 1] = control[s][i]
        BY <2>2, <3>3
      <4>. QED  BY <2>1, <2>5, <3>1, <4>1
    <3>. QED  BY <3>2, <3>3
  <2>. QED  BY <2>4, <2>5
<1>7. ASSUME NEW s \in Sessions, DeliverPacket(s)
      PROVE  Announced'
  <2>1. /\ out[s] \in Seq(Stream) /\ out[s] # <<>>
        /\ UNCHANGED <<active, heard, control>>
        /\ out'[s] = Tail(out[s])
        /\ \A t \in Sessions \ {s} : out'[t] = out[t]
    BY <1>0, <1>7 DEF DeliverPacket, StreamTypes
  <2>2. /\ Len(out[s]) \in Nat /\ Len(Tail(out[s])) = Len(out[s]) - 1
        /\ \A i \in 1..Len(out[s]) - 1 : Tail(out[s])[i] = out[s][i + 1]
    BY <2>1, Shortened
  <2> SUFFICES ASSUME NEW t \in Sessions, NEW n \in Stream, NEW i \in 1..Len(out'[t]),
                      out'[t][i] = n
               PROVE  \E j \in 1..Len(out[t]) : out[t][j] = n
    BY <2>1 DEF Announced
  <2>3. CASE t # s
    BY <2>1, <2>3
  <2>4. CASE t = s
    <3>0. i \in 1..Len(Tail(out[s]))
      BY <2>1, <2>4
    <3>1. i + 1 \in 1..Len(out[s]) /\ out'[s][i] = out[s][i + 1]
      BY <2>1, <2>2, <3>0
    <3>. QED  BY <2>4, <3>1
  <2>. QED  BY <2>3, <2>4
<1>. QED  BY <1>1, <1>2, <1>3, <1>4, <1>5, <1>6, <1>7, AnnouncedSteps

\* On the LAN a packet is delivered when no control message waits: the phone
\* has seen the StreamStarted of its stream.
LEMMA PacketIsAnnounced ==
    ASSUME StreamTypeInv, Announced, NEW s \in Sessions \ Relayed, DeliverPacket(s)
    PROVE  Head(out[s]) \in heard[s]
<1>1. control[s] = <<>> /\ out[s] # <<>> /\ s \in Sessions
  BY DEF DeliverPacket, ControlFirst
<1>2. out[s] \in Seq(Stream)
  BY <1>1 DEF StreamTypeInv, TypeOK
<1>3. 1 \in 1..Len(out[s]) /\ Head(out[s]) = out[s][1] /\ Head(out[s]) \in Stream
  BY <1>1, <1>2, Shortened
<1>4. Len(control[s]) = 0
  BY <1>1
<1>5. ~\E i \in 1..Len(control[s]) : control[s][i] = Started(Head(out[s]))
  BY <1>4
<1>. QED  BY <1>1, <1>3, <1>5 DEF Announced

\* On the LAN no packet of a stream reaches the phone before the stream's
\* StreamStarted.
THEOREM PacketsAreAnnounced == Spec => AnnouncedFirst
<1>1. StreamTypeInv /\ Announced /\ [Next]_vars =>
        [\A s \in Sessions \ Relayed : DeliverPacket(s) => Head(out[s]) \in heard[s]]_vars
  BY PacketIsAnnounced
<1>. QED
  BY <1>1, StreamInit, StreamTypeStep, AnnouncedInit, AnnouncedStep, PTL
  DEF Spec, AnnouncedFirst
=============================================================================
