-------------------------------- MODULE Wire --------------------------------
(***************************************************************************)
(* Everything a phone and a PC say to each other in a session, from the    *)
(* call that says it to the handler that takes it, by either route:        *)
(*                                                                         *)
(*   PC: text, pictures and sounds, chunks each have a queue; on the LAN   *)
(*   the writer drains the three into the socket (ws_server.rs), otherwise *)
(*   the pump drains them into the tunnel (relay_client.rs), whose packets *)
(*   the relay sorts into two queues of the phone again (main.rs).         *)
(*   Phone: one socket; the relay wraps what comes from it (client_loop).  *)
(*                                                                         *)
(* What is said is turned into bytes by Framing and Protocol and read from *)
(* them at the other end.  The speakers are those of the PC's encoder      *)
(* (MftEncoder) and of the phone's text field (TextMirror), files in both  *)
(* directions, and any other message of the protocol.  Which of them speak *)
(* in a behaviour is chosen at its start.                                  *)
(*                                                                         *)
(* Both ends are authenticated and no link breaks: what happens otherwise  *)
(* is RelayHub's, HostTunnel's and the transfers' modules'.  A channel     *)
(* and the socket behind it are one sequence where both are first come,    *)
(* first served; bytes of a text are one element, the message.             *)
(***************************************************************************)
EXTENDS MftEncoder, TextMirror, Framing, Protocol

CONSTANTS
    Scenes,     \* bound: what is going on: "screen", "files", "typing", "talk"
    Routes,     \* bound: "lan", "relay"
    VideoCap,   \* OUTBOUND_VIDEO_CAP
    BulkCap,    \* OUTBOUND_BULK_CAP
    FastCap,    \* PER_CLIENT_FAST_CAP
    RelayBulkCap,  \* PER_CLIENT_BULK_CAP
    ToHostCap,  \* TO_HOST_QUEUE_CAP
    SocketCap,  \* bound: messages on the way to the phone
    MaxSound,   \* bound: sounds
    MaxChunk,   \* bound: chunks of a file
    Moment      \* bound: what a pts advances by

ASSUME WireAssumption ==
    /\ Routes \subseteq {"lan", "relay"}
    /\ {VideoCap, BulkCap, FastCap, RelayBulkCap, ToHostCap, SocketCap, MaxChunk}
         \subseteq Nat \ {0}
    /\ MaxSound \in Nat /\ Moment \in Nat \ {0}

\* A chunk's number is an Int of the phone's, a pts eight bytes.
ASSUME NumbersFit ==
    /\ 2 * MaxChunk <= WordSize
    /\ Moment * MaxFrame < WordSize * WordSize
    /\ Moment * MaxSound < WordSize * WordSize

\* The phone's client_id.
Phone == [i \in 1..IdLen |-> 1 + (i % 2)]

VARIABLES
    scene, route,
    asked,        \* the stream's request for a key frame
    outbox, outboxVideo, outboxBulk,  \* the session's three queues
    tunnel,       \* PC -> relay: packets
    fast, bulk,   \* the relay's queues for the phone
    socket,       \* to the phone
    sent, heard,  \* what the PC said and what the phone took (history)
    upSocket,     \* from the phone
    toHost,       \* relay -> PC: packets
    told, taken,  \* what the phone said and what the PC took (history)
    refused       \* some end could not read a message (history)

choiceVars == <<scene, route>>
pcQueues   == <<outbox, outboxVideo, outboxBulk>>
relayVars  == <<tunnel, fast, bulk>>
downVars   == <<pcQueues, relayVars, socket, sent, heard>>
upVars     == <<upSocket, toHost, told, taken>>
wireVars   == <<choiceVars, asked, downVars, upVars, refused>>

WireInit ==
    /\ scene \in Scenes /\ route \in Routes
    /\ Init /\ TextInit /\ asked = FALSE
    /\ outbox = <<>> /\ outboxVideo = <<>> /\ outboxBulk = <<>>
    /\ tunnel = <<>> /\ fast = <<>> /\ bulk = <<>> /\ socket = <<>>
    /\ sent = <<>> /\ heard = <<>>
    /\ upSocket = <<>> /\ toHost = <<>> /\ told = <<>> /\ taken = <<>>
    /\ refused = FALSE

-----------------------------------------------------------------------------
(* What is said *)

\* A message of the socket, with a text's or with other bytes.
AsText(m)       == [text |-> TRUE, bytes |-> <<m>>]
AsBinary(bytes) == [text |-> FALSE, bytes |-> bytes]

\* Of a text arg is what the properties look at: an id, a key, or 0.
TextMsg(name, body, arg) == [kind |-> "text", name |-> name, body |-> body, arg |-> arg]
Picture(pts, idr, data)  == [kind |-> "picture", pts |-> pts, idr |-> idr, data |-> data]
Sound(pts, data)         == [kind |-> "sound", pts |-> pts, data |-> data]
Chunk(id, seq, last, data) ==
    [kind |-> "chunk", id |-> id, seq |-> seq, last |-> last, data |-> data]

Lane(m) ==
    IF m.kind = "text" THEN "text" ELSE IF m.kind = "chunk" THEN "bulk" ELSE "fast"

Number(said, kind)   == Cardinality({i \in 1..Len(said) : said[i].kind = kind})
Says(said, name)     == \E m \in Range(said) : m.kind = "text" /\ m.name = name
Announced(said, id, name) ==
    \E m \in Range(said) : m.kind = "text" /\ m.name = name /\ m.arg = id

\* The PC's send and its two try_send and send.
PcSendsText(m) ==
    outbox' = Append(outbox, AsText(m)) /\ sent' = Append(sent, m)
PcSendsFast(m, bytes) ==
    /\ outboxVideo' = IF Len(outboxVideo) < VideoCap
                      THEN Append(outboxVideo, AsBinary(bytes)) ELSE outboxVideo
    /\ sent' = Append(sent, m)
PcSendsBulk(m, bytes) ==
    /\ Len(outboxBulk) < BulkCap
    /\ outboxBulk' = Append(outboxBulk, AsBinary(bytes))
    /\ sent' = Append(sent, m)

\* ws.send, of the phone.
PhoneSends(m, message) == upSocket' = Append(upSocket, message) /\ told' = Append(told, m)

-----------------------------------------------------------------------------
(* "screen": pictures, sounds, requests for a key frame *)

encoderIdle == UNCHANGED vars
textIdle    == UNCHANGED textVars

\* The transform and the stream's thread, but for what comes out.
EncoderStep ==
    /\ scene = "screen"
    /\ Ask \/ Produce \/ Encode \/ NeedInput \/ NoEvents
    /\ UNCHANGED wireVars /\ textIdle

\* run_video_loop takes the flag before it encodes.
TakeAsked ==
    /\ asked /\ asked' = FALSE
    /\ ForceKeyframe
    /\ UNCHANGED <<choiceVars, downVars, upVars, refused>> /\ textIdle

\* A packet gets its pts when it comes out.  That it waits in the stream's own
\* channel until run_connection takes it is ScreenStream's subject.
PictureOut ==
    /\ scene = "screen"
    /\ HaveOutput
    /\ \E n \in packets' \ packets :
          LET pts == Moment * (Cardinality(packets) + 1)
          IN  PcSendsFast(Picture(pts, n \in clean, <<n>>),
                          BuildVideoFrame(<<n>>, pts, n \in clean, n \in clean))
    /\ UNCHANGED <<choiceVars, asked, outbox, outboxBulk, relayVars, socket, heard,
                   upVars, refused>> /\ textIdle

SoundOut ==
    /\ scene \in {"screen", "files"}
    /\ Number(sent, "sound") < MaxSound
    /\ LET n == Number(sent, "sound") + 1
       IN  PcSendsFast(Sound(Moment * n, <<n>>), BuildAudioFrame(<<n>>, Moment * n))
    /\ UNCHANGED <<choiceVars, asked, outbox, outboxBulk, relayVars, socket, heard,
                   upVars, refused>>
    /\ encoderIdle /\ textIdle

\* The phone asks for a key frame, once.
RequestKeyframe ==
    /\ scene = "screen" /\ ~Says(told, "keyframe_request")
    /\ \E body \in PhoneWrites(PhoneSays["keyframe_request"]) :
          LET m == TextMsg("keyframe_request", body, 0) IN PhoneSends(m, AsText(m))
    /\ UNCHANGED <<choiceVars, asked, downVars, toHost, taken, refused>>
    /\ encoderIdle /\ textIdle

-----------------------------------------------------------------------------
(* "files": one file in each direction *)

\* The ids: both sides count from 1, here they have several bytes.
DownId == Base + 2
UpId   == Base * Base + 1

\* The streamer announces its file, and then pushes a chunk at a time.
AnnounceFile ==
    /\ scene = "files" /\ ~Says(sent, "file_send_begin")
    /\ \E body \in PcWrites(PcSays["file_send_begin"]) :
          PcSendsText(TextMsg("file_send_begin", body, DownId))
    /\ UNCHANGED <<choiceVars, asked, outboxVideo, outboxBulk, relayVars, socket,
                   heard, upVars, refused>>
    /\ encoderIdle /\ textIdle

PushChunk ==
    /\ scene = "files"
    /\ Says(sent, "file_send_begin") /\ Number(sent, "chunk") < MaxChunk
    /\ LET seq  == Number(sent, "chunk")
           last == seq = MaxChunk - 1
       IN  PcSendsBulk(Chunk(DownId, seq, last, <<seq>>),
                       BuildChunkFrame(DownId, seq, last, <<seq>>))
    /\ UNCHANGED <<choiceVars, asked, outbox, outboxVideo, relayVars, socket,
                   heard, upVars, refused>>
    /\ encoderIdle /\ textIdle

\* The upload's thread: the announcement, then the chunks, the last one empty.
Upload ==
    /\ scene = "files" /\ Number(told, "chunk") < MaxChunk
    /\ \/ /\ ~Says(told, "file_transfer_begin")
          /\ \E body \in PhoneWrites(PhoneSays["file_transfer_begin"]) :
                LET m == TextMsg("file_transfer_begin", body, UpId)
                IN  PhoneSends(m, AsText(m))
       \/ /\ Says(told, "file_transfer_begin")
          /\ LET seq  == Number(told, "chunk")
                 last == seq = MaxChunk - 1
                 data == IF last THEN <<>> ELSE <<seq>>
             IN  PhoneSends(Chunk(UpId, seq, last, data),
                            AsBinary(PhoneChunkFrame(UpId, seq, last, data)))
    /\ UNCHANGED <<choiceVars, asked, downVars, toHost, taken, refused>>
    /\ encoderIdle /\ textIdle

-----------------------------------------------------------------------------
(* "typing" *)

KeyBody(k) ==
    IF k.op = "text" THEN [text |-> "text"] ELSE [vk |-> "number", down |-> "flag"]
KeyMsg(k) ==
    TextMsg(IF k.op = "text" THEN "key_text" ELSE "key_event", KeyBody(k), k)

\* sendKeyText and sendKeyEvent, for each part of the difference.
SendKeys(keys) ==
    LET said == [i \in 1..Len(keys) |-> KeyMsg(keys[i])]
    IN  /\ told' = told \o said
        /\ upSocket' = upSocket \o [i \in 1..Len(keys) |-> AsText(said[i])]

FieldChanges ==
    /\ scene = "typing"
    /\ Change(SendKeys)
    /\ UNCHANGED <<choiceVars, asked, downVars, toHost, taken, refused>> /\ encoderIdle

-----------------------------------------------------------------------------
(* "talk": any message of the protocol, one in each direction *)

PcTalks ==
    /\ scene = "talk" /\ sent = <<>>
    /\ \E name \in DOMAIN PcSays : \E body \in PcWrites(PcSays[name]) :
          PcSendsText(TextMsg(name, body, 0))
    /\ UNCHANGED <<choiceVars, asked, outboxVideo, outboxBulk, relayVars, socket,
                   heard, upVars, refused>>
    /\ encoderIdle /\ textIdle

PhoneTalks ==
    /\ scene = "talk" /\ told = <<>>
    /\ \E name \in DOMAIN PhoneSays : \E body \in PhoneWrites(PhoneSays[name]) :
          LET m == TextMsg(name, body, 0) IN PhoneSends(m, AsText(m))
    /\ UNCHANGED <<choiceVars, asked, downVars, toHost, taken, refused>>
    /\ encoderIdle /\ textIdle

-----------------------------------------------------------------------------
(* From the PC to the phone *)

\* The biased select over the session's queues: text, then pictures and
\* sounds, then chunks.
Drain(Use(_)) ==
    \/ /\ outbox # <<>>
       /\ Use(Head(outbox)) /\ outbox' = Tail(outbox)
       /\ UNCHANGED <<outboxVideo, outboxBulk>>
    \/ /\ outbox = <<>> /\ outboxVideo # <<>>
       /\ Use(Head(outboxVideo)) /\ outboxVideo' = Tail(outboxVideo)
       /\ UNCHANGED <<outbox, outboxBulk>>
    \/ /\ outbox = <<>> /\ outboxVideo = <<>> /\ outboxBulk # <<>>
       /\ Use(Head(outboxBulk)) /\ outboxBulk' = Tail(outboxBulk)
       /\ UNCHANGED <<outbox, outboxVideo>>

ToSocket(message) == Len(socket) < SocketCap /\ socket' = Append(socket, message)
ToTunnel(message) ==
    tunnel' = Append(tunnel, EncodeData(Phone, message.text, message.bytes))

\* The writer of a LAN session.
LanWriter ==
    /\ route = "lan"
    /\ Drain(ToSocket)
    /\ UNCHANGED <<choiceVars, asked, relayVars, sent, heard, upVars, refused>>
    /\ encoderIdle /\ textIdle

\* The pump of a relayed session, and the tunnel's writer.
Pump ==
    /\ route = "relay"
    /\ Drain(ToTunnel)
    /\ UNCHANGED <<choiceVars, asked, fast, bulk, socket, sent, heard, upVars, refused>>
    /\ encoderIdle /\ textIdle

\* The relay looks at the first byte of what is not text.  Mutated: only text
\* must be delivered.
OnlyText(d)     == d.text
MustDeliver(d)  == IF d.text THEN TRUE ELSE d.payload # <<>> /\ d.payload[1] = File

\* host_loop's reader: it waits for room for what must be delivered, and drops
\* what may be.
RelayRoutes ==
    /\ tunnel # <<>> /\ ~Malformed(Head(tunnel))
    /\ LET d == Decode(Head(tunnel))
           m == [text |-> d.text, bytes |-> d.payload]
       IN  /\ d.id = Phone
           /\ \/ /\ MustDeliver(d) /\ Len(bulk) < RelayBulkCap
                 /\ bulk' = Append(bulk, m) /\ UNCHANGED fast
              \/ /\ ~MustDeliver(d)
                 /\ fast' = IF Len(fast) < FastCap THEN Append(fast, m) ELSE fast
                 /\ UNCHANGED bulk
    /\ tunnel' = Tail(tunnel)
    /\ UNCHANGED <<choiceVars, asked, pcQueues, socket, sent, heard, upVars, refused>>
    /\ encoderIdle /\ textIdle

\* client_loop's writer: pictures and sounds first.
RelayWriter ==
    /\ \/ fast # <<>> /\ ToSocket(Head(fast)) /\ fast' = Tail(fast) /\ UNCHANGED bulk
       \/ /\ fast = <<>> /\ bulk # <<>>
          /\ ToSocket(Head(bulk)) /\ bulk' = Tail(bulk) /\ UNCHANGED fast
    /\ UNCHANGED <<choiceVars, asked, pcQueues, tunnel, sent, heard, upVars, refused>>
    /\ encoderIdle /\ textIdle

\* What the phone answers to a text or a chunk.
Answer(name, id) ==
    \E body \in PhoneWrites(PhoneSays[name]) :
        LET m == TextMsg(name, body, id) IN PhoneSends(m, AsText(m))
NoAnswer == UNCHANGED <<upSocket, told>>

\* onMessage(text).
HearText(m) ==
    IF Reads(PhoneTakes[m.name], m.body)
    THEN /\ heard' = Append(heard, m) /\ UNCHANGED refused
         /\ IF m.name = "file_send_begin" /\ m.arg # 0
            THEN Answer("file_send_accepted", m.arg) ELSE NoAnswer
    ELSE refused' = TRUE /\ UNCHANGED heard /\ NoAnswer

\* handleIncomingFileChunk: a chunk of no known file is dropped.
HearChunk(c) ==
    IF Announced(heard, c.id, "file_send_begin")
    THEN /\ heard' = Append(heard, Chunk(c.id, c.seq, c.last, c.payload))
         /\ IF c.last THEN Answer("file_send_complete", c.id) ELSE NoAnswer
    ELSE UNCHANGED heard /\ NoAnswer

\* onMessage(bytes).
HearBytes(bytes) ==
    /\ UNCHANGED refused
    /\ IF Len(bytes) < HeaderLen THEN UNCHANGED heard /\ NoAnswer
       ELSE LET f == Parse(bytes)
            IN  \/ /\ f.type = Video
                   /\ heard' = Append(heard, Picture(f.pts, f.keyframe, f.payload))
                   /\ NoAnswer
                \/ /\ f.type = Audio
                   /\ heard' = Append(heard, Sound(f.pts, f.payload))
                   /\ NoAnswer
                \/ f.type = File /\ HearChunk(IncomingChunk(f))

PhoneHears ==
    /\ socket # <<>>
    /\ socket' = Tail(socket)
    /\ LET m == Head(socket)
       IN  IF m.text THEN HearText(m.bytes[1]) ELSE HearBytes(m.bytes)
    /\ UNCHANGED <<choiceVars, asked, pcQueues, relayVars, sent, toHost, taken>>
    /\ encoderIdle /\ textIdle

-----------------------------------------------------------------------------
(* From the phone to the PC *)

\* client_loop's reader.
RelayReader ==
    /\ route = "relay" /\ upSocket # <<>> /\ Len(toHost) < ToHostCap
    /\ upSocket' = Tail(upSocket)
    /\ toHost' = Append(toHost,
          EncodeData(Phone, Head(upSocket).text, Head(upSocket).bytes))
    /\ UNCHANGED <<choiceVars, asked, downVars, told, taken, refused>>
    /\ encoderIdle /\ textIdle

PcAnswers(name, id) ==
    \E body \in PcWrites(PcSays[name]) : PcSendsText(TextMsg(name, body, id))
PcSilent == UNCHANGED <<outbox, sent>>

\* run_connection: a text.
TakeText(m) ==
    IF Reads(PcTakes[m.name], m.body)
    THEN /\ taken' = Append(taken, m) /\ UNCHANGED refused
         /\ asked' = (asked \/ (m.name = "keyframe_request" /\ scene = "screen"))
         /\ IF m.name = "file_transfer_begin" /\ scene = "files"
            THEN PcAnswers("file_transfer_accepted", m.arg) ELSE PcSilent
         /\ IF scene = "typing" THEN Inject(m.arg) ELSE textIdle
    ELSE /\ refused' = TRUE
         /\ UNCHANGED <<taken, asked>> /\ PcSilent /\ textIdle

\* run_connection: bytes.  The last chunk completes the file.
TakeBytes(bytes) ==
    /\ UNCHANGED <<refused, asked>> /\ textIdle
    /\ IF IsChunk(bytes) /\ Announced(taken, ParseFileChunk(bytes).id, "file_transfer_begin")
       THEN LET c == ParseFileChunk(bytes)
            IN  /\ taken' = Append(taken, Chunk(c.id, c.seq, c.last, c.payload))
                /\ IF c.last THEN PcAnswers("file_transfer_complete", c.id) ELSE PcSilent
       ELSE UNCHANGED taken /\ PcSilent

PcTakesMessage ==
    /\ \/ /\ route = "lan" /\ upSocket # <<>>
          /\ upSocket' = Tail(upSocket) /\ UNCHANGED toHost
          /\ LET m == Head(upSocket)
             IN  IF m.text THEN TakeText(m.bytes[1]) ELSE TakeBytes(m.bytes)
       \/ /\ toHost # <<>> /\ ~Malformed(Head(toHost))
          /\ toHost' = Tail(toHost) /\ UNCHANGED upSocket
          /\ LET d == Decode(Head(toHost))
             IN  /\ d.id = Phone
                 /\ IF d.text THEN TakeText(d.payload[1]) ELSE TakeBytes(d.payload)
    /\ UNCHANGED <<choiceVars, outboxVideo, outboxBulk, relayVars, socket, heard, told>>
    /\ encoderIdle

-----------------------------------------------------------------------------
WireNext ==
    \/ EncoderStep \/ TakeAsked \/ PictureOut \/ SoundOut \/ RequestKeyframe
    \/ AnnounceFile \/ PushChunk \/ Upload
    \/ FieldChanges
    \/ PcTalks \/ PhoneTalks
    \/ LanWriter \/ Pump \/ RelayRoutes \/ RelayWriter \/ PhoneHears
    \/ RelayReader \/ PcTakesMessage

allVars == <<vars, textVars, wireVars>>

WireSpec == WireInit /\ [][WireNext]_allVars

\* The tasks of the PC and the relay run, and so does the phone's reader.
Fairness ==
    /\ WF_allVars(LanWriter) /\ WF_allVars(Pump)
    /\ WF_allVars(RelayRoutes) /\ WF_allVars(RelayWriter) /\ WF_allVars(PhoneHears)
    /\ WF_allVars(RelayReader) /\ WF_allVars(PcTakesMessage)

FairWire == WireSpec /\ Fairness

-----------------------------------------------------------------------------
(* Properties *)

\* What the phone took of what the PC said, by its number.
NumberOf(m) ==
    IF \E n \in 1..Len(sent) : sent[n] = m
    THEN CHOOSE n \in 1..Len(sent) : sent[n] = m ELSE 0

Promise == INSTANCE Lanes WITH
    sent <- [n \in 1..Len(sent) |-> Lane(sent[n])],
    got  <- [k \in 1..Len(heard) |-> NumberOf(heard[k])]

\* Whatever the route, three queues at the PC, the tunnel, two queues at the
\* relay and two priorities implement the lanes: what the phone takes is what
\* the PC said, in each lane in its order, a chunk never before its
\* announcement ("must deliver", "droppable": relay/src/main.rs).
LanesKept == Promise!Spec

\* Two files written by hand describe one protocol: no message that one end
\* can write, with whichever of its optional fields, is refused by the other
\* ("malformed", the phone's "bad_message": both end the session).
NothingRefused == ~refused

\* Queues that wait for queues never wait for each other: in the end all that
\* must be delivered is, in both directions, and what the PC took is what the
\* phone said, in that order: an upload's announcement, its chunks with their
\* numbers and its end, the keys of an edit.
AllArrives ==
    <>[](/\ told = taken
         /\ \A n \in 1..Len(sent) : Lane(sent[n]) # "fast" => sent[n] \in Range(heard))

\* "Mirror local edits to the PC [...] Handles append, delete, and mid-string
\* edits": when what is on its way has arrived, the PC's field is the committed
\* text, whatever the edits, the compositions and the route, as long as none of
\* them took a wide character away: it has one character and two backspaces
\* (KeyboardOverlay.kt:297-303), and what stood before it goes with it.
Mirrored ==
    LET field[n \in Len(taken)..Len(told)] ==
            IF n = Len(taken) THEN remote ELSE Typed(field[n - 1], told[n].arg)
    IN  scene = "typing" => field[Len(told)] = committed \/ cutWide
=============================================================================
