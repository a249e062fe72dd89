------------------------------ MODULE Framing ------------------------------
(***************************************************************************)
(* The binary formats: the 12 bytes before a picture, a sound or a chunk   *)
(* of a file (protocol.rs, Protocol.kt), and the 38 bytes before each      *)
(* message between the PC and the relay (TunnelFrame, the same code on     *)
(* both sides).                                                            *)
(*                                                                         *)
(* A byte is a number below Base, 256 in the code; a smaller base keeps    *)
(* the eight-byte field within what TLC can count.  A payload is any       *)
(* sequence.  Kotlin's Int has the bits of an unsigned number and reads    *)
(* the upper half of the range as negative.                                *)
(***************************************************************************)
EXTENDS Integers, Sequences

CONSTANTS
    Base,   \* values of a byte (256)
    IdLen   \* bytes of a client_id (36)

ASSUME FramingAssumption == Base \in Nat /\ Base > 3 /\ Base % 2 = 0 /\ IdLen \in Nat \ {0}

Byte == 0..(Base - 1)

\* The values of four bytes (u32), and of eight (u64).
Word == 0..(Base * Base * Base * Base - 1)
WordSize == Base * Base * Base * Base

-----------------------------------------------------------------------------
(* Numbers *)

\* u32::to_le_bytes; the shifts and masks of buildFileChunkFrame.
Le4(n) == << n % Base,
             (n \div Base) % Base,
             ((n \div Base) \div Base) % Base,
             (((n \div Base) \div Base) \div Base) % Base >>

\* u64::to_le_bytes.
Le8(n) == Le4(n % WordSize) \o Le4(n \div WordSize)

\* u32::from_le_bytes of the four bytes from place i on.
FromLe4(b, i) == b[i] + Base * (b[i+1] + Base * (b[i+2] + Base * b[i+3]))

\* readLongLe.  A pts stays below the upper half of a Long.
ReadLongLe(b, i) == FromLe4(b, i) + WordSize * FromLe4(b, i + 4)

\* Long.toInt(), and an Int's bits as a number.
ToInt(n) == IF 2 * n < WordSize THEN n ELSE n - WordSize
Bits(k)  == IF k < 0 THEN k + WordSize ELSE k

-----------------------------------------------------------------------------
(* Pictures, sounds, chunks *)

HeaderLen == 12
Video == 1
Audio == 2
File  == 3
Keyframe  == 1   \* also LAST_CHUNK
Config    == 2

Flag(set, bit) == IF set THEN bit ELSE 0

\* build_video_frame, build_audio_frame.
BuildVideoFrame(payload, pts, keyframe, config) ==
    <<Video, Flag(keyframe, Keyframe) + Flag(config, Config), 0, 0>> \o Le8(pts) \o payload
BuildAudioFrame(payload, pts) == <<Audio, 0, 0, 0>> \o Le8(pts) \o payload

\* build_file_chunk_frame.  Mutated: the number of the chunk first.
SeqFirst(id, seq, last, payload) ==
    <<File, Flag(last, Keyframe), 0, 0>> \o Le4(seq) \o Le4(id) \o payload
BuildChunkFrame(id, seq, last, payload) ==
    <<File, Flag(last, Keyframe), 0, 0>> \o Le4(id) \o Le4(seq) \o payload

\* buildFileChunkFrame, of the phone.
PhoneChunkFrame(id, seq, last, payload) ==
    BuildChunkFrame(Bits(id), Bits(seq), last, payload)

Payload(frame) == SubSeq(frame, HeaderLen + 1, Len(frame))
HasFlag(frame, bit) == (frame[2] \div bit) % 2 = 1

\* peek_frame_header and parse_file_chunk, once the length is known to do.
IsChunk(frame) == Len(frame) >= HeaderLen /\ frame[1] = File
ParseFileChunk(frame) ==
    [id |-> FromLe4(frame, 5), seq |-> FromLe4(frame, 9),
     last |-> HasFlag(frame, Keyframe), payload |-> Payload(frame)]

\* FrameParser.parse; too short a frame is dropped before.
Parse(frame) ==
    [type |-> frame[1], keyframe |-> HasFlag(frame, Keyframe),
     config |-> HasFlag(frame, Config), pts |-> ReadLongLe(frame, 5),
     payload |-> Payload(frame)]

\* handleIncomingFileChunk takes the two numbers out of the pts, and the last
\* chunk for a key frame.
IncomingChunk(f) ==
    [id |-> ToInt(f.pts % WordSize), seq |-> ToInt(f.pts \div WordSize),
     last |-> f.keyframe, payload |-> f.payload]

-----------------------------------------------------------------------------
(* The tunnel *)

Open  == 1
Close == 2
Data  == 3
TunnelHeaderLen == IdLen + 2

\* push_uuid: exactly IdLen bytes, filled up with the digit '0'.
Pad == 48 % Base
Padded(id) == [i \in 1..IdLen |-> IF i <= Len(id) THEN id[i] ELSE Pad]

\* TunnelFrame::encode.
EncodeOpen(id)  == <<Open>> \o Padded(id) \o <<0>>
EncodeClose(id) == <<Close>> \o Padded(id) \o <<0>>
EncodeData(id, text, payload) ==
    <<Data>> \o Padded(id) \o <<Flag(text, 1)>> \o payload

\* TunnelFrame::decode.  Mutated: the flag is forgotten.
Malformed(bytes) == Len(bytes) < TunnelHeaderLen \/ bytes[1] \notin {Open, Close, Data}
AllBinary(bytes) ==
    [type |-> bytes[1], id |-> SubSeq(bytes, 2, IdLen + 1), text |-> FALSE,
     payload |-> SubSeq(bytes, TunnelHeaderLen + 1, Len(bytes))]
Decode(bytes) ==
    [type |-> bytes[1], id |-> SubSeq(bytes, 2, IdLen + 1), text |-> bytes[IdLen + 2] # 0,
     payload |-> SubSeq(bytes, TunnelHeaderLen + 1, Len(bytes))]
=============================================================================
