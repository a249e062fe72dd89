--------------------------- MODULE PhoneTransfers ---------------------------
(***************************************************************************)
(* Files that come to the phone, and the cards that show all transfers.    *)
(* okhttp's reader thread writes what the PC sends and answers it; the     *)
(* main thread cancels, disconnects, and collects the events from which    *)
(* AppViewModel makes its cards.  Both use incomingFiles, a concurrent map *)
(* without a lock around what is done with an entry                        *)
(* (ConnectionClient.kt, AppViewModel.kt).                                 *)
(*                                                                         *)
(* A transfer is <<direction, id>>: the PC numbers downloads and the phone *)
(* uploads, both from 1.  Of an upload there is only what its thread and   *)
(* the PC make it tell the cards; the rest is FileUpload's.  A download is *)
(* two chunks, the second with the flag of the last, each larger than the  *)
(* stream's buffer, so that writing it to a closed stream fails at once.   *)
(* There is one session.                                                   *)
(***************************************************************************)
EXTENDS Naturals, Sequences, SequencesExt, FiniteSets

CONSTANTS
    MaxDown,   \* bound: downloads
    MaxUp,     \* bound: uploads
    EventCap,  \* extraBufferCapacity of _fileEvents (16)
    Acts       \* bound: "cancel", "disconnect", "link" goes down, "disk" fails

ASSUME TransferAssumption ==
    MaxDown \in Nat /\ MaxUp \in Nat /\ EventCap \in Nat \ {0}

DownTransfer == {"down"} \X (1..MaxDown)
UpTransfer   == {"up"} \X (1..MaxUp)
Transfer == DownTransfer \union UpTransfer
Id(t) == t[2]
Nothing == <<"idle", 0>>
Chunks == 2

VARIABLES
    connected,  \* webSocket # null
    socket,     \* the reader still gets frames
    next,       \* a download: what the PC sends next
    reader,     \* what the reader thread is at: <<step, id>>
    main,       \* what the main thread is at
    incoming,   \* the ids in incomingFiles
    closed,     \* its stream has been closed
    bytes,      \* chunks written
    disk,       \* dest: "none", "there" or "gone"
    told,       \* what the PC was told of it (history)
    upload,     \* an upload: "none", "runs", "flagged" or "over"
    events,     \* _fileEvents
    cards,      \* _uploads: the cards of each id, newest first
    timers,     \* ids whose cards are to be removed
    dropped,    \* an event was pushed out of _fileEvents (history)
    cancelled,  \* downloads cancelled by their card (history)
    overtaken,  \* downloads that failed before they were announced (history)
    late        \* entries clear threw out that disconnect had not aborted (history)

incomingVars == <<incoming, closed, bytes, disk, told>>
flow == <<events, dropped>>
receiveVars == <<connected, socket, next, reader, main, incomingVars, upload, flow,
          cards, timers, cancelled, overtaken, late>>

D   == 1..MaxDown
Ids == 1..(MaxDown + MaxUp)

PhoneInit ==
    /\ connected = TRUE /\ socket = TRUE
    /\ next = [d \in D |-> "begin"]
    /\ reader = Nothing /\ main = Nothing
    /\ incoming = {}
    /\ closed = [d \in D |-> FALSE] /\ bytes = [d \in D |-> 0]
    /\ disk = [d \in D |-> "none"] /\ told = [d \in D |-> {}]
    /\ upload = [u \in 1..MaxUp |-> "none"]
    /\ events = <<>> /\ cards = [i \in Ids |-> <<>>] /\ timers = {}
    /\ dropped = FALSE /\ cancelled = {} /\ overtaken = {} /\ late = {}

Event(kind, t) == [kind |-> kind, of |-> t]

\* What tryEmit leaves of a flow that drops its oldest events.
Push(s) == IF Len(s) > EventCap THEN SubSeq(s, Len(s) - EventCap + 1, Len(s)) ELSE s
Emit(kind, t) ==
    /\ events' = Push(Append(events, Event(kind, t)))
    /\ dropped' = (dropped \/ Len(events) = EventCap)

Tell(d, what) == told' = [told EXCEPT ![d] = IF connected THEN @ \union {what} ELSE @]

-----------------------------------------------------------------------------
(* The reader thread *)

history == <<cancelled, overtaken, late>>
readerUnchanged == <<connected, socket, main, upload, cards, timers, history>>

Comes(d, frame) == reader = Nothing /\ socket /\ next[d] = frame
Then(d, frame) == next' = [next EXCEPT ![d] = frame]

\* The file is opened.  Mutated: it will be with the first chunk.
OpenLater(d) == UNCHANGED disk
Open(d)      == disk' = [disk EXCEPT ![d] = "there"]

\* handleFileSendBegin: without a socket nothing, else the file is opened.
BeginFile(d) ==
    /\ Comes(d, "begin")
    /\ \A e \in D : e < d => next[e] # "begin"
    /\ Then(d, "chunk")
    /\ \/ ~connected /\ UNCHANGED <<reader, disk, told>>
       \/ connected /\ "disk" \in Acts /\ Tell(d, "failed") /\ UNCHANGED <<reader, disk>>
       \/ /\ connected
          /\ Open(d)
          /\ reader' = <<"register", d>>
          /\ UNCHANGED told
    /\ UNCHANGED <<incoming, closed, bytes, flow, readerUnchanged>>

\* Then it is put into incomingFiles and accepted.
Register(d) ==
    /\ reader = <<"register", d>>
    /\ reader' = <<"announce", d>>
    /\ incoming' = incoming \union {d}
    /\ Tell(d, "accepted")
    /\ UNCHANGED <<next, closed, bytes, disk, flow, readerUnchanged>>

\* Then Incoming is emitted.
Announce(d) ==
    /\ reader = <<"announce", d>>
    /\ reader' = Nothing
    /\ Emit("incoming", <<"down", d>>)
    /\ UNCHANGED <<next, incomingVars, readerUnchanged>>

\* handleIncomingFileChunk: the entry is looked up.
ChunkComes(d) ==
    /\ reader = Nothing /\ socket /\ next[d] \in {"chunk", "last"}
    /\ Then(d, IF next[d] = "chunk" THEN "last" ELSE "over")
    /\ \/ d \notin incoming /\ UNCHANGED reader
       \/ d \in incoming /\ reader' = <<next[d], d>>
    /\ UNCHANGED <<incomingVars, flow, readerUnchanged>>

\* What an error leads to.  Mutated: the reader goes on to the next chunk.
GoOn(d)   == Nothing
GiveUpFile(d) == <<"fail", d>>

\* Its data is written, unless the stream was closed meanwhile.
Write(d) ==
    /\ reader \in {<<"chunk", d>>, <<"last", d>>}
    /\ \/ /\ closed[d] \/ "disk" \in Acts
          /\ reader' = GiveUpFile(d)
          /\ UNCHANGED <<bytes, flow>>
       \/ /\ ~closed[d]
          /\ bytes' = [bytes EXCEPT ![d] = @ + 1]
          /\ Emit("progress", <<"down", d>>)
          /\ reader' = IF reader[1] = "chunk" THEN Nothing ELSE <<"close", d>>
    /\ UNCHANGED <<next, incoming, closed, disk, told, readerUnchanged>>

\* After the last chunk.  To flush and close a closed stream is no error.
Close(d) ==
    /\ reader = <<"close", d>>
    /\ \/ "disk" \in Acts /\ reader' = <<"fail", d>> /\ UNCHANGED closed
       \/ reader' = <<"finish", d>> /\ closed' = [closed EXCEPT ![d] = TRUE]
    /\ UNCHANGED <<next, incoming, bytes, disk, told, flow, readerUnchanged>>

Finish(d) ==
    /\ reader = <<"finish", d>>
    /\ reader' = Nothing
    /\ incoming' = incoming \ {d}
    /\ Tell(d, "complete")
    /\ Emit("complete", <<"down", d>>)
    /\ UNCHANGED <<next, closed, bytes, disk, readerUnchanged>>

-----------------------------------------------------------------------------
(* Failing, on either thread *)

\* Mutated: failIncoming leaves the file.
LeaveFile(d)  == UNCHANGED disk
Delete(d) == disk' = [disk EXCEPT ![d] = "gone"]

\* failIncoming: the file is closed and deleted.
FailFile(d) ==
    /\ closed' = [closed EXCEPT ![d] = TRUE]
    /\ Delete(d)
    /\ UNCHANGED <<incoming, bytes, told, flow>>

\* The entry goes, and both sides are told.
FailTell(d) ==
    /\ incoming' = incoming \ {d}
    /\ Tell(d, "failed")
    /\ Emit("failed", <<"down", d>>)
    /\ UNCHANGED <<closed, bytes, disk>>

ReaderFails(d) ==
    /\ \/ reader = <<"fail", d>> /\ FailFile(d) /\ reader' = <<"failed", d>>
       \/ reader = <<"failed", d>> /\ FailTell(d) /\ reader' = Nothing
    /\ UNCHANGED <<next, readerUnchanged>>

\* Of abortAllIncomingFiles, the entries' events.  Mutated: there is none.
NoEvents(S) == events
FailEvents(S) ==
    Push(events \o SetToSeq({Event("failed", <<"down", d>>) : d \in S}))

\* The loop of abortAllIncomingFiles.
AbortAll ==
    /\ closed' = [d \in D |-> closed[d] \/ d \in incoming]
    /\ disk' = [d \in D |-> IF d \in incoming /\ bytes[d] < Chunks THEN "gone" ELSE disk[d]]
    /\ events' = FailEvents(incoming)
    /\ dropped' = (dropped \/ Len(events) + Cardinality(incoming) > EventCap)

\* onFailure and onClosed, on the reader thread.
PhoneLinkDown ==
    /\ "link" \in Acts
    /\ reader = Nothing /\ socket
    /\ socket' = FALSE
    /\ \/ /\ connected /\ connected' = FALSE
          /\ AbortAll /\ incoming' = {}
       \/ /\ ~connected
          /\ UNCHANGED <<connected, incoming, closed, disk, flow>>
    /\ UNCHANGED <<next, reader, main, bytes, told, upload, cards, timers,
                   history>>

-----------------------------------------------------------------------------
(* The main thread *)

mainUnchanged == <<socket, next, reader, overtaken, late>>

\* disconnect: the socket is asked to close, and the files are aborted.
Disconnect ==
    /\ "disconnect" \in Acts
    /\ main = Nothing /\ connected
    /\ connected' = FALSE
    /\ AbortAll
    /\ main' = <<"clear", 0>>
    /\ overtaken' = overtaken \union {d \in incoming : reader = <<"announce", d>>}
    /\ UNCHANGED <<socket, next, reader, incoming, bytes, told, upload, cards,
                   timers, cancelled, late>>

\* incomingFiles.clear.
Clear ==
    /\ main = <<"clear", 0>>
    /\ main' = Nothing
    /\ incoming' = {}
    /\ late' = late \union {d \in incoming : ~closed[d]}
    /\ UNCHANGED <<connected, socket, next, reader, closed, bytes, disk, told,
                   upload, flow, cards, timers, cancelled, overtaken>>

\* The first card with an id.
Shown(i) == cards[i] # <<>>
First(i) == Head(cards[i])

\* The cross of a card: cancelTransfer.
Cancel(i) ==
    /\ "cancel" \in Acts
    /\ main = Nothing /\ Shown(i) /\ First(i).state = "sending"
    /\ \/ /\ First(i).of \in UpTransfer
          /\ upload' = [upload EXCEPT ![i] = IF @ = "runs" THEN "flagged" ELSE @]
          /\ UNCHANGED <<main, cancelled>>
       \/ /\ First(i).of \in DownTransfer
          /\ main' = IF i \in incoming THEN <<"fail", i>> ELSE main
          /\ cancelled' = cancelled \union {i}
          /\ UNCHANGED upload
    /\ UNCHANGED <<connected, incomingVars, flow, cards, timers, mainUnchanged>>

MainFails(d) ==
    /\ \/ main = <<"fail", d>> /\ FailFile(d) /\ main' = <<"failed", d>>
       \/ main = <<"failed", d>> /\ FailTell(d) /\ main' = Nothing
    /\ UNCHANGED <<connected, upload, cards, timers, cancelled, mainUnchanged>>

Card(t) == [of |-> t, state |-> "sending"]

\* AppViewModel.uploadFile.
StartUpload(u) ==
    /\ main = Nothing /\ connected
    /\ upload[u] = "none" /\ \A w \in 1..(u - 1) : upload[w] # "none"
    /\ upload' = [upload EXCEPT ![u] = "runs"]
    /\ cards' = [cards EXCEPT ![u] = <<Card(<<"up", u>>)>> \o @]
    /\ UNCHANGED <<connected, main, incomingVars, flow, timers, cancelled, mainUnchanged>>

\* applyEvent.
Outcome(state, kind) == IF kind \in {"complete", "failed"} THEN kind ELSE state

\* What a terminal event leads to.  Mutated: nothing; the next event will do it.
NoTimer(e) == UNCHANGED timers
SetTimer(e) ==
    timers' = timers \union (IF e.kind \in {"complete", "failed"} THEN {Id(e.of)} ELSE {})

\* fileEvents.collect.
Collect ==
    /\ main = Nothing /\ events # <<>>
    /\ events' = Tail(events)
    /\ LET e == Head(events)
           old == cards[Id(e.of)]
           all == IF e.kind = "incoming" THEN <<Card(e.of)>> \o old ELSE old
       IN  /\ cards' = [cards EXCEPT ![Id(e.of)] =
                           [n \in 1..Len(all) |->
                               [all[n] EXCEPT !.state = Outcome(@, e.kind)]]]
           /\ SetTimer(e)
    /\ UNCHANGED <<connected, main, incomingVars, upload, dropped, cancelled, mainUnchanged>>

\* Six seconds after a terminal event.
Expire(i) ==
    /\ main = Nothing /\ i \in timers
    /\ timers' = timers \ {i}
    /\ cards' = [cards EXCEPT ![i] = <<>>]
    /\ UNCHANGED <<connected, main, incomingVars, upload, flow, cancelled, mainUnchanged>>

\* An upload tells the cards: its thread or the reader does.
UploadTells(u) ==
    /\ upload[u] \in {"runs", "flagged"}
    /\ \/ Emit("progress", <<"up", u>>) /\ upload[u] = "runs" /\ UNCHANGED upload
       \/ /\ Emit(IF upload[u] = "runs" THEN "complete" ELSE "failed", <<"up", u>>)
          /\ upload' = [upload EXCEPT ![u] = "over"]
    /\ UNCHANGED <<connected, main, incomingVars, cards, timers, cancelled, mainUnchanged>>

-----------------------------------------------------------------------------
PhoneNext ==
    \/ \E d \in D :
          \/ BeginFile(d) \/ Register(d) \/ Announce(d)
          \/ ChunkComes(d) \/ Write(d) \/ Close(d) \/ Finish(d)
          \/ ReaderFails(d) \/ MainFails(d)
    \/ PhoneLinkDown \/ Disconnect \/ Clear \/ Collect
    \/ \E i \in Ids : Cancel(i) \/ Expire(i)
    \/ \E u \in 1..MaxUp : StartUpload(u) \/ UploadTells(u)

PhoneSpec == PhoneInit /\ [][PhoneNext]_receiveVars

-----------------------------------------------------------------------------
(* Properties *)

\* Type correctness; a file is on the disk once its download is registered.
PhoneTypeOK ==
    /\ connected \in BOOLEAN /\ socket \in BOOLEAN
    /\ next \in [D -> {"begin", "chunk", "last", "over"}]
    /\ reader[1] \in {"idle", "register", "announce", "chunk", "last", "close",
                      "finish", "fail", "failed"}
    /\ main[1] \in {"idle", "clear", "fail", "failed"}
    /\ incoming \subseteq D /\ \A d \in incoming : disk[d] # "none"
    /\ bytes \in [D -> 0..Chunks] /\ disk \in [D -> {"none", "there", "gone"}]
    /\ told \in [D -> SUBSET {"accepted", "complete", "failed"}]
    /\ upload \in [1..MaxUp -> {"none", "runs", "flagged", "over"}]
    /\ Len(events) <= EventCap /\ \A n \in 1..Len(events) : events[n].of \in Transfer
    /\ \A i \in Ids : \A n \in 1..Len(cards[i]) :
          cards[i][n].of \in Transfer /\ Id(cards[i][n].of) = i
    /\ timers \subseteq Ids
    /\ dropped \in BOOLEAN /\ cancelled \subseteq D /\ late \subseteq D
    /\ overtaken \subseteq D

AtRest == reader = Nothing /\ main = Nothing

\* "Drop every partially-received file on disconnect": with both threads at
\* rest, a file that is not whole belongs to an entry of incomingFiles, however
\* cancels, errors, chunks and the end of the socket interleave.  Except one
\* whose entry came between disconnect's loop and its clear, which stays.
NoPartialStays ==
    AtRest => \A d \in D \ late :
        disk[d] = "there" /\ bytes[d] < Chunks => d \in incoming

\* What the PC was told is complete is on the disk, at the path it was told: no
\* disconnect or failing link that races with the last chunk takes it away.  A
\* cancel that comes with the last chunk may.
CompleteIsThere ==
    \A d \in D \ cancelled :
        "complete" \in told[d] => disk[d] = "there" /\ bytes[d] = Chunks

\* What the phone keeps on its disk is whole or still being received, and what
\* it told the PC is complete it keeps.
ReceivedWhole == NoPartialStays /\ CompleteIsThere

\* When all events are collected, a card that still says sending is of a
\* transfer that goes on, unless an event was dropped, or a disconnect emitted
\* its failure before the reader its Incoming.
CardsSettle ==
    AtRest /\ events = <<>> /\ ~dropped =>
        \A i \in Ids : \A n \in 1..Len(cards[i]) :
            cards[i][n].state = "sending" =>
                IF cards[i][n].of \in UpTransfer THEN upload[i] # "over"
                ELSE i \in incoming \union late \union overtaken

\* An id no transfer of the other direction has: the cards are matched by the
\* id alone.
Alone(t) ==
    \/ t \in DownTransfer /\ (Id(t) > MaxUp \/ upload[Id(t)] = "none")
    \/ t \in UpTransfer /\ (Id(t) > MaxDown \/ next[Id(t)] = "begin")

\* "all events flow through one funnel and the per-id `UploadStatus` stays
\* consistent": a card says complete only of a transfer that is.
OwnCard ==
    \A i \in Ids : \A n \in 1..Len(cards[i]) :
        LET t == cards[i][n].of
        IN  cards[i][n].state = "complete" /\ Alone(t) =>
                IF t \in UpTransfer THEN upload[i] = "over"
                ELSE closed[i] /\ bytes[i] = Chunks

\* "prunes terminal entries a few seconds after they finish", also when no
\* further event ever comes: a card in a terminal state has a timer that will
\* remove it, whichever events of the same id came and went.
FinishedCardsGo ==
    \A i \in Ids : \A n \in 1..Len(cards[i]) :
        cards[i][n].state # "sending" => i \in timers
=============================================================================
