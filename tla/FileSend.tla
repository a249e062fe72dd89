------------------------------ MODULE FileSend ------------------------------
(***************************************************************************)
(* Sending a file from the PC to a phone.  Four kinds of actor take part:  *)
(*  - the QR page's HTTP handlers spool an upload and hand it over, or     *)
(*    hand over a cancel (server-pc/src/qr_server.rs);                     *)
(*  - the FileSendBridge is the one slot they hand it to: the session that *)
(*    authenticated last (file_send.rs);                                   *)
(*  - each run_connection keeps the transfers it was given and owns their  *)
(*    spool files; a streamer task per transfer reads the spool and feeds  *)
(*    the bounded bulk queue (connection.rs);                              *)
(*  - the phone at the other end writes what arrives and says how it went  *)
(*    (ConnectionClient.kt).                                               *)
(*                                                                         *)
(* A transfer is its id: ids are never reused.  A file is MaxChunk chunks. *)
(* The pump, the network and the phone's handler are one step, so that the *)
(* bulk queue stands for all that is in flight between the two.            *)
(* FileSendAccepted is left out: the PC only logs it.  A wedged link is a   *)
(* phone that is frozen or out of reach: nothing moves either way.         *)
(***************************************************************************)
EXTENDS Naturals, Sequences, FiniteSets

CONSTANTS
    Transfers,  \* bound: ids that allocate_transfer_id gives out
    Sessions,   \* bound: authenticated run_connections
    Nobody,     \* the empty slot, and "no session"
    MaxChunk,   \* chunks of a file
    BulkCap,    \* OUTBOUND_BULK_CAP
    Faults,     \* bound: what may fail
    Cancels     \* bound: who may cancel

ASSUME FileSendAssumption ==
    /\ Nobody \notin Sessions
    /\ MaxChunk \in Nat \ {0}
    /\ BulkCap \in Nat \ {0}
    /\ Faults \subseteq {"upload", "read", "phone", "wedge", "drop"}
    /\ Cancels \subseteq {"browser", "phone"}

Bridge == "bridge"  \* the only key of the slot

VARIABLES
    slot,      \* FileSendBridge.inner
    http,      \* the /send-file handler of a transfer
    asked,     \* transfers whose /cancel-send was answered "ok"
    spool,     \* the spool files that exist
    spc,       \* where a run_connection is
    cmds,      \* its file_send_rx (left as it is when the session returns)
    sends,     \* the keys of its file_sends
    inbox,     \* the phone's replies
    owner,     \* the session a transfer was dispatched to
    cancelled, \* transfers whose cancel flag is set
    streamer,  \* the streamer task of a transfer
    sent,      \* chunks it has pushed
    ctl,       \* the session's outbox: the FileSendBegins
    bulk,      \* the session's outbox_bulk: the chunks
    pump,      \* the session's writer task
    link,      \* up, wedged or down
    phone,     \* what the phone has of a transfer
    nextSeq    \* IncomingFile.nextSeq

httpVars  == <<http, asked>>
loopVars  == <<spc, sends>>
taskVars  == <<owner, cancelled, streamer, sent>>
queueVars == <<ctl, bulk, pump>>
phoneVars == <<phone, nextSeq>>
vars == <<slot, httpVars, spool, loopVars, cmds, inbox, taskVars, queueVars,
          link, phoneVars>>

Cmd   == [op : {"send", "cancel"}, id : Transfers]
Reply == [op : {"complete", "failed"}, id : Transfers]
Chunk == [id : Transfers, seq : 0..(MaxChunk - 1), last : BOOLEAN]
Looping == {"serve", "drain"}

Init ==
    /\ slot = Nobody
    /\ http = [f \in Transfers |-> "new"]
    /\ asked = {}
    /\ spool = {}
    /\ spc = [s \in Sessions |-> "fresh"]
    /\ cmds = [s \in Sessions |-> <<>>]
    /\ sends = [s \in Sessions |-> {}]
    /\ inbox = [s \in Sessions |-> <<>>]
    /\ owner = [f \in Transfers |-> Nobody]
    /\ cancelled = {}
    /\ streamer = [f \in Transfers |-> "none"]
    /\ sent = [f \in Transfers |-> 0]
    /\ ctl = [s \in Sessions |-> <<>>]
    /\ bulk = [s \in Sessions |-> <<>>]
    /\ pump = [s \in Sessions |-> "run"]
    /\ link = [s \in Sessions |-> "up"]
    /\ phone = [f \in Transfers |-> "none"]
    /\ nextSeq = [f \in Transfers |-> 0]

-----------------------------------------------------------------------------
(* The QR page's HTTP handlers *)

HttpGoto(f, from, to) ==
    /\ http[f] = from
    /\ http' = [http EXCEPT ![f] = to]

\* dispatch_dry_run, then the body is read into a fresh spool file.  Without
\* a session: 503 (no step).
Upload(f) ==
    /\ HttpGoto(f, "new", "spooling")
    /\ slot # Nobody
    /\ spool' = spool \cup {f}
    /\ UNCHANGED <<slot, asked, loopVars, cmds, inbox, taskVars, queueVars,
                   link, phoneVars>>

\* The browser closes early: 400 and the spool is removed.  Or a read or a
\* write fails: `?` leaves the handler, and the spool stays behind.
UploadFails(f) ==
    /\ "upload" \in Faults
    /\ \/ HttpGoto(f, "spooling", "refused") /\ spool' = spool \ {f}
       \/ HttpGoto(f, "spooling", "broken") /\ UNCHANGED spool
    /\ UNCHANGED <<slot, asked, loopVars, cmds, inbox, taskVars, queueVars,
                   link, phoneVars>>

ToSlot(op, f) == [cmds EXCEPT ![slot] = Append(@, [op |-> op, id |-> f])]

\* The body is complete: hand it to whoever holds the slot, or remove it.
\* Mutated: it is left for somebody else to remove.
LeaveSpool(f) == spool
DropSpool(f) == spool \ {f}

Dispatch(f) ==
    /\ \/ /\ slot # Nobody
          /\ HttpGoto(f, "spooling", "ok")
          /\ cmds' = ToSlot("send", f)
          /\ UNCHANGED spool
       \/ /\ slot = Nobody
          /\ HttpGoto(f, "spooling", "refused")
          /\ spool' = DropSpool(f)
          /\ UNCHANGED cmds
    /\ UNCHANGED <<slot, asked, loopVars, inbox, taskVars, queueVars, link,
                   phoneVars>>

\* POST /cancel-send: to whoever holds the slot now; answered "ok" anyhow.
CancelSend(f) ==
    /\ "browser" \in Cancels
    /\ http[f] = "ok" /\ f \notin asked
    /\ asked' = asked \cup {f}
    /\ cmds' = IF slot = Nobody THEN cmds ELSE ToSlot("cancel", f)
    /\ UNCHANGED <<slot, http, spool, loopVars, inbox, taskVars, queueVars,
                   link, phoneVars>>

-----------------------------------------------------------------------------
(* run_connection *)

LoopGoto(s, from, to) ==
    /\ spc[s] = from
    /\ spc' = [spc EXCEPT ![s] = to]

\* The iteration that authenticated the phone ends by claiming the slot.
Register(s) ==
    /\ LoopGoto(s, "fresh", "serve")
    /\ slot' = s
    /\ UNCHANGED <<httpVars, spool, sends, cmds, inbox, taskVars, queueVars,
                   link, phoneVars>>

\* FileSendCmd::Send: record it, announce it, spawn its streamer.
StartSend(s) ==
    LET f == Head(cmds[s]).id IN
    /\ spc[s] = "serve"
    /\ cmds[s] # <<>> /\ Head(cmds[s]).op = "send"
    /\ cmds' = [cmds EXCEPT ![s] = Tail(@)]
    /\ sends' = [sends EXCEPT ![s] = @ \cup {f}]
    /\ ctl' = [ctl EXCEPT ![s] = IF pump[s] = "run" THEN Append(@, f) ELSE @]
    /\ owner' = [owner EXCEPT ![f] = s]
    /\ streamer' = [streamer EXCEPT ![f] = "open"]
    /\ UNCHANGED <<slot, httpVars, spool, spc, inbox, cancelled, sent, bulk,
                   pump, link, phoneVars>>

\* Forget a transfer: take it out of file_sends, set its flag, unlink.
\* Mutated: the flag is not set.
Unflagged(f) == cancelled
Flagged(f) == cancelled \cup {f}

Forget(s, f) ==
    /\ sends' = [sends EXCEPT ![s] = @ \ {f}]
    /\ cancelled' = Flagged(f)
    /\ spool' = spool \ {f}

\* FileSendCmd::Cancel: nothing is sent to the phone.  Unknown: no-op.
StopSend(s) ==
    LET f == Head(cmds[s]).id IN
    /\ spc[s] = "serve"
    /\ cmds[s] # <<>> /\ Head(cmds[s]).op = "cancel"
    /\ cmds' = [cmds EXCEPT ![s] = Tail(@)]
    /\ IF f \in sends[s] THEN Forget(s, f)
       ELSE UNCHANGED <<sends, cancelled, spool>>
    /\ UNCHANGED <<slot, httpVars, spc, inbox, owner, streamer, sent,
                   queueVars, link, phoneVars>>

\* FileSendComplete unlinks the spool and leaves the flag alone;
\* FileSendFailed sets it.  Unknown id: only the message is consumed.
OnReply(s) ==
    LET r == Head(inbox[s]) IN
    /\ spc[s] = "serve"
    /\ inbox[s] # <<>>
    /\ inbox' = [inbox EXCEPT ![s] = Tail(@)]
    /\ \/ /\ r.id \in sends[s] /\ r.op = "failed"
          /\ Forget(s, r.id)
       \/ /\ r.id \in sends[s] /\ r.op = "complete"
          /\ sends' = [sends EXCEPT ![s] = @ \ {r.id}]
          /\ spool' = spool \ {r.id}
          /\ UNCHANGED cancelled
       \/ /\ r.id \notin sends[s]
          /\ UNCHANGED <<sends, cancelled, spool>>
    /\ UNCHANGED <<slot, httpVars, spc, cmds, owner, streamer, sent,
                   queueVars, link, phoneVars>>

\* The inbox is closed and empty, or nothing happened for 45 s.
Break(s) ==
    /\ LoopGoto(s, "serve", "drain")
    /\ inbox[s] = <<>>
    /\ link[s] = "down" \/ (link[s] = "wedged" /\ cmds[s] = <<>>)
    /\ UNCHANGED <<slot, httpVars, spool, sends, cmds, inbox, taskVars,
                   queueVars, link, phoneVars>>

\* file_sends.drain(): one unlink at a time.
DrainOne(s) ==
    /\ spc[s] = "drain"
    /\ \E f \in sends[s] : Forget(s, f)
    /\ UNCHANGED <<slot, httpVars, spc, cmds, inbox, owner, streamer, sent,
                   queueVars, link, phoneVars>>

\* deregister.  Mutated: without comparing the instance.
AnyOccupant(s) == TRUE
StillOurs(s) == slot = s

\* The loop's locals are dropped with the return: its outbox closes.
Deregister(s) ==
    /\ LoopGoto(s, "drain", "gone")
    /\ sends[s] = {}
    /\ slot' = IF StillOurs(s) THEN Nobody ELSE slot
    /\ UNCHANGED <<httpVars, spool, sends, cmds, inbox, taskVars, queueVars,
                   link, phoneVars>>

-----------------------------------------------------------------------------
(* spawn_file_sender: the streamer task *)

StreamerGoto(f, from, to) ==
    /\ streamer[f] = from
    /\ streamer' = [streamer EXCEPT ![f] = to]

OpenSpool(f) ==
    /\ StreamerGoto(f, "open", IF f \in spool THEN "check" ELSE "done")
    /\ UNCHANGED <<slot, httpVars, spool, loopVars, cmds, inbox, owner,
                   cancelled, sent, queueVars, link, phoneVars>>

\* Between chunks: the flag, then a read.  A failed read ends the task and
\* tells nobody, like the end of the file.
ReadChunk(f) ==
    /\ \/ StreamerGoto(f, "check", IF f \in cancelled \/ sent[f] = MaxChunk
                                   THEN "done" ELSE "push")
       \/ "read" \in Faults /\ StreamerGoto(f, "check", "done")
    /\ UNCHANGED <<slot, httpVars, spool, loopVars, cmds, inbox, owner,
                   cancelled, sent, queueVars, link, phoneVars>>

\* Is the chunk read after n others the last one (sent_bytes >=
\* expected_size)?  Mutated: off by one, either way.
OneLate(n) == n + 1 > MaxChunk
OneEarly(n) == n + 2 >= MaxChunk
IsLast(n) == n + 1 >= MaxChunk

\* Mutated: an unbounded queue.
Unbounded(s) == TRUE
HasRoom(s) == Len(bulk[s]) < BulkCap

\* outbox_bulk.send of the chunk; the task returns after the last one.
PushChunk(f) ==
    LET s == owner[f]
        last == IsLast(sent[f]) IN
    /\ StreamerGoto(f, "push", IF last THEN "done" ELSE "check")
    /\ pump[s] = "run" /\ HasRoom(s)
    /\ bulk' = [bulk EXCEPT ![s] =
                  Append(@, [id |-> f, seq |-> sent[f], last |-> last])]
    /\ sent' = [sent EXCEPT ![f] = @ + 1]
    /\ UNCHANGED <<slot, httpVars, spool, loopVars, cmds, inbox, owner,
                   cancelled, ctl, pump, link, phoneVars>>

\* outbox_bulk.send returns Err: the receiver is gone.  Mutated: the task
\* tries again.
TryAgain(f) == "push"
GiveUp(f) == "done"

PushFails(f) ==
    /\ StreamerGoto(f, "push", GiveUp(f))
    /\ pump[owner[f]] = "done"
    /\ UNCHANGED <<slot, httpVars, spool, loopVars, cmds, inbox, owner,
                   cancelled, sent, queueVars, link, phoneVars>>

-----------------------------------------------------------------------------
(* The pump and the phone *)

Replies(s, op, f) == [inbox EXCEPT ![s] = Append(@, [op |-> op, id |-> f])]

\* failIncoming: the partial file is deleted and the PC told.
FailIncoming(s, f) ==
    /\ phone' = [phone EXCEPT ![f] = "failed"]
    /\ inbox' = Replies(s, "failed", f)
    /\ UNCHANGED nextSeq

\* handleFileSendBegin; without a downloads dir or a file it declines.
PhoneBegin(s) ==
    LET f == Head(ctl[s]) IN
    /\ pump[s] = "run" /\ link[s] = "up"
    /\ ctl[s] # <<>>
    /\ ctl' = [ctl EXCEPT ![s] = Tail(@)]
    /\ \/ /\ phone' = [phone EXCEPT ![f] = "receiving"]
          /\ UNCHANGED <<inbox, nextSeq>>
       \/ "phone" \in Faults /\ FailIncoming(s, f)
    /\ UNCHANGED <<slot, httpVars, spool, loopVars, cmds, taskVars, bulk,
                   pump, link>>

\* The biased select takes a chunk when no control message waits.  Mutated:
\* chunks overtake.
AnyOrder(s) == TRUE
ControlFirst(s) == ctl[s] = <<>>

\* handleIncomingFileChunk: unknown id, out of order, write error, last, or
\* one more.
PhoneChunk(s) ==
    LET c == Head(bulk[s])
        f == c.id IN
    /\ pump[s] = "run" /\ link[s] = "up"
    /\ bulk[s] # <<>> /\ ControlFirst(s)
    /\ bulk' = [bulk EXCEPT ![s] = Tail(@)]
    /\ \/ /\ phone[f] # "receiving"
          /\ UNCHANGED <<inbox, phoneVars>>
       \/ /\ phone[f] = "receiving"
          /\ c.seq # nextSeq[f] \/ "phone" \in Faults
          /\ FailIncoming(s, f)
       \/ /\ phone[f] = "receiving" /\ c.seq = nextSeq[f]
          /\ nextSeq' = [nextSeq EXCEPT ![f] = @ + 1]
          /\ IF c.last
             THEN /\ phone' = [phone EXCEPT ![f] = "complete"]
                  /\ inbox' = Replies(s, "complete", f)
             ELSE UNCHANGED <<phone, inbox>>
    /\ UNCHANGED <<slot, httpVars, spool, loopVars, cmds, taskVars, ctl, pump,
                   link>>

\* cancelDownload
PhoneCancel(f) ==
    /\ "phone" \in Cancels
    /\ phone[f] = "receiving"
    /\ link[owner[f]] = "up"
    /\ FailIncoming(owner[f], f)
    /\ UNCHANGED <<slot, httpVars, spool, loopVars, cmds, taskVars, queueVars,
                   link>>

\* The pump ends when a send fails, or when the loop returned and the outbox
\* is empty; it drops the queues.
PumpStops(s) ==
    /\ pump[s] = "run"
    /\ link[s] = "down" \/ (spc[s] = "gone" /\ ctl[s] = <<>>)
    /\ pump' = [pump EXCEPT ![s] = "done"]
    /\ ctl' = [ctl EXCEPT ![s] = <<>>]
    /\ bulk' = [bulk EXCEPT ![s] = <<>>]
    /\ UNCHANGED <<slot, httpVars, spool, loopVars, cmds, inbox, taskVars,
                   link, phoneVars>>

-----------------------------------------------------------------------------
(* The network *)

Flap(s) ==
    /\ "wedge" \in Faults /\ spc[s] # "fresh"
    /\ link[s] \in {"up", "wedged"}
    /\ link' = [link EXCEPT ![s] = IF @ = "up" THEN "wedged" ELSE "up"]
    /\ UNCHANGED <<slot, httpVars, spool, loopVars, cmds, inbox, taskVars,
                   queueVars, phoneVars>>

\* The phone sees its socket fail, or closes it: abortAllIncomingFiles.
Drop(s) ==
    /\ spc[s] # "fresh" /\ link[s] # "down"
    /\ link[s] = "wedged" \/ pump[s] = "done" \/ "drop" \in Faults
    /\ link' = [link EXCEPT ![s] = "down"]
    /\ phone' = [f \in Transfers |->
                   IF owner[f] = s /\ phone[f] = "receiving" THEN "failed"
                   ELSE phone[f]]
    /\ UNCHANGED <<slot, httpVars, spool, loopVars, cmds, inbox, taskVars,
                   queueVars, nextSeq>>

-----------------------------------------------------------------------------
Http(f) == Upload(f) \/ UploadFails(f) \/ Dispatch(f) \/ CancelSend(f)

Loop(s) ==
    \/ StartSend(s) \/ StopSend(s) \/ OnReply(s) \/ DrainOne(s) \/ Deregister(s)

Streamer(f) == OpenSpool(f) \/ ReadChunk(f) \/ PushChunk(f) \/ PushFails(f)

Pump(s) == PhoneBegin(s) \/ PhoneChunk(s) \/ PumpStops(s)

Next ==
    \/ \E f \in Transfers : Http(f) \/ Streamer(f) \/ PhoneCancel(f)
    \/ \E s \in Sessions :
         \/ Register(s) \/ Loop(s) \/ Break(s) \/ Pump(s)
         \/ Flap(s) \/ Drop(s)

Spec == Init /\ [][Next]_vars

\* The runtime polls every task that can go on and a queue's permits are
\* handed out first come first served.  A link that keeps coming back lets
\* frames through; one that stays wedged dies.
FairSpec ==
    /\ Spec
    /\ \A s \in Sessions :
         /\ WF_vars(Loop(s))
         /\ WF_vars(Break(s))
         /\ SF_vars(Pump(s))
         /\ WF_vars(link[s] = "wedged" /\ Drop(s))
    /\ \A f \in Transfers : SF_vars(Streamer(f))

-----------------------------------------------------------------------------
(* Properties *)

\* Every variable stays in its domain and the bulk queue within its cap.
TypeOK ==
    /\ slot \in Sessions \cup {Nobody}
    /\ http \in [Transfers -> {"new", "spooling", "ok", "refused", "broken"}]
    /\ asked \subseteq Transfers
    /\ spool \subseteq Transfers
    /\ spc \in [Sessions -> Looping \cup {"fresh", "gone"}]
    /\ cmds \in [Sessions -> Seq(Cmd)]
    /\ sends \in [Sessions -> SUBSET Transfers]
    /\ inbox \in [Sessions -> Seq(Reply)]
    /\ owner \in [Transfers -> Sessions \cup {Nobody}]
    /\ cancelled \subseteq Transfers
    /\ streamer \in [Transfers -> {"none", "open", "check", "push", "done"}]
    /\ sent \in [Transfers -> 0..MaxChunk]
    /\ ctl \in [Sessions -> Seq(Transfers)]
    /\ bulk \in [Sessions -> Seq(Chunk)]
    /\ \A s \in Sessions : Len(bulk[s]) <= BulkCap
    /\ pump \in [Sessions -> {"run", "done"}]
    /\ link \in [Sessions -> {"up", "wedged", "down"}]
    /\ phone \in [Transfers -> {"none", "receiving", "complete", "failed"}]
    /\ nextSeq \in [Transfers -> 0..MaxChunk]

\* A spool file on the disk always has somebody who will remove it: the
\* handler that writes it, the queue of a session, or a transfer of a session
\* that has not drained yet.  Left aside: an upload that broke (the `?` of
\* qr_server.rs:224, 237), and see SpoolUnlinked for queues.
Queued(s, op) == {f \in Transfers : \E k \in DOMAIN cmds[s] :
                                      cmds[s][k] = [op |-> op, id |-> f]}
SpoolHasOwner ==
    \A f \in spool :
        \/ http[f] \in {"spooling", "broken"}
        \/ \E s \in Sessions : f \in Queued(s, "send")
        \/ \E s \in Sessions : spc[s] \in Looping /\ f \in sends[s]

\* Nobody removes the spool under a streamer that still needs it: a
\* FileSendComplete, which leaves the flag alone, can only follow the last
\* chunk (connection.rs:213-218).
SpoolKeptWhileStreaming ==
    \A f \in Transfers :
        streamer[f] \in {"open", "check", "push"} /\ f \notin cancelled
            => f \in spool

\* As long as the pump runs, the chunks in flight continue what the phone has
\* without a gap or an overlap, and the announcement is ahead of them, though
\* it travels in another queue: the phone never fails a transfer as
\* out-of-order (ConnectionClient.kt:651-660) and never drops its first chunk.
ChunksContinue ==
    \A f \in Transfers :
        phone[f] \in {"none", "receiving"} /\ owner[f] # Nobody
          /\ pump[owner[f]] = "run" =>
            LET chunks == bulk[owner[f]]
                mine   == {k \in DOMAIN chunks : chunks[k].id = f} IN
            /\ phone[f] = "none" => \E k \in DOMAIN ctl[owner[f]] :
                                       ctl[owner[f]][k] = f
            /\ {chunks[k].seq : k \in mine} = nextSeq[f]..(sent[f] - 1)
            /\ \A j, k \in mine : j < k => chunks[j].seq < chunks[k].seq

\* A transfer the phone calls complete is the whole file, whoever cancelled
\* or failed meanwhile: a streamer that bails out never flags LAST_CHUNK
\* (connection.rs:1018-1021).
CompleteIsWhole ==
    \A f \in Transfers : phone[f] = "complete" => nextSeq[f] = MaxChunk

\* What the phone gets of a file is its chunks, each once and in their order,
\* and a file it calls complete is all of them, whichever queues and cancels
\* lie between.
ArrivesWhole == ChunksContinue /\ CompleteIsWhole

\* FileSendBridge implements the slot the relay's `online` implements ("the
\* relay's next_instance trick", file_send.rs:13-16): the last session to
\* authenticate gets the files, and a stale one's exit does not take it away.
Phase == [s \in Sessions |->
            IF spc[s] \in {"fresh", "gone"} THEN spc[s]
            ELSE IF slot = s THEN "holding" ELSE "displaced"]

Slot == INSTANCE SessionSlot WITH
            Keys <- {Bridge}, holder <- [k \in {Bridge} |-> slot], phase <- Phase

BridgeIsSessionSlot == Slot!Spec

\* A transfer a session took on does not stay in its table for ever: it is
\* completed, failed, cancelled or drained, whatever the phone and its link
\* do.  Left aside: a spool that could not be read to its end, of which the
\* streamer tells nobody (connection.rs:1078-1085).
Truncated(f) ==
    /\ streamer[f] = "done" /\ f \notin cancelled
    /\ sent[f] < MaxChunk /\ pump[owner[f]] = "run"
EverySendEnds ==
    \A f \in Transfers, s \in Sessions :
        f \in sends[s] ~> f \notin sends[s] \/ Truncated(f)

\* A streamer task does not outlive its connection: neither a full queue nor
\* a pump that died keeps it (connection.rs:1092-1099).
StreamerReturns ==
    \A f \in Transfers : streamer[f] = "open" ~> streamer[f] = "done"

\* Said at file_send.rs:27-31: the connection task "unlinks the temp file on
\* completion (success OR failure)".  A FileSendCmd::Send that is still in
\* the queue when the loop has broken is dropped with it, and its spool
\* stays, though the browser was told "ok".
SpoolUnlinked ==
    \A s \in Sessions : spc[s] = "gone" => Queued(s, "send") \cap spool = {}

\* Said at qr_server.rs:296-298: "if there's no live session ... the streamer
\* (if any) is already done".  The slot may be empty because the newest
\* session left, while the one it displaced still streams.
NoSessionNoStreamer ==
    slot = Nobody => \A f \in Transfers :
        streamer[f] \in {"none", "done"} \/ f \in cancelled

\* Said at file_send.rs:46-50: on a cancel the "phone-side receiver also gets
\* FileSendFailed so the destination file is cleaned up there too".  Nothing
\* is sent: the phone keeps the partial file for as long as it is connected.
CancelReachesPhone ==
    \A f \in Transfers :
        f \in cancelled /\ phone[f] = "receiving" ~> phone[f] # "receiving"
=============================================================================
