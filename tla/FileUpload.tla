----------------------------- MODULE FileUpload -----------------------------
(***************************************************************************)
(* Sending a file from a phone to the PC.  On the phone uploadFile starts  *)
(* a thread per file (ConnectionClient.kt) and the list of transfers shows *)
(* a card for it (AppViewModel.kt).  On the PC each run_connection handles *)
(* FileTransferBegin, the chunks and FileTransferAbort, and unlinks what   *)
(* is unfinished when it returns (connection.rs).                          *)
(*                                                                         *)
(* All files have one name, so that a path is the number unique_dest_path  *)
(* puts behind it.  A directory entry names a file (by the upload that     *)
(* created it); a handle stays with its file when the entry goes.  A       *)
(* file's contents are its chunks, each by the upload that wrote it.  A    *)
(* write of tokio's File returns before the disk has answered: the error   *)
(* comes with the next write or flush.  The last chunk is always empty.    *)
(*                                                                         *)
(* The wire keeps the order and loses only its end, so that neither the    *)
(* check of chunk_seq nor that of a duplicate id can fail: both are left   *)
(* out.  An upload's id is its own among all phones: the PC's map is per   *)
(* session, so that equal ids of two phones never meet.                    *)
(***************************************************************************)
EXTENDS Naturals, Sequences, FiniteSets, FiniteSetsExt

CONSTANTS
    Sessions,   \* bound: sockets, each with its run_connection
    MaxUpload,  \* bound: uploads
    MaxChunk,   \* bound: chunks of a file, without the empty last one
    MaxSuffix,  \* unique_dest_path tries the name and 1..MaxSuffix (999)
    WireCap,    \* what waitForBufferRoom lets be under way
    Faults      \* bound: what fails: "read", "dir", "create", "write", "link", "user"

ASSUME UploadAssumption ==
    /\ MaxUpload \in Nat \ {0} /\ MaxChunk \in Nat /\ MaxSuffix \in Nat
    /\ WireCap \in Nat \ {0}

None == "none"
Upload == 1..MaxUpload
Nobody == 0
Path == 0..MaxSuffix

VARIABLES
    home,      \* the socket of an upload
    thread,    \* its thread on the phone: "none", "reading" or "done"
    flag,      \* its uploadCancelFlags entry is set
    sent,      \* data chunks its thread has sent
    card,      \* its card: "none", "sending", "complete" or "failed"
    link,      \* a socket: "up" or "down"
    wire,      \* phone -> PC, up to and with the inbox
    replies,   \* PC -> phone
    pc,        \* a run_connection: "loop", "creating" or "back"
    begun,     \* the upload whose file it creates
    path,      \* dest_path of an upload
    open,      \* the upload is in file_transfers
    node,      \* the file its handle is of
    written,   \* chunks it has handed to its handle
    lost,      \* the last of them failed, which the handle has not said yet
    reported,  \* what the PC has said of it (history)
    dir,       \* the directory: the file at a path
    data       \* a file: its chunks

phoneVars == <<home, thread, flag, sent, card>>
wireVars  == <<link, wire, replies>>
fileVars  == <<path, open, node, written, lost, reported>>
vars == <<phoneVars, wireVars, pc, begun, fileVars, dir, data>>

Message == [op : {"begin", "chunk", "last", "abort"}, id : Upload]
Reply   == [op : {"failed", "complete"}, id : Upload]

Init ==
    /\ home = [u \in Upload |-> None]
    /\ thread = [u \in Upload |-> "none"]
    /\ flag = [u \in Upload |-> FALSE]
    /\ sent = [u \in Upload |-> 0]
    /\ card = [u \in Upload |-> "none"]
    /\ link = [s \in Sessions |-> "up"]
    /\ wire = [s \in Sessions |-> <<>>]
    /\ replies = [s \in Sessions |-> <<>>]
    /\ pc = [s \in Sessions |-> "loop"]
    /\ begun = [s \in Sessions |-> Nobody]
    /\ path = [u \in Upload |-> 0]
    /\ open = [u \in Upload |-> FALSE]
    /\ node = [u \in Upload |-> Nobody]
    /\ written = [u \in Upload |-> 0]
    /\ lost = [u \in Upload |-> FALSE]
    /\ reported = [u \in Upload |-> "nothing"]
    /\ dir = [p \in Path |-> Nobody]
    /\ data = [u \in Upload |-> <<>>]

-----------------------------------------------------------------------------
(* The phone *)

pcUnchanged == <<pc, begun, fileVars, dir, data>>

Send(s, op, u) == wire' = [wire EXCEPT ![s] = Append(@, [op |-> op, id |-> u])]

\* uploadFile: the begin goes out, the thread starts, the card is shown.
UploadFile(s, u) ==
    /\ thread[u] = "none" /\ \A w \in 1..(u - 1) : thread[w] # "none"
    /\ link[s] = "up"
    /\ home' = [home EXCEPT ![u] = s]
    /\ thread' = [thread EXCEPT ![u] = "reading"]
    /\ card' = [card EXCEPT ![u] = "sending"]
    /\ Send(s, "begin", u)
    /\ UNCHANGED <<flag, sent, link, replies, pcUnchanged>>

\* send takes it.  Mutated: without waitForBufferRoom.
NoWait(u)  == link[home[u]] = "up"
HasRoom(u) == link[home[u]] = "up" /\ Len(wire[home[u]]) < WireCap

SendChunk(u) ==
    /\ thread[u] = "reading" /\ ~flag[u]
    /\ sent[u] < MaxChunk /\ HasRoom(u)
    /\ Send(home[u], "chunk", u)
    /\ sent' = [sent EXCEPT ![u] = @ + 1]
    /\ UNCHANGED <<home, thread, flag, card, link, replies, pcUnchanged>>

\* The end of the file.
SendLast(u) ==
    /\ thread[u] = "reading" /\ ~flag[u]
    /\ HasRoom(u)
    /\ Send(home[u], "last", u)
    /\ thread' = [thread EXCEPT ![u] = "done"]
    /\ UNCHANGED <<home, flag, sent, card, link, replies, pcUnchanged>>

\* The catch.  Mutated: it tells nobody but the user.
KeepsQuiet(u) == UNCHANGED wire
TellAbort(u) ==
    IF link[home[u]] = "up" THEN Send(home[u], "abort", u) ELSE UNCHANGED wire

\* Where the flag counts: the thread looks at it between chunks.  Mutated:
\* it counts after the last one as well.
StillThere(u) == thread[u] # "none"
Polls(u)      == thread[u] = "reading"

\* The thread gives up: the user's cancel, read failed, or send was refused.
GiveUp(u) ==
    /\ Polls(u)
    /\ flag[u] \/ "read" \in Faults \/ link[home[u]] = "down"
    /\ thread' = [thread EXCEPT ![u] = "done"]
    /\ card' = [card EXCEPT ![u] = "failed"]
    /\ TellAbort(u)
    /\ UNCHANGED <<home, flag, sent, link, replies, pcUnchanged>>

\* The cross of the card; once the thread is done its flag is no more.
CancelUpload(u) ==
    /\ "user" \in Faults
    /\ thread[u] = "reading" /\ card[u] = "sending"
    /\ flag' = [flag EXCEPT ![u] = TRUE]
    /\ UNCHANGED <<home, thread, sent, card, wireVars, pcUnchanged>>

\* FileTransferComplete and FileTransferFailed, with what collects them.
OnReply(s) ==
    /\ replies[s] # <<>> /\ link[s] = "up"
    /\ LET r == Head(replies[s]) IN card' = [card EXCEPT ![r.id] = r.op]
    /\ replies' = [replies EXCEPT ![s] = Tail(@)]
    /\ UNCHANGED <<home, thread, flag, sent, link, wire, pcUnchanged>>

\* The socket ends, by either side or by the network: some of what is under
\* way still arrives at the PC.
LinkDown(s) ==
    /\ "link" \in Faults /\ link[s] = "up"
    /\ link' = [link EXCEPT ![s] = "down"]
    /\ \E k \in 0..Len(wire[s]) : wire' = [wire EXCEPT ![s] = SubSeq(@, 1, k)]
    /\ replies' = [replies EXCEPT ![s] = <<>>]
    /\ UNCHANGED <<phoneVars, pcUnchanged>>

-----------------------------------------------------------------------------
(* run_connection *)

AtHead(s, op) == pc[s] = "loop" /\ wire[s] # <<>> /\ Head(wire[s]).op = op

Take(s) == wire' = [wire EXCEPT ![s] = Tail(@)] /\ UNCHANGED <<phoneVars, link>>

Answer(s, op, u) ==
    /\ reported' = [reported EXCEPT ![u] = op]
    /\ replies' = IF link[s] = "up"
                  THEN [replies EXCEPT ![s] = Append(@, [op |-> op, id |-> u])]
                  ELSE replies

\* The entry at an upload's path goes, whatever it is of.
Unlink(u) == dir' = [dir EXCEPT ![path[u]] = Nobody]

\* What unique_dest_path finds free.  Mutated: it does not look.
AnyPath == Path
Free    == {p \in Path : dir[p] = Nobody}

\* handle_file_begin up to unique_dest_path's answer: too large, no downloads
\* directory, no free path.
Refuse(s) ==
    /\ AtHead(s, "begin") /\ ("dir" \in Faults \/ Free = {})
    /\ Take(s)
    /\ Answer(s, "failed", Head(wire[s]).id)
    /\ UNCHANGED <<pc, begun, path, open, node, written, lost, dir, data>>

Begin(s) ==
    /\ AtHead(s, "begin") /\ Free # {}
    /\ Take(s)
    /\ begun' = [begun EXCEPT ![s] = Head(wire[s]).id]
    /\ path' = [path EXCEPT ![Head(wire[s]).id] = Min(Free)]
    /\ pc' = [pc EXCEPT ![s] = "creating"]
    /\ UNCHANGED <<replies, open, node, written, lost, reported, dir, data>>

\* File::create, after an await: a file that is there by now is truncated.
\* FileTransferAccepted only adds the path to the card.
Create(s) ==
    LET u == begun[s]
        f == IF dir[path[u]] = Nobody THEN u ELSE dir[path[u]]
    IN
    /\ pc[s] = "creating"
    /\ pc' = [pc EXCEPT ![s] = "loop"]
    /\ open' = [open EXCEPT ![u] = TRUE]
    /\ node' = [node EXCEPT ![u] = f]
    /\ dir' = [dir EXCEPT ![path[u]] = f]
    /\ data' = [data EXCEPT ![f] = <<>>]
    /\ UNCHANGED <<phoneVars, wireVars, begun, path, written, lost, reported>>

CreateFails(s) ==
    /\ "create" \in Faults
    /\ pc[s] = "creating"
    /\ pc' = [pc EXCEPT ![s] = "loop"]
    /\ Answer(s, "failed", begun[s])
    /\ UNCHANGED <<phoneVars, link, wire, begun, path, open, node, written, lost, dir, data>>

\* The contents with upload u's next chunk at the offset of its handle.
Put(u) ==
    LET old == data[node[u]]
        at  == written[u] + 1
    IN  [i \in 1..Max({at, Len(old)}) |->
            IF i = at THEN u ELSE IF i <= Len(old) THEN old[i] ELSE Nobody]

\* A chunk of a transfer that is not there (any more) is dropped.
Stray(s) ==
    /\ \E op \in {"chunk", "last", "abort"} : AtHead(s, op)
    /\ ~open[Head(wire[s]).id]
    /\ Take(s)
    /\ UNCHANGED <<replies, pc, begun, fileVars, dir, data>>

Chunk(s) ==
    LET u == Head(wire[s]).id IN
    /\ AtHead(s, "chunk") /\ open[u] /\ ~lost[u]
    /\ Take(s)
    /\ written' = [written EXCEPT ![u] = @ + 1]
    /\ \/ data' = [data EXCEPT ![node[u]] = Put(u)] /\ UNCHANGED lost
       \/ "write" \in Faults /\ lost' = [lost EXCEPT ![u] = TRUE] /\ UNCHANGED data
    /\ UNCHANGED <<replies, pc, begun, path, open, node, reported, dir>>

\* write_all reports that the write before has failed.
ChunkFails(s) ==
    LET u == Head(wire[s]).id IN
    /\ AtHead(s, "chunk") /\ open[u] /\ lost[u]
    /\ Take(s)
    /\ open' = [open EXCEPT ![u] = FALSE]
    /\ Unlink(u)
    /\ Answer(s, "failed", u)
    /\ UNCHANGED <<pc, begun, path, node, written, lost, data>>

\* The last chunk: flush, whose error is only logged, then Complete.
LastChunk(s) ==
    LET u == Head(wire[s]).id IN
    /\ AtHead(s, "last") /\ open[u]
    /\ Take(s)
    /\ open' = [open EXCEPT ![u] = FALSE]
    /\ Answer(s, "complete", u)
    /\ UNCHANGED <<pc, begun, path, node, written, lost, dir, data>>

Abort(s) ==
    LET u == Head(wire[s]).id IN
    /\ AtHead(s, "abort") /\ open[u]
    /\ Take(s)
    /\ open' = [open EXCEPT ![u] = FALSE]
    /\ Unlink(u)
    /\ UNCHANGED <<replies, pc, begun, path, node, written, lost, reported, data>>

\* The inbox is closed and empty.  Mutated: the handles are dropped, the files
\* left.
DropHandles(us) == UNCHANGED dir
UnlinkAll(us)   == dir' = [p \in Path |-> IF \E u \in us : path[u] = p THEN Nobody ELSE dir[p]]

Leave(s) ==
    LET mine == {u \in Upload : home[u] = s /\ open[u]} IN
    /\ pc[s] = "loop" /\ link[s] = "down" /\ wire[s] = <<>>
    /\ pc' = [pc EXCEPT ![s] = "back"]
    /\ open' = [u \in Upload |-> open[u] /\ u \notin mine]
    /\ UnlinkAll(mine)
    /\ UNCHANGED <<phoneVars, wireVars, begun, path, node, written, lost, reported, data>>

-----------------------------------------------------------------------------
UploadThread(u) == SendChunk(u) \/ SendLast(u) \/ GiveUp(u)

Handle(s) ==
    \/ Refuse(s) \/ Begin(s) \/ Create(s) \/ CreateFails(s)
    \/ Stray(s) \/ Chunk(s) \/ ChunkFails(s) \/ LastChunk(s) \/ Abort(s)

Next ==
    \/ \E s \in Sessions : \/ \E u \in Upload : UploadFile(s, u)
                           \/ OnReply(s) \/ LinkDown(s) \/ Handle(s) \/ Leave(s)
    \/ \E u \in Upload : UploadThread(u) \/ CancelUpload(u)

Spec == Init /\ [][Next]_vars

\* The threads and tasks run; nothing makes the user or the network act.
FairSpec ==
    /\ Spec
    /\ \A u \in Upload : SF_vars(UploadThread(u))
    /\ \A s \in Sessions : WF_vars(Handle(s)) /\ WF_vars(Leave(s)) /\ WF_vars(OnReply(s))

-----------------------------------------------------------------------------
(* Properties *)

\* Every variable stays in its domain, and the phone keeps to its buffer but
\* for the begins and aborts that do not wait for room.
TypeOK ==
    /\ home \in [Upload -> Sessions \cup {None}]
    /\ thread \in [Upload -> {"none", "reading", "done"}]
    /\ sent \in [Upload -> 0..MaxChunk] /\ written \in [Upload -> 0..MaxChunk]
    /\ card \in [Upload -> {"none", "sending", "complete", "failed"}]
    /\ link \in [Sessions -> {"up", "down"}]
    /\ \A s \in Sessions : wire[s] \in Seq(Message) /\ replies[s] \in Seq(Reply)
    /\ \A s \in Sessions :
         Len(SelectSeq(wire[s], LAMBDA m : m.op \in {"chunk", "last"})) <= WireCap
    /\ pc \in [Sessions -> {"loop", "creating", "back"}]
    /\ begun \in [Sessions -> Upload \cup {Nobody}] /\ path \in [Upload -> Path]
    /\ {open, flag, lost} \subseteq [Upload -> BOOLEAN]
    /\ node \in [Upload -> Upload \cup {Nobody}]
    /\ reported \in [Upload -> {"nothing", "failed", "complete"}]
    /\ dir \in [Path -> Upload \cup {Nobody}]
    /\ \A u \in Upload : data[u] \in Seq(Upload \cup {Nobody}) /\ Len(data[u]) <= MaxChunk

\* No half-written file stays in Downloads: what is there is being written or
\* was reported complete, whichever way the others ended (connection.rs:394).
NoPartialLeft ==
    \A p \in Path : dir[p] # Nobody =>
        \E u \in Upload : path[u] = p /\ node[u] # Nobody
                          /\ (open[u] \/ reported[u] = "complete")

\* A file reported complete is in Downloads, with the chunks the phone sent
\* and nothing else (connection.rs:983-1008).  Left aside: a last write whose
\* error comes with flush, which is only logged (connection.rs:986-990).
CompleteIsWhole ==
    \A u \in Upload : reported[u] = "complete" /\ ~lost[u] =>
        /\ dir[path[u]] = node[u]
        /\ data[node[u]] = [i \in 1..sent[u] |-> u]

\* What lies in Downloads at any time is whole or being written.
DownloadsWhole == NoPartialLeft /\ CompleteIsWhole

\* The user is never told that an upload failed which the PC has in full and
\* keeps (ConnectionClient.kt:453-460, 506-512).
FailedIsNotThere ==
    \A u \in Upload : card[u] = "failed" => reported[u] # "complete"

\* The PC does not keep an upload open for ever: the phone finishes it, says
\* that it gave up, or is gone (connection.rs:909-929, 394-404).
UploadCloses == \A u \in Upload : open[u] ~> ~open[u]

-----------------------------------------------------------------------------
(* What the comments say, and the code does not do *)

\* AppViewModel.kt:285-287: the list "prunes terminal entries a few seconds
\* after they finish": a card does not stay "sending" when its upload is over.
CardSettles == \A u \in Upload : card[u] = "sending" ~> card[u] # "sending"

\* connection.rs:1237: "Resolve a non-colliding destination path": no two
\* uploads write to one file.
OwnFile ==
    \A u, w \in Upload : u # w /\ open[u] /\ open[w] => node[u] # node[w]
=============================================================================
