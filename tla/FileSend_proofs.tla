--------------------------- MODULE FileSend_proofs ---------------------------
(***************************************************************************)
(* Sending a file to the phone, for any number of sessions and transfers,  *)
(* any size of file and any queue capacity.  First the bridge: it          *)
(* implements the abstract SessionSlot, so file_send.rs borrowed the       *)
(* relay's instance trick right; that rests on the slot only ever naming a *)
(* session that has not returned.  Then the data: a spool file has an      *)
(* owner (SpoolHasOwner), nobody unlinks it under a streamer that needs it *)
(* (SpoolKeptWhileStreaming), and the phone gets the chunks of a file in   *)
(* order, each once, and all of them if it calls the file complete         *)
(* (ArrivesWhole).                                                         *)
(*                                                                         *)
(* None of these three is inductive.  They rest on what a transfer is      *)
(* before a session takes it on, and on who may still speak of it: one     *)
(* command in one queue, chunks in its owner's queue, an announcement      *)
(* there at most once, and no FileSendComplete before the streamer has     *)
(* ended.                                                                  *)
(***************************************************************************)
EXTENDS FileSend, SequenceTheorems, TLAPS

\* The slot is empty or names a session that claimed it and has not
\* deregistered yet.
BridgeInv ==
    /\ slot \in Sessions \cup {Nobody}
    /\ spc \in [Sessions -> Looping \cup {"fresh", "gone"}]
    /\ slot # Nobody => spc[slot] \in Looping

\* Only four steps of a session touch the slot or move its loop.
LEMMA OtherSteps ==
    ASSUME Next
    PROVE  \/ \E s \in Sessions : Register(s) \/ Break(s) \/ Deregister(s)
           \/ UNCHANGED <<slot, spc>>
<1>1. ASSUME NEW f \in Transfers, Http(f) \/ Streamer(f) \/ PhoneCancel(f)
      PROVE  UNCHANGED <<slot, spc>>
  BY <1>1 DEF Http, Upload, UploadFails, Dispatch, CancelSend, Streamer,
              OpenSpool, ReadChunk, PushChunk, PushFails, PhoneCancel, loopVars
<1>2. ASSUME NEW s \in Sessions,
             StartSend(s) \/ StopSend(s) \/ OnReply(s) \/ DrainOne(s)
      PROVE  UNCHANGED <<slot, spc>>
  BY <1>2 DEF StartSend, StopSend, OnReply, DrainOne
<1>3. ASSUME NEW s \in Sessions, Pump(s) \/ Flap(s) \/ Drop(s)
      PROVE  UNCHANGED <<slot, spc>>
  BY <1>3 DEF Pump, PhoneBegin, PhoneChunk, PumpStops, Flap, Drop, loopVars
<1>4. QED BY <1>1, <1>2, <1>3 DEF Next, Loop

-----------------------------------------------------------------------------
LEMMA BridgeInit == Init => BridgeInv
  BY DEF Init, BridgeInv, Looping

\* One case per step that OtherSteps leaves.
LEMMA BridgeStep == BridgeInv /\ [Next]_vars => BridgeInv'
<1> SUFFICES ASSUME BridgeInv, [Next]_vars PROVE BridgeInv'
  OBVIOUS
<1> USE FileSendAssumption DEF BridgeInv, LoopGoto, Looping
<1>1. ASSUME NEW s \in Sessions, Register(s) PROVE BridgeInv'
  BY <1>1 DEF Register
<1>2. ASSUME NEW s \in Sessions, Break(s) PROVE BridgeInv'
  BY <1>2 DEF Break
<1>3. ASSUME NEW s \in Sessions, Deregister(s) PROVE BridgeInv'
  BY <1>3 DEF Deregister, StillOurs
<1>4. CASE UNCHANGED <<slot, spc>>
  BY <1>4
<1>5. QED
  BY <1>1, <1>2, <1>3, <1>4, OtherSteps DEF vars, loopVars

LEMMA BridgeInvariant == Spec => []BridgeInv
  BY BridgeInit, BridgeStep, PTL DEF Spec

-----------------------------------------------------------------------------
LEMMA SlotInit == Init => Slot!Init
  BY FileSendAssumption DEF Init, Slot!Init, Phase

\* Register acquires, Deregister releases or withdraws, nothing else shows.
LEMMA SlotStep == BridgeInv /\ [Next]_vars => [Slot!Next]_(Slot!slotVars)
<1> SUFFICES ASSUME BridgeInv, [Next]_vars
             PROVE  [Slot!Next]_(Slot!slotVars)
  OBVIOUS
<1> DEFINE holder == [k \in {Bridge} |-> slot]
<1> USE FileSendAssumption DEF BridgeInv, LoopGoto, Looping
<1>1. ASSUME NEW s \in Sessions, Register(s) PROVE Slot!Acquire(s, Bridge)
  <2>1. Phase[s] = "fresh" /\ holder' = [holder EXCEPT ![Bridge] = s]
    BY <1>1 DEF Register, Phase
  <2>2. ASSUME NEW t \in Sessions
        PROVE  Phase'[t] = IF t = s THEN "holding"
                           ELSE IF t = slot THEN "displaced" ELSE Phase[t]
    <3>1. spc[s] = "fresh" /\ spc' = [spc EXCEPT ![s] = "serve"] /\ slot' = s
      BY <1>1 DEF Register
    <3>2. CASE t = s
      BY <3>1, <3>2 DEF Phase
    <3>3. CASE t # s /\ spc[t] \in {"fresh", "gone"}
      BY <3>1, <3>3 DEF Phase
    <3>4. CASE t # s /\ spc[t] \in {"serve", "drain"}
      BY <3>1, <3>4 DEF Phase
    <3>5. QED BY <3>2, <3>3, <3>4
  <2>3. Phase' = [t \in Sessions |-> IF t = s THEN "holding"
                                     ELSE IF t = slot THEN "displaced"
                                     ELSE Phase[t]]
    BY <2>2 DEF Phase
  <2>4. QED BY <2>1, <2>3 DEF Slot!Acquire
<1>2. ASSUME NEW s \in Sessions, Deregister(s)
      PROVE  Slot!Release(s, Bridge) \/ Slot!Withdraw(s)
  <2>1. /\ spc[s] = "drain" /\ spc' = [spc EXCEPT ![s] = "gone"]
        /\ slot' = IF slot = s THEN Nobody ELSE slot
    BY <1>2 DEF Deregister, StillOurs
  <2>2. ASSUME NEW t \in Sessions
        PROVE  Phase'[t] = IF t = s THEN "gone" ELSE Phase[t]
    <3>1. CASE t = s
      BY <2>1, <3>1 DEF Phase
    <3>2. CASE t # s /\ spc[t] \in {"fresh", "gone"}
      BY <2>1, <3>2 DEF Phase
    <3>3. CASE t # s /\ spc[t] \in {"serve", "drain"}
      BY <2>1, <3>3 DEF Phase
    <3>4. QED BY <3>1, <3>2, <3>3
  <2>3. Phase' = [Phase EXCEPT ![s] = "gone"]
    BY <2>2 DEF Phase
  <2>4. CASE slot = s
    <3>1. Phase[s] = "holding" /\ holder' = [holder EXCEPT ![Bridge] = Nobody]
      BY <2>1, <2>4 DEF Phase
    <3>2. QED BY <2>3, <2>4, <3>1 DEF Slot!Release
  <2>5. CASE slot # s
    <3>1. Phase[s] = "displaced" /\ UNCHANGED holder
      BY <2>1, <2>5 DEF Phase
    <3>2. QED BY <2>3, <3>1 DEF Slot!Withdraw
  <2>6. QED BY <2>4, <2>5
<1>3. ASSUME NEW s \in Sessions, Break(s) PROVE UNCHANGED <<slot, Phase>>
  <2>1. /\ spc[s] = "serve" /\ spc' = [spc EXCEPT ![s] = "drain"]
        /\ UNCHANGED slot
    BY <1>3 DEF Break
  <2>2. ASSUME NEW t \in Sessions PROVE Phase'[t] = Phase[t]
    <3>1. CASE spc[t] \in {"fresh", "gone"}
      BY <2>1, <3>1 DEF Phase
    <3>2. CASE spc[t] \in {"serve", "drain"}
      BY <2>1, <3>2 DEF Phase
    <3>3. QED BY <3>1, <3>2
  <2>3. QED BY <2>1, <2>2 DEF Phase
<1>4. UNCHANGED <<slot, spc>> => UNCHANGED <<slot, Phase>>
  BY DEF Phase
<1>5. UNCHANGED <<slot, Phase>> => UNCHANGED Slot!slotVars
  BY DEF Slot!slotVars
<1>6. QED
  <2>1. CASE Next
    <3>1. ASSUME NEW s \in Sessions, Register(s) \/ Deregister(s)
          PROVE  Slot!Next
      BY <1>1, <1>2, <3>1 DEF Slot!Next
    <3>2. QED BY <1>3, <1>4, <1>5, <2>1, <3>1, OtherSteps
  <2>2. CASE UNCHANGED vars
    <3>1. UNCHANGED <<slot, spc>>
      BY <2>2 DEF vars, loopVars
    <3>2. QED BY <1>4, <1>5, <3>1
  <2>3. QED BY <2>1, <2>2

\* The bridge is a session slot: the last session to authenticate gets the
\* files, and a displaced one's deregister leaves the slot alone
\* (file_send.rs:106-125).
THEOREM BridgeImplementsSlot == Spec => BridgeIsSessionSlot
  BY SlotInit, SlotStep, BridgeInvariant, PTL
  DEF Spec, BridgeIsSessionSlot, Slot!Spec

-----------------------------------------------------------------------------
(* The data *)

\* The k-th command of a session hands over this transfer.
Handed(s, k, f) == k \in 1..Len(cmds[s]) /\ cmds[s][k] = [op |-> "send", id |-> f]

\* A transfer is handed over once.
HandedOnce ==
    \A s, t \in Sessions : \A f \in Transfers : \A k, m \in Nat :
        Handed(s, k, f) /\ Handed(t, m, f) => s = t /\ k = m

\* One that waits in a queue is on the disk and nobody's yet.
HandedFresh ==
    \A s \in Sessions : \A f \in Transfers : \A k \in Nat :
        Handed(s, k, f) => http[f] = "ok" /\ owner[f] = Nobody /\ f \in spool

\* What a session's StartSend makes of a transfer, and what is so before it.
Owned ==
    \A f \in Transfers :
        /\ owner[f] = Nobody =>
             /\ streamer[f] = "none" /\ phone[f] = "none"
             /\ sent[f] = 0 /\ nextSeq[f] = 0
        /\ owner[f] # Nobody => http[f] = "ok" /\ streamer[f] # "none"
        /\ streamer[f] = "push" => sent[f] < MaxChunk

\* A session's table holds its own transfers.
TableOwned == \A s \in Sessions : \A f \in sends[s] : owner[f] = s

\* A chunk is in its owner's queue, the last one is flagged, and the streamer
\* returns with it.
ChunksOwned ==
    \A s \in Sessions : \A k \in 1..Len(bulk[s]) :
        /\ owner[bulk[s][k].id] = s
        /\ bulk[s][k].last <=> bulk[s][k].seq + 1 >= MaxChunk
        /\ bulk[s][k].last => streamer[bulk[s][k].id] = "done"

\* The phone calls complete only what was streamed to its end.
CompletesDone ==
    \A s \in Sessions : \A k \in 1..Len(inbox[s]) :
        inbox[s][k].op = "complete" => streamer[inbox[s][k].id] = "done"

\* An announcement is its owner's, comes once and before the phone knows.
AnnouncedOnce ==
    \A s \in Sessions : \A k \in 1..Len(ctl[s]) :
        /\ owner[ctl[s][k]] = s /\ phone[ctl[s][k]] = "none"
        /\ \A m \in 1..Len(ctl[s]) : ctl[s][m] = ctl[s][k] => m = k

\* The phone can still get the rest of this transfer.
Flows(f) ==
    /\ phone[f] \in {"none", "receiving"}
    /\ owner[f] # Nobody /\ pump[owner[f]] = "run"

\* ChunksContinue, in parts.
Announced ==
    \A f \in Transfers : Flows(f) /\ phone[f] = "none" =>
        \E k \in 1..Len(ctl[owner[f]]) : ctl[owner[f]][k] = f

InRange ==
    \A s \in Sessions : \A k \in 1..Len(bulk[s]) :
        Flows(bulk[s][k].id) =>
            nextSeq[bulk[s][k].id] <= bulk[s][k].seq /\ bulk[s][k].seq < sent[bulk[s][k].id]

NotAhead == \A f \in Transfers : Flows(f) => nextSeq[f] <= sent[f]

AllThere ==
    \A f \in Transfers : \A q \in Nat :
        Flows(f) /\ nextSeq[f] <= q /\ q < sent[f] =>
            \E k \in 1..Len(bulk[owner[f]]) :
                bulk[owner[f]][k].id = f /\ bulk[owner[f]][k].seq = q

Rising ==
    \A s \in Sessions : \A j, k \in 1..Len(bulk[s]) :
        j < k /\ bulk[s][j].id = bulk[s][k].id /\ Flows(bulk[s][j].id) =>
            bulk[s][j].seq < bulk[s][k].seq

\* What a handler spools is there until it is done.
Spooled == \A f \in Transfers : http[f] = "spooling" => f \in spool

Waiting(f) == \E s \in Sessions : \E k \in Nat : Handed(s, k, f)
Tabled(f)  == \E s \in Sessions : spc[s] \in Looping /\ f \in sends[s]

\* SpoolHasOwner, with the place in the queue.
SpoolOwned ==
    \A f \in spool :
        \/ http[f] \in {"spooling", "broken"}
        \/ Waiting(f)
        \/ Tabled(f)

QueueInv == HandedOnce /\ HandedFresh
TaskInv  == Owned /\ TableOwned /\ CompletesDone
WireInv  == ChunksOwned /\ AnnouncedOnce
SpoolInv == Spooled /\ SpoolOwned /\ SpoolKeptWhileStreaming
FlowInv  == Announced /\ NotAhead /\ InRange /\ AllThere /\ Rising

DataInv ==
    /\ TypeOK /\ QueueInv /\ TaskInv /\ WireInv /\ FlowInv /\ SpoolInv
    /\ CompleteIsWhole

-----------------------------------------------------------------------------
(* Queues, and types *)

\* What Append and Tail do to the places in a queue.
LEMMA Appended ==
    ASSUME NEW S, NEW q \in Seq(S), NEW e \in S
    PROVE  /\ Append(q, e) \in Seq(S)
           /\ Len(q) \in Nat /\ Len(Append(q, e)) = Len(q) + 1
           /\ \A k \in 1..Len(q) : Append(q, e)[k] = q[k]
           /\ Append(q, e)[Len(q) + 1] = e
  BY AppendProperties

\* The head of a queue, and the rest one place nearer.
LEMMA Shortened ==
    ASSUME NEW S, NEW q \in Seq(S), q # <<>>
    PROVE  /\ Head(q) \in S /\ Head(q) = q[1]
           /\ Tail(q) \in Seq(S)
           /\ Len(q) \in Nat \ {0} /\ Len(Tail(q)) = Len(q) - 1
           /\ \A k \in 1..Len(Tail(q)) : Tail(q)[k] = q[k + 1]
  BY HeadTailProperties

\* The parts of TypeOK that no action of a group touches follow from
\* UNCHANGED; the streamer's counts follow from Owned and Chunk.
LEMMA DataTypes == TypeOK /\ Owned /\ [Next]_vars => TypeOK'
<1> SUFFICES ASSUME TypeOK, Owned, [Next]_vars PROVE TypeOK'
  OBVIOUS
<1> USE FileSendAssumption DEF TypeOK, httpVars, loopVars, taskVars, queueVars,
        phoneVars
<1>1. ASSUME NEW f \in Transfers, Upload(f) \/ UploadFails(f) PROVE TypeOK'
  <2>1. CASE Upload(f)
    BY <2>1 DEF Upload, HttpGoto
  <2>2. CASE UploadFails(f)
    <3>1. http' \in [Transfers -> {"new", "spooling", "ok", "refused", "broken"}]
      <4>1. \E to \in {"refused", "broken"} : http' = [http EXCEPT ![f] = to]
        BY <2>2 DEF UploadFails, HttpGoto
      <4>2. QED BY <4>1
    <3>2. spool' \subseteq Transfers
      BY <2>2 DEF UploadFails
    <3>3. QED BY <2>2, <3>1, <3>2 DEF UploadFails
  <2>3. QED BY <1>1, <2>1, <2>2
<1>2. ASSUME NEW f \in Transfers, Dispatch(f) \/ CancelSend(f) PROVE TypeOK'
  <2>1. \A op \in {"send", "cancel"} : [op |-> op, id |-> f] \in Cmd
    BY DEF Cmd
  <2>2. ASSUME NEW op \in {"send", "cancel"}, slot # Nobody
        PROVE  ToSlot(op, f) \in [Sessions -> Seq(Cmd)]
    BY <2>1, <2>2 DEF ToSlot
  <2>3. cmds' \in [Sessions -> Seq(Cmd)]
    BY <1>2, <2>2 DEF Dispatch, CancelSend
  <2>4. CASE Dispatch(f)
    <3>1. http' \in [Transfers -> {"new", "spooling", "ok", "refused", "broken"}]
      <4>1. \E to \in {"ok", "refused"} : http' = [http EXCEPT ![f] = to]
        BY <2>4 DEF Dispatch, HttpGoto
      <4>2. QED BY <4>1
    <3>2. spool' \subseteq Transfers
      BY <2>4 DEF Dispatch, DropSpool
    <3>3. QED BY <2>3, <2>4, <3>1, <3>2 DEF Dispatch
  <2>5. CASE CancelSend(f)
    BY <2>3, <2>5 DEF CancelSend
  <2>6. QED BY <1>2, <2>4, <2>5
<1>3. ASSUME NEW s \in Sessions, Register(s) \/ Break(s) \/ Deregister(s)
      PROVE  TypeOK'
  BY <1>3 DEF Register, Break, Deregister, LoopGoto, StillOurs, Looping
<1>4. ASSUME NEW s \in Sessions, StartSend(s) PROVE TypeOK'
  <2>1. PICK f : f = Head(cmds[s]).id
    OBVIOUS
  <2>2. cmds[s] \in Seq(Cmd) /\ cmds[s] # <<>>
    BY <1>4 DEF StartSend
  <2>3. Head(cmds[s]) \in Cmd /\ Tail(cmds[s]) \in Seq(Cmd)
    BY <2>2, Shortened
  <2>4. f \in Transfers
    BY <2>1, <2>3 DEF Cmd
  <2>5. /\ cmds' = [cmds EXCEPT ![s] = Tail(@)]
        /\ sends' = [sends EXCEPT ![s] = @ \cup {f}]
        /\ ctl' = [ctl EXCEPT ![s] = IF pump[s] = "run" THEN Append(@, f) ELSE @]
        /\ owner' = [owner EXCEPT ![f] = s]
        /\ streamer' = [streamer EXCEPT ![f] = "open"]
        /\ UNCHANGED <<slot, httpVars, spool, spc, inbox, cancelled, sent, bulk,
                       pump, link, phoneVars>>
    BY <1>4, <2>1 DEF StartSend
  <2>6. cmds' \in [Sessions -> Seq(Cmd)]
    BY <2>3, <2>5
  <2>7. ctl' \in [Sessions -> Seq(Transfers)]
    BY <2>4, <2>5
  <2>8. QED BY <2>4, <2>5, <2>6, <2>7
<1>5. ASSUME NEW s \in Sessions, NEW f, Forget(s, f)
      PROVE  /\ sends' \in [Sessions -> SUBSET Transfers]
             /\ f \in Transfers => cancelled' \subseteq Transfers
             /\ spool' \subseteq Transfers
  BY <1>5 DEF Forget, Flagged
<1>6. ASSUME NEW s \in Sessions, StopSend(s) PROVE TypeOK'
  <2>1. PICK f : f = Head(cmds[s]).id
    OBVIOUS
  <2>2. cmds[s] \in Seq(Cmd) /\ cmds[s] # <<>>
    BY <1>6 DEF StopSend
  <2>3. Head(cmds[s]) \in Cmd /\ Tail(cmds[s]) \in Seq(Cmd)
    BY <2>2, Shortened
  <2>4. f \in Transfers
    BY <2>1, <2>3 DEF Cmd
  <2>5. Forget(s, f) \/ UNCHANGED <<sends, cancelled, spool>>
    BY <1>6, <2>1 DEF StopSend
  <2>6. cmds' \in [Sessions -> Seq(Cmd)]
    BY <1>6, <2>3 DEF StopSend
  <2>7. /\ sends' \in [Sessions -> SUBSET Transfers]
        /\ cancelled' \subseteq Transfers /\ spool' \subseteq Transfers
    BY <1>5, <2>4, <2>5
  <2>8. QED BY <1>6, <2>6, <2>7 DEF StopSend
<1>7. ASSUME NEW s \in Sessions, OnReply(s) PROVE TypeOK'
  <2>1. PICK r : r = Head(inbox[s])
    OBVIOUS
  <2>2. inbox[s] \in Seq(Reply) /\ inbox[s] # <<>>
    BY <1>7 DEF OnReply
  <2>3. r \in Reply /\ Tail(inbox[s]) \in Seq(Reply)
    BY <2>1, <2>2, Shortened
  <2>4. r.id \in Transfers
    BY <2>3 DEF Reply
  <2>5. \/ Forget(s, r.id)
        \/ UNCHANGED <<sends, cancelled, spool>>
        \/ /\ sends' = [sends EXCEPT ![s] = @ \ {r.id}]
           /\ spool' = spool \ {r.id} /\ UNCHANGED cancelled
    BY <1>7, <2>1 DEF OnReply
  <2>6. inbox' \in [Sessions -> Seq(Reply)]
    BY <1>7, <2>3 DEF OnReply
  <2>7. /\ sends' \in [Sessions -> SUBSET Transfers]
        /\ cancelled' \subseteq Transfers /\ spool' \subseteq Transfers
    <3>1. CASE Forget(s, r.id)
      BY <1>5, <2>4, <3>1
    <3>2. CASE UNCHANGED <<sends, cancelled, spool>>
      BY <3>2
    <3>3. CASE /\ sends' = [sends EXCEPT ![s] = @ \ {r.id}]
               /\ spool' = spool \ {r.id} /\ UNCHANGED cancelled
      BY <3>3
    <3>4. QED BY <2>5, <3>1, <3>2, <3>3
  <2>8. QED BY <1>7, <2>6, <2>7 DEF OnReply
<1>8. ASSUME NEW s \in Sessions, DrainOne(s) PROVE TypeOK'
  <2>1. PICK f \in sends[s] : Forget(s, f)
    BY <1>8 DEF DrainOne
  <2>2. f \in Transfers
    OBVIOUS
  <2>3. /\ sends' \in [Sessions -> SUBSET Transfers]
        /\ cancelled' \subseteq Transfers /\ spool' \subseteq Transfers
    BY <1>5, <2>1, <2>2
  <2>4. QED BY <1>8, <2>3 DEF DrainOne
<1>9. ASSUME NEW f \in Transfers, OpenSpool(f) \/ ReadChunk(f) \/ PushFails(f)
      PROVE  TypeOK'
  <2>1. streamer' \in [Transfers -> {"none", "open", "check", "push", "done"}]
    <3>1. CASE OpenSpool(f)
      BY <3>1 DEF OpenSpool, StreamerGoto
    <3>2. CASE ReadChunk(f)
      <4>1. \E to \in {"push", "done"} : streamer' = [streamer EXCEPT ![f] = to]
        BY <3>2 DEF ReadChunk, StreamerGoto
      <4>2. QED BY <4>1
    <3>3. CASE PushFails(f)
      BY <3>3 DEF PushFails, StreamerGoto, GiveUp
    <3>4. QED BY <1>9, <3>1, <3>2, <3>3
  <2>2. UNCHANGED <<slot, httpVars, spool, loopVars, cmds, inbox, owner,
                    cancelled, sent, queueVars, link, phoneVars>>
    BY <1>9 DEF OpenSpool, ReadChunk, PushFails
  <2>3. QED BY <2>1, <2>2
<1>10. ASSUME NEW f \in Transfers, PushChunk(f) PROVE TypeOK'
  <2>1. PICK s, e : s = owner[f]
                 /\ e = [id |-> f, seq |-> sent[f], last |-> IsLast(sent[f])]
    OBVIOUS
  <2>2. streamer[f] = "push" /\ sent[f] < MaxChunk /\ s \in Sessions
    BY <1>10, <2>1 DEF PushChunk, StreamerGoto, Owned
  <2>3. e \in Chunk
    BY <2>1, <2>2 DEF Chunk, IsLast
  <2>4. bulk[s] \in Seq(Chunk) /\ Len(bulk[s]) < BulkCap
    BY <1>10, <2>1, <2>2 DEF PushChunk, HasRoom
  <2>5. /\ Append(bulk[s], e) \in Seq(Chunk)
        /\ Len(Append(bulk[s], e)) <= BulkCap
    BY <2>3, <2>4, Appended
  <2>6. bulk' = [bulk EXCEPT ![s] = Append(bulk[s], e)]
    BY <1>10, <2>1 DEF PushChunk
  <2>7. /\ bulk' \in [Sessions -> Seq(Chunk)]
        /\ \A t \in Sessions : Len(bulk'[t]) <= BulkCap
    BY <2>2, <2>5, <2>6
  <2>8. sent' \in [Transfers -> 0..MaxChunk]
    BY <1>10, <2>2 DEF PushChunk
  <2>9. QED BY <1>10, <2>7, <2>8 DEF PushChunk, StreamerGoto
<1>11. ASSUME NEW s \in Sessions, NEW f \in Transfers,
              NEW op \in {"complete", "failed"}, inbox' = Replies(s, op, f)
       PROVE  inbox' \in [Sessions -> Seq(Reply)]
  <2>1. [op |-> op, id |-> f] \in Reply
    BY DEF Reply
  <2>2. QED BY <1>11, <2>1 DEF Replies
<1>12. ASSUME NEW s \in Sessions, NEW f \in Transfers, FailIncoming(s, f)
       PROVE  /\ inbox' \in [Sessions -> Seq(Reply)] /\ nextSeq' = nextSeq
              /\ phone' \in [Transfers -> {"none", "receiving", "complete", "failed"}]
  BY <1>11, <1>12 DEF FailIncoming
<1>13. ASSUME NEW s \in Sessions, PhoneBegin(s) PROVE TypeOK'
  <2>1. PICK f : f = Head(ctl[s])
    OBVIOUS
  <2>2. ctl[s] \in Seq(Transfers) /\ ctl[s] # <<>>
    BY <1>13 DEF PhoneBegin
  <2>3. f \in Transfers /\ Tail(ctl[s]) \in Seq(Transfers)
    BY <2>1, <2>2, Shortened
  <2>4. ctl' \in [Sessions -> Seq(Transfers)]
    BY <1>13, <2>3 DEF PhoneBegin
  <2>5. \/ FailIncoming(s, f)
        \/ phone' = [phone EXCEPT ![f] = "receiving"] /\ UNCHANGED <<inbox, nextSeq>>
    BY <1>13, <2>1 DEF PhoneBegin
  <2>6. /\ inbox' \in [Sessions -> Seq(Reply)] /\ nextSeq' = nextSeq
        /\ phone' \in [Transfers -> {"none", "receiving", "complete", "failed"}]
    BY <1>12, <2>3, <2>5
  <2>7. QED BY <1>13, <2>4, <2>6 DEF PhoneBegin
<1>14. ASSUME NEW s \in Sessions, PhoneChunk(s) PROVE TypeOK'
  <2>1. PICK c : c = Head(bulk[s])
    OBVIOUS
  <2>2. bulk[s] \in Seq(Chunk) /\ bulk[s] # <<>> /\ Len(bulk[s]) <= BulkCap
    BY <1>14 DEF PhoneChunk
  <2>3. /\ c \in Chunk /\ Tail(bulk[s]) \in Seq(Chunk)
        /\ Len(Tail(bulk[s])) <= BulkCap
    BY <2>1, <2>2, Shortened
  <2>4. c.id \in Transfers /\ c.seq \in 0..(MaxChunk - 1)
    BY <2>3 DEF Chunk
  <2>5. bulk' = [bulk EXCEPT ![s] = Tail(bulk[s])]
    BY <1>14 DEF PhoneChunk
  <2>6. /\ bulk' \in [Sessions -> Seq(Chunk)]
        /\ \A t \in Sessions : Len(bulk'[t]) <= BulkCap
    BY <2>3, <2>5
  <2>7. \/ FailIncoming(s, c.id)
        \/ UNCHANGED <<inbox, phoneVars>>
        \/ /\ nextSeq' = [nextSeq EXCEPT ![c.id] = @ + 1] /\ c.seq = nextSeq[c.id]
           /\ \/ UNCHANGED <<phone, inbox>>
              \/ /\ phone' = [phone EXCEPT ![c.id] = "complete"]
                 /\ inbox' = Replies(s, "complete", c.id)
    BY <1>14, <2>1 DEF PhoneChunk
  <2>8. nextSeq' \in [Transfers -> 0..MaxChunk]
    <3>1. CASE /\ nextSeq' = [nextSeq EXCEPT ![c.id] = @ + 1]
               /\ c.seq = nextSeq[c.id]
      BY <2>4, <3>1
    <3>2. CASE FailIncoming(s, c.id)
      BY <3>2 DEF FailIncoming
    <3>3. QED BY <2>7, <3>1, <3>2
  <2>9. /\ inbox' \in [Sessions -> Seq(Reply)]
        /\ phone' \in [Transfers -> {"none", "receiving", "complete", "failed"}]
    <3>1. CASE FailIncoming(s, c.id)
      BY <1>12, <2>4, <3>1
    <3>2. CASE UNCHANGED <<phone, inbox>>
      BY <3>2
    <3>3. CASE /\ phone' = [phone EXCEPT ![c.id] = "complete"]
               /\ inbox' = Replies(s, "complete", c.id)
      BY <1>11, <2>4, <3>3
    <3>4. QED BY <2>7, <3>1, <3>2, <3>3
  <2>10. QED BY <1>14, <2>6, <2>8, <2>9 DEF PhoneChunk
<1>15. ASSUME NEW f \in Transfers, PhoneCancel(f) PROVE TypeOK'
  <2>1. owner[f] \in Sessions
    BY <1>15 DEF PhoneCancel, Owned
  <2>2. /\ inbox' \in [Sessions -> Seq(Reply)] /\ nextSeq' = nextSeq
        /\ phone' \in [Transfers -> {"none", "receiving", "complete", "failed"}]
    BY <1>12, <1>15, <2>1 DEF PhoneCancel
  <2>3. QED BY <1>15, <2>2 DEF PhoneCancel
<1>16. ASSUME NEW s \in Sessions, PumpStops(s) PROVE TypeOK'
  <2>1. bulk' \in [Sessions -> Seq(Chunk)]
        /\ \A t \in Sessions : Len(bulk'[t]) <= BulkCap
    BY <1>16 DEF PumpStops
  <2>2. ctl' \in [Sessions -> Seq(Transfers)]
    BY <1>16 DEF PumpStops
  <2>3. QED BY <1>16, <2>1, <2>2 DEF PumpStops
<1>17. ASSUME NEW s \in Sessions, Flap(s) \/ Drop(s) PROVE TypeOK'
  <2>1. CASE Flap(s)
    BY <2>1 DEF Flap
  <2>2. CASE Drop(s)
    <3>1. phone' \in [Transfers -> {"none", "receiving", "complete", "failed"}]
      BY <2>2 DEF Drop
    <3>2. QED BY <2>2, <3>1 DEF Drop
  <2>3. QED BY <1>17, <2>1, <2>2
<1>18. CASE UNCHANGED vars
  BY <1>18 DEF vars
<1>19. QED
  BY <1>1, <1>2, <1>3, <1>4, <1>6, <1>7, <1>8, <1>9, <1>10, <1>13, <1>14, <1>15,
     <1>16, <1>17, <1>18
  DEF Next, Http, Loop, Streamer, Pump

-----------------------------------------------------------------------------
(* Commands: a transfer is handed over once, and is fresh until it is taken *)

\* The loop takes its first command.
LEMMA CommandTaken ==
    ASSUME TypeOK, NEW s \in Sessions, cmds[s] # <<>>,
           cmds' = [cmds EXCEPT ![s] = Tail(@)]
    PROVE  \A t \in Sessions : \A g \in Transfers : \A k \in Nat :
             /\ Handed(t, k, g)' => IF t = s THEN Handed(s, k + 1, g) /\ k # 0
                                    ELSE Handed(t, k, g)
             /\ Handed(t, k, g) => \/ t # s /\ Handed(t, k, g)'
                                   \/ t = s /\ k = 1 /\ Head(cmds[s]).op = "send"
                                        /\ Head(cmds[s]).id = g
                                   \/ t = s /\ k - 1 \in Nat /\ Handed(s, k - 1, g)'
<1>1. cmds \in [Sessions -> Seq(Cmd)]
  BY DEF TypeOK
<1>2. /\ Head(cmds[s]) = cmds[s][1] /\ Len(cmds[s]) \in Nat \ {0}
      /\ Len(Tail(cmds[s])) = Len(cmds[s]) - 1
      /\ \A k \in 1..Len(Tail(cmds[s])) : Tail(cmds[s])[k] = cmds[s][k + 1]
  BY <1>1, Shortened
<1>3. cmds'[s] = Tail(cmds[s]) /\ \A t \in Sessions \ {s} : cmds'[t] = cmds[t]
  BY <1>1
<1>4. SUFFICES ASSUME NEW t \in Sessions, NEW g \in Transfers, NEW k \in Nat
      PROVE  /\ Handed(t, k, g)' => IF t = s THEN Handed(s, k + 1, g) /\ k # 0
                                    ELSE Handed(t, k, g)
             /\ Handed(t, k, g) => \/ t # s /\ Handed(t, k, g)'
                                   \/ t = s /\ k = 1 /\ Head(cmds[s]).op = "send"
                                        /\ Head(cmds[s]).id = g
                                   \/ t = s /\ k - 1 \in Nat /\ Handed(s, k - 1, g)'
  OBVIOUS
<1>5. CASE t # s
  BY <1>3, <1>5 DEF Handed
<1>6. CASE t = s
  <2>1. ASSUME Handed(s, k, g)' PROVE Handed(s, k + 1, g) /\ k # 0
    <3>1. k \in 1..Len(Tail(cmds[s])) /\ Tail(cmds[s])[k] = [op |-> "send", id |-> g]
      BY <1>3, <2>1 DEF Handed
    <3>2. cmds[s][k + 1] = [op |-> "send", id |-> g]
      BY <1>2, <3>1
    <3>3. k # 0 /\ k + 1 \in 1..Len(cmds[s])
      BY <1>2, <3>1
    <3>4. QED BY <3>2, <3>3 DEF Handed
  <2>2. ASSUME Handed(s, k, g), k = 1
        PROVE  Head(cmds[s]).op = "send" /\ Head(cmds[s]).id = g
    BY <1>2, <2>2 DEF Handed
  <2>3. ASSUME Handed(s, k, g), k # 1
        PROVE  k - 1 \in Nat /\ Handed(s, k - 1, g)'
    <3>1. k \in 1..Len(cmds[s]) /\ cmds[s][k] = [op |-> "send", id |-> g]
      BY <2>3 DEF Handed
    <3>2. k - 1 \in 1..Len(Tail(cmds[s])) /\ k - 1 \in Nat /\ (k - 1) + 1 = k
      BY <1>2, <2>3, <3>1
    <3>3. Tail(cmds[s])[k - 1] = [op |-> "send", id |-> g]
      BY <1>2, <3>1, <3>2
    <3>4. QED BY <1>3, <3>2, <3>3 DEF Handed
  <2>4. QED BY <1>6, <2>1, <2>2, <2>3
<1>7. QED BY <1>5, <1>6

\* A handler hands a command to the session in the slot.
LEMMA CommandGiven ==
    ASSUME TypeOK, NEW f \in Transfers, NEW op \in {"send", "cancel"},
           slot # Nobody, cmds' = ToSlot(op, f)
    PROVE  \A t \in Sessions : \A g \in Transfers : \A k \in Nat :
             Handed(t, k, g)' <=>
               \/ Handed(t, k, g)
               \/ op = "send" /\ g = f /\ t = slot /\ k = Len(cmds[slot]) + 1
<1>1. cmds \in [Sessions -> Seq(Cmd)] /\ slot \in Sessions
  BY DEF TypeOK
<1>2. PICK e : e = [op |-> op, id |-> f]
  OBVIOUS
<1>3. e \in Cmd
  BY <1>2 DEF Cmd
<1>4. /\ Len(cmds[slot]) \in Nat
      /\ Len(Append(cmds[slot], e)) = Len(cmds[slot]) + 1
      /\ \A k \in 1..Len(cmds[slot]) : Append(cmds[slot], e)[k] = cmds[slot][k]
      /\ Append(cmds[slot], e)[Len(cmds[slot]) + 1] = e
  BY <1>1, <1>3, Appended
<1>5. /\ cmds'[slot] = Append(cmds[slot], e)
      /\ \A t \in Sessions \ {slot} : cmds'[t] = cmds[t]
  BY <1>1, <1>2 DEF ToSlot
<1>6. ASSUME NEW t \in Sessions, NEW g \in Transfers, NEW k \in Nat
      PROVE  Handed(t, k, g)' <=>
               \/ Handed(t, k, g)
               \/ op = "send" /\ g = f /\ t = slot /\ k = Len(cmds[slot]) + 1
  <2>1. CASE t # slot
    BY <1>5, <2>1 DEF Handed
  <2>2. CASE t = slot /\ k \in 1..Len(cmds[slot])
    BY <1>4, <1>5, <2>2 DEF Handed
  <2>3. CASE t = slot /\ k = Len(cmds[slot]) + 1
    <3>1. ~Handed(t, k, g)
      BY <1>4, <2>3 DEF Handed
    <3>2. Handed(t, k, g)' <=> e = [op |-> "send", id |-> g]
      BY <1>4, <1>5, <2>3 DEF Handed
    <3>3. e = [op |-> "send", id |-> g] <=> op = "send" /\ g = f
      BY <1>2
    <3>4. QED BY <2>3, <3>1, <3>2, <3>3
  <2>4. CASE t = slot /\ k \notin 1..(Len(cmds[slot]) + 1)
    BY <1>4, <1>5, <2>4 DEF Handed
  <2>5. QED BY <1>4, <2>1, <2>2, <2>3, <2>4
<1>7. QED BY <1>6

\* What is fresh stays so, whatever happens to the transfers that are not.
StaysFresh(g) ==
    http[g] = "ok" /\ owner[g] = Nobody /\ g \in spool
      => http'[g] = "ok" /\ owner'[g] = Nobody /\ g \in spool'

\* Commands that stay hand over what stays fresh.
LEMMA CommandsKept ==
    ASSUME QueueInv, UNCHANGED cmds, \A g \in Transfers : StaysFresh(g)
    PROVE  QueueInv'
<1>1. HandedOnce'
  BY DEF QueueInv, HandedOnce, Handed
<1>2. HandedFresh'
  <2>1. \A s \in Sessions : \A f \in Transfers : \A k \in Nat :
            Handed(s, k, f)' <=> Handed(s, k, f)
    BY DEF Handed
  <2>2. QED BY <2>1 DEF QueueInv, HandedFresh, StaysFresh
<1>3. QED BY <1>1, <1>2 DEF QueueInv

\* So do those that are left when the loop has taken its first one.
LEMMA CommandsTaken ==
    ASSUME TypeOK, QueueInv, NEW s \in Sessions, cmds[s] # <<>>,
           cmds' = [cmds EXCEPT ![s] = Tail(@)],
           \A g \in Transfers : StaysFresh(g) \/ Handed(s, 1, g)
    PROVE  QueueInv'
<1>1. \A t \in Sessions : \A g \in Transfers : \A k \in Nat :
          Handed(t, k, g)' => IF t = s THEN Handed(s, k + 1, g) /\ k # 0
                              ELSE Handed(t, k, g)
  BY CommandTaken
<1>2. HandedOnce'
  <2>1. ASSUME NEW t \in Sessions, NEW u \in Sessions, NEW g \in Transfers,
               NEW k \in Nat, NEW m \in Nat, Handed(t, k, g)', Handed(u, m, g)'
        PROVE  t = u /\ k = m
    <3>1. PICK i \in Nat : Handed(t, i, g) /\ i = (IF t = s THEN k + 1 ELSE k)
      BY <1>1, <2>1
    <3>2. PICK j \in Nat : Handed(u, j, g) /\ j = (IF u = s THEN m + 1 ELSE m)
      BY <1>1, <2>1
    <3>3. t = u /\ i = j
      BY <3>1, <3>2 DEF QueueInv, HandedOnce
    <3>4. QED BY <3>1, <3>2, <3>3
  <2>2. QED BY <2>1 DEF HandedOnce
<1>3. HandedFresh'
  <2>1. ASSUME NEW t \in Sessions, NEW g \in Transfers, NEW k \in Nat,
               Handed(t, k, g)'
        PROVE  http'[g] = "ok" /\ owner'[g] = Nobody /\ g \in spool'
    <3>1. PICK i \in Nat : Handed(t, i, g) /\ (t = s => i # 1)
      BY <1>1, <2>1
    <3>2. ~Handed(s, 1, g)
      BY <3>1 DEF QueueInv, HandedOnce
    <3>3. http[g] = "ok" /\ owner[g] = Nobody /\ g \in spool
      BY <3>1 DEF QueueInv, HandedFresh
    <3>4. QED BY <3>2, <3>3 DEF StaysFresh
  <2>2. QED BY <2>1 DEF HandedFresh
<1>4. QED BY <1>2, <1>3 DEF QueueInv

\* What a session takes out of its table was not waiting for one.
LEMMA ForgottenOwned ==
    ASSUME TypeOK, TableOwned, NEW s \in Sessions, NEW f \in Transfers,
           f \in sends[s], spool' = spool \ {f}, UNCHANGED <<http, owner>>
    PROVE  \A g \in Transfers : StaysFresh(g)
  BY FileSendAssumption DEF TableOwned, StaysFresh

\* Every step keeps a transfer handed over once, and fresh until then.
LEMMA QueueStep ==
    TypeOK /\ QueueInv /\ TaskInv /\ Spooled /\ [Next]_vars => QueueInv'
<1> SUFFICES ASSUME TypeOK, QueueInv, TaskInv, Spooled, [Next]_vars
             PROVE  QueueInv'
  OBVIOUS
<1>1. ASSUME NEW f \in Transfers, Upload(f) \/ UploadFails(f) PROVE QueueInv'
  <2>1. UNCHANGED <<cmds, owner>>
    BY <1>1 DEF Upload, UploadFails, taskVars
  <2>2. /\ http[f] \in {"new", "spooling"}
        /\ \A g \in Transfers \ {f} : http'[g] = http[g]
        /\ \A g \in Transfers \ {f} : g \in spool => g \in spool'
    BY <1>1 DEF Upload, UploadFails, HttpGoto, TypeOK
  <2>3. \A g \in Transfers : StaysFresh(g)
    BY <2>1, <2>2 DEF StaysFresh
  <2>4. QED BY <2>1, <2>3, CommandsKept
<1>2. ASSUME NEW f \in Transfers, Dispatch(f) PROVE QueueInv'
  <2>1. http[f] = "spooling" /\ UNCHANGED owner
    BY <1>2 DEF Dispatch, HttpGoto, taskVars
  <2>2. \A g \in Transfers \ {f} : /\ http'[g] = http[g]
                                   /\ g \in spool => g \in spool'
    BY <1>2 DEF Dispatch, HttpGoto, TypeOK, DropSpool
  <2>3. \A g \in Transfers : StaysFresh(g)
    BY <2>1, <2>2 DEF StaysFresh
  <2>4. CASE UNCHANGED cmds
    BY <2>3, <2>4, CommandsKept
  <2>5. CASE slot # Nobody /\ cmds' = ToSlot("send", f) /\ http'[f] = "ok" /\ UNCHANGED spool
    <3>1. \A t \in Sessions : \A g \in Transfers : \A k \in Nat :
            Handed(t, k, g)' <=>
              Handed(t, k, g) \/ (g = f /\ t = slot /\ k = Len(cmds[slot]) + 1)
      BY <2>5, CommandGiven
    <3>2. \A t \in Sessions : \A k \in Nat : ~Handed(t, k, f)
      BY <2>1 DEF QueueInv, HandedFresh
    <3>3. HandedOnce'
      BY <3>1, <3>2 DEF QueueInv, HandedOnce
    <3>4. owner[f] = Nobody /\ f \in spool
      BY <2>1 DEF TaskInv, Owned, Spooled
    <3>5. HandedFresh'
      BY <2>1, <2>3, <2>5, <3>1, <3>4 DEF QueueInv, HandedFresh, StaysFresh
    <3>6. QED BY <3>3, <3>5 DEF QueueInv
  <2>6. QED BY <1>2, <2>4, <2>5 DEF Dispatch, HttpGoto, TypeOK
<1>3. ASSUME NEW f \in Transfers, CancelSend(f) PROVE QueueInv'
  <2>1. UNCHANGED <<http, owner, spool>>
    BY <1>3 DEF CancelSend, taskVars
  <2>2. \A g \in Transfers : StaysFresh(g)
    BY <2>1 DEF StaysFresh
  <2>3. CASE UNCHANGED cmds
    BY <2>2, <2>3, CommandsKept
  <2>4. CASE slot # Nobody /\ cmds' = ToSlot("cancel", f)
    <3>1. \A t \in Sessions : \A g \in Transfers : \A k \in Nat :
            Handed(t, k, g)' <=> Handed(t, k, g)
      BY <2>4, CommandGiven
    <3>2. HandedOnce' /\ HandedFresh'
      BY <2>2, <3>1 DEF QueueInv, HandedOnce, HandedFresh, StaysFresh
    <3>3. QED BY <3>2 DEF QueueInv
  <2>5. QED BY <1>3, <2>3, <2>4 DEF CancelSend
<1>4. ASSUME NEW s \in Sessions, StartSend(s) PROVE QueueInv'
  <2>1. PICK f : f = Head(cmds[s]).id
    OBVIOUS
  <2>2. /\ cmds[s] # <<>> /\ Head(cmds[s]).op = "send"
        /\ cmds' = [cmds EXCEPT ![s] = Tail(@)]
        /\ owner' = [owner EXCEPT ![f] = s] /\ UNCHANGED <<http, spool>>
    BY <1>4, <2>1 DEF StartSend, httpVars
  <2>3. /\ Head(cmds[s]) \in Cmd /\ Head(cmds[s]) = cmds[s][1]
        /\ Len(cmds[s]) \in Nat \ {0}
    BY <2>2, Shortened DEF TypeOK
  <2>4. f \in Transfers /\ cmds[s][1] = [op |-> "send", id |-> f]
    BY <2>1, <2>2, <2>3 DEF Cmd
  <2>5. Handed(s, 1, f)
    BY <2>3, <2>4 DEF Handed
  <2>6. \A g \in Transfers : StaysFresh(g) \/ Handed(s, 1, g)
    BY <2>2, <2>5 DEF StaysFresh, TypeOK
  <2>7. QED BY <2>2, <2>6, CommandsTaken
<1>5. ASSUME NEW s \in Sessions, StopSend(s) PROVE QueueInv'
  <2>1. PICK f : f = Head(cmds[s]).id
    OBVIOUS
  <2>2. /\ cmds[s] # <<>> /\ cmds' = [cmds EXCEPT ![s] = Tail(@)]
        /\ UNCHANGED <<http, owner>>
    BY <1>5 DEF StopSend, httpVars
  <2>3. f \in Transfers
    <3>1. cmds[s] \in Seq(Cmd)
      BY DEF TypeOK
    <3>2. QED BY <2>1, <2>2, <3>1, Shortened DEF Cmd
  <2>4. (f \in sends[s] /\ spool' = spool \ {f}) \/ UNCHANGED spool
    BY <1>5, <2>1 DEF StopSend, Forget
  <2>5. \A g \in Transfers : StaysFresh(g)
    BY <2>2, <2>3, <2>4, ForgottenOwned DEF TaskInv, StaysFresh
  <2>6. QED BY <2>2, <2>5, CommandsTaken
<1>6. ASSUME NEW s \in Sessions, OnReply(s) \/ DrainOne(s) PROVE QueueInv'
  <2>1. UNCHANGED <<cmds, http, owner>>
    BY <1>6 DEF OnReply, DrainOne, httpVars
  <2>2. \/ \E f \in sends[s] : spool' = spool \ {f}
        \/ UNCHANGED spool
    BY <1>6 DEF OnReply, DrainOne, Forget
  <2>3. sends[s] \subseteq Transfers
    BY DEF TypeOK
  <2>4. \A g \in Transfers : StaysFresh(g)
    BY <2>1, <2>2, <2>3, ForgottenOwned DEF TaskInv, StaysFresh
  <2>5. QED BY <2>1, <2>4, CommandsKept
<1>7. ASSUME UNCHANGED <<cmds, http, owner, spool>> PROVE QueueInv'
  BY <1>7, CommandsKept DEF StaysFresh
<1>8. ASSUME NEW s \in Sessions,
             \/ Register(s) \/ Break(s) \/ Deregister(s)
             \/ Pump(s) \/ Flap(s) \/ Drop(s)
      PROVE  UNCHANGED <<cmds, http, owner, spool>>
  BY <1>8 DEF Register, Break, Deregister, Pump, PhoneBegin, PhoneChunk, PumpStops,
              Flap, Drop, httpVars, taskVars
<1>9. ASSUME NEW f \in Transfers, Streamer(f) \/ PhoneCancel(f)
      PROVE  UNCHANGED <<cmds, http, owner, spool>>
  BY <1>9 DEF Streamer, OpenSpool, ReadChunk, PushChunk, PushFails, PhoneCancel,
              httpVars, taskVars
<1>10. UNCHANGED vars => UNCHANGED <<cmds, http, owner, spool>>
  BY DEF vars, httpVars, taskVars
<1>11. QED
  BY <1>1, <1>2, <1>3, <1>4, <1>5, <1>6, <1>7, <1>8, <1>9, <1>10
  DEF Next, Http, Loop

-----------------------------------------------------------------------------
(* Transfers: what is so before a session takes one on, and after *)

\* StartSend takes a fresh transfer on.
LEMMA TakenOn ==
    ASSUME TypeOK, QueueInv, NEW s \in Sessions, StartSend(s)
    PROVE  \E f \in Transfers :
             /\ Handed(s, 1, f) /\ cmds[s] # <<>> /\ Head(cmds[s]).id = f
             /\ http[f] = "ok" /\ owner[f] = Nobody /\ f \in spool
             /\ owner' = [owner EXCEPT ![f] = s]
             /\ streamer' = [streamer EXCEPT ![f] = "open"]
             /\ sends' = [sends EXCEPT ![s] = @ \cup {f}]
             /\ ctl' = [ctl EXCEPT ![s] =
                          IF pump[s] = "run" THEN Append(@, f) ELSE @]
             /\ cmds' = [cmds EXCEPT ![s] = Tail(@)]
<1>1. PICK f : f = Head(cmds[s]).id
  OBVIOUS
<1>2. /\ cmds[s] # <<>> /\ Head(cmds[s]).op = "send"
      /\ owner' = [owner EXCEPT ![f] = s]
      /\ streamer' = [streamer EXCEPT ![f] = "open"]
      /\ sends' = [sends EXCEPT ![s] = @ \cup {f}]
      /\ ctl' = [ctl EXCEPT ![s] = IF pump[s] = "run" THEN Append(@, f) ELSE @]
      /\ cmds' = [cmds EXCEPT ![s] = Tail(@)]
  BY <1>1 DEF StartSend
<1>3. cmds[s] \in Seq(Cmd)
  BY DEF TypeOK
<1>4. Head(cmds[s]) \in Cmd /\ Head(cmds[s]) = cmds[s][1] /\ Len(cmds[s]) \in Nat \ {0}
  BY <1>2, <1>3, Shortened
<1>5. f \in Transfers /\ cmds[s][1] = [op |-> "send", id |-> f]
  BY <1>1, <1>2, <1>4 DEF Cmd
<1>6. Handed(s, 1, f)
  BY <1>4, <1>5 DEF Handed
<1>7. http[f] = "ok" /\ owner[f] = Nobody /\ f \in spool
  BY <1>5, <1>6 DEF QueueInv, HandedFresh
<1>8. QED BY <1>1, <1>2, <1>5, <1>6, <1>7

\* A streamer's steps but for the push.
LEMMA StreamerMoves ==
    ASSUME TypeOK, NEW f \in Transfers,
           OpenSpool(f) \/ ReadChunk(f) \/ PushFails(f)
    PROVE  /\ streamer[f] \in {"open", "check", "push"}
           /\ \E to \in {"check", "push", "done"} :
                /\ streamer' = [streamer EXCEPT ![f] = to]
                /\ to = "push" => sent[f] < MaxChunk
           /\ UNCHANGED <<slot, httpVars, spool, loopVars, cmds, inbox, owner,
                          cancelled, sent, queueVars, link, phoneVars>>
<1>1. CASE OpenSpool(f)
  BY <1>1 DEF OpenSpool, StreamerGoto
<1>2. CASE ReadChunk(f)
  <2>1. sent[f] # MaxChunk => sent[f] < MaxChunk
    BY FileSendAssumption DEF TypeOK
  <2>2. streamer[f] = "check" /\ \E to \in {"push", "done"} :
           /\ streamer' = [streamer EXCEPT ![f] = to]
           /\ to = "push" => sent[f] # MaxChunk
    BY <1>2 DEF ReadChunk, StreamerGoto
  <2>3. QED BY <1>2, <2>1, <2>2 DEF ReadChunk
<1>3. CASE PushFails(f)
  BY <1>3 DEF PushFails, StreamerGoto, GiveUp
<1>4. QED BY <1>1, <1>2, <1>3

\* The streamer's push, with what Owned says of it.
LEMMA ChunkPushed ==
    ASSUME TypeOK, Owned, NEW f \in Transfers, PushChunk(f)
    PROVE  /\ streamer[f] = "push" /\ owner[f] \in Sessions /\ sent[f] < MaxChunk
           /\ pump[owner[f]] = "run"
           /\ streamer' = [streamer EXCEPT ![f] =
                             IF IsLast(sent[f]) THEN "done" ELSE "check"]
           /\ sent' = [sent EXCEPT ![f] = @ + 1]
           /\ bulk' = [bulk EXCEPT ![owner[f]] = Append(@,
                         [id |-> f, seq |-> sent[f], last |-> IsLast(sent[f])])]
           /\ [id |-> f, seq |-> sent[f], last |-> IsLast(sent[f])] \in Chunk
           /\ UNCHANGED <<slot, httpVars, spool, loopVars, cmds, inbox, owner,
                          cancelled, ctl, pump, link, phoneVars>>
<1>1. streamer[f] = "push" /\ sent[f] < MaxChunk /\ owner[f] \in Sessions
  BY DEF PushChunk, StreamerGoto, Owned, TypeOK
<1>2. [id |-> f, seq |-> sent[f], last |-> IsLast(sent[f])] \in Chunk
  BY <1>1, FileSendAssumption DEF Chunk, IsLast, TypeOK
<1>3. QED BY <1>1, <1>2 DEF PushChunk, StreamerGoto

\* The first chunk that waits, and what the phone does with it.
LEMMA ChunkTaken ==
    ASSUME TypeOK, NEW s \in Sessions, PhoneChunk(s)
    PROVE  \E c \in Chunk :
             /\ c = bulk[s][1] /\ c.id \in Transfers /\ c.seq \in 0..(MaxChunk - 1)
             /\ ctl[s] = <<>> /\ Len(bulk[s]) \in Nat \ {0}
             /\ bulk' = [bulk EXCEPT ![s] = Tail(bulk[s])]
             /\ Len(Tail(bulk[s])) = Len(bulk[s]) - 1
             /\ \A k \in 1..Len(Tail(bulk[s])) : Tail(bulk[s])[k] = bulk[s][k + 1]
             /\ \/ phone[c.id] # "receiving" /\ UNCHANGED <<inbox, phone, nextSeq>>
                \/ phone[c.id] = "receiving" /\ FailIncoming(s, c.id)
                \/ /\ phone[c.id] = "receiving" /\ c.seq = nextSeq[c.id]
                   /\ nextSeq' = [nextSeq EXCEPT ![c.id] = @ + 1]
                   /\ \/ ~c.last /\ UNCHANGED <<phone, inbox>>
                      \/ /\ c.last
                         /\ phone' = [phone EXCEPT ![c.id] = "complete"]
                         /\ inbox' = Replies(s, "complete", c.id)
             /\ UNCHANGED <<slot, httpVars, spool, loopVars, cmds, taskVars, ctl, pump,
                            link>>
<1>1. PICK c : c = Head(bulk[s])
  OBVIOUS
<1>2. bulk[s] \in Seq(Chunk) /\ bulk[s] # <<>>
  BY DEF PhoneChunk, TypeOK
<1>3. /\ c \in Chunk /\ c = bulk[s][1] /\ Len(bulk[s]) \in Nat \ {0}
      /\ Len(Tail(bulk[s])) = Len(bulk[s]) - 1
      /\ \A k \in 1..Len(Tail(bulk[s])) : Tail(bulk[s])[k] = bulk[s][k + 1]
  BY <1>1, <1>2, Shortened
<1>4. c.id \in Transfers /\ c.seq \in 0..(MaxChunk - 1)
  BY <1>3 DEF Chunk
<1>5. bulk' = [bulk EXCEPT ![s] = Tail(bulk[s])] /\ ctl[s] = <<>>
  BY DEF PhoneChunk, ControlFirst
<1>6. \/ phone[c.id] # "receiving" /\ UNCHANGED <<inbox, phone, nextSeq>>
      \/ phone[c.id] = "receiving" /\ FailIncoming(s, c.id)
      \/ /\ phone[c.id] = "receiving" /\ c.seq = nextSeq[c.id]
         /\ nextSeq' = [nextSeq EXCEPT ![c.id] = @ + 1]
         /\ \/ ~c.last /\ UNCHANGED <<phone, inbox>>
            \/ /\ c.last
               /\ phone' = [phone EXCEPT ![c.id] = "complete"]
               /\ inbox' = Replies(s, "complete", c.id)
  BY <1>1 DEF PhoneChunk, phoneVars
<1>7. UNCHANGED <<slot, httpVars, spool, loopVars, cmds, taskVars, ctl, pump, link>>
  BY DEF PhoneChunk
<1>8. QED BY <1>3, <1>4, <1>5, <1>6, <1>7

\* The first announcement that waits.
LEMMA AnnouncementTaken ==
    ASSUME TypeOK, WireInv, NEW s \in Sessions, PhoneBegin(s)
    PROVE  \E f \in Transfers :
             /\ f = ctl[s][1] /\ owner[f] = s /\ phone[f] = "none"
             /\ Len(ctl[s]) \in Nat \ {0}
             /\ ctl' = [ctl EXCEPT ![s] = Tail(ctl[s])]
             /\ Len(Tail(ctl[s])) = Len(ctl[s]) - 1
             /\ \A k \in 1..Len(Tail(ctl[s])) : Tail(ctl[s])[k] = ctl[s][k + 1]
             /\ \/ /\ phone' = [phone EXCEPT ![f] = "receiving"]
                   /\ UNCHANGED <<inbox, nextSeq>>
                \/ FailIncoming(s, f)
             /\ UNCHANGED <<slot, httpVars, spool, loopVars, cmds, taskVars, bulk,
                            pump, link>>
<1>1. PICK f : f = Head(ctl[s])
  OBVIOUS
<1>2. ctl[s] \in Seq(Transfers) /\ ctl[s] # <<>>
  BY DEF PhoneBegin, TypeOK
<1>3. /\ f \in Transfers /\ f = ctl[s][1] /\ Len(ctl[s]) \in Nat \ {0}
      /\ Len(Tail(ctl[s])) = Len(ctl[s]) - 1
      /\ \A k \in 1..Len(Tail(ctl[s])) : Tail(ctl[s])[k] = ctl[s][k + 1]
  BY <1>1, <1>2, Shortened
<1>4. owner[f] = s /\ phone[f] = "none"
  BY <1>3 DEF WireInv, AnnouncedOnce
<1>5. /\ ctl' = [ctl EXCEPT ![s] = Tail(ctl[s])]
      /\ \/ phone' = [phone EXCEPT ![f] = "receiving"] /\ UNCHANGED <<inbox, nextSeq>>
         \/ FailIncoming(s, f)
      /\ UNCHANGED <<slot, httpVars, spool, loopVars, cmds, taskVars, bulk, pump, link>>
  BY <1>1 DEF PhoneBegin
<1>6. QED BY <1>3, <1>4, <1>5

\* One case per family of actions that move a transfer.
LEMMA OwnedStep == TypeOK /\ QueueInv /\ Owned /\ WireInv /\ [Next]_vars => Owned'
<1> SUFFICES ASSUME TypeOK, QueueInv, Owned, WireInv, [Next]_vars PROVE Owned'
  OBVIOUS
<1> USE FileSendAssumption DEF Owned
<1>0. /\ owner \in [Transfers -> Sessions \cup {Nobody}]
      /\ streamer \in [Transfers -> {"none", "open", "check", "push", "done"}]
      /\ sent \in [Transfers -> 0..MaxChunk] /\ nextSeq \in [Transfers -> 0..MaxChunk]
      /\ phone \in [Transfers -> {"none", "receiving", "complete", "failed"}]
      /\ http \in [Transfers -> {"new", "spooling", "ok", "refused", "broken"}]
  BY DEF TypeOK
<1>1. ASSUME NEW f \in Transfers, Upload(f) \/ UploadFails(f) \/ Dispatch(f)
      PROVE  Owned'
  <2>1. /\ http[f] \in {"new", "spooling"}
        /\ \A g \in Transfers \ {f} : http'[g] = http[g]
    BY <1>0, <1>1 DEF Upload, UploadFails, Dispatch, HttpGoto
  <2>2. UNCHANGED <<owner, streamer, phone, sent, nextSeq>>
    BY <1>1 DEF Upload, UploadFails, Dispatch, taskVars, phoneVars
  <2>3. QED BY <2>1, <2>2
<1>2. ASSUME NEW s \in Sessions, StartSend(s) PROVE Owned'
  <2>1. PICK f \in Transfers : /\ http[f] = "ok" /\ owner[f] = Nobody
                               /\ owner' = [owner EXCEPT ![f] = s]
                               /\ streamer' = [streamer EXCEPT ![f] = "open"]
    BY <1>2, TakenOn
  <2>2. UNCHANGED <<http, sent, phone, nextSeq>>
    BY <1>2 DEF StartSend, httpVars, phoneVars
  <2>3. QED BY <1>0, <2>1, <2>2
<1>3. ASSUME NEW f \in Transfers, OpenSpool(f) \/ ReadChunk(f) \/ PushFails(f)
      PROVE  Owned'
  <2>1. PICK to \in {"check", "push", "done"} :
          /\ streamer' = [streamer EXCEPT ![f] = to]
          /\ to = "push" => sent[f] < MaxChunk
    BY <1>3, StreamerMoves
  <2>2. streamer[f] \in {"open", "check", "push"}
    BY <1>3, StreamerMoves
  <2>3. UNCHANGED <<http, owner, sent, phone, nextSeq>>
    BY <1>3, StreamerMoves DEF httpVars, phoneVars
  <2>4. QED BY <1>0, <2>1, <2>2, <2>3
<1>4. ASSUME NEW f \in Transfers, PushChunk(f) PROVE Owned'
  <2>1. /\ owner[f] # Nobody
        /\ \E to \in {"check", "done"} : streamer' = [streamer EXCEPT ![f] = to]
        /\ sent' = [sent EXCEPT ![f] = @ + 1]
        /\ UNCHANGED <<http, owner, phone, nextSeq>>
    BY <1>4, ChunkPushed DEF httpVars, phoneVars
  <2>2. QED BY <1>0, <2>1
<1>5. ASSUME NEW f \in Transfers, owner[f] # Nobody,
             \A g \in Transfers \ {f} : phone'[g] = phone[g] /\ nextSeq'[g] = nextSeq[g],
             UNCHANGED <<http, owner, streamer, sent>>
      PROVE  Owned'
  BY <1>5
<1>6. ASSUME NEW f \in Transfers, NEW s \in Sessions, FailIncoming(s, f)
      PROVE  \A g \in Transfers \ {f} : phone'[g] = phone[g] /\ nextSeq'[g] = nextSeq[g]
  BY <1>0, <1>6 DEF FailIncoming
<1>7. ASSUME NEW s \in Sessions, PhoneBegin(s) PROVE Owned'
  <2>1. PICK f \in Transfers :
          /\ owner[f] = s
          /\ \/ /\ phone' = [phone EXCEPT ![f] = "receiving"]
                /\ UNCHANGED <<inbox, nextSeq>>
             \/ FailIncoming(s, f)
          /\ UNCHANGED <<httpVars, taskVars>>
    BY <1>7, AnnouncementTaken
  <2>2. \A g \in Transfers \ {f} : phone'[g] = phone[g] /\ nextSeq'[g] = nextSeq[g]
    BY <1>0, <1>6, <2>1
  <2>3. QED BY <1>5, <2>1, <2>2 DEF httpVars, taskVars
<1>8. ASSUME NEW s \in Sessions, PhoneChunk(s) PROVE Owned'
  <2>1. PICK c \in Chunk :
             /\ c.id \in Transfers
             /\ \/ phone[c.id] # "receiving" /\ UNCHANGED <<inbox, phone, nextSeq>>
                \/ phone[c.id] = "receiving" /\ FailIncoming(s, c.id)
                \/ /\ phone[c.id] = "receiving" /\ c.seq = nextSeq[c.id]
                   /\ nextSeq' = [nextSeq EXCEPT ![c.id] = @ + 1]
                   /\ \/ ~c.last /\ UNCHANGED <<phone, inbox>>
                      \/ /\ c.last
                         /\ phone' = [phone EXCEPT ![c.id] = "complete"]
                         /\ inbox' = Replies(s, "complete", c.id)
             /\ UNCHANGED <<httpVars, taskVars>>
    BY <1>8, ChunkTaken
  <2>2. CASE UNCHANGED <<phone, nextSeq>>
    BY <2>1, <2>2 DEF httpVars, taskVars
  <2>3. CASE phone[c.id] = "receiving"
    <3>1. owner[c.id] # Nobody
      BY <2>1, <2>3
    <3>2. \A g \in Transfers \ {c.id} : phone'[g] = phone[g] /\ nextSeq'[g] = nextSeq[g]
      BY <1>0, <1>6, <2>1, <2>3
    <3>3. QED BY <1>5, <2>1, <3>1, <3>2 DEF httpVars, taskVars
  <2>4. QED BY <2>1, <2>2, <2>3
<1>9. ASSUME NEW f \in Transfers, PhoneCancel(f) PROVE Owned'
  <2>1. owner[f] # Nobody /\ FailIncoming(owner[f], f)
    BY <1>9 DEF PhoneCancel
  <2>2. \A g \in Transfers \ {f} : phone'[g] = phone[g] /\ nextSeq'[g] = nextSeq[g]
    BY <1>0, <1>6, <2>1
  <2>3. QED BY <1>5, <1>9, <2>1, <2>2 DEF PhoneCancel, httpVars, taskVars
<1>10. ASSUME NEW s \in Sessions, Drop(s) PROVE Owned'
  <2>1. UNCHANGED <<http, owner, streamer, sent, nextSeq>>
    BY <1>10 DEF Drop, httpVars, taskVars
  <2>2. \A g \in Transfers : owner[g] = Nobody => phone'[g] = phone[g]
    BY <1>0, <1>10 DEF Drop
  <2>3. QED BY <2>1, <2>2
<1>11. ASSUME NEW s \in Sessions,
             \/ Register(s) \/ Break(s) \/ StopSend(s) \/ OnReply(s) \/ DrainOne(s)
             \/ Deregister(s) \/ PumpStops(s) \/ Flap(s)
      PROVE  UNCHANGED <<http, owner, streamer, sent, phone, nextSeq>>
  BY <1>11 DEF Register, Break, StopSend, OnReply, DrainOne, Deregister, PumpStops,
               Flap, httpVars, taskVars, phoneVars
<1>12. ASSUME NEW f \in Transfers, CancelSend(f)
      PROVE  UNCHANGED <<http, owner, streamer, sent, phone, nextSeq>>
  BY <1>12 DEF CancelSend, taskVars, phoneVars
<1>13. UNCHANGED vars => UNCHANGED <<http, owner, streamer, sent, phone, nextSeq>>
  BY DEF vars, httpVars, taskVars, phoneVars
<1>14. UNCHANGED <<http, owner, streamer, sent, phone, nextSeq>> => Owned'
  OBVIOUS
<1>15. QED
  BY <1>1, <1>2, <1>3, <1>4, <1>7, <1>8, <1>9, <1>10, <1>11, <1>12, <1>13, <1>14
  DEF Next, Http, Loop, Streamer, Pump

\* Only StartSend puts a transfer into a table.
LEMMA TableStep == TypeOK /\ QueueInv /\ TableOwned /\ [Next]_vars => TableOwned'
<1> SUFFICES ASSUME TypeOK, QueueInv, TableOwned, [Next]_vars PROVE TableOwned'
  OBVIOUS
<1> USE FileSendAssumption DEF TableOwned
<1>0. sends \in [Sessions -> SUBSET Transfers] /\ owner \in [Transfers -> Sessions \cup {Nobody}]
  BY DEF TypeOK
<1>1. ASSUME NEW s \in Sessions, StartSend(s) PROVE TableOwned'
  <2>1. PICK f \in Transfers : /\ owner[f] = Nobody
                               /\ owner' = [owner EXCEPT ![f] = s]
                               /\ sends' = [sends EXCEPT ![s] = @ \cup {f}]
    BY <1>1, TakenOn
  <2>2. \A t \in Sessions : f \notin sends[t]
    BY <2>1
  <2>3. QED BY <1>0, <2>1, <2>2
<1>2. ASSUME NEW s \in Sessions, StopSend(s) \/ OnReply(s) \/ DrainOne(s)
      PROVE  TableOwned'
  <2>1. UNCHANGED owner
    BY <1>2 DEF StopSend, OnReply, DrainOne
  <2>2. (\E f : sends' = [sends EXCEPT ![s] = @ \ {f}]) \/ UNCHANGED sends
    BY <1>2 DEF StopSend, OnReply, DrainOne, Forget
  <2>3. QED BY <1>0, <2>1, <2>2
<1>3. ASSUME NEW s \in Sessions,
             \/ Register(s) \/ Break(s) \/ Deregister(s) \/ Pump(s) \/ Flap(s) \/ Drop(s)
      PROVE  UNCHANGED <<sends, owner>>
  BY <1>3 DEF Register, Break, Deregister, Pump, PhoneBegin, PhoneChunk, PumpStops,
              Flap, Drop, taskVars, loopVars
<1>4. ASSUME NEW f \in Transfers, Http(f) \/ Streamer(f) \/ PhoneCancel(f)
      PROVE  UNCHANGED <<sends, owner>>
  BY <1>4 DEF Http, Upload, UploadFails, Dispatch, CancelSend, Streamer, OpenSpool,
              ReadChunk, PushChunk, PushFails, PhoneCancel, taskVars, loopVars
<1>5. UNCHANGED vars => UNCHANGED <<sends, owner>>
  BY DEF vars, taskVars, loopVars
<1>6. QED BY <1>1, <1>2, <1>3, <1>4, <1>5 DEF Next, Loop

\* A streamer that has ended is never started again.
LEMMA DoneStays ==
    ASSUME TypeOK, QueueInv, Owned, [Next]_vars
    PROVE  \A g \in Transfers : streamer[g] = "done" => streamer'[g] = "done"
<1>0. streamer \in [Transfers -> {"none", "open", "check", "push", "done"}]
  BY DEF TypeOK
<1>1. ASSUME NEW s \in Sessions, StartSend(s)
      PROVE  \A g \in Transfers : streamer[g] = "done" => streamer'[g] = "done"
  <2>1. PICK f \in Transfers : /\ owner[f] = Nobody
                               /\ streamer' = [streamer EXCEPT ![f] = "open"]
    BY <1>1, TakenOn
  <2>2. streamer[f] = "none"
    BY <2>1 DEF Owned
  <2>3. QED BY <1>0, <2>1, <2>2
<1>2. ASSUME NEW f \in Transfers, Streamer(f)
      PROVE  \A g \in Transfers : streamer[g] = "done" => streamer'[g] = "done"
  <2>1. CASE PushChunk(f)
    BY <1>0, <2>1 DEF PushChunk, StreamerGoto
  <2>2. CASE OpenSpool(f) \/ ReadChunk(f) \/ PushFails(f)
    BY <1>0, <2>2, StreamerMoves
  <2>3. QED BY <1>2, <2>1, <2>2 DEF Streamer
<1>3. ASSUME NEW s \in Sessions,
             \/ StopSend(s) \/ OnReply(s) \/ DrainOne(s) \/ Deregister(s)
             \/ Register(s) \/ Break(s) \/ Pump(s) \/ Flap(s) \/ Drop(s)
      PROVE  UNCHANGED streamer
  BY <1>3 DEF StopSend, OnReply, DrainOne, Deregister, Register, Break, Pump,
              PhoneBegin, PhoneChunk, PumpStops, Flap, Drop, taskVars
<1>4. ASSUME NEW f \in Transfers, Http(f) \/ PhoneCancel(f)
      PROVE  UNCHANGED streamer
  BY <1>4 DEF Http, Upload, UploadFails, Dispatch, CancelSend, PhoneCancel, taskVars
<1>5. UNCHANGED vars => UNCHANGED streamer
  BY DEF vars, taskVars
<1>6. QED BY <1>1, <1>2, <1>3, <1>4, <1>5 DEF Next, Loop

\* Only a phone that got the last chunk says so, and the streamer returned
\* with it.
LEMMA CompletesStep ==
    TypeOK /\ QueueInv /\ TaskInv /\ WireInv /\ [Next]_vars => CompletesDone'
<1> SUFFICES ASSUME TypeOK, QueueInv, TaskInv, WireInv, [Next]_vars
             PROVE  CompletesDone'
  OBVIOUS
<1>0. inbox \in [Sessions -> Seq(Reply)]
  BY DEF TypeOK
<1>1. \A g \in Transfers : streamer[g] = "done" => streamer'[g] = "done"
  BY DoneStays DEF TaskInv
<1>2. \A s \in Sessions : \A k \in 1..Len(inbox[s]) :
        /\ inbox[s][k].id \in Transfers
        /\ inbox[s][k].op = "complete" => streamer[inbox[s][k].id] = "done"
  <2>1. ASSUME NEW s \in Sessions, NEW k \in 1..Len(inbox[s])
        PROVE  inbox[s][k].id \in Transfers
    <3>1. inbox[s][k] \in Reply
      BY <1>0
    <3>2. QED BY <3>1 DEF Reply
  <2>2. QED BY <2>1 DEF TaskInv, CompletesDone
<1>3. ASSUME UNCHANGED inbox PROVE CompletesDone'
  BY <1>1, <1>2, <1>3 DEF CompletesDone
<1>4. ASSUME NEW s \in Sessions, NEW f \in Transfers, NEW op \in {"complete", "failed"},
             inbox' = Replies(s, op, f), op = "complete" => streamer[f] = "done"
      PROVE  CompletesDone'
  <2>1. PICK r : r = [op |-> op, id |-> f]
    OBVIOUS
  <2>2. r \in Reply
    BY <2>1 DEF Reply
  <2>3. /\ Len(inbox[s]) \in Nat
        /\ Len(Append(inbox[s], r)) = Len(inbox[s]) + 1
        /\ \A k \in 1..Len(inbox[s]) : Append(inbox[s], r)[k] = inbox[s][k]
        /\ Append(inbox[s], r)[Len(inbox[s]) + 1] = r
    BY <1>0, <2>2, Appended
  <2>4. /\ inbox'[s] = Append(inbox[s], r)
        /\ \A t \in Sessions \ {s} : inbox'[t] = inbox[t]
    BY <1>0, <1>4, <2>1 DEF Replies
  <2>5. ASSUME NEW t \in Sessions, NEW k \in 1..Len(inbox'[t]), inbox'[t][k].op = "complete"
        PROVE  streamer'[inbox'[t][k].id] = "done"
    <3>1. CASE t # s
      BY <1>1, <1>2, <2>4, <2>5, <3>1
    <3>2. CASE t = s /\ k \in 1..Len(inbox[s])
      <4>1. inbox'[t][k] = inbox[s][k]
        BY <2>3, <2>4, <3>2
      <4>2. QED BY <1>1, <1>2, <2>5, <3>2, <4>1
    <3>3. CASE t = s /\ k = Len(inbox[s]) + 1
      <4>1. inbox'[t][k] = r
        BY <2>3, <2>4, <3>3
      <4>2. r.id = f /\ r.op = op
        BY <2>1
      <4>3. QED BY <1>1, <1>4, <2>5, <4>1, <4>2
    <3>4. QED BY <2>3, <2>4, <3>1, <3>2, <3>3
  <2>6. QED BY <2>5 DEF CompletesDone
<1>5. ASSUME NEW s \in Sessions, NEW f \in Transfers, FailIncoming(s, f)
      PROVE  CompletesDone'
  BY <1>4, <1>5 DEF FailIncoming
<1>6. ASSUME NEW s \in Sessions, OnReply(s) PROVE CompletesDone'
  <2>1. /\ inbox[s] # <<>> /\ inbox' = [inbox EXCEPT ![s] = Tail(inbox[s])]
    BY <1>6 DEF OnReply
  <2>2. /\ Len(inbox[s]) \in Nat \ {0} /\ Len(Tail(inbox[s])) = Len(inbox[s]) - 1
        /\ \A k \in 1..Len(Tail(inbox[s])) : Tail(inbox[s])[k] = inbox[s][k + 1]
    BY <1>0, <2>1, Shortened
  <2>3. /\ inbox'[s] = Tail(inbox[s])
        /\ \A t \in Sessions \ {s} : inbox'[t] = inbox[t]
    BY <1>0, <2>1
  <2>4. ASSUME NEW t \in Sessions, NEW k \in 1..Len(inbox'[t]), inbox'[t][k].op = "complete"
        PROVE  streamer'[inbox'[t][k].id] = "done"
    <3>1. CASE t # s
      BY <1>1, <1>2, <2>3, <2>4, <3>1
    <3>2. CASE t = s
      <4>1. k + 1 \in 1..Len(inbox[s]) /\ inbox'[t][k] = inbox[s][k + 1]
        <5>1. inbox'[t] = Tail(inbox[s]) /\ k \in 1..Len(Tail(inbox[s]))
          BY <2>3, <3>2
        <5>2. k + 1 \in 1..Len(inbox[s])
          BY <2>2, <5>1
        <5>3. QED BY <2>2, <5>1, <5>2
      <4>2. QED BY <1>1, <1>2, <2>4, <4>1
    <3>3. QED BY <3>1, <3>2
  <2>5. QED BY <2>4 DEF CompletesDone
<1>7. ASSUME NEW s \in Sessions, PhoneBegin(s) PROVE CompletesDone'
  BY <1>3, <1>5, <1>7, AnnouncementTaken
<1>8. ASSUME NEW s \in Sessions, PhoneChunk(s) PROVE CompletesDone'
  <2>1. PICK c \in Chunk :
             /\ c = bulk[s][1] /\ c.id \in Transfers /\ Len(bulk[s]) \in Nat \ {0}
             /\ \/ UNCHANGED inbox
                \/ FailIncoming(s, c.id)
                \/ c.last /\ inbox' = Replies(s, "complete", c.id)
    BY <1>8, ChunkTaken
  <2>2. c.last => streamer[c.id] = "done"
    BY <2>1 DEF WireInv, ChunksOwned
  <2>3. QED BY <1>3, <1>4, <1>5, <2>1, <2>2
<1>9. ASSUME NEW f \in Transfers, PhoneCancel(f) PROVE CompletesDone'
  <2>1. owner[f] \in Sessions /\ FailIncoming(owner[f], f)
    BY <1>9 DEF PhoneCancel, TaskInv, Owned, TypeOK
  <2>2. QED BY <1>5, <2>1
<1>10. ASSUME NEW s \in Sessions,
             \/ StartSend(s) \/ StopSend(s) \/ DrainOne(s) \/ Deregister(s)
             \/ Register(s) \/ Break(s) \/ PumpStops(s) \/ Flap(s) \/ Drop(s)
      PROVE  UNCHANGED inbox
  BY <1>10 DEF StartSend, StopSend, DrainOne, Deregister, Register, Break,
               PumpStops, Flap, Drop
<1>11. ASSUME NEW f \in Transfers, Http(f) \/ Streamer(f) PROVE UNCHANGED inbox
  BY <1>11 DEF Http, Upload, UploadFails, Dispatch, CancelSend, Streamer, OpenSpool,
               ReadChunk, PushChunk, PushFails
<1>12. UNCHANGED vars => UNCHANGED inbox
  BY DEF vars
<1>13. QED
  BY <1>3, <1>6, <1>7, <1>8, <1>9, <1>10, <1>11, <1>12 DEF Next, Loop, Pump

-----------------------------------------------------------------------------
(* The queues to the phone *)

\* A transfer stays with the session that took it on.
LEMMA OwnerStays ==
    ASSUME TypeOK, QueueInv, [Next]_vars
    PROVE  \A g \in Transfers : owner[g] # Nobody => owner'[g] = owner[g]
<1>0. owner \in [Transfers -> Sessions \cup {Nobody}]
  BY DEF TypeOK
<1>1. ASSUME NEW s \in Sessions, StartSend(s)
      PROVE  \A g \in Transfers : owner[g] # Nobody => owner'[g] = owner[g]
  <2>1. PICK f \in Transfers : owner[f] = Nobody /\ owner' = [owner EXCEPT ![f] = s]
    BY <1>1, TakenOn
  <2>2. QED BY <1>0, <2>1
<1>2. ASSUME NEW s \in Sessions,
             \/ StopSend(s) \/ OnReply(s) \/ DrainOne(s) \/ Deregister(s)
             \/ Register(s) \/ Break(s) \/ Pump(s) \/ Flap(s) \/ Drop(s)
      PROVE  UNCHANGED owner
  BY <1>2 DEF StopSend, OnReply, DrainOne, Deregister, Register, Break, Pump,
              PhoneBegin, PhoneChunk, PumpStops, Flap, Drop, taskVars
<1>3. ASSUME NEW f \in Transfers, Http(f) \/ Streamer(f) \/ PhoneCancel(f)
      PROVE  UNCHANGED owner
  BY <1>3 DEF Http, Upload, UploadFails, Dispatch, CancelSend, Streamer, OpenSpool,
              ReadChunk, PushChunk, PushFails, PhoneCancel, taskVars
<1>4. UNCHANGED vars => UNCHANGED owner
  BY DEF vars, taskVars
<1>5. QED BY <1>1, <1>2, <1>3, <1>4 DEF Next, Loop

\* The steps that touch the chunks.
LEMMA ChunkSteps ==
    ASSUME [Next]_vars
    PROVE  \/ \E f \in Transfers : PushChunk(f)
           \/ \E s \in Sessions : PhoneChunk(s) \/ PumpStops(s)
           \/ UNCHANGED bulk
<1>1. ASSUME NEW f \in Transfers,
             \/ Http(f) \/ OpenSpool(f) \/ ReadChunk(f) \/ PushFails(f)
             \/ PhoneCancel(f)
      PROVE  UNCHANGED bulk
  BY <1>1 DEF Http, Upload, UploadFails, Dispatch, CancelSend, OpenSpool,
              ReadChunk, PushFails, PhoneCancel, queueVars
<1>2. ASSUME NEW s \in Sessions,
             \/ Register(s) \/ Loop(s) \/ Break(s) \/ PhoneBegin(s)
             \/ Flap(s) \/ Drop(s)
      PROVE  UNCHANGED bulk
  BY <1>2 DEF Register, Loop, StartSend, StopSend, OnReply, DrainOne, Deregister,
              Break, PhoneBegin, Flap, Drop, queueVars
<1>3. UNCHANGED vars => UNCHANGED bulk
  BY DEF vars, queueVars
<1>4. QED BY <1>1, <1>2, <1>3 DEF Next, Streamer, Pump

\* A chunk that waits is one of a transfer.
LEMMA ChunkTyped ==
    ASSUME TypeOK, NEW s \in Sessions, NEW k \in 1..Len(bulk[s])
    PROVE  /\ bulk[s][k].id \in Transfers /\ bulk[s][k].seq \in Nat
           /\ bulk[s][k].seq < MaxChunk /\ bulk[s][k].last \in BOOLEAN
<1>1. bulk[s] \in Seq(Chunk)
  BY DEF TypeOK
<1>2. bulk[s][k] \in Chunk
  BY <1>1
<1>3. QED BY <1>2, FileSendAssumption DEF Chunk

\* What holds of one chunk.
Sound(s, c) ==
    /\ owner[c.id] = s
    /\ c.last <=> c.seq + 1 >= MaxChunk
    /\ c.last => streamer[c.id] = "done"

\* Every step keeps the chunks their owner's.
LEMMA ChunksOwnedStep ==
    TypeOK /\ QueueInv /\ TaskInv /\ WireInv /\ [Next]_vars => ChunksOwned'
<1> SUFFICES ASSUME TypeOK, QueueInv, TaskInv, WireInv, [Next]_vars
             PROVE  ChunksOwned'
  OBVIOUS
<1>0. bulk \in [Sessions -> Seq(Chunk)]
  BY DEF TypeOK
<1>1. \A s \in Sessions : \A k \in 1..Len(bulk[s]) : Sound(s, bulk[s][k])
  BY DEF WireInv, ChunksOwned, Sound
<1>2. ASSUME NEW s \in Sessions, NEW k \in 1..Len(bulk[s]), NEW c, c = bulk[s][k]
      PROVE  /\ owner'[c.id] = s /\ (c.last <=> c.seq + 1 >= MaxChunk)
             /\ c.last => streamer'[c.id] = "done"
  <2>1. c.id \in Transfers /\ Sound(s, c)
    BY <1>1, <1>2, ChunkTyped
  <2>2. owner'[c.id] = s
    BY <2>1, OwnerStays, FileSendAssumption DEF Sound
  <2>3. streamer[c.id] = "done" => streamer'[c.id] = "done"
    BY <2>1, DoneStays DEF TaskInv
  <2>4. QED BY <2>1, <2>2, <2>3 DEF Sound
<1>3. ASSUME UNCHANGED bulk PROVE ChunksOwned'
  BY <1>2, <1>3 DEF ChunksOwned
<1>4. ASSUME NEW f \in Transfers, PushChunk(f) PROVE ChunksOwned'
  <2>1. PICK s, e : s = owner[f]
                 /\ e = [id |-> f, seq |-> sent[f], last |-> IsLast(sent[f])]
    OBVIOUS
  <2>2. /\ s \in Sessions /\ e \in Chunk
        /\ bulk' = [bulk EXCEPT ![s] = Append(@, e)]
        /\ streamer' = [streamer EXCEPT ![f] =
                          IF IsLast(sent[f]) THEN "done" ELSE "check"]
        /\ UNCHANGED owner
    BY <1>4, <2>1, ChunkPushed DEF TaskInv
  <2>3. /\ Len(bulk[s]) \in Nat /\ Len(Append(bulk[s], e)) = Len(bulk[s]) + 1
        /\ \A k \in 1..Len(bulk[s]) : Append(bulk[s], e)[k] = bulk[s][k]
        /\ Append(bulk[s], e)[Len(bulk[s]) + 1] = e
    BY <1>0, <2>2, Appended
  <2>4. /\ bulk'[s] = Append(bulk[s], e)
        /\ \A t \in Sessions \ {s} : bulk'[t] = bulk[t]
    BY <1>0, <2>2
  <2>5. /\ owner'[e.id] = s /\ (e.last <=> e.seq + 1 >= MaxChunk)
        /\ e.last => streamer'[e.id] = "done"
    <3>1. e.id = f /\ e.seq = sent[f] /\ e.last = IsLast(sent[f])
      BY <2>1
    <3>2. streamer'[f] = IF IsLast(sent[f]) THEN "done" ELSE "check"
      BY <2>2 DEF TypeOK
    <3>3. QED BY <2>1, <2>2, <3>1, <3>2 DEF IsLast
  <2>6. ASSUME NEW t \in Sessions, NEW k \in 1..Len(bulk'[t]), NEW c, c = bulk'[t][k]
        PROVE  /\ owner'[c.id] = t /\ (c.last <=> c.seq + 1 >= MaxChunk)
               /\ c.last => streamer'[c.id] = "done"
    <3>1. CASE t # s
      BY <1>2, <2>4, <2>6, <3>1
    <3>2. CASE t = s /\ k \in 1..Len(bulk[s])
      <4>1. c = bulk[s][k]
        BY <2>3, <2>4, <2>6, <3>2
      <4>2. QED BY <1>2, <3>2, <4>1
    <3>3. CASE t = s /\ k = Len(bulk[s]) + 1
      <4>1. c = e
        BY <2>3, <2>4, <2>6, <3>3
      <4>2. QED BY <2>5, <3>3, <4>1
    <3>4. QED BY <2>3, <2>4, <3>1, <3>2, <3>3
  <2>7. QED BY <2>6 DEF ChunksOwned
<1>5. ASSUME NEW s \in Sessions, PhoneChunk(s) PROVE ChunksOwned'
  <2>1. /\ Len(bulk[s]) \in Nat \ {0}
        /\ bulk' = [bulk EXCEPT ![s] = Tail(bulk[s])]
        /\ Len(Tail(bulk[s])) = Len(bulk[s]) - 1
        /\ \A k \in 1..Len(Tail(bulk[s])) : Tail(bulk[s])[k] = bulk[s][k + 1]
    BY <1>5, ChunkTaken
  <2>2. /\ bulk'[s] = Tail(bulk[s])
        /\ \A t \in Sessions \ {s} : bulk'[t] = bulk[t]
    BY <1>0, <2>1
  <2>3. ASSUME NEW t \in Sessions, NEW k \in 1..Len(bulk'[t]), NEW c, c = bulk'[t][k]
        PROVE  /\ owner'[c.id] = t /\ (c.last <=> c.seq + 1 >= MaxChunk)
               /\ c.last => streamer'[c.id] = "done"
    <3>1. CASE t # s
      BY <1>2, <2>2, <2>3, <3>1
    <3>2. CASE t = s
      <4>1. k \in 1..Len(Tail(bulk[s]))
        BY <2>2, <3>2
      <4>2. k + 1 \in 1..Len(bulk[s])
        BY <2>1, <4>1
      <4>3. c = bulk[s][k + 1]
        BY <2>1, <2>2, <2>3, <3>2, <4>1
      <4>4. QED BY <1>2, <3>2, <4>2, <4>3
    <3>3. QED BY <3>1, <3>2
  <2>4. QED BY <2>3 DEF ChunksOwned
<1>6. ASSUME NEW s \in Sessions, PumpStops(s) PROVE ChunksOwned'
  <2>1. bulk'[s] = <<>> /\ \A t \in Sessions \ {s} : bulk'[t] = bulk[t]
    BY <1>0, <1>6 DEF PumpStops
  <2>2. QED BY <1>2, <2>1 DEF ChunksOwned
<1>7. QED BY <1>3, <1>4, <1>5, <1>6, ChunkSteps

\* What a failing phone changes.
LEMMA FailedOnly ==
    ASSUME TypeOK, NEW s \in Sessions, NEW f \in Transfers, FailIncoming(s, f)
    PROVE  /\ phone'[f] = "failed" /\ UNCHANGED nextSeq
           /\ \A g \in Transfers \ {f} : phone'[g] = phone[g]
  BY DEF FailIncoming, TypeOK

\* The steps that touch the announcements, and those that only change what
\* the phone has of a transfer it receives.
LEMMA AnnouncementSteps ==
    ASSUME TypeOK, TaskInv, [Next]_vars
    PROVE  \/ \E s \in Sessions : StartSend(s) \/ PhoneBegin(s) \/ PumpStops(s)
           \/ /\ UNCHANGED ctl
              /\ \A g \in Transfers : phone[g] = "none" => phone'[g] = "none"
<1>0. phone \in [Transfers -> {"none", "receiving", "complete", "failed"}]
  BY DEF TypeOK
<1>1. ASSUME NEW f \in Transfers, Http(f) \/ Streamer(f)
      PROVE  UNCHANGED <<ctl, phone>>
  BY <1>1 DEF Http, Upload, UploadFails, Dispatch, CancelSend, Streamer, OpenSpool,
              ReadChunk, PushChunk, PushFails, queueVars, phoneVars
<1>2. ASSUME NEW s \in Sessions,
             \/ Register(s) \/ StopSend(s) \/ OnReply(s) \/ DrainOne(s)
             \/ Deregister(s) \/ Break(s) \/ Flap(s)
      PROVE  UNCHANGED <<ctl, phone>>
  BY <1>2 DEF Register, StopSend, OnReply, DrainOne, Deregister, Break, Flap,
              queueVars, phoneVars
<1>3. ASSUME NEW f \in Transfers, PhoneCancel(f)
      PROVE  /\ UNCHANGED ctl
             /\ \A g \in Transfers : phone[g] = "none" => phone'[g] = "none"
  <2>1. /\ owner[f] \in Sessions /\ phone[f] = "receiving" /\ UNCHANGED ctl
        /\ FailIncoming(owner[f], f)
    BY <1>3 DEF PhoneCancel, TaskInv, Owned, TypeOK, queueVars
  <2>2. QED BY <2>1, FailedOnly
<1>4. ASSUME NEW s \in Sessions, PhoneChunk(s)
      PROVE  /\ UNCHANGED ctl
             /\ \A g \in Transfers : phone[g] = "none" => phone'[g] = "none"
  <2>1. PICK c \in Chunk :
          /\ c.id \in Transfers /\ UNCHANGED ctl
          /\ \/ UNCHANGED phone
             \/ phone[c.id] = "receiving" /\ FailIncoming(s, c.id)
             \/ /\ phone[c.id] = "receiving"
                /\ phone' = [phone EXCEPT ![c.id] = "complete"]
    BY <1>4, ChunkTaken
  <2>2. QED BY <1>0, <2>1, FailedOnly
<1>5. ASSUME NEW s \in Sessions, Drop(s)
      PROVE  /\ UNCHANGED ctl
             /\ \A g \in Transfers : phone[g] = "none" => phone'[g] = "none"
  BY <1>0, <1>5 DEF Drop, queueVars
<1>6. UNCHANGED vars => UNCHANGED <<ctl, phone>>
  BY DEF vars, queueVars, phoneVars
<1>7. QED BY <1>1, <1>2, <1>3, <1>4, <1>5, <1>6 DEF Next, Loop, Pump

\* Every step keeps an announcement single, and ahead of the phone.
LEMMA AnnouncedStep ==
    TypeOK /\ QueueInv /\ TaskInv /\ WireInv /\ [Next]_vars => AnnouncedOnce'
<1> SUFFICES ASSUME TypeOK, QueueInv, TaskInv, WireInv, [Next]_vars
             PROVE  AnnouncedOnce'
  OBVIOUS
<1>0. /\ ctl \in [Sessions -> Seq(Transfers)] /\ owner \in [Transfers -> Sessions \cup {Nobody}]
      /\ phone \in [Transfers -> {"none", "receiving", "complete", "failed"}]
  BY DEF TypeOK
<1>1. \A s \in Sessions : \A k \in 1..Len(ctl[s]) :
        /\ ctl[s][k] \in Transfers
        /\ owner[ctl[s][k]] = s /\ phone[ctl[s][k]] = "none"
        /\ owner'[ctl[s][k]] = s
        /\ \A m \in 1..Len(ctl[s]) : ctl[s][m] = ctl[s][k] => m = k
  <2>1. ASSUME NEW s \in Sessions, NEW k \in 1..Len(ctl[s])
        PROVE  ctl[s][k] \in Transfers /\ owner[ctl[s][k]] = s
    BY <1>0 DEF WireInv, AnnouncedOnce
  <2>2. QED BY <2>1, OwnerStays, FileSendAssumption DEF WireInv, AnnouncedOnce
<1>2. ASSUME NEW s \in Sessions, StartSend(s) PROVE AnnouncedOnce'
  <2>1. PICK f \in Transfers :
          /\ owner[f] = Nobody /\ owner' = [owner EXCEPT ![f] = s]
          /\ ctl' = [ctl EXCEPT ![s] = IF pump[s] = "run" THEN Append(@, f) ELSE @]
    BY <1>2, TakenOn
  <2>2. UNCHANGED phone
    BY <1>2 DEF StartSend, phoneVars
  <2>3. \A t \in Sessions : \A k \in 1..Len(ctl[t]) : ctl[t][k] # f
    BY <1>1, <2>1, FileSendAssumption
  <2>4. phone[f] = "none" /\ owner'[f] = s
    BY <1>0, <2>1 DEF TaskInv, Owned
  <2>5. CASE ctl'[s] = ctl[s]
    <3>1. \A t \in Sessions : ctl'[t] = ctl[t]
      BY <1>0, <2>1, <2>5
    <3>2. QED BY <1>1, <2>2, <3>1 DEF AnnouncedOnce
  <2>6. CASE ctl'[s] = Append(ctl[s], f)
    <3>1. \A t \in Sessions \ {s} : ctl'[t] = ctl[t]
      BY <1>0, <2>1
    <3>2. /\ Len(ctl[s]) \in Nat /\ Len(ctl'[s]) = Len(ctl[s]) + 1
          /\ \A k \in 1..Len(ctl[s]) : ctl'[s][k] = ctl[s][k]
          /\ ctl'[s][Len(ctl[s]) + 1] = f
      BY <1>0, <2>6, Appended
    <3>3. ASSUME NEW t \in Sessions, NEW k \in 1..Len(ctl'[t])
          PROVE  /\ owner'[ctl'[t][k]] = t /\ phone'[ctl'[t][k]] = "none"
                 /\ \A m \in 1..Len(ctl'[t]) : ctl'[t][m] = ctl'[t][k] => m = k
      <4>1. CASE t # s
        BY <1>1, <2>2, <3>1, <4>1
      <4>2. CASE t = s /\ k \in 1..Len(ctl[s])
        <5>1. ctl'[t][k] = ctl[s][k] /\ ctl[s][k] # f
          BY <2>3, <3>2, <4>2
        <5>2. ASSUME NEW m \in 1..Len(ctl'[t]), ctl'[t][m] = ctl'[t][k] PROVE m = k
          <6>1. m # Len(ctl[s]) + 1
            BY <3>2, <4>2, <5>1, <5>2
          <6>2. m \in 1..Len(ctl[s])
            BY <3>2, <4>2, <6>1
          <6>3. ctl[s][m] = ctl[s][k]
            BY <3>2, <4>2, <5>1, <5>2, <6>2
          <6>4. QED BY <1>1, <4>2, <6>2, <6>3
        <5>3. QED BY <1>1, <2>2, <4>2, <5>1, <5>2
      <4>3. CASE t = s /\ k = Len(ctl[s]) + 1
        <5>1. ctl'[t][k] = f
          BY <3>2, <4>3
        <5>2. ASSUME NEW m \in 1..Len(ctl'[t]), ctl'[t][m] = ctl'[t][k] PROVE m = k
          <6>1. m \notin 1..Len(ctl[s])
            BY <2>3, <3>2, <4>3, <5>1, <5>2
          <6>2. QED BY <3>2, <4>3, <6>1
        <5>3. QED BY <2>2, <2>4, <4>3, <5>1, <5>2
      <4>4. QED BY <3>2, <4>1, <4>2, <4>3
    <3>4. QED BY <3>3 DEF AnnouncedOnce
  <2>7. QED BY <1>0, <2>1, <2>5, <2>6
<1>3. ASSUME NEW s \in Sessions, PhoneBegin(s) PROVE AnnouncedOnce'
  <2>1. PICK f \in Transfers :
             /\ f = ctl[s][1] /\ owner[f] = s
             /\ Len(ctl[s]) \in Nat \ {0}
             /\ ctl' = [ctl EXCEPT ![s] = Tail(ctl[s])]
             /\ Len(Tail(ctl[s])) = Len(ctl[s]) - 1
             /\ \A k \in 1..Len(Tail(ctl[s])) : Tail(ctl[s])[k] = ctl[s][k + 1]
             /\ \/ phone' = [phone EXCEPT ![f] = "receiving"]
                \/ FailIncoming(s, f)
    BY <1>3, AnnouncementTaken
  <2>2. \A g \in Transfers \ {f} : phone'[g] = phone[g]
    BY <1>0, <2>1, FailedOnly
  <2>3. ctl'[s] = Tail(ctl[s]) /\ \A t \in Sessions \ {s} : ctl'[t] = ctl[t]
    BY <1>0, <2>1
  <2>4. ASSUME NEW t \in Sessions, t # s, NEW k \in 1..Len(ctl[t])
        PROVE  phone'[ctl[t][k]] = "none"
    BY <1>1, <2>1, <2>2, <2>4
  <2>5. ASSUME NEW k \in 1..Len(Tail(ctl[s]))
        PROVE  /\ k + 1 \in 1..Len(ctl[s]) /\ ctl'[s][k] = ctl[s][k + 1]
               /\ phone'[ctl[s][k + 1]] = "none"
    <3>1. k + 1 \in 1..Len(ctl[s]) /\ 1 \in 1..Len(ctl[s]) /\ k + 1 # 1
      BY <2>1, <2>5
    <3>2. ctl[s][k + 1] # f
      BY <1>1, <2>1, <3>1
    <3>3. QED BY <1>1, <2>1, <2>2, <2>3, <2>5, <3>1, <3>2
  <2>6. ASSUME NEW t \in Sessions, NEW k \in 1..Len(ctl'[t])
        PROVE  /\ owner'[ctl'[t][k]] = t /\ phone'[ctl'[t][k]] = "none"
               /\ \A m \in 1..Len(ctl'[t]) : ctl'[t][m] = ctl'[t][k] => m = k
    <3>1. CASE t # s
      BY <1>1, <2>3, <2>4, <3>1
    <3>2. CASE t = s
      <4>1. k \in 1..Len(Tail(ctl[s]))
        BY <2>3, <3>2
      <4>2. owner'[ctl'[t][k]] = t /\ phone'[ctl'[t][k]] = "none"
        BY <1>1, <2>5, <3>2, <4>1
      <4>3. ASSUME NEW m \in 1..Len(ctl'[t]), ctl'[t][m] = ctl'[t][k] PROVE m = k
        <5>1. m \in 1..Len(Tail(ctl[s]))
          BY <2>3, <3>2
        <5>2. ctl[s][m + 1] = ctl[s][k + 1]
          BY <2>5, <3>2, <4>1, <4>3, <5>1
        <5>3. m + 1 = k + 1
          BY <1>1, <2>5, <4>1, <5>1, <5>2
        <5>4. QED BY <5>3
      <4>4. QED BY <4>2, <4>3
    <3>3. QED BY <3>1, <3>2
  <2>7. QED BY <2>6 DEF AnnouncedOnce
<1>4. ASSUME NEW s \in Sessions, PumpStops(s) PROVE AnnouncedOnce'
  <2>1. /\ ctl'[s] = <<>> /\ \A t \in Sessions \ {s} : ctl'[t] = ctl[t]
        /\ UNCHANGED phone
    BY <1>0, <1>4 DEF PumpStops, phoneVars
  <2>2. QED BY <1>1, <2>1 DEF AnnouncedOnce
<1>5. ASSUME UNCHANGED ctl, \A g \in Transfers : phone[g] = "none" => phone'[g] = "none"
      PROVE  AnnouncedOnce'
  BY <1>1, <1>5 DEF AnnouncedOnce
<1>6. QED BY <1>2, <1>3, <1>4, <1>5, AnnouncementSteps

-----------------------------------------------------------------------------
(* The spool files *)

\* What a session takes out of its table: its streamer is told to stop, or has
\* ended.
LEMMA TakenOut ==
    ASSUME TypeOK, TaskInv, NEW s \in Sessions,
           StopSend(s) \/ OnReply(s) \/ DrainOne(s)
    PROVE  /\ UNCHANGED <<http, owner, streamer, spc>>
           /\ spc[s] \in Looping
           /\ \/ UNCHANGED <<spool, sends, cancelled>>
              \/ \E f \in sends[s] :
                   /\ f \in Transfers /\ http[f] = "ok"
                   /\ spool' = spool \ {f} /\ sends' = [sends EXCEPT ![s] = @ \ {f}]
                   /\ \/ cancelled' = cancelled \cup {f}
                      \/ UNCHANGED cancelled /\ streamer[f] = "done"
<1>1. \A f \in sends[s] : f \in Transfers /\ http[f] = "ok"
  BY FileSendAssumption DEF TypeOK, TaskInv, TableOwned, Owned
<1>2. UNCHANGED <<http, owner, streamer, spc>> /\ spc[s] \in Looping
  BY DEF StopSend, OnReply, DrainOne, httpVars, Looping
<1>3. ASSUME NEW f, Forget(s, f)
      PROVE  /\ spool' = spool \ {f} /\ sends' = [sends EXCEPT ![s] = @ \ {f}]
             /\ cancelled' = cancelled \cup {f}
  BY <1>3 DEF Forget, Flagged
<1>4. CASE StopSend(s)
  <2>1. PICK f : f = Head(cmds[s]).id
    OBVIOUS
  <2>2. (f \in sends[s] /\ Forget(s, f)) \/ UNCHANGED <<spool, sends, cancelled>>
    BY <1>4, <2>1 DEF StopSend
  <2>3. QED BY <1>1, <1>2, <1>3, <2>2
<1>5. CASE DrainOne(s)
  <2>1. PICK f \in sends[s] : Forget(s, f)
    BY <1>5 DEF DrainOne
  <2>2. QED BY <1>1, <1>2, <1>3, <2>1
<1>6. CASE OnReply(s)
  <2>1. PICK r : r = Head(inbox[s])
    OBVIOUS
  <2>2. /\ inbox[s] # <<>>
        /\ \/ r.id \in sends[s] /\ Forget(s, r.id)
           \/ /\ r.id \in sends[s] /\ r.op = "complete"
              /\ sends' = [sends EXCEPT ![s] = @ \ {r.id}]
              /\ spool' = spool \ {r.id} /\ UNCHANGED cancelled
           \/ UNCHANGED <<spool, sends, cancelled>>
    BY <1>6, <2>1 DEF OnReply
  <2>3. inbox[s] \in Seq(Reply)
    BY DEF TypeOK
  <2>4. r = inbox[s][1] /\ Len(inbox[s]) \in Nat \ {0}
    BY <2>1, <2>2, <2>3, Shortened
  <2>5. r.op = "complete" => streamer[r.id] = "done"
    BY <2>4 DEF TaskInv, CompletesDone
  <2>6. QED BY <1>1, <1>2, <1>3, <2>2, <2>5
<1>7. QED BY <1>4, <1>5, <1>6

\* The handlers write and remove what no streamer reads yet.
LEMMA Spooling ==
    ASSUME TypeOK, TaskInv, NEW f \in Transfers,
           Upload(f) \/ UploadFails(f) \/ Dispatch(f)
    PROVE  /\ UNCHANGED <<owner, streamer, cancelled, spc, sends>>
           /\ http[f] \in {"new", "spooling"} /\ streamer[f] = "none"
           /\ \A g \in Transfers \ {f} : /\ http'[g] = http[g]
                                         /\ g \in spool' <=> g \in spool
           /\ \/ http'[f] = "spooling" /\ f \in spool'
              \/ http'[f] = "broken"
              \/ http'[f] = "refused" /\ f \notin spool'
              \/ http'[f] = "ok" /\ slot # Nobody /\ cmds' = ToSlot("send", f)
<1>0. http \in [Transfers -> {"new", "spooling", "ok", "refused", "broken"}]
  BY DEF TypeOK
<1>1. /\ UNCHANGED <<owner, streamer, cancelled, spc, sends>>
      /\ http[f] \in {"new", "spooling"}
  BY DEF Upload, UploadFails, Dispatch, HttpGoto, taskVars, loopVars
<1>2. streamer[f] = "none"
  BY <1>1 DEF TaskInv, Owned
<1>3. \A g \in Transfers \ {f} : http'[g] = http[g] /\ (g \in spool' <=> g \in spool)
  BY <1>0 DEF Upload, UploadFails, Dispatch, HttpGoto, DropSpool
<1>4. CASE Upload(f)
  BY <1>0, <1>1, <1>2, <1>3, <1>4 DEF Upload, HttpGoto
<1>5. CASE UploadFails(f)
  BY <1>0, <1>1, <1>2, <1>3, <1>5 DEF UploadFails, HttpGoto
<1>6. CASE Dispatch(f)
  BY <1>0, <1>1, <1>2, <1>3, <1>6 DEF Dispatch, HttpGoto, DropSpool
<1>7. QED BY <1>4, <1>5, <1>6

\* Every step, as the spool files see it.
LEMMA SpoolSteps ==
    ASSUME [Next]_vars
    PROVE  \/ \E f \in Transfers : Upload(f) \/ UploadFails(f) \/ Dispatch(f)
           \/ \E s \in Sessions : StopSend(s) \/ OnReply(s) \/ DrainOne(s)
           \/ \E s \in Sessions : StartSend(s)
           \/ /\ UNCHANGED <<http, spool, cancelled, sends>>
              /\ \/ \E f \in Transfers : CancelSend(f) \/ Streamer(f)
                 \/ \E s \in Sessions : Register(s) \/ Break(s) \/ Deregister(s)
                 \/ UNCHANGED <<cmds, spc, streamer>>
<1>1. ASSUME NEW f \in Transfers, CancelSend(f) \/ Streamer(f)
      PROVE  UNCHANGED <<http, spool, cancelled, sends>>
  BY <1>1 DEF CancelSend, Streamer, OpenSpool, ReadChunk, PushChunk, PushFails,
              httpVars, taskVars, loopVars
<1>2. ASSUME NEW s \in Sessions, Register(s) \/ Break(s) \/ Deregister(s)
      PROVE  UNCHANGED <<http, spool, cancelled, sends>>
  BY <1>2 DEF Register, Break, Deregister, httpVars, taskVars
<1>3. ASSUME NEW s \in Sessions, Pump(s) \/ Flap(s) \/ Drop(s)
      PROVE  UNCHANGED <<http, spool, cancelled, sends, cmds, spc, streamer>>
  BY <1>3 DEF Pump, PhoneBegin, PhoneChunk, PumpStops, Flap, Drop, httpVars, taskVars,
              loopVars
<1>4. ASSUME NEW f \in Transfers, PhoneCancel(f)
      PROVE  UNCHANGED <<http, spool, cancelled, sends, cmds, spc, streamer>>
  BY <1>4 DEF PhoneCancel, httpVars, taskVars, loopVars
<1>5. UNCHANGED vars
        => UNCHANGED <<http, spool, cancelled, sends, cmds, spc, streamer>>
  BY DEF vars, httpVars, taskVars, loopVars
<1>6. QED BY <1>1, <1>2, <1>3, <1>4, <1>5 DEF Next, Http, Loop

\* Every step keeps what a handler spools.
LEMMA SpooledStep ==
    TypeOK /\ QueueInv /\ TaskInv /\ Spooled /\ [Next]_vars => Spooled'
<1> SUFFICES ASSUME TypeOK, QueueInv, TaskInv, Spooled, [Next]_vars PROVE Spooled'
  OBVIOUS
<1>1. ASSUME NEW f \in Transfers, Upload(f) \/ UploadFails(f) \/ Dispatch(f)
      PROVE  Spooled'
  BY <1>1, Spooling DEF Spooled
<1>2. ASSUME NEW s \in Sessions, StopSend(s) \/ OnReply(s) \/ DrainOne(s)
      PROVE  Spooled'
  BY <1>2, TakenOut DEF Spooled
<1>3. ASSUME NEW s \in Sessions, StartSend(s) PROVE Spooled'
  BY <1>3 DEF StartSend, httpVars, Spooled
<1>4. UNCHANGED <<http, spool>> => Spooled'
  BY DEF Spooled
<1>5. QED BY <1>1, <1>2, <1>3, <1>4, SpoolSteps

\* Every step leaves a spool file somebody who will remove it.
LEMMA SpoolOwnedStep ==
    TypeOK /\ QueueInv /\ TaskInv /\ SpoolOwned /\ [Next]_vars => SpoolOwned'
<1> SUFFICES ASSUME TypeOK, QueueInv, TaskInv, SpoolOwned, [Next]_vars
             PROVE  SpoolOwned'
  OBVIOUS
<1>0. spool \subseteq Transfers /\ sends \in [Sessions -> SUBSET Transfers]
      /\ spc \in [Sessions -> Looping \cup {"fresh", "gone"}]
  BY DEF TypeOK
<1>1. ASSUME UNCHANGED cmds PROVE \A g \in Transfers : Waiting(g) => Waiting(g)'
  BY <1>1 DEF Waiting, Handed
<1>2. ASSUME UNCHANGED <<spc, sends>> PROVE \A g \in Transfers : Tabled(g) => Tabled(g)'
  BY <1>2 DEF Tabled
<1>3. ASSUME NEW f \in Transfers, NEW op \in {"send", "cancel"}, slot # Nobody,
             cmds' = ToSlot(op, f)
      PROVE  /\ \A g \in Transfers : Waiting(g) => Waiting(g)'
             /\ op = "send" => Waiting(f)'
  <2>1. \A t \in Sessions : \A g \in Transfers : \A k \in Nat :
             Handed(t, k, g)' <=>
               \/ Handed(t, k, g)
               \/ op = "send" /\ g = f /\ t = slot /\ k = Len(cmds[slot]) + 1
    BY <1>3, CommandGiven
  <2>2. \A g \in Transfers : Waiting(g) => Waiting(g)'
    BY <2>1 DEF Waiting
  <2>3. slot \in Sessions /\ Len(cmds[slot]) + 1 \in Nat
    BY <1>3 DEF TypeOK
  <2>4. op = "send" => Waiting(f)'
    BY <2>1, <2>3 DEF Waiting
  <2>5. QED BY <2>2, <2>4
<1>4. ASSUME NEW s \in Sessions, cmds[s] # <<>>, cmds' = [cmds EXCEPT ![s] = Tail(@)],
             NEW g \in Transfers, Waiting(g)
      PROVE  \/ Waiting(g)'
             \/ Head(cmds[s]).op = "send" /\ Head(cmds[s]).id = g
  <2>1. PICK t \in Sessions, k \in Nat : Handed(t, k, g)
    BY <1>4 DEF Waiting
  <2>2. \/ t # s /\ Handed(t, k, g)'
        \/ t = s /\ k = 1 /\ Head(cmds[s]).op = "send" /\ Head(cmds[s]).id = g
        \/ t = s /\ k - 1 \in Nat /\ Handed(s, k - 1, g)'
    BY <1>4, <2>1, CommandTaken
  <2>3. QED BY <2>2 DEF Waiting
<1>5. ASSUME NEW f \in Transfers, Upload(f) \/ UploadFails(f) \/ Dispatch(f)
      PROVE  SpoolOwned'
  <2>1. \A g \in Transfers \ {f} : http'[g] = http[g] /\ (g \in spool' <=> g \in spool)
    BY <1>5, Spooling
  <2>2. \A g \in Transfers : Tabled(g) => Tabled(g)'
    BY <1>2, <1>5, Spooling
  <2>3. cmds' = cmds \/ (slot # Nobody /\ cmds' = ToSlot("send", f))
    BY <1>5 DEF Upload, UploadFails, Dispatch
  <2>4. \A g \in Transfers : Waiting(g) => Waiting(g)'
    BY <1>1, <1>3, <2>3
  <2>5. f \in spool' => http'[f] \in {"spooling", "broken"} \/ Waiting(f)'
    BY <1>3, <1>5, Spooling
  <2>6. spool' \subseteq Transfers
    BY <1>0, <1>5 DEF Upload, UploadFails, Dispatch, DropSpool
  <2>7. ASSUME NEW g \in spool', g # f
        PROVE  http'[g] \in {"spooling", "broken"} \/ Waiting(g)' \/ Tabled(g)'
    BY <1>0, <2>1, <2>2, <2>4, <2>6, <2>7 DEF SpoolOwned
  <2>8. QED BY <2>5, <2>7 DEF SpoolOwned
<1>6. ASSUME NEW s \in Sessions, StopSend(s) \/ OnReply(s) \/ DrainOne(s)
      PROVE  SpoolOwned'
  <2>1. \A g \in Transfers : Waiting(g) => Waiting(g)'
    <3>1. CASE StopSend(s)
      BY <1>4, <3>1 DEF StopSend
    <3>2. CASE OnReply(s) \/ DrainOne(s)
      BY <1>1, <3>2 DEF OnReply, DrainOne
    <3>3. QED BY <1>6, <3>1, <3>2
  <2>2. UNCHANGED http
    BY <1>6, TakenOut
  <2>3. ASSUME NEW g \in spool' PROVE g \in spool /\ (Tabled(g) => Tabled(g)')
    <3>1. CASE UNCHANGED <<spool, sends>>
      BY <1>2, <1>6, <2>3, <3>1, TakenOut DEF Tabled
    <3>2. CASE \E f \in sends[s] : /\ spool' = spool \ {f}
                                   /\ sends' = [sends EXCEPT ![s] = @ \ {f}]
      <4>1. PICK f \in sends[s] : /\ spool' = spool \ {f}
                                  /\ sends' = [sends EXCEPT ![s] = @ \ {f}]
        BY <3>2
      <4>2. UNCHANGED spc
        BY <1>6, TakenOut
      <4>3. \A t \in Sessions : g \in sends[t] => g \in sends'[t]
        BY <1>0, <2>3, <4>1
      <4>4. QED BY <2>3, <4>1, <4>2, <4>3 DEF Tabled
    <3>3. QED BY <1>6, <3>1, <3>2, TakenOut
  <2>4. QED BY <1>0, <2>1, <2>2, <2>3 DEF SpoolOwned
<1>7. ASSUME NEW s \in Sessions, StartSend(s) PROVE SpoolOwned'
  <2>1. PICK f \in Transfers :
          /\ cmds[s] # <<>> /\ Head(cmds[s]).id = f
          /\ sends' = [sends EXCEPT ![s] = @ \cup {f}]
          /\ cmds' = [cmds EXCEPT ![s] = Tail(@)]
    BY <1>7, TakenOn
  <2>2. spc[s] = "serve" /\ UNCHANGED <<spc, http, spool>>
    BY <1>7 DEF StartSend, httpVars
  <2>3. Tabled(f)' /\ \A g \in Transfers : Tabled(g) => Tabled(g)'
    BY <1>0, <2>1, <2>2 DEF Tabled, Looping
  <2>4. \A g \in Transfers : Waiting(g) => Waiting(g)' \/ g = f
    BY <1>4, <2>1
  <2>5. QED BY <1>0, <2>2, <2>3, <2>4 DEF SpoolOwned
<1>8. ASSUME UNCHANGED <<http, spool>>,
             \A g \in Transfers : Waiting(g) => Waiting(g)',
             \A g \in Transfers : Tabled(g) => Tabled(g)'
      PROVE  SpoolOwned'
  BY <1>0, <1>8 DEF SpoolOwned
<1>9. ASSUME NEW f \in Transfers, CancelSend(f) PROVE SpoolOwned'
  <2>1. UNCHANGED <<http, spool, spc, sends>>
    BY <1>9 DEF CancelSend, loopVars
  <2>2. \A g \in Transfers : Waiting(g) => Waiting(g)'
    <3>1. cmds' = cmds \/ (slot # Nobody /\ cmds' = ToSlot("cancel", f))
      BY <1>9 DEF CancelSend
    <3>2. QED BY <1>1, <1>3, <3>1
  <2>3. QED BY <1>2, <1>8, <2>1, <2>2
<1>10. ASSUME NEW f \in Transfers, Streamer(f) PROVE UNCHANGED <<http, spool, cmds, spc, sends>>
  BY <1>10 DEF Streamer, OpenSpool, ReadChunk, PushChunk, PushFails, httpVars, loopVars
<1>11. ASSUME NEW s \in Sessions, Register(s) \/ Break(s) \/ Deregister(s)
       PROVE  SpoolOwned'
  <2>1. UNCHANGED <<http, spool, cmds, sends>>
    BY <1>11 DEF Register, Break, Deregister, httpVars
  <2>2. ASSUME NEW t \in Sessions, spc[t] \in Looping
        PROVE  spc'[t] \in Looping \/ sends[t] = {}
    BY <1>0, <1>11, <2>2 DEF Register, Break, Deregister, LoopGoto, Looping
  <2>3. \A g \in Transfers : Tabled(g) => Tabled(g)'
    BY <2>1, <2>2 DEF Tabled
  <2>4. QED BY <1>1, <1>8, <2>1, <2>3
<1>12. UNCHANGED <<http, spool, cmds, spc, sends>> => SpoolOwned'
  BY <1>1, <1>2, <1>8
<1>13. QED
  BY <1>5, <1>6, <1>7, <1>9, <1>10, <1>11, <1>12, SpoolSteps

\* Every step leaves a streamer its spool file.
LEMMA SpoolKeptStep ==
    TypeOK /\ QueueInv /\ TaskInv /\ SpoolKeptWhileStreaming /\ [Next]_vars
        => SpoolKeptWhileStreaming'
<1> SUFFICES ASSUME TypeOK, QueueInv, TaskInv, SpoolKeptWhileStreaming, [Next]_vars
             PROVE  SpoolKeptWhileStreaming'
  OBVIOUS
<1> USE DEF SpoolKeptWhileStreaming
<1>0. streamer \in [Transfers -> {"none", "open", "check", "push", "done"}]
  BY DEF TypeOK
<1>1. ASSUME NEW f \in Transfers, Upload(f) \/ UploadFails(f) \/ Dispatch(f)
      PROVE  SpoolKeptWhileStreaming'
  <2>1. /\ UNCHANGED <<streamer, cancelled>> /\ streamer[f] = "none"
        /\ \A g \in Transfers \ {f} : g \in spool' <=> g \in spool
    BY <1>1, Spooling
  <2>2. QED BY <2>1
<1>2. ASSUME NEW s \in Sessions, StopSend(s) \/ OnReply(s) \/ DrainOne(s)
      PROVE  SpoolKeptWhileStreaming'
  <2>1. /\ UNCHANGED streamer
        /\ \/ UNCHANGED <<spool, cancelled>>
           \/ \E f \in sends[s] :
                /\ spool' = spool \ {f}
                /\ \/ cancelled' = cancelled \cup {f}
                   \/ UNCHANGED cancelled /\ streamer[f] = "done"
    BY <1>2, TakenOut
  <2>2. QED BY <2>1
<1>3. ASSUME NEW s \in Sessions, StartSend(s) PROVE SpoolKeptWhileStreaming'
  <2>1. PICK f \in Transfers : f \in spool /\ streamer' = [streamer EXCEPT ![f] = "open"]
    BY <1>3, TakenOn
  <2>2. UNCHANGED <<cancelled, spool>>
    BY <1>3 DEF StartSend
  <2>3. QED BY <1>0, <2>1, <2>2
<1>4. ASSUME NEW f \in Transfers, Streamer(f), UNCHANGED <<cancelled, spool>>
      PROVE  SpoolKeptWhileStreaming'
  <2>1. /\ streamer[f] \in {"open", "check", "push"}
        /\ \A g \in Transfers \ {f} : streamer'[g] = streamer[g]
    <3>1. CASE PushChunk(f)
      BY <1>0, <3>1 DEF PushChunk, StreamerGoto
    <3>2. CASE OpenSpool(f) \/ ReadChunk(f) \/ PushFails(f)
      BY <1>0, <3>2, StreamerMoves
    <3>3. QED BY <1>4, <3>1, <3>2 DEF Streamer
  <2>2. QED BY <1>4, <2>1
<1>5. ASSUME UNCHANGED <<streamer, cancelled, spool>> PROVE SpoolKeptWhileStreaming'
  BY <1>5
<1>6. ASSUME NEW f \in Transfers, CancelSend(f) PROVE UNCHANGED streamer
  BY <1>6 DEF CancelSend, taskVars
<1>7. ASSUME NEW s \in Sessions, Register(s) \/ Break(s) \/ Deregister(s)
      PROVE  UNCHANGED streamer
  BY <1>7 DEF Register, Break, Deregister, taskVars
<1>8. QED BY <1>1, <1>2, <1>3, <1>4, <1>5, <1>6, <1>7, SpoolSteps

-----------------------------------------------------------------------------
(* The phone *)

\* A transfer becomes complete with its last chunk.
LEMMA WholeStep ==
    TypeOK /\ TaskInv /\ WireInv /\ CompleteIsWhole /\ [Next]_vars => CompleteIsWhole'
<1> SUFFICES ASSUME TypeOK, TaskInv, WireInv, CompleteIsWhole, [Next]_vars
             PROVE  CompleteIsWhole'
  OBVIOUS
<1> USE DEF CompleteIsWhole
<1>0. phone \in [Transfers -> {"none", "receiving", "complete", "failed"}]
      /\ nextSeq \in [Transfers -> 0..MaxChunk]
  BY DEF TypeOK
<1>1. ASSUME NEW s \in Sessions, PhoneBegin(s) PROVE CompleteIsWhole'
  <2>1. PICK f \in Transfers :
          \/ phone' = [phone EXCEPT ![f] = "receiving"] /\ UNCHANGED nextSeq
          \/ FailIncoming(s, f)
    BY <1>1, AnnouncementTaken
  <2>2. QED BY <1>0, <2>1, FailedOnly
<1>2. ASSUME NEW s \in Sessions, PhoneChunk(s) PROVE CompleteIsWhole'
  <2>1. PICK c \in Chunk :
             /\ c = bulk[s][1] /\ c.id \in Transfers /\ c.seq \in 0..(MaxChunk - 1)
             /\ Len(bulk[s]) \in Nat \ {0}
             /\ \/ UNCHANGED <<phone, nextSeq>>
                \/ FailIncoming(s, c.id)
                \/ /\ phone[c.id] = "receiving" /\ c.seq = nextSeq[c.id]
                   /\ nextSeq' = [nextSeq EXCEPT ![c.id] = @ + 1]
                   /\ \/ UNCHANGED phone
                      \/ /\ c.last
                         /\ phone' = [phone EXCEPT ![c.id] = "complete"]
    BY <1>2, ChunkTaken
  <2>2. c.last => c.seq + 1 = MaxChunk
    BY <2>1, FileSendAssumption DEF WireInv, ChunksOwned
  <2>3. QED BY <1>0, <2>1, <2>2, FailedOnly
<1>3. ASSUME NEW f \in Transfers, PhoneCancel(f) PROVE CompleteIsWhole'
  <2>1. owner[f] \in Sessions /\ FailIncoming(owner[f], f)
    BY <1>3 DEF PhoneCancel, TaskInv, Owned, TypeOK
  <2>2. QED BY <2>1, FailedOnly
<1>4. ASSUME NEW s \in Sessions, Drop(s) PROVE CompleteIsWhole'
  BY <1>0, <1>4 DEF Drop
<1>5. ASSUME NEW f \in Transfers, Http(f) \/ Streamer(f) PROVE UNCHANGED <<phone, nextSeq>>
  BY <1>5 DEF Http, Upload, UploadFails, Dispatch, CancelSend, Streamer, OpenSpool,
              ReadChunk, PushChunk, PushFails, phoneVars
<1>6. ASSUME NEW s \in Sessions,
             Register(s) \/ Loop(s) \/ Break(s) \/ PumpStops(s) \/ Flap(s)
      PROVE  UNCHANGED <<phone, nextSeq>>
  BY <1>6 DEF Register, Loop, StartSend, StopSend, OnReply, DrainOne, Deregister,
              Break, PumpStops, Flap, phoneVars
<1>7. UNCHANGED vars => UNCHANGED <<phone, nextSeq>>
  BY DEF vars, phoneVars
<1>8. UNCHANGED <<phone, nextSeq>> => CompleteIsWhole'
  OBVIOUS
<1>9. QED
  BY <1>1, <1>2, <1>3, <1>4, <1>5, <1>6, <1>7, <1>8 DEF Next, Pump

-----------------------------------------------------------------------------
(* The flow of a transfer: announced, then its chunks without a gap *)

\* A step that leaves alone the queues of whatever still flows.
LEMMA FlowKept ==
    ASSUME TypeOK, FlowInv, UNCHANGED <<owner, sent, nextSeq>>,
           \A t \in Sessions : bulk'[t] \in {bulk[t], <<>>},
           \A g \in Transfers : Flows(g)' =>
              /\ Flows(g) /\ phone'[g] = phone[g]
              /\ ctl'[owner[g]] = ctl[owner[g]] /\ bulk'[owner[g]] = bulk[owner[g]]
    PROVE  FlowInv'
<1>1. \A t \in Sessions : \A k \in 1..Len(bulk'[t]) :
         bulk'[t] = bulk[t] /\ k \in 1..Len(bulk[t]) /\ bulk[t][k].id \in Transfers
  <2>1. ASSUME NEW t \in Sessions, NEW k \in 1..Len(bulk'[t])
        PROVE  bulk'[t] = bulk[t] /\ k \in 1..Len(bulk[t]) /\ bulk[t][k].id \in Transfers
    <3>1. bulk'[t] # <<>>
      BY <2>1
    <3>2. bulk'[t] = bulk[t] /\ k \in 1..Len(bulk[t])
      BY <2>1, <3>1
    <3>3. QED BY <3>2, ChunkTyped
  <2>2. QED BY <2>1
<1>2. Announced'
  BY DEF FlowInv, Announced
<1>3. InRange'
  BY <1>1 DEF FlowInv, InRange
<1>4. AllThere'
  <2>1. ASSUME NEW g \in Transfers, NEW q \in Nat, Flows(g)',
               nextSeq'[g] <= q /\ q < sent'[g]
        PROVE  \E k \in 1..Len(bulk'[owner'[g]]) :
                  bulk'[owner'[g]][k].id = g /\ bulk'[owner'[g]][k].seq = q
    <3>1. Flows(g) /\ bulk'[owner[g]] = bulk[owner[g]]
      BY <2>1
    <3>2. QED BY <2>1, <3>1 DEF FlowInv, AllThere
  <2>2. QED BY <2>1 DEF AllThere
<1>5. Rising'
  BY <1>1 DEF FlowInv, Rising
<1>6. NotAhead'
  BY DEF FlowInv, NotAhead
<1>7. QED BY <1>2, <1>3, <1>4, <1>5, <1>6 DEF FlowInv

\* A transfer that is taken on is announced, and has no chunk yet.
LEMMA FlowStarts ==
    ASSUME TypeOK, QueueInv, TaskInv, WireInv, FlowInv, NEW s \in Sessions, StartSend(s)
    PROVE  FlowInv'
<1>0. /\ ctl \in [Sessions -> Seq(Transfers)]
      /\ owner \in [Transfers -> Sessions \cup {Nobody}] /\ Nobody \notin Sessions
      /\ sent \in [Transfers -> 0..MaxChunk] /\ nextSeq \in [Transfers -> 0..MaxChunk]
  BY FileSendAssumption DEF TypeOK
<1>1. PICK f \in Transfers :
        /\ owner[f] = Nobody /\ owner' = [owner EXCEPT ![f] = s]
        /\ ctl' = [ctl EXCEPT ![s] = IF pump[s] = "run" THEN Append(@, f) ELSE @]
  BY TakenOn
<1>2. UNCHANGED <<bulk, pump, sent, nextSeq, phone>>
  BY DEF StartSend, phoneVars
<1>3. /\ phone[f] = "none" /\ sent[f] = 0 /\ owner'[f] = s
      /\ \A g \in Transfers \ {f} : owner'[g] = owner[g] /\ (Flows(g)' <=> Flows(g))
  BY <1>0, <1>1, <1>2 DEF TaskInv, Owned, Flows
<1>4. \A t \in Sessions : \A k \in 1..Len(bulk[t]) :
         bulk[t][k].id \in Transfers \ {f}
  BY <1>0, <1>1, ChunkTyped DEF WireInv, ChunksOwned
<1>5. /\ Len(ctl[s]) \in Nat /\ Len(Append(ctl[s], f)) = Len(ctl[s]) + 1
      /\ \A k \in 1..Len(ctl[s]) : Append(ctl[s], f)[k] = ctl[s][k]
      /\ Append(ctl[s], f)[Len(ctl[s]) + 1] = f
  BY <1>0, Appended
<1>6. Announced'
  <2>1. ASSUME NEW g \in Transfers, Flows(g)', phone'[g] = "none"
        PROVE  \E k \in 1..Len(ctl'[owner'[g]]) : ctl'[owner'[g]][k] = g
    <3>1. CASE g = f
      <4>1. ctl'[s] = Append(ctl[s], f)
        BY <1>0, <1>1, <1>2, <1>3, <2>1, <3>1 DEF Flows
      <4>2. Len(ctl[s]) + 1 \in 1..Len(Append(ctl[s], f))
        BY <1>5
      <4>3. QED BY <1>3, <1>5, <3>1, <4>1, <4>2
    <3>2. CASE g # f
      <4>1. Flows(g) /\ phone[g] = "none" /\ owner'[g] = owner[g]
        BY <1>2, <1>3, <2>1, <3>2
      <4>2. owner[g] \in Sessions
        BY <1>0, <4>1 DEF Flows
      <4>3. PICK k \in 1..Len(ctl[owner[g]]) : ctl[owner[g]][k] = g
        BY <4>1 DEF FlowInv, Announced
      <4>4. k \in 1..Len(ctl'[owner[g]]) /\ ctl'[owner[g]][k] = g
        BY <1>0, <1>1, <1>5, <4>2, <4>3
      <4>5. QED BY <4>1, <4>4
    <3>3. QED BY <3>1, <3>2
  <2>2. QED BY <2>1 DEF Announced
<1>7. InRange'
  <2>1. ASSUME NEW t \in Sessions, NEW k \in 1..Len(bulk'[t]), Flows(bulk[t][k].id)'
        PROVE  nextSeq'[bulk'[t][k].id] <= bulk'[t][k].seq
                 /\ bulk'[t][k].seq < sent'[bulk'[t][k].id]
    <3>1. k \in 1..Len(bulk[t]) /\ bulk'[t][k] = bulk[t][k]
      BY <1>2, <2>1
    <3>2. PICK g \in Transfers \ {f} : g = bulk[t][k].id
      BY <1>4, <3>1
    <3>3. Flows(g)
      BY <1>2, <1>3, <2>1, <3>1, <3>2 DEF Flows
    <3>4. QED BY <1>2, <3>1, <3>2, <3>3 DEF FlowInv, InRange
  <2>2. QED BY <2>1 DEF InRange
<1>8. AllThere'
  <2>1. ASSUME NEW g \in Transfers, NEW q \in Nat, Flows(g)',
               nextSeq'[g] <= q, q < sent'[g]
        PROVE  \E k \in 1..Len(bulk'[owner'[g]]) :
                  bulk'[owner'[g]][k].id = g /\ bulk'[owner'[g]][k].seq = q
    <3>1. g # f
      BY <1>2, <1>3, <2>1
    <3>2. Flows(g) /\ owner'[g] = owner[g] /\ nextSeq[g] <= q /\ q < sent[g]
      BY <1>2, <1>3, <2>1, <3>1
    <3>3. QED BY <1>2, <3>2 DEF FlowInv, AllThere
  <2>2. QED BY <2>1 DEF AllThere
<1>9. Rising'
  <2>1. ASSUME NEW t \in Sessions, NEW j \in 1..Len(bulk'[t]), NEW k \in 1..Len(bulk'[t]),
               j < k, bulk'[t][j].id = bulk'[t][k].id, Flows(bulk[t][j].id)'
        PROVE  bulk'[t][j].seq < bulk'[t][k].seq
    <3>1. /\ j \in 1..Len(bulk[t]) /\ k \in 1..Len(bulk[t])
          /\ bulk'[t][j] = bulk[t][j] /\ bulk'[t][k] = bulk[t][k]
      BY <1>2, <2>1
    <3>2. PICK g \in Transfers \ {f} : g = bulk[t][j].id
      BY <1>4, <3>1
    <3>3. Flows(g)
      BY <1>2, <1>3, <2>1, <3>1, <3>2 DEF Flows
    <3>4. QED BY <2>1, <3>1, <3>2, <3>3 DEF FlowInv, Rising
  <2>2. QED BY <2>1 DEF Rising
<1>10. NotAhead'
  <2>1. nextSeq[f] = 0
    BY <1>1 DEF TaskInv, Owned
  <2>2. QED BY <1>2, <1>3, <2>1 DEF FlowInv, NotAhead
<1>11. QED BY <1>6, <1>7, <1>8, <1>9, <1>10 DEF FlowInv

\* A chunk that is pushed is the next one of its transfer.
LEMMA FlowPushed ==
    ASSUME TypeOK, TaskInv, WireInv, FlowInv, NEW f \in Transfers, PushChunk(f)
    PROVE  FlowInv'
<1>0. /\ bulk \in [Sessions -> Seq(Chunk)] /\ sent \in [Transfers -> 0..MaxChunk]
      /\ nextSeq \in [Transfers -> 0..MaxChunk] /\ MaxChunk \in Nat
  BY FileSendAssumption DEF TypeOK
<1>1. PICK s, e : s = owner[f]
               /\ e = [id |-> f, seq |-> sent[f], last |-> IsLast(sent[f])]
  OBVIOUS
<1>2. /\ s \in Sessions /\ e \in Chunk /\ e.id = f /\ e.seq = sent[f]
      /\ bulk' = [bulk EXCEPT ![s] = Append(@, e)]
      /\ sent' = [sent EXCEPT ![f] = @ + 1]
      /\ UNCHANGED <<owner, phone, pump, ctl, nextSeq>>
  BY <1>1, ChunkPushed DEF TaskInv, phoneVars
<1>3. /\ Len(bulk[s]) \in Nat /\ Len(Append(bulk[s], e)) = Len(bulk[s]) + 1
      /\ \A k \in 1..Len(bulk[s]) : Append(bulk[s], e)[k] = bulk[s][k]
      /\ Append(bulk[s], e)[Len(bulk[s]) + 1] = e
  BY <1>0, <1>2, Appended
<1>4. /\ bulk'[s] = Append(bulk[s], e)
      /\ \A t \in Sessions \ {s} : bulk'[t] = bulk[t]
  BY <1>0, <1>2
<1>5. \A g \in Transfers : /\ Flows(g)' <=> Flows(g)
                           /\ sent[g] \in Nat /\ nextSeq[g] \in Nat
                           /\ sent'[g] = IF g = f THEN sent[f] + 1 ELSE sent[g]
  BY <1>0, <1>2 DEF Flows
<1>6. \A t \in Sessions : \A k \in 1..Len(bulk'[t]) :
         \/ k \in 1..Len(bulk[t]) /\ bulk'[t][k] = bulk[t][k]
         \/ t = s /\ k = Len(bulk[s]) + 1 /\ bulk'[t][k] = e
  BY <1>3, <1>4
<1>7. Announced'
  BY <1>2, <1>5 DEF FlowInv, Announced
<1>8. InRange'
  <2>1. ASSUME NEW t \in Sessions, NEW k \in 1..Len(bulk'[t]), NEW c, c = bulk'[t][k],
               Flows(bulk[t][k].id)'
        PROVE  nextSeq'[c.id] <= c.seq /\ c.seq < sent'[c.id]
    <3>1. CASE k \in 1..Len(bulk[t]) /\ bulk'[t][k] = bulk[t][k]
      <4>1. PICK g \in Transfers : g = c.id /\ c = bulk[t][k]
        BY <2>1, <3>1, ChunkTyped
      <4>2. c.seq \in Nat
        BY <3>1, <4>1, ChunkTyped
      <4>3. Flows(g)
        BY <1>2, <2>1, <3>1, <4>1 DEF Flows
      <4>4. nextSeq[g] <= c.seq /\ c.seq < sent[g]
        BY <3>1, <4>1, <4>3 DEF FlowInv, InRange
      <4>5. QED BY <1>2, <1>5, <4>1, <4>2, <4>4
    <3>2. CASE bulk'[t][k] = e
      <4>1. c = e /\ Flows(f)
        BY <1>2, <2>1, <3>2 DEF Flows
      <4>2. nextSeq[f] <= sent[f]
        BY <4>1 DEF FlowInv, NotAhead
      <4>3. QED BY <1>2, <1>5, <4>1, <4>2
    <3>3. QED BY <1>6, <2>1, <3>1, <3>2
  <2>2. QED BY <2>1 DEF InRange
<1>9. NotAhead'
  BY <1>2, <1>5 DEF FlowInv, NotAhead
<1>10. AllThere'
  <2>1. ASSUME NEW g \in Transfers, NEW q \in Nat, Flows(g)',
               nextSeq'[g] <= q, q < sent'[g]
        PROVE  \E k \in 1..Len(bulk'[owner'[g]]) :
                  bulk'[owner'[g]][k].id = g /\ bulk'[owner'[g]][k].seq = q
    <3>1. CASE g = f /\ q = sent[f]
      <4>1. Len(bulk[s]) + 1 \in 1..Len(bulk'[s])
        BY <1>3, <1>4
      <4>2. bulk'[s][Len(bulk[s]) + 1] = e
        BY <1>3, <1>4
      <4>3. QED BY <1>1, <1>2, <3>1, <4>1, <4>2
    <3>2. CASE ~(g = f /\ q = sent[f])
      <4>1. Flows(g) /\ nextSeq[g] <= q /\ q < sent[g]
        BY <1>2, <1>5, <2>1, <3>2
      <4>2. PICK k \in 1..Len(bulk[owner[g]]) :
               bulk[owner[g]][k].id = g /\ bulk[owner[g]][k].seq = q
        BY <4>1 DEF FlowInv, AllThere
      <4>3. owner[g] \in Sessions
        BY <4>1 DEF Flows, TypeOK
      <4>4. k \in 1..Len(bulk'[owner[g]]) /\ bulk'[owner[g]][k] = bulk[owner[g]][k]
        <5>1. CASE owner[g] = s
          BY <1>3, <1>4, <4>2, <5>1
        <5>2. CASE owner[g] # s
          BY <1>4, <4>2, <4>3, <5>2
        <5>3. QED BY <5>1, <5>2
      <4>5. QED BY <1>2, <4>2, <4>4
    <3>3. QED BY <3>1, <3>2
  <2>2. QED BY <2>1 DEF AllThere
<1>11. Rising'
  <2>1. ASSUME NEW t \in Sessions, NEW j \in 1..Len(bulk'[t]), NEW k \in 1..Len(bulk'[t]),
               j < k, bulk'[t][j].id = bulk'[t][k].id, Flows(bulk[t][j].id)'
        PROVE  bulk'[t][j].seq < bulk'[t][k].seq
    <3>1. Len(bulk[s]) \in Nat /\ Len(bulk[t]) \in Nat
      BY <1>0
    <3>2. j \in 1..Len(bulk[t]) /\ bulk'[t][j] = bulk[t][j]
      BY <1>3, <1>4, <1>6, <2>1, <3>1
    <3>3. PICK g \in Transfers : g = bulk[t][j].id
      BY <3>2, ChunkTyped
    <3>4. Flows(g)
      BY <1>2, <2>1, <3>2, <3>3 DEF Flows
    <3>5. CASE k \in 1..Len(bulk[t]) /\ bulk'[t][k] = bulk[t][k]
      BY <2>1, <3>2, <3>3, <3>4, <3>5 DEF FlowInv, Rising
    <3>6. CASE bulk'[t][k] = e
      <4>1. g = f /\ bulk[t][j].seq < sent[g]
        BY <1>2, <2>1, <3>2, <3>3, <3>4, <3>6 DEF FlowInv, InRange
      <4>2. QED BY <1>2, <3>2, <3>6, <4>1
    <3>7. QED BY <1>6, <2>1, <3>5, <3>6
  <2>2. QED BY <2>1 DEF Rising
<1>12. QED BY <1>7, <1>8, <1>9, <1>10, <1>11 DEF FlowInv

\* The phone hears of the transfer that was announced first.
LEMMA FlowBegins ==
    ASSUME TypeOK, TaskInv, WireInv, FlowInv, NEW s \in Sessions, PhoneBegin(s)
    PROVE  FlowInv'
<1>0. /\ ctl \in [Sessions -> Seq(Transfers)]
      /\ owner \in [Transfers -> Sessions \cup {Nobody}]
      /\ phone \in [Transfers -> {"none", "receiving", "complete", "failed"}]
  BY DEF TypeOK
<1>1. PICK f \in Transfers :
        /\ f = ctl[s][1] /\ owner[f] = s /\ phone[f] = "none"
        /\ Len(ctl[s]) \in Nat \ {0} /\ ctl' = [ctl EXCEPT ![s] = Tail(ctl[s])]
        /\ Len(Tail(ctl[s])) = Len(ctl[s]) - 1
        /\ \A k \in 1..Len(Tail(ctl[s])) : Tail(ctl[s])[k] = ctl[s][k + 1]
        /\ \/ phone' = [phone EXCEPT ![f] = "receiving"] /\ UNCHANGED <<inbox, nextSeq>>
           \/ FailIncoming(s, f)
  BY AnnouncementTaken
<1>2. UNCHANGED <<owner, sent, bulk, pump, nextSeq>> /\ pump[s] = "run"
  BY <1>1 DEF PhoneBegin, FailIncoming, taskVars
<1>3. phone'[f] # "none" /\ \A g \in Transfers \ {f} : phone'[g] = phone[g]
  BY <1>0, <1>1, FailedOnly
<1>4. \A g \in Transfers : Flows(g)' => Flows(g)
  BY <1>1, <1>2, <1>3, FileSendAssumption DEF Flows
<1>5. \A t \in Sessions : \A k \in 1..Len(bulk[t]) : bulk[t][k].id \in Transfers
  BY ChunkTyped
<1>6. Announced'
  <2>1. ASSUME NEW g \in Transfers, Flows(g)', phone'[g] = "none"
        PROVE  \E k \in 1..Len(ctl'[owner'[g]]) : ctl'[owner'[g]][k] = g
    <3>1. g # f /\ phone[g] = "none" /\ Flows(g) /\ owner[g] \in Sessions
      BY <1>0, <1>3, <1>4, <2>1 DEF Flows
    <3>2. PICK k \in 1..Len(ctl[owner[g]]) : ctl[owner[g]][k] = g
      BY <3>1 DEF FlowInv, Announced
    <3>3. CASE owner[g] = s
      <4>1. k # 1
        BY <1>1, <3>1, <3>2, <3>3
      <4>2. k - 1 \in 1..Len(Tail(ctl[s])) /\ (k - 1) + 1 = k
        BY <1>1, <3>2, <3>3, <4>1
      <4>3. Tail(ctl[s])[k - 1] = g
        BY <1>1, <3>2, <3>3, <4>2
      <4>4. ctl'[s] = Tail(ctl[s])
        BY <1>0, <1>1
      <4>5. QED BY <1>2, <3>3, <4>2, <4>3, <4>4
    <3>4. CASE owner[g] # s
      BY <1>0, <1>1, <1>2, <3>1, <3>2, <3>4
    <3>5. QED BY <3>3, <3>4
  <2>2. QED BY <2>1 DEF Announced
<1>7. NotAhead'
  BY <1>2, <1>4 DEF FlowInv, NotAhead
<1>8. InRange'
  BY <1>2, <1>4, <1>5 DEF FlowInv, InRange
<1>9. AllThere'
  BY <1>2, <1>4 DEF FlowInv, AllThere
<1>10. Rising'
  BY <1>2, <1>4, <1>5 DEF FlowInv, Rising
<1>11. QED BY <1>6, <1>7, <1>8, <1>9, <1>10 DEF FlowInv

\* The phone gets a chunk.  If its transfer still flows afterwards, the chunk
\* was the next one.
LEMMA FlowDelivers ==
    ASSUME TypeOK, TaskInv, WireInv, FlowInv, NEW s \in Sessions, PhoneChunk(s)
    PROVE  FlowInv'
<1>0. /\ bulk \in [Sessions -> Seq(Chunk)] /\ owner \in [Transfers -> Sessions \cup {Nobody}]
      /\ phone \in [Transfers -> {"none", "receiving", "complete", "failed"}]
      /\ nextSeq \in [Transfers -> 0..MaxChunk] /\ sent \in [Transfers -> 0..MaxChunk]
      /\ MaxChunk \in Nat
  BY FileSendAssumption DEF TypeOK
<1>1. PICK c \in Chunk :
        /\ c = bulk[s][1] /\ c.id \in Transfers /\ c.seq \in 0..(MaxChunk - 1)
        /\ ctl[s] = <<>> /\ Len(bulk[s]) \in Nat \ {0}
        /\ bulk' = [bulk EXCEPT ![s] = Tail(bulk[s])]
        /\ Len(Tail(bulk[s])) = Len(bulk[s]) - 1
        /\ \A k \in 1..Len(Tail(bulk[s])) : Tail(bulk[s])[k] = bulk[s][k + 1]
        /\ \/ phone[c.id] # "receiving" /\ UNCHANGED <<inbox, phone, nextSeq>>
           \/ phone[c.id] = "receiving" /\ FailIncoming(s, c.id)
           \/ /\ phone[c.id] = "receiving" /\ c.seq = nextSeq[c.id]
              /\ nextSeq' = [nextSeq EXCEPT ![c.id] = @ + 1]
              /\ \/ ~c.last /\ UNCHANGED <<phone, inbox>>
                 \/ /\ c.last
                    /\ phone' = [phone EXCEPT ![c.id] = "complete"]
                    /\ inbox' = Replies(s, "complete", c.id)
        /\ UNCHANGED <<slot, httpVars, spool, loopVars, cmds, taskVars, ctl, pump, link>>
  BY ChunkTaken
<1>2. UNCHANGED <<owner, sent, ctl, pump>> /\ owner[c.id] = s /\ pump[s] = "run"
  <2>1. owner[bulk[s][1].id] = s
    BY <1>1 DEF WireInv, ChunksOwned
  <2>2. QED BY <1>1, <2>1 DEF taskVars, PhoneChunk
<1>3. PICK f \in Transfers : f = c.id
  BY <1>1
<1>4. \A g \in Transfers \ {f} : /\ phone'[g] = phone[g] /\ nextSeq'[g] = nextSeq[g]
                                 /\ Flows(g)' <=> Flows(g)
  <2>1. \A g \in Transfers \ {f} : phone'[g] = phone[g] /\ nextSeq'[g] = nextSeq[g]
    BY <1>0, <1>1, <1>3, FailedOnly
  <2>2. QED BY <1>2, <2>1 DEF Flows
<1>5. Flows(f)' => /\ Flows(f) /\ phone[f] = "receiving" /\ phone'[f] = "receiving"
                   /\ c.seq = nextSeq[f] /\ nextSeq'[f] = nextSeq[f] + 1
  <2>1. CASE phone[f] # "receiving" /\ UNCHANGED phone
    <3>1. Flows(f)' => Flows(f) /\ phone[f] = "none"
      BY <1>2, <2>1 DEF Flows
    <3>2. ~(Flows(f) /\ phone[f] = "none")
      <4>1. Len(ctl[s]) = 0
        BY <1>1
      <4>2. QED BY <1>2, <1>3, <4>1 DEF FlowInv, Announced
    <3>3. QED BY <3>1, <3>2
  <2>2. CASE FailIncoming(s, f)
    BY <2>2, FailedOnly DEF Flows
  <2>3. CASE /\ phone[f] = "receiving" /\ c.seq = nextSeq[f]
             /\ nextSeq' = [nextSeq EXCEPT ![f] = @ + 1] /\ UNCHANGED phone
    BY <1>0, <1>2, <2>3 DEF Flows
  <2>4. CASE phone' = [phone EXCEPT ![f] = "complete"]
    BY <1>0, <2>4 DEF Flows
  <2>5. QED BY <1>1, <1>3, <2>1, <2>2, <2>3, <2>4
<1>6. \A g \in Transfers : Flows(g)' => Flows(g) /\ (phone'[g] = "none" => phone[g] = "none")
  BY <1>4, <1>5
<1>7. /\ bulk'[s] = Tail(bulk[s])
      /\ \A t \in Sessions \ {s} : bulk'[t] = bulk[t]
  BY <1>0, <1>1
<1>8. \A t \in Sessions : \A k \in 1..Len(bulk'[t]) :
         \/ t # s /\ k \in 1..Len(bulk[t]) /\ bulk'[t][k] = bulk[t][k]
         \/ t = s /\ k + 1 \in 1..Len(bulk[s]) /\ bulk'[s][k] = bulk[s][k + 1]
  <2>1. ASSUME NEW k \in 1..Len(Tail(bulk[s]))
        PROVE  k + 1 \in 1..Len(bulk[s]) /\ Tail(bulk[s])[k] = bulk[s][k + 1]
    BY <1>1
  <2>2. QED BY <1>7, <2>1
\* Where a chunk was, and whose it is.
<1>9. \A t \in Sessions : \A k \in 1..Len(bulk'[t]) : \E g \in Transfers :
         /\ g = bulk'[t][k].id /\ bulk'[t][k].seq \in Nat
         /\ g = f => t = s
  <2>1. \A t \in Sessions : \A k \in 1..Len(bulk[t]) :
           /\ bulk[t][k].id \in Transfers /\ bulk[t][k].seq \in Nat
           /\ owner[bulk[t][k].id] = t
    BY ChunkTyped DEF WireInv, ChunksOwned
  <2>2. ASSUME NEW t \in Sessions, NEW k \in 1..Len(bulk'[t])
        PROVE  \E i \in 1..Len(bulk[t]) : bulk'[t][k] = bulk[t][i]
    BY <1>8
  <2>3. ASSUME NEW t \in Sessions, NEW k \in 1..Len(bulk'[t])
        PROVE  \E g \in Transfers : /\ g = bulk'[t][k].id /\ bulk'[t][k].seq \in Nat
                                    /\ g = f => t = s
    <3>1. PICK i \in 1..Len(bulk[t]) : bulk'[t][k] = bulk[t][i]
      BY <2>2
    <3>2. /\ bulk[t][i].id \in Transfers /\ bulk[t][i].seq \in Nat
          /\ owner[bulk[t][i].id] = t
      BY <2>1
    <3>3. QED BY <1>2, <1>3, <3>1, <3>2
  <2>4. QED BY <2>3
<1>10. Announced'
  BY <1>2, <1>6 DEF FlowInv, Announced
<1>11. NotAhead'
  <2>1. Flows(f)' => c.seq < sent[f]
    BY <1>1, <1>3, <1>5 DEF FlowInv, InRange
  <2>2. ASSUME Flows(f)' PROVE nextSeq'[f] <= sent[f]
    BY <1>0, <1>5, <2>1, <2>2
  <2>3. \A g \in Transfers \ {f} : Flows(g)' => nextSeq'[g] <= sent[g]
    BY <1>4 DEF FlowInv, NotAhead
  <2>4. QED BY <1>2, <2>2, <2>3 DEF NotAhead
<1>12. InRange'
  <2>1. ASSUME NEW t \in Sessions, NEW k \in 1..Len(bulk'[t]), NEW d, d = bulk'[t][k],
               Flows(d.id)'
        PROVE  nextSeq'[d.id] <= d.seq /\ d.seq < sent'[d.id]
    <3>1. PICK g \in Transfers : g = d.id /\ d.seq \in Nat /\ (g = f => t = s)
      BY <1>9, <2>1
    <3>2. PICK i \in 1..Len(bulk[t]) : d = bulk[t][i] /\ (t = s => i # 1 /\ i \in Nat)
      BY <1>8, <2>1
    <3>3. Flows(g)
      BY <1>4, <1>5, <2>1, <3>1
    <3>4. nextSeq[g] <= d.seq /\ d.seq < sent[g]
      BY <3>1, <3>2, <3>3 DEF FlowInv, InRange
    <3>5. CASE g # f
      BY <1>2, <1>4, <3>1, <3>4, <3>5
    <3>6. CASE g = f
      <4>1. bulk[s][1] = c /\ 1 \in 1..Len(bulk[s]) /\ i \in 1..Len(bulk[s]) /\ 1 < i
        BY <1>1, <3>1, <3>2, <3>6
      <4>2. c.seq < d.seq
        BY <1>3, <3>1, <3>2, <3>3, <3>6, <4>1 DEF FlowInv, Rising
      <4>3. c.seq = nextSeq[f] /\ nextSeq'[f] = nextSeq[f] + 1
        BY <1>5, <2>1, <3>1, <3>6
      <4>4. nextSeq'[f] <= d.seq
        BY <1>0, <3>1, <4>2, <4>3
      <4>5. QED BY <1>2, <3>1, <3>4, <3>6, <4>4
    <3>7. QED BY <3>5, <3>6
  <2>2. QED BY <2>1 DEF InRange
<1>13. AllThere'
  <2>1. ASSUME NEW g \in Transfers, NEW q \in Nat, Flows(g)',
               nextSeq'[g] <= q, q < sent'[g]
        PROVE  \E k \in 1..Len(bulk'[owner'[g]]) :
                  bulk'[owner'[g]][k].id = g /\ bulk'[owner'[g]][k].seq = q
    <3>1. /\ Flows(g) /\ nextSeq[g] <= q /\ q < sent[g] /\ owner[g] \in Sessions
          /\ g = f => c.seq # q
      <4>1. CASE g = f
        BY <1>0, <1>2, <1>5, <2>1, <4>1 DEF Flows
      <4>2. CASE g # f
        BY <1>0, <1>2, <1>4, <2>1, <4>2 DEF Flows
      <4>3. QED BY <4>1, <4>2
    <3>2. PICK k \in 1..Len(bulk[owner[g]]) :
             bulk[owner[g]][k].id = g /\ bulk[owner[g]][k].seq = q
      BY <3>1 DEF FlowInv, AllThere
    <3>3. CASE owner[g] = s
      <4>1. k # 1
        BY <1>1, <1>3, <3>1, <3>2, <3>3
      <4>2. k - 1 \in 1..Len(Tail(bulk[s])) /\ (k - 1) + 1 = k
        BY <1>1, <3>2, <3>3, <4>1
      <4>3. Tail(bulk[s])[k - 1] = bulk[s][k]
        BY <1>1, <4>2
      <4>4. QED BY <1>2, <1>7, <3>2, <3>3, <4>2, <4>3
    <3>4. CASE owner[g] # s
      BY <1>2, <1>7, <3>1, <3>2, <3>4
    <3>5. QED BY <3>3, <3>4
  <2>2. QED BY <2>1 DEF AllThere
<1>14. Rising'
  <2>1. ASSUME NEW t \in Sessions, NEW j \in 1..Len(bulk'[t]), NEW k \in 1..Len(bulk'[t]),
               NEW d, d = bulk'[t][j], j < k, d.id = bulk'[t][k].id, Flows(d.id)'
        PROVE  d.seq < bulk'[t][k].seq
    <3>1. PICK g \in Transfers : g = d.id
      BY <1>9, <2>1
    <3>2. Flows(g)
      BY <1>6, <2>1, <3>1
    <3>3. CASE t = s
      <4>1. /\ j + 1 \in 1..Len(bulk[s]) /\ k + 1 \in 1..Len(bulk[s]) /\ j + 1 < k + 1
            /\ d = bulk[s][j + 1] /\ bulk'[s][k] = bulk[s][k + 1]
        BY <1>8, <2>1, <3>3
      <4>2. QED BY <2>1, <3>1, <3>2, <3>3, <4>1 DEF FlowInv, Rising
    <3>4. CASE t # s
      <4>1. /\ j \in 1..Len(bulk[t]) /\ k \in 1..Len(bulk[t])
            /\ d = bulk[t][j] /\ bulk'[t][k] = bulk[t][k]
        BY <1>8, <2>1, <3>4
      <4>2. QED BY <2>1, <3>1, <3>2, <4>1 DEF FlowInv, Rising
    <3>5. QED BY <3>3, <3>4
  <2>2. QED BY <2>1 DEF Rising
<1>15. QED BY <1>10, <1>11, <1>12, <1>13, <1>14 DEF FlowInv

\* Whatever the step, what flows goes on.
LEMMA FlowStep ==
    TypeOK /\ QueueInv /\ TaskInv /\ WireInv /\ FlowInv /\ [Next]_vars => FlowInv'
<1> SUFFICES ASSUME TypeOK, QueueInv, TaskInv, WireInv, FlowInv, [Next]_vars
             PROVE  FlowInv'
  OBVIOUS
<1>0. /\ pump \in [Sessions -> {"run", "done"}] /\ ctl \in [Sessions -> Seq(Transfers)]
      /\ bulk \in [Sessions -> Seq(Chunk)] /\ owner \in [Transfers -> Sessions \cup {Nobody}]
      /\ phone \in [Transfers -> {"none", "receiving", "complete", "failed"}]
  BY DEF TypeOK
<1>1. ASSUME NEW f \in Transfers, Http(f) \/ OpenSpool(f) \/ ReadChunk(f) \/ PushFails(f)
      PROVE  UNCHANGED <<owner, sent, nextSeq, phone, pump, ctl, bulk>>
  BY <1>1 DEF Http, Upload, UploadFails, Dispatch, CancelSend, OpenSpool, ReadChunk,
              PushFails, taskVars, queueVars, phoneVars
<1>2. ASSUME NEW s \in Sessions,
             \/ Register(s) \/ StopSend(s) \/ OnReply(s) \/ DrainOne(s)
             \/ Deregister(s) \/ Break(s) \/ Flap(s)
      PROVE  UNCHANGED <<owner, sent, nextSeq, phone, pump, ctl, bulk>>
  BY <1>2 DEF Register, StopSend, OnReply, DrainOne, Deregister, Break, Flap,
              taskVars, queueVars, phoneVars
<1>3. ASSUME UNCHANGED <<owner, sent, nextSeq, pump, ctl, bulk>>,
             \A g \in Transfers : phone'[g] \in {phone[g], "failed"}
      PROVE  FlowInv'
  BY <1>3, FlowKept DEF Flows
<1>4. ASSUME NEW f \in Transfers, PhoneCancel(f) PROVE FlowInv'
  <2>1. /\ UNCHANGED <<owner, sent, nextSeq, pump, ctl, bulk>>
        /\ phone' = [phone EXCEPT ![f] = "failed"]
    BY <1>4 DEF PhoneCancel, FailIncoming, taskVars, queueVars
  <2>2. QED BY <1>0, <1>3, <2>1
<1>5. ASSUME NEW s \in Sessions, Drop(s) PROVE FlowInv'
  <2>1. /\ UNCHANGED <<owner, sent, nextSeq, pump, ctl, bulk>>
        /\ phone' = [f \in Transfers |->
                       IF owner[f] = s /\ phone[f] = "receiving" THEN "failed"
                       ELSE phone[f]]
    BY <1>5 DEF Drop, taskVars, queueVars
  <2>2. QED BY <1>0, <1>3, <2>1
<1>6. ASSUME NEW s \in Sessions, PumpStops(s) PROVE FlowInv'
  <2>1. /\ UNCHANGED <<owner, sent, nextSeq, phone>>
        /\ pump' = [pump EXCEPT ![s] = "done"]
        /\ ctl' = [ctl EXCEPT ![s] = <<>>] /\ bulk' = [bulk EXCEPT ![s] = <<>>]
    BY <1>6 DEF PumpStops, taskVars, phoneVars
  <2>2. \A g \in Transfers : Flows(g)' => Flows(g) /\ owner[g] \in Sessions \ {s}
    BY <1>0, <2>1 DEF Flows
  <2>3. QED BY <1>0, <2>1, <2>2, FlowKept
<1>7. ASSUME UNCHANGED <<owner, sent, nextSeq, phone, pump, ctl, bulk>> PROVE FlowInv'
  BY <1>3, <1>7
<1>8. UNCHANGED vars => UNCHANGED <<owner, sent, nextSeq, phone, pump, ctl, bulk>>
  BY DEF vars, taskVars, queueVars, phoneVars
<1>9. QED
  BY <1>1, <1>2, <1>4, <1>5, <1>6, <1>7, <1>8, FlowStarts, FlowPushed, FlowBegins,
     FlowDelivers
  DEF Next, Loop, Streamer, Pump

-----------------------------------------------------------------------------
(* The invariant *)

\* Nothing is sent at first.
LEMMA DataInit == Init => DataInv
<1> SUFFICES ASSUME Init PROVE DataInv
  OBVIOUS
<1> USE FileSendAssumption DEF Init
<1>1. TypeOK
  BY DEF TypeOK, Looping
<1>2. QueueInv
  BY DEF QueueInv, HandedOnce, HandedFresh, Handed
<1>3. TaskInv
  BY DEF TaskInv, Owned, TableOwned, CompletesDone
<1>4. WireInv
  BY DEF WireInv, ChunksOwned, AnnouncedOnce
<1>5. FlowInv
  BY DEF FlowInv, Announced, NotAhead, InRange, AllThere, Rising, Flows
<1>6. SpoolInv
  BY DEF SpoolInv, Spooled, SpoolOwned, SpoolKeptWhileStreaming
<1>7. CompleteIsWhole
  BY DEF CompleteIsWhole
<1>8. QED BY <1>1, <1>2, <1>3, <1>4, <1>5, <1>6, <1>7 DEF DataInv

\* Every step keeps it: one lemma per part.
LEMMA DataStep == DataInv /\ [Next]_vars => DataInv'
<1> SUFFICES ASSUME DataInv, [Next]_vars PROVE DataInv'
  OBVIOUS
<1>1. /\ TypeOK /\ QueueInv /\ TaskInv /\ WireInv /\ FlowInv /\ CompleteIsWhole
      /\ Spooled /\ SpoolOwned /\ SpoolKeptWhileStreaming
      /\ Owned /\ TableOwned
  BY DEF DataInv, SpoolInv, TaskInv
<1>2. TypeOK'
  BY <1>1, DataTypes
<1>3. QueueInv'
  BY <1>1, QueueStep
<1>4. TaskInv'
  BY <1>1, OwnedStep, TableStep, CompletesStep DEF TaskInv
<1>5. WireInv'
  BY <1>1, ChunksOwnedStep, AnnouncedStep DEF WireInv
<1>6. FlowInv'
  BY <1>1, FlowStep
<1>7. SpoolInv'
  BY <1>1, SpooledStep, SpoolOwnedStep, SpoolKeptStep DEF SpoolInv
<1>8. CompleteIsWhole'
  BY <1>1, WholeStep
<1>9. QED BY <1>2, <1>3, <1>4, <1>5, <1>6, <1>7, <1>8 DEF DataInv

\* It holds in every state of every behaviour.
LEMMA DataInvariant == Spec => []DataInv
  BY DataInit, DataStep, PTL DEF Spec

-----------------------------------------------------------------------------
(* What it gives *)

\* Whatever is sent, spooled, streamed and answered keeps its type, and the
\* bulk queue its capacity (connection.rs, OUTBOUND_BULK_CAP).
THEOREM SendTypes == Spec => []TypeOK
  BY DataInvariant, PTL DEF DataInv

\* A spool file on the disk always has somebody who will remove it: its
\* handler, the queue of a session or a transfer of one (qr_server.rs,
\* connection.rs).
THEOREM SpoolIsOwned == Spec => []SpoolHasOwner
<1>1. DataInv => SpoolHasOwner
  <2> SUFFICES ASSUME DataInv PROVE SpoolHasOwner
    OBVIOUS
  <2>1. /\ spool \subseteq Transfers /\ cmds \in [Sessions -> Seq(Cmd)]
        /\ SpoolOwned
    BY DEF DataInv, TypeOK, SpoolInv
  <2>2. ASSUME NEW f \in spool, Waiting(f)
        PROVE  \E s \in Sessions : f \in Queued(s, "send")
    BY <2>1, <2>2 DEF Waiting, Handed, Queued
  <2>3. QED BY <2>1, <2>2 DEF SpoolHasOwner, SpoolOwned, Tabled
<1>2. QED BY <1>1, DataInvariant, PTL

\* No spool is unlinked under a streamer that still reads it, unless its
\* transfer is cancelled (connection.rs:213-218).
THEOREM SpoolIsKept == Spec => []SpoolKeptWhileStreaming
  BY DataInvariant, PTL DEF DataInv, SpoolInv

\* The phone gets the chunks of a file in order, each once, behind its
\* announcement, and calls complete only the whole file
\* (ConnectionClient.kt:651-660, connection.rs:1018-1021).
THEOREM FileArrivesWhole == Spec => []ArrivesWhole
<1>1. DataInv => ArrivesWhole
  <2> SUFFICES ASSUME DataInv PROVE ArrivesWhole
    OBVIOUS
  <2>1. /\ TypeOK /\ WireInv /\ CompleteIsWhole
        /\ Announced /\ InRange /\ AllThere /\ Rising
    BY DEF DataInv, FlowInv
  <2>2. ASSUME NEW f \in Transfers, Flows(f), NEW s, s = owner[f],
               NEW mine, mine = {k \in DOMAIN bulk[s] : bulk[s][k].id = f}
        PROVE  /\ phone[f] = "none" => \E k \in DOMAIN ctl[s] : ctl[s][k] = f
               /\ {bulk[s][k].seq : k \in mine} = nextSeq[f]..(sent[f] - 1)
               /\ \A j, k \in mine : j < k => bulk[s][j].seq < bulk[s][k].seq
    <3>1. s \in Sessions
      BY <2>1, <2>2 DEF Flows, TypeOK
    <3>2. /\ DOMAIN bulk[s] = 1..Len(bulk[s]) /\ DOMAIN ctl[s] = 1..Len(ctl[s])
          /\ nextSeq[f] \in Nat /\ sent[f] \in Nat
      BY <2>1, <3>1, FileSendAssumption DEF TypeOK
    <3>3. phone[f] = "none" => \E k \in DOMAIN ctl[s] : ctl[s][k] = f
      BY <2>1, <2>2, <3>2 DEF Announced
    <3>4. ASSUME NEW k \in mine
          PROVE  bulk[s][k].seq \in nextSeq[f]..(sent[f] - 1)
      <4>1. k \in 1..Len(bulk[s]) /\ bulk[s][k].id = f
        BY <2>2, <3>2
      <4>2. bulk[s][k].seq \in Nat
        BY <2>1, <3>1, <4>1, ChunkTyped
      <4>3. nextSeq[f] <= bulk[s][k].seq /\ bulk[s][k].seq < sent[f]
        BY <2>1, <2>2, <3>1, <4>1 DEF InRange
      <4>4. QED BY <3>2, <4>2, <4>3
    <3>5. ASSUME NEW q \in nextSeq[f]..(sent[f] - 1)
          PROVE  \E k \in mine : bulk[s][k].seq = q
      <4>1. q \in Nat /\ nextSeq[f] <= q /\ q < sent[f]
        BY <3>2
      <4>2. QED BY <2>1, <2>2, <3>2, <4>1 DEF AllThere
    <3>6. {bulk[s][k].seq : k \in mine} = nextSeq[f]..(sent[f] - 1)
      BY <3>4, <3>5
    <3>7. \A j, k \in mine : j < k => bulk[s][j].seq < bulk[s][k].seq
      BY <2>1, <2>2, <3>1, <3>2 DEF Rising
    <3>8. QED BY <3>3, <3>6, <3>7
  <2>3. ChunksContinue
    BY <2>2 DEF ChunksContinue, Flows
  <2>4. QED BY <2>1, <2>3 DEF ArrivesWhole
<1>2. QED BY <1>1, DataInvariant, PTL
=============================================================================
