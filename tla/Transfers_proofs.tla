-------------------------- MODULE Transfers_proofs --------------------------
(***************************************************************************)
(* Proofs about the files that go from a phone to the PC (FileUpload) and  *)
(* those that come to the phone (PhoneTransfers).                          *)
(***************************************************************************)
EXTENDS FileUpload, PhoneTransfers, Functions, SequenceTheorems, FiniteSetTheorems,
        WellFoundedInduction, TLAPS

(***************************************************************************)
(* That the phone's user is never told that an upload failed which the PC  *)
(* has in full (FailedIsNotThere), for any number of sockets and uploads,  *)
(* any size of file and any part of what is under way lost with a socket.  *)
(*                                                                         *)
(* What makes it true crosses both programs: a thread says that it gives   *)
(* up only before it has sent the last chunk, and only the last chunk      *)
(* makes the PC say complete (LastEnds); and of an upload that the PC has  *)
(* spoken of nothing is left that could make it speak again: it is         *)
(* announced once (BegunOnce), then created, then open (Stages).           *)
(***************************************************************************)

-----------------------------------------------------------------------------
(* Queues *)

\* Nothing comes twice.
Once(q, m) == \A i, j \in 1..Len(q) : q[i] = m /\ q[j] = m => i = j

\* A queue that grows.
LEMMA Grown ==
    ASSUME NEW S, NEW q \in Seq(S), NEW e \in S
    PROVE  /\ Append(q, e) \in Seq(S) /\ Range(Append(q, e)) = Range(q) \union {e}
           /\ \A m : Once(q, m) /\ (m = e => m \notin Range(q)) => Once(Append(q, e), m)
<1>1. /\ Append(q, e) \in Seq(S) /\ Len(Append(q, e)) = Len(q) + 1 /\ Len(q) \in Nat
      /\ Append(q, e)[Len(q) + 1] = e
      /\ \A i \in 1..Len(q) : Append(q, e)[i] = q[i]
  BY AppendProperties
<1>2. /\ Range(Append(q, e)) = {Append(q, e)[i] : i \in 1..Len(q) + 1}
      /\ Range(q) = {q[i] : i \in 1..Len(q)}
  BY <1>1, RangeEquality
<1>3. Range(Append(q, e)) = Range(q) \union {e}
  BY <1>1, <1>2
<1>4. ASSUME NEW m, Once(q, m), m = e => m \notin Range(q)
      PROVE  Once(Append(q, e), m)
  <2> SUFFICES ASSUME NEW i \in 1..Len(q) + 1, NEW j \in 1..Len(q) + 1,
                      Append(q, e)[i] = m, Append(q, e)[j] = m
               PROVE  i = j
    BY <1>1 DEF Once
  <2>1. (i \in 1..Len(q) \/ i = Len(q) + 1) /\ (j \in 1..Len(q) \/ j = Len(q) + 1)
    BY <1>1
  <2>. QED  BY <1>1, <1>2, <1>4, <2>1 DEF Once
<1>. QED  BY <1>1, <1>3, <1>4

\* A queue whose head is taken.
LEMMA Taken ==
    ASSUME NEW S, NEW q \in Seq(S), q # <<>>
    PROVE  /\ Tail(q) \in Seq(S) /\ Range(Tail(q)) \subseteq Range(q)
           /\ Head(q) \in S /\ Head(q) \in Range(q)
           /\ \A m : Once(q, m) => Once(Tail(q), m)
           /\ Once(q, Head(q)) => Head(q) \notin Range(Tail(q))
<1>1. /\ Tail(q) \in Seq(S) /\ Len(Tail(q)) = Len(q) - 1
      /\ Head(q) = q[1] /\ Head(q) \in S /\ Len(q) \in Nat /\ Len(q) > 0
      /\ \A i \in 1..Len(q) - 1 : Tail(q)[i] = q[i + 1]
  BY HeadTailProperties
<1>2. /\ Range(q) = {q[i] : i \in 1..Len(q)}
      /\ Range(Tail(q)) = {Tail(q)[i] : i \in 1..Len(q) - 1}
  BY <1>1, RangeEquality
<1>3. \A i \in 1..Len(q) - 1 : i + 1 \in 1..Len(q) /\ i + 1 # 1 /\ i \in Nat
  BY <1>1
<1>4. 1 \in 1..Len(q)
  BY <1>1
<1>5. ASSUME NEW m, Once(q, m)
      PROVE  Once(Tail(q), m)
  <2> SUFFICES ASSUME NEW i \in 1..Len(q) - 1, NEW j \in 1..Len(q) - 1,
                      Tail(q)[i] = m, Tail(q)[j] = m
               PROVE  i = j
    BY <1>1 DEF Once
  <2>1. i + 1 = j + 1
    BY <1>1, <1>3, <1>5 DEF Once
  <2>. QED  BY <1>3, <2>1
<1>6. Once(q, Head(q)) => Head(q) \notin Range(Tail(q))
  BY <1>1, <1>2, <1>3, <1>4 DEF Once
<1>. QED  BY <1>1, <1>2, <1>3, <1>4, <1>5, <1>6

\* A queue whose end is lost.
LEMMA CutOff ==
    ASSUME NEW S, NEW q \in Seq(S), NEW k \in 0..Len(q)
    PROVE  /\ SubSeq(q, 1, k) \in Seq(S) /\ Range(SubSeq(q, 1, k)) \subseteq Range(q)
           /\ \A m : Once(q, m) => Once(SubSeq(q, 1, k), m)
<1>0. Len(q) \in Nat /\ k \in Nat /\ k <= Len(q)
  BY LenProperties
<1>1. /\ SubSeq(q, 1, k) \in Seq(S) /\ Len(SubSeq(q, 1, k)) = k
      /\ \A i \in 1..k : SubSeq(q, 1, k)[i] = q[i] /\ i \in 1..Len(q)
  <2>1. \A i \in 1..k : i \in 1..Len(q) /\ q[i] \in S
    BY <1>0, ElementOfSeq
  <2>2. /\ SubSeq(q, 1, k) \in Seq(S)
        /\ Len(SubSeq(q, 1, k)) = IF 1 <= k THEN k - 1 + 1 ELSE 0
        /\ \A i \in 1..k - 1 + 1 : SubSeq(q, 1, k)[i] = q[1 + i - 1]
    BY <1>0, <2>1, SubSeqProperties
  <2>3. k - 1 + 1 = k /\ \A i \in 1..k : 1 + i - 1 = i
    BY <1>0
  <2>. QED  BY <2>1, <2>2, <2>3
<1>2. /\ Range(q) = {q[i] : i \in 1..Len(q)}
      /\ Range(SubSeq(q, 1, k)) = {SubSeq(q, 1, k)[i] : i \in 1..k}
  BY <1>1, RangeEquality
<1>. QED  BY <1>0, <1>1, <1>2 DEF Once

-----------------------------------------------------------------------------
(* What an upload leaves on its way *)

Msg(op, u) == [op |-> op, id |-> u]

UploadTypes ==
    /\ home \in [Upload -> Sessions \union {None}]
    /\ thread \in [Upload -> {"none", "reading", "done"}]
    /\ card \in [Upload -> {"none", "sending", "complete", "failed"}]
    /\ wire \in [Sessions -> Seq(Message)] /\ replies \in [Sessions -> Seq(Reply)]
    /\ pc \in [Sessions -> {"loop", "creating", "back"}]
    /\ begun \in [Sessions -> Upload \union {Nobody}]
    /\ open \in [Upload -> BOOLEAN]
    /\ reported \in [Upload -> {"nothing", "failed", "complete"}]
    /\ \A s \in Sessions : pc[s] = "creating" => begun[s] \in Upload
    /\ \A u \in Upload : thread[u] # "none" => home[u] \in Sessions

\* A message of it is under way, at its own socket only.
Waits(op, u) == \E s \in Sessions : Msg(op, u) \in Range(wire[s])
Creating(u)  == \E s \in Sessions : pc[s] = "creating" /\ begun[s] = u

AtHome(u) ==
    \A s \in Sessions :
        (\E op \in {"begin", "chunk", "last", "abort"} : Msg(op, u) \in Range(wire[s]))
            => home[u] = s /\ thread[u] # "none"

\* It is announced once, then created, then open, and only then reported.
BegunOnce(u) == \A s \in Sessions : Once(wire[s], Msg("begin", u))

Stages(u) ==
    /\ thread[u] = "none" => ~Creating(u) /\ ~open[u] /\ reported[u] = "nothing"
    /\ \A s \in Sessions : pc[s] = "creating" /\ begun[s] = u => home[u] = s
    /\ Waits("begin", u) => ~Creating(u) /\ ~open[u] /\ reported[u] = "nothing"
    /\ Creating(u) => ~open[u] /\ reported[u] = "nothing"
    /\ open[u] => reported[u] = "nothing"

\* Its last chunk goes out when its thread is done, and only that one completes
\* it.
LastEnds(u) == Waits("last", u) \/ reported[u] = "complete" => thread[u] = "done"

\* A card says that it failed when its thread has given up before the last chunk,
\* or when the PC has said so.
FailedHow(u) ==
    /\ card[u] = "failed" =>
          \/ reported[u] = "failed"
          \/ thread[u] = "done" /\ ~Waits("last", u) /\ reported[u] # "complete"
    /\ \A s \in Sessions : Msg("failed", u) \in Range(replies[s]) => reported[u] = "failed"

UploadInv(u) == AtHome(u) /\ BegunOnce(u) /\ Stages(u) /\ LastEnds(u) /\ FailedHow(u)

UploadsInv == UploadTypes /\ \A u \in Upload : UploadInv(u)

LEMMA UploadsInit == Init => UploadsInv
<1> SUFFICES ASSUME Init
             PROVE  UploadsInv
  OBVIOUS
<1>0. <<>> \in Seq(Message) /\ <<>> \in Seq(Reply) /\ Range(<<>>) = {} /\ Len(<<>>) = 0
  BY DEF Range
<1>1. UploadTypes
  BY <1>0 DEF Init, UploadTypes
<1>2. ASSUME NEW u \in Upload
      PROVE  UploadInv(u)
  <2>1. /\ \A s \in Sessions : /\ wire[s] = <<>> /\ replies[s] = <<>> /\ pc[s] = "loop"
                               /\ Range(wire[s]) = {} /\ Range(replies[s]) = {}
        /\ ~open[u] /\ reported[u] = "nothing" /\ card[u] = "none"
    BY <1>0 DEF Init
  <2>2. AtHome(u) /\ BegunOnce(u)
    BY <1>0, <2>1 DEF AtHome, BegunOnce, Once
  <2>3. Stages(u) /\ LastEnds(u) /\ FailedHow(u)
    BY <2>1 DEF Stages, LastEnds, FailedHow, Waits, Creating
  <2>. QED  BY <2>2, <2>3 DEF UploadInv
<1>. QED  BY <1>1, <1>2 DEF UploadsInv

\* Of an upload nothing is said, begun or reported.
LEMMA Unconcerned ==
    ASSUME NEW u \in Upload, UploadInv(u),
           home'[u] = home[u], thread'[u] = thread[u], card'[u] = card[u],
           open'[u] = open[u], reported'[u] = reported[u],
           \A s \in Sessions : \A op \in {"begin", "chunk", "last", "abort"} :
               Msg(op, u) \in Range(wire'[s]) => Msg(op, u) \in Range(wire[s]),
           \A s \in Sessions : Once(wire[s], Msg("begin", u)) => Once(wire'[s], Msg("begin", u)),
           \A s \in Sessions : pc'[s] = "creating" /\ begun'[s] = u =>
                                   pc[s] = "creating" /\ begun[s] = u,
           \A s \in Sessions : Msg("failed", u) \in Range(replies'[s]) =>
                                   Msg("failed", u) \in Range(replies[s])
    PROVE  UploadInv(u)'
<1>1. /\ Waits("begin", u)' => Waits("begin", u)
      /\ Waits("last", u)' => Waits("last", u)
      /\ Creating(u)' => Creating(u)
  BY DEF Waits, Creating, Msg
<1>2. AtHome(u)'
  BY DEF UploadInv, AtHome, Msg
<1>3. BegunOnce(u)'
  BY DEF UploadInv, BegunOnce, Once, Msg
<1>4. Stages(u)'
  BY <1>1 DEF UploadInv, Stages
<1>5. LastEnds(u)' /\ FailedHow(u)'
  BY <1>1 DEF UploadInv, LastEnds, FailedHow, Msg
<1>. QED  BY <1>2, <1>3, <1>4, <1>5 DEF UploadInv

\* A message is sent, or taken.
LEMMA Sends ==
    ASSUME UploadTypes, NEW s \in Sessions, NEW u \in Upload,
           NEW op \in {"begin", "chunk", "last", "abort"}, Send(s, op, u)
    PROVE  /\ wire' \in [Sessions -> Seq(Message)]
           /\ Range(wire'[s]) = Range(wire[s]) \union {Msg(op, u)}
           /\ \A m : Once(wire[s], m) /\ (m = Msg(op, u) => m \notin Range(wire[s]))
                         => Once(wire'[s], m)
           /\ \A t \in Sessions : t # s => wire'[t] = wire[t]
<1>1. wire \in [Sessions -> Seq(Message)] /\ wire[s] \in Seq(Message) /\ Msg(op, u) \in Message
  BY DEF UploadTypes, Msg, Message
<1>2. wire' = [wire EXCEPT ![s] = Append(@, Msg(op, u))]
  BY DEF Send, Msg
<1>3. /\ Append(wire[s], Msg(op, u)) \in Seq(Message)
      /\ Range(Append(wire[s], Msg(op, u))) = Range(wire[s]) \union {Msg(op, u)}
      /\ \A m : Once(wire[s], m) /\ (m = Msg(op, u) => m \notin Range(wire[s]))
                    => Once(Append(wire[s], Msg(op, u)), m)
  BY <1>1, Grown
<1>4. wire'[s] = Append(wire[s], Msg(op, u))
  BY <1>1, <1>2
<1>. QED  BY <1>1, <1>2, <1>3, <1>4

LEMMA Takes ==
    ASSUME UploadTypes, NEW s \in Sessions, wire[s] # <<>>, Take(s)
    PROVE  /\ wire' \in [Sessions -> Seq(Message)]
           /\ Head(wire[s]) \in Message /\ Head(wire[s]) \in Range(wire[s])
           /\ \A t \in Sessions : Range(wire'[t]) \subseteq Range(wire[t])
           /\ \A t \in Sessions : \A m : Once(wire[t], m) => Once(wire'[t], m)
           /\ Once(wire[s], Head(wire[s])) => Head(wire[s]) \notin Range(wire'[s])
           /\ \A t \in Sessions : t # s => wire'[t] = wire[t]
           /\ UNCHANGED <<home, thread, card>>
<1>1. wire \in [Sessions -> Seq(Message)] /\ wire[s] \in Seq(Message)
  BY DEF UploadTypes
<1>2. wire' = [wire EXCEPT ![s] = Tail(@)] /\ UNCHANGED <<home, thread, card>>
  BY DEF Take, phoneVars
<1>3. /\ Tail(wire[s]) \in Seq(Message) /\ Range(Tail(wire[s])) \subseteq Range(wire[s])
      /\ Head(wire[s]) \in Message /\ Head(wire[s]) \in Range(wire[s])
      /\ \A m : Once(wire[s], m) => Once(Tail(wire[s]), m)
      /\ Once(wire[s], Head(wire[s])) => Head(wire[s]) \notin Range(Tail(wire[s]))
  BY <1>1, Taken
<1>4. wire'[s] = Tail(wire[s]) /\ \A t \in Sessions : t # s => wire'[t] = wire[t]
  BY <1>1, <1>2
<1>5. wire' \in [Sessions -> Seq(Message)]
  BY <1>1, <1>2, <1>3
<1>. QED  BY <1>2, <1>3, <1>4, <1>5

\* What the PC takes is of an upload of this socket; a begin comes once.
LEMMA TakesOwn ==
    ASSUME UploadsInv, NEW s \in Sessions, wire[s] # <<>>, Take(s),
           NEW m, m = Head(wire[s])
    PROVE  /\ m.id \in Upload /\ home[m.id] = s /\ thread[m.id] # "none"
           /\ m.op \in {"begin", "chunk", "last", "abort"}
           /\ Waits(m.op, m.id)
           /\ m.op = "begin" => \A t \in Sessions : Msg("begin", m.id) \notin Range(wire'[t])
<1>1. UploadTypes /\ m \in Message /\ m \in Range(wire[s])
  BY Takes DEF UploadsInv
<1>2. /\ m.id \in Upload /\ m.op \in {"begin", "chunk", "last", "abort"}
      /\ m = [op |-> m.op, id |-> m.id]
  BY <1>1 DEF Message
<1>3. PICK u \in Upload : u = m.id
  BY <1>2
<1>4. PICK op \in {"begin", "chunk", "last", "abort"} : op = m.op
  BY <1>2
<1>5. m = Msg(op, u) /\ Msg(op, u) \in Range(wire[s])
  BY <1>1, <1>2, <1>3, <1>4 DEF Msg
<1>6. UploadInv(u)
  BY DEF UploadsInv
<1>7. home[u] = s /\ thread[u] # "none" /\ Waits(op, u)
  BY <1>5, <1>6 DEF UploadInv, AtHome, Waits
<1>8. ASSUME op = "begin"
      PROVE  \A t \in Sessions : Msg("begin", u) \notin Range(wire'[t])
  <2>1. Msg("begin", u) \notin Range(wire'[s])
    BY <1>1, <1>5, <1>6, <1>8, Takes DEF UploadInv, BegunOnce
  <2>2. \A t \in Sessions : t # s => Msg("begin", u) \notin Range(wire'[t])
    BY <1>1, <1>6, <1>7, Takes DEF UploadInv, AtHome
  <2>. QED  BY <2>1, <2>2
<1>. QED  BY <1>2, <1>3, <1>4, <1>7, <1>8

\* The PC says something of an upload.
LEMMA Answers ==
    ASSUME UploadTypes, NEW s \in Sessions, NEW u \in Upload,
           NEW op \in {"failed", "complete"}, Answer(s, op, u)
    PROVE  /\ replies' \in [Sessions -> Seq(Reply)]
           /\ reported' \in [Upload -> {"nothing", "failed", "complete"}]
           /\ reported'[u] = op /\ \A w \in Upload : w # u => reported'[w] = reported[w]
           /\ \A t \in Sessions : Range(replies'[t]) \subseteq Range(replies[t]) \union {Msg(op, u)}
<1>1. /\ replies \in [Sessions -> Seq(Reply)] /\ replies[s] \in Seq(Reply)
      /\ reported \in [Upload -> {"nothing", "failed", "complete"}]
      /\ Msg(op, u) \in Reply
  BY DEF UploadTypes, Msg, Reply
<1>2. /\ Append(replies[s], Msg(op, u)) \in Seq(Reply)
      /\ Range(Append(replies[s], Msg(op, u))) = Range(replies[s]) \union {Msg(op, u)}
  BY <1>1, Grown
<1>3. /\ reported' = [reported EXCEPT ![u] = op]
      /\ \/ replies' = [replies EXCEPT ![s] = Append(@, Msg(op, u))]
         \/ replies' = replies
  BY DEF Answer, Msg
<1>4. /\ replies' \in [Sessions -> Seq(Reply)]
      /\ \A t \in Sessions : Range(replies'[t]) \subseteq Range(replies[t]) \union {Msg(op, u)}
  <2>1. CASE replies' = replies
    BY <1>1, <2>1
  <2>2. CASE replies' = [replies EXCEPT ![s] = Append(@, Msg(op, u))]
    <3>1. /\ replies' \in [Sessions -> Seq(Reply)]
          /\ replies'[s] = Append(replies[s], Msg(op, u))
          /\ \A t \in Sessions : t # s => replies'[t] = replies[t]
      BY <1>1, <1>2, <2>2
    <3>. QED  BY <1>2, <3>1
  <2>. QED  BY <1>3, <2>1, <2>2
<1>. QED  BY <1>1, <1>3, <1>4

-----------------------------------------------------------------------------
(* The phone's steps *)

LEMMA UploadFileKeeps ==
    ASSUME UploadsInv, NEW s \in Sessions, NEW u \in Upload, UploadFile(s, u)
    PROVE  UploadsInv'
<1>0. /\ UploadTypes /\ UploadInv(u) /\ thread[u] = "none" /\ Send(s, "begin", u)
      /\ home' = [home EXCEPT ![u] = s] /\ thread' = [thread EXCEPT ![u] = "reading"]
      /\ card' = [card EXCEPT ![u] = "sending"]
      /\ UNCHANGED <<replies, pc, begun, open, reported>>
  BY DEF UploadsInv, UploadFile, pcUnchanged, fileVars
<1>1. /\ wire' \in [Sessions -> Seq(Message)]
      /\ Range(wire'[s]) = Range(wire[s]) \union {Msg("begin", u)}
      /\ \A m : Once(wire[s], m) /\ (m = Msg("begin", u) => m \notin Range(wire[s]))
                    => Once(wire'[s], m)
      /\ \A t \in Sessions : t # s => wire'[t] = wire[t]
  BY <1>0, Sends
<1>2. UploadTypes'
  BY <1>0, <1>1 DEF UploadTypes
<1>3. /\ home'[u] = s /\ thread'[u] = "reading" /\ card'[u] = "sending"
      /\ \A w \in Upload : w # u => home'[w] = home[w] /\ thread'[w] = thread[w]
                                    /\ card'[w] = card[w]
  BY <1>0 DEF UploadTypes
<1>4. ASSUME NEW w \in Upload, w # u
      PROVE  UploadInv(w)'
  <2>1. \A op : Msg(op, w) # Msg("begin", u)
    BY <1>4 DEF Msg
  <2>2. \A t \in Sessions : \A op \in {"begin", "chunk", "last", "abort"} :
            Msg(op, w) \in Range(wire'[t]) => Msg(op, w) \in Range(wire[t])
    BY <1>1, <2>1
  <2>3. \A t \in Sessions : Once(wire[t], Msg("begin", w)) => Once(wire'[t], Msg("begin", w))
    BY <1>1, <2>1
  <2>4. UploadInv(w)
    BY DEF UploadsInv
  <2>. QED  BY <1>0, <1>3, <1>4, <2>2, <2>3, <2>4, Unconcerned
<1>5. UploadInv(u)'
  <2>1. \A t \in Sessions, op \in {"begin", "chunk", "last", "abort"} :
            Msg(op, u) \notin Range(wire[t])
    BY <1>0 DEF UploadInv, AtHome
  <2>2. \A t \in Sessions, op \in {"begin", "chunk", "last", "abort"} :
            Msg(op, u) \in Range(wire'[t]) => t = s /\ op = "begin"
    <3>1. \A op : Msg(op, u) = Msg("begin", u) => op = "begin"
      BY DEF Msg
    <3>. QED  BY <1>1, <2>1, <3>1
  <2>3. AtHome(u)'
    BY <1>3, <2>2 DEF AtHome, Msg
  <2>4. BegunOnce(u)'
    <3>1. \A t \in Sessions : Once(wire[t], Msg("begin", u)) /\ Msg("begin", u) \notin Range(wire[t])
      BY <1>0, <2>1 DEF UploadInv, BegunOnce
    <3>2. \A t \in Sessions : Once(wire'[t], Msg("begin", u))
      BY <1>1, <3>1
    <3>. QED  BY <3>2 DEF BegunOnce, Once, Msg
  <2>5. ~Creating(u) /\ ~open[u] /\ reported[u] = "nothing" /\ ~Waits("last", u)'
    <3>1. ~Waits("last", u)'
      BY <2>2 DEF Waits, Msg
    <3>. QED  BY <1>0, <3>1 DEF UploadInv, Stages
  <2>6. ~Creating(u)' /\ ~open'[u] /\ reported'[u] = "nothing"
    BY <1>0, <2>5 DEF Creating
  <2>7. Stages(u)'
    BY <1>3, <2>6 DEF Stages, Creating
  <2>8. LastEnds(u)' /\ FailedHow(u)'
    BY <1>0, <1>3, <2>5, <2>6 DEF UploadInv, LastEnds, FailedHow, Msg
  <2>. QED  BY <2>3, <2>4, <2>7, <2>8 DEF UploadInv
<1>. QED  BY <1>2, <1>4, <1>5 DEF UploadsInv

\* The thread sends a chunk, the last one or that it gives up, or nothing more.
LEMMA ThreadKeeps ==
    ASSUME UploadsInv, NEW u \in Upload, UploadThread(u)
    PROVE  UploadsInv'
<1>0. /\ UploadTypes /\ UploadInv(u) /\ thread[u] = "reading"
      /\ UNCHANGED <<home, replies, pc, begun, open, reported>>
  BY DEF UploadsInv, UploadThread, SendChunk, SendLast, GiveUp, Polls, pcUnchanged, fileVars
<1>1. PICK s \in Sessions : home[u] = s
  BY <1>0 DEF UploadTypes
<1>2. PICK op \in {"chunk", "last", "abort"} :
          /\ Send(s, op, u) \/ wire' = wire
          /\ \/ op = "chunk" /\ thread' = thread /\ card' = card
             \/ op = "last" /\ thread' = [thread EXCEPT ![u] = "done"] /\ card' = card
             \/ op = "abort" /\ thread' = [thread EXCEPT ![u] = "done"]
                             /\ card' = [card EXCEPT ![u] = "failed"]
  <2>1. CASE SendChunk(u)
    <3>1. Send(s, "chunk", u) /\ thread' = thread /\ card' = card
      BY <1>1, <2>1 DEF SendChunk
    <3>. QED  BY <3>1
  <2>2. CASE SendLast(u)
    <3>1. Send(s, "last", u) /\ thread' = [thread EXCEPT ![u] = "done"] /\ card' = card
      BY <1>1, <2>2 DEF SendLast
    <3>. QED  BY <3>1
  <2>3. CASE GiveUp(u)
    <3>1. /\ Send(s, "abort", u) \/ wire' = wire
          /\ thread' = [thread EXCEPT ![u] = "done"] /\ card' = [card EXCEPT ![u] = "failed"]
      BY <1>1, <2>3 DEF GiveUp, TellAbort
    <3>. QED  BY <3>1
  <2>. QED  BY <2>1, <2>2, <2>3 DEF UploadThread
<1>3. /\ wire' \in [Sessions -> Seq(Message)]
      /\ \A t \in Sessions : Range(wire'[t]) \subseteq Range(wire[t])
             \/ (t = s /\ Range(wire'[t]) \subseteq Range(wire[t]) \union {Msg(op, u)})
      /\ \A t \in Sessions, w \in Upload :
             Once(wire[t], Msg("begin", w)) => Once(wire'[t], Msg("begin", w))
  <2>1. CASE wire' = wire
    BY <1>0, <2>1 DEF UploadTypes
  <2>2. CASE Send(s, op, u)
    <3>1. \A w : Msg("begin", w) # Msg(op, u)
      BY DEF Msg
    <3>2. op \in {"begin", "chunk", "last", "abort"}
      OBVIOUS
    <3>3. /\ wire' \in [Sessions -> Seq(Message)]
          /\ Range(wire'[s]) = Range(wire[s]) \union {Msg(op, u)}
          /\ \A m : Once(wire[s], m) /\ (m = Msg(op, u) => m \notin Range(wire[s]))
                        => Once(wire'[s], m)
          /\ \A t \in Sessions : t # s => wire'[t] = wire[t]
      BY <1>0, <2>2, <3>2, Sends
    <3>. QED  BY <3>1, <3>3
  <2>. QED  BY <1>2, <2>1, <2>2
<1>4. /\ thread' \in [Upload -> {"none", "reading", "done"}]
      /\ card' \in [Upload -> {"none", "sending", "complete", "failed"}]
      /\ thread'[u] # "none" /\ (op # "chunk" => thread'[u] = "done")
      /\ card'[u] = card[u] \/ (op = "abort" /\ card'[u] = "failed")
      /\ \A w \in Upload : w # u => thread'[w] = thread[w] /\ card'[w] = card[w]
  <2>0. /\ thread \in [Upload -> {"none", "reading", "done"}]
        /\ card \in [Upload -> {"none", "sending", "complete", "failed"}]
    BY <1>0 DEF UploadTypes
  <2>1. CASE op = "chunk" /\ thread' = thread /\ card' = card
    BY <1>0, <2>0, <2>1
  <2>2. CASE op = "last" /\ thread' = [thread EXCEPT ![u] = "done"] /\ card' = card
    BY <1>0, <2>0, <2>2
  <2>3. CASE op = "abort" /\ thread' = [thread EXCEPT ![u] = "done"]
             /\ card' = [card EXCEPT ![u] = "failed"]
    BY <1>0, <2>0, <2>3
  <2>. QED  BY <1>2, <2>1, <2>2, <2>3
<1>5. UploadTypes'
  BY <1>0, <1>3, <1>4 DEF UploadTypes
<1>6. ASSUME NEW w \in Upload, w # u
      PROVE  UploadInv(w)'
  <2>1. \A o : Msg(o, w) # Msg(op, u)
    BY <1>6 DEF Msg
  <2>2. \A t \in Sessions : \A o \in {"begin", "chunk", "last", "abort"} :
            Msg(o, w) \in Range(wire'[t]) => Msg(o, w) \in Range(wire[t])
    BY <1>3, <2>1
  <2>3. UploadInv(w) /\ home'[w] = home[w] /\ thread'[w] = thread[w] /\ card'[w] = card[w]
        /\ open'[w] = open[w] /\ reported'[w] = reported[w]
    BY <1>0, <1>4, <1>6 DEF UploadsInv
  <2>4. \A t \in Sessions : /\ pc'[t] = pc[t] /\ begun'[t] = begun[t]
                            /\ replies'[t] = replies[t]
    BY <1>0
  <2>. QED  BY <1>3, <2>2, <2>3, <2>4, Unconcerned
<1>7. UploadInv(u)'
  <2>1. \A t \in Sessions, o \in {"begin", "chunk", "last", "abort"} :
            Msg(o, u) \in Range(wire'[t]) => Msg(o, u) \in Range(wire[t]) \/ (t = s /\ o = op)
    <3> SUFFICES ASSUME NEW t \in Sessions, NEW o \in {"begin", "chunk", "last", "abort"},
                        Msg(o, u) \in Range(wire'[t]), Msg(o, u) \notin Range(wire[t])
                 PROVE  t = s /\ o = op
      OBVIOUS
    <3>1. t = s /\ Msg(o, u) = Msg(op, u)
      BY <1>3
    <3>. QED  BY <3>1 DEF Msg
  <2>2. AtHome(u)'
    BY <1>0, <1>1, <1>4, <2>1 DEF UploadInv, AtHome, Msg
  <2>3. BegunOnce(u)'
    <3>1. \A t \in Sessions : Once(wire'[t], Msg("begin", u))
      BY <1>0, <1>3 DEF UploadInv, BegunOnce
    <3>. QED  BY <3>1 DEF BegunOnce, Once, Msg
  <2>4. (Waits("begin", u)' => Waits("begin", u)) /\ (Creating(u)' => Creating(u))
    <3>1. Waits("begin", u)' => Waits("begin", u)
      BY <2>1 DEF Waits, Msg
    <3>. QED  BY <1>0, <3>1 DEF Creating
  <2>5. Stages(u)'
    BY <1>0, <1>4, <2>4 DEF UploadInv, Stages
  <2>6. ~Waits("last", u) /\ reported[u] # "complete"
    BY <1>0 DEF UploadInv, LastEnds
  <2>7. Waits("last", u)' => op = "last"
    BY <2>1, <2>6 DEF Waits, Msg
  <2>8. LastEnds(u)'
    BY <1>0, <1>4, <2>6, <2>7 DEF LastEnds
  <2>9. FailedHow(u)'
    <3>1. \A t \in Sessions : Msg("failed", u) \in Range(replies'[t]) => reported'[u] = "failed"
      BY <1>0 DEF UploadInv, FailedHow
    <3>2. card'[u] = "failed" => reported'[u] = "failed"
             \/ (thread'[u] = "done" /\ ~Waits("last", u)' /\ reported'[u] # "complete")
      <4>1. reported'[u] = reported[u] /\ reported[u] # "complete"
        BY <1>0, <2>6
      <4>2. CASE op = "abort"
        BY <1>4, <2>7, <4>1, <4>2
      <4>3. CASE op # "abort"
        <5>1. card[u] = "failed" => reported[u] = "failed" \/ thread[u] = "done"
          BY <1>0 DEF UploadInv, FailedHow
        <5>. QED  BY <1>0, <1>4, <4>1, <4>3, <5>1
      <4>. QED  BY <4>2, <4>3
    <3>. QED  BY <3>1, <3>2 DEF FailedHow, Msg
  <2>. QED  BY <2>2, <2>3, <2>5, <2>8, <2>9 DEF UploadInv
<1>. QED  BY <1>5, <1>6, <1>7 DEF UploadsInv

\* A step that is about no upload.
LEMMA Passes ==
    ASSUME UploadsInv, UploadTypes', UNCHANGED <<home, thread, card, open, reported>>,
           \A s \in Sessions : Range(wire'[s]) \subseteq Range(wire[s]),
           \A s \in Sessions : \A m : Once(wire[s], m) => Once(wire'[s], m),
           \A s \in Sessions : Range(replies'[s]) \subseteq Range(replies[s]),
           UNCHANGED <<pc, begun>>
    PROVE  UploadsInv'
<1>1. ASSUME NEW u \in Upload
      PROVE  UploadInv(u)'
  <2>1. UploadInv(u)
    BY DEF UploadsInv
  <2>. QED  BY <2>1, Unconcerned
<1>. QED  BY <1>1 DEF UploadsInv

LEMMA CancelKeeps ==
    ASSUME UploadsInv, NEW u \in Upload, CancelUpload(u)
    PROVE  UploadsInv'
<1>1. UNCHANGED <<home, thread, card, wire, replies, pc, begun, open, reported>>
  BY DEF CancelUpload, wireVars, pcUnchanged, fileVars
<1>2. UploadTypes'
  BY <1>1 DEF UploadsInv, UploadTypes
<1>. QED  BY <1>1, <1>2, Passes

LEMMA LinkDownKeeps ==
    ASSUME UploadsInv, NEW s \in Sessions, LinkDown(s)
    PROVE  UploadsInv'
<1>1. /\ UNCHANGED <<home, thread, card, pc, begun, open, reported>>
      /\ replies' = [replies EXCEPT ![s] = <<>>]
  BY DEF LinkDown, phoneVars, pcUnchanged, fileVars
<1>2. /\ wire \in [Sessions -> Seq(Message)] /\ replies \in [Sessions -> Seq(Reply)]
      /\ wire[s] \in Seq(Message)
  BY DEF UploadsInv, UploadTypes
<1>3. PICK k \in 0..Len(wire[s]) : wire' = [wire EXCEPT ![s] = SubSeq(@, 1, k)]
  BY DEF LinkDown
<1>4. /\ SubSeq(wire[s], 1, k) \in Seq(Message)
      /\ Range(SubSeq(wire[s], 1, k)) \subseteq Range(wire[s])
      /\ \A m : Once(wire[s], m) => Once(SubSeq(wire[s], 1, k), m)
  BY <1>2, CutOff
<1>5. /\ wire' \in [Sessions -> Seq(Message)] /\ wire'[s] = SubSeq(wire[s], 1, k)
      /\ \A t \in Sessions : t # s => wire'[t] = wire[t]
  BY <1>2, <1>3, <1>4
<1>6. /\ \A t \in Sessions : Range(wire'[t]) \subseteq Range(wire[t])
      /\ \A t \in Sessions : \A m : Once(wire[t], m) => Once(wire'[t], m)
  BY <1>4, <1>5
<1>7. <<>> \in Seq(Reply) /\ Range(<<>>) = {}
  BY DEF Range
<1>8. /\ replies' \in [Sessions -> Seq(Reply)]
      /\ \A t \in Sessions : Range(replies'[t]) \subseteq Range(replies[t])
  <2>1. replies' \in [Sessions -> Seq(Reply)] /\ replies'[s] = <<>>
        /\ \A t \in Sessions : t # s => replies'[t] = replies[t]
    BY <1>1, <1>2, <1>7
  <2>. QED  BY <1>7, <2>1
<1>9. UploadTypes'
  BY <1>1, <1>5, <1>8 DEF UploadsInv, UploadTypes
<1>. QED  BY <1>1, <1>6, <1>8, <1>9, Passes

\* What the PC has said of an upload is shown on its card.
LEMMA OnReplyKeeps ==
    ASSUME UploadsInv, NEW s \in Sessions, OnReply(s)
    PROVE  UploadsInv'
<1>1. /\ UploadTypes /\ replies[s] # <<>>
      /\ card' = [card EXCEPT ![Head(replies[s]).id] = Head(replies[s]).op]
      /\ replies' = [replies EXCEPT ![s] = Tail(@)]
      /\ UNCHANGED <<home, thread, wire, pc, begun, open, reported>>
  BY DEF OnReply, UploadsInv, pcUnchanged, fileVars
<1>2. /\ replies \in [Sessions -> Seq(Reply)] /\ replies[s] \in Seq(Reply)
      /\ card \in [Upload -> {"none", "sending", "complete", "failed"}]
  BY <1>1 DEF UploadTypes
<1>3. /\ Tail(replies[s]) \in Seq(Reply) /\ Range(Tail(replies[s])) \subseteq Range(replies[s])
      /\ Head(replies[s]) \in Reply /\ Head(replies[s]) \in Range(replies[s])
  BY <1>1, <1>2, Taken
<1>4. PICK u \in Upload, op \in {"failed", "complete"} : Head(replies[s]) = Msg(op, u)
  BY <1>3 DEF Reply, Msg
<1>5. card' = [card EXCEPT ![u] = op]
  <2>1. Head(replies[s]).id = u /\ Head(replies[s]).op = op
    BY <1>4 DEF Msg
  <2>. QED  BY <1>1, <2>1
<1>6. /\ replies' \in [Sessions -> Seq(Reply)]
      /\ \A t \in Sessions : Range(replies'[t]) \subseteq Range(replies[t])
  <2>1. replies' \in [Sessions -> Seq(Reply)] /\ replies'[s] = Tail(replies[s])
        /\ \A t \in Sessions : t # s => replies'[t] = replies[t]
    BY <1>1, <1>2, <1>3
  <2>. QED  BY <1>3, <2>1
<1>7. /\ card' \in [Upload -> {"none", "sending", "complete", "failed"}]
      /\ card'[u] = op /\ \A w \in Upload : w # u => card'[w] = card[w]
  BY <1>2, <1>5
<1>8. UploadTypes'
  BY <1>1, <1>6, <1>7 DEF UploadTypes
<1>9. ASSUME NEW w \in Upload
      PROVE  UploadInv(w)'
  <2>1. UploadInv(w)
    BY DEF UploadsInv
  <2>2. CASE w # u
    BY <1>1, <1>6, <1>7, <2>1, <2>2, Unconcerned
  <2>3. CASE w = u
    <3>1. /\ Waits("begin", u)' = Waits("begin", u) /\ Waits("last", u)' = Waits("last", u)
          /\ Creating(u)' = Creating(u)
      BY <1>1 DEF Waits, Creating, Msg
    <3>2. AtHome(u)' /\ BegunOnce(u)' /\ Stages(u)' /\ LastEnds(u)'
      BY <1>1, <2>1, <2>3, <3>1 DEF UploadInv, AtHome, BegunOnce, Once, Stages, LastEnds, Msg
    <3>3. op = "failed" => reported[u] = "failed"
      BY <1>3, <1>4, <2>1, <2>3 DEF UploadInv, FailedHow
    <3>4. \A t \in Sessions : Msg("failed", u) \in Range(replies'[t]) => reported'[u] = "failed"
      BY <1>1, <1>6, <2>1, <2>3 DEF UploadInv, FailedHow
    <3>5. FailedHow(u)'
      BY <1>1, <1>7, <3>3, <3>4 DEF FailedHow, Msg
    <3>. QED  BY <2>3, <3>2, <3>5 DEF UploadInv
  <2>. QED  BY <2>2, <2>3
<1>. QED  BY <1>8, <1>9 DEF UploadsInv

-----------------------------------------------------------------------------
(* The PC's steps *)

\* An upload is over on the PC, or was never begun.
LEMMA Ended ==
    ASSUME NEW u \in Upload, UploadInv(u), thread[u] # "none",
           home'[u] = home[u], thread'[u] = thread[u], card'[u] = card[u],
           ~open'[u],
           \A s \in Sessions : Range(wire'[s]) \subseteq Range(wire[s]),
           \A s \in Sessions : Msg("begin", u) \notin Range(wire'[s]),
           \A s \in Sessions : Once(wire[s], Msg("begin", u)) => Once(wire'[s], Msg("begin", u)),
           \A s \in Sessions : ~(pc'[s] = "creating" /\ begun'[s] = u),
           reported'[u] = "complete" => reported[u] = "complete" \/ Waits("last", u),
           reported[u] = "failed" => reported'[u] = "failed",
           \A s \in Sessions : Msg("failed", u) \in Range(replies'[s]) => reported'[u] = "failed"
    PROVE  UploadInv(u)'
<1>1. ~Waits("begin", u)' /\ ~Creating(u)' /\ (Waits("last", u)' => Waits("last", u))
  BY DEF Waits, Creating, Msg
<1>2. AtHome(u)'
  BY DEF UploadInv, AtHome, Msg
<1>3. BegunOnce(u)'
  BY DEF UploadInv, BegunOnce, Once, Msg
<1>4. Stages(u)'
  BY <1>1 DEF Stages, Creating
<1>5. LastEnds(u)'
  BY <1>1 DEF UploadInv, LastEnds
<1>6. FailedHow(u)'
  <2>1. card'[u] = "failed" => \/ reported'[u] = "failed"
                               \/ /\ thread'[u] = "done" /\ ~Waits("last", u)'
                                  /\ reported'[u] # "complete"
    BY <1>1 DEF UploadInv, FailedHow
  <2>. QED  BY <2>1 DEF FailedHow, Msg
<1>. QED  BY <1>2, <1>3, <1>4, <1>5, <1>6 DEF UploadInv

\* Every step that takes a message and closes what it is of.
LEMMA ClosesKeeps ==
    ASSUME UploadsInv, NEW s \in Sessions, wire[s] # <<>>, Take(s),
           NEW m, m = Head(wire[s]), NEW op \in {"failed", "complete"},
           m.op = "begin" \/ open[m.id],
           op = "complete" => m.op = "last",
           \/ Answer(s, op, m.id)
           \/ open[m.id] /\ UNCHANGED <<replies, reported>>,
           open' = [open EXCEPT ![m.id] = FALSE],
           UNCHANGED <<pc, begun>>
    PROVE  UploadsInv'
<1>0. UploadTypes /\ open \in [Upload -> BOOLEAN] /\ UNCHANGED <<home, thread, card>>
  BY Takes DEF UploadsInv, UploadTypes
<1>1. /\ m.id \in Upload /\ thread[m.id] # "none" /\ Waits(m.op, m.id)
      /\ m.op = "begin" => \A t \in Sessions : Msg("begin", m.id) \notin Range(wire'[t])
  BY TakesOwn
<1>2. PICK u \in Upload : u = m.id
  BY <1>1
<1>3. /\ wire' \in [Sessions -> Seq(Message)]
      /\ \A t \in Sessions : Range(wire'[t]) \subseteq Range(wire[t])
      /\ \A t \in Sessions : \A x : Once(wire[t], x) => Once(wire'[t], x)
  BY <1>0, Takes
<1>4. /\ replies' \in [Sessions -> Seq(Reply)]
      /\ reported' \in [Upload -> {"nothing", "failed", "complete"}]
      /\ \A w \in Upload : w # u => reported'[w] = reported[w]
      /\ \/ /\ reported'[u] = op
            /\ \A t \in Sessions : Range(replies'[t]) \subseteq Range(replies[t]) \union {Msg(op, u)}
         \/ open[u] /\ UNCHANGED <<replies, reported>>
  <2>1. CASE Answer(s, op, u)
    <3>1. /\ replies' \in [Sessions -> Seq(Reply)]
          /\ reported' \in [Upload -> {"nothing", "failed", "complete"}]
          /\ reported'[u] = op /\ \A w \in Upload : w # u => reported'[w] = reported[w]
          /\ \A t \in Sessions : Range(replies'[t]) \subseteq Range(replies[t]) \union {Msg(op, u)}
      BY <1>0, <2>1, Answers
    <3>. QED  BY <3>1
  <2>2. CASE open[u] /\ UNCHANGED <<replies, reported>>
    BY <1>0, <2>2 DEF UploadTypes
  <2>. QED  BY <1>2, <2>1, <2>2
<1>5. /\ open' \in [Upload -> BOOLEAN] /\ ~open'[u]
      /\ \A w \in Upload : w # u => open'[w] = open[w]
  BY <1>0, <1>2
<1>6. UploadTypes'
  BY <1>0, <1>3, <1>4, <1>5 DEF UploadTypes
<1>7. ASSUME NEW w \in Upload, w # u
      PROVE  UploadInv(w)'
  <2>1. UploadInv(w)
    BY DEF UploadsInv
  <2>2. Msg("failed", w) # Msg(op, u)
    BY <1>7 DEF Msg
  <2>3. \A t \in Sessions : Msg("failed", w) \in Range(replies'[t]) =>
                                Msg("failed", w) \in Range(replies[t])
    BY <1>4, <2>2
  <2>4. /\ home'[w] = home[w] /\ thread'[w] = thread[w] /\ card'[w] = card[w]
        /\ open'[w] = open[w] /\ reported'[w] = reported[w]
    BY <1>0, <1>4, <1>5, <1>7
  <2>. QED  BY <1>3, <2>1, <2>3, <2>4, Unconcerned
<1>8. UploadInv(u)'
  <2>1. UploadInv(u) /\ Stages(u)
    BY DEF UploadsInv, UploadInv
  <2>2. Waits("begin", u) \/ open[u]
    BY <1>1, <1>2
  <2>3. reported[u] = "nothing" /\ ~Creating(u)
    BY <2>1, <2>2 DEF Stages
  <2>4. \A t \in Sessions : Msg("begin", u) \notin Range(wire'[t])
    <3>1. CASE open[u]
      <4>1. ~Waits("begin", u)
        BY <2>1, <3>1 DEF Stages
      <4>. QED  BY <1>3, <4>1 DEF Waits
    <3>2. CASE ~open[u]
      BY <1>1, <1>2, <3>2
    <3>. QED  BY <3>1, <3>2
  <2>5. \A t \in Sessions : ~(pc'[t] = "creating" /\ begun'[t] = u)
    BY <2>3 DEF Creating
  <2>6. reported'[u] = "complete" => Waits("last", u)
    BY <1>1, <1>2, <1>4, <2>3
  <2>7. \A t \in Sessions : Msg("failed", u) \in Range(replies'[t]) => reported'[u] = "failed"
    <3>1. \A t \in Sessions : Msg("failed", u) \notin Range(replies[t])
      BY <2>1, <2>3 DEF UploadInv, FailedHow
    <3>2. Msg("failed", u) = Msg(op, u) => op = "failed"
      BY DEF Msg
    <3>. QED  BY <1>4, <3>1, <3>2
  <2>. QED  BY <1>0, <1>1, <1>2, <1>3, <1>5, <2>1, <2>3, <2>4, <2>5, <2>6, <2>7, Ended
<1>. QED  BY <1>6, <1>7, <1>8 DEF UploadsInv

\* The steps that close an upload, and those that drop a message or write.
LEMMA TakingKeeps ==
    ASSUME UploadsInv, NEW s \in Sessions,
           Refuse(s) \/ ChunkFails(s) \/ LastChunk(s) \/ Abort(s) \/ Stray(s) \/ Chunk(s)
    PROVE  UploadsInv'
<1>0. /\ UploadTypes /\ wire[s] # <<>> /\ Take(s) /\ UNCHANGED <<pc, begun>>
  BY DEF UploadsInv, Refuse, ChunkFails, LastChunk, Abort, Stray, Chunk, AtHead
<1>1. PICK m : m = Head(wire[s])
  OBVIOUS
<1>2. m.id \in Upload /\ Waits(m.op, m.id)
  BY <1>0, <1>1, TakesOwn
<1>3. open \in [Upload -> BOOLEAN]
  BY <1>0 DEF UploadTypes
<1>4. CASE Refuse(s)
  <2>1. m.op = "begin" /\ Answer(s, "failed", m.id) /\ open' = open
    BY <1>1, <1>4 DEF Refuse, AtHead
  <2>2. ~open[m.id]
    BY <1>2, <2>1 DEF UploadsInv, UploadInv, Stages
  <2>3. open' = [open EXCEPT ![m.id] = FALSE]
    BY <1>2, <1>3, <2>1, <2>2
  <2>. QED  BY <1>0, <1>1, <2>1, <2>3, ClosesKeeps
<1>5. CASE ChunkFails(s)
  <2>1. open[m.id] /\ Answer(s, "failed", m.id) /\ open' = [open EXCEPT ![m.id] = FALSE]
    BY <1>1, <1>5 DEF ChunkFails
  <2>. QED  BY <1>0, <1>1, <2>1, ClosesKeeps
<1>6. CASE LastChunk(s)
  <2>1. /\ open[m.id] /\ m.op = "last" /\ Answer(s, "complete", m.id)
        /\ open' = [open EXCEPT ![m.id] = FALSE]
    BY <1>1, <1>6 DEF LastChunk, AtHead
  <2>. QED  BY <1>0, <1>1, <2>1, ClosesKeeps
<1>7. CASE Abort(s)
  <2>1. /\ open[m.id] /\ UNCHANGED <<replies, reported>>
        /\ open' = [open EXCEPT ![m.id] = FALSE]
    BY <1>1, <1>7 DEF Abort
  <2>. QED  BY <1>0, <1>1, <2>1, ClosesKeeps
<1>8. CASE Stray(s) \/ Chunk(s)
  <2>1. UNCHANGED <<open, reported, replies>>
    BY <1>8 DEF Stray, Chunk, fileVars
  <2>2. /\ wire' \in [Sessions -> Seq(Message)]
        /\ \A t \in Sessions : Range(wire'[t]) \subseteq Range(wire[t])
        /\ \A t \in Sessions : \A x : Once(wire[t], x) => Once(wire'[t], x)
        /\ UNCHANGED <<home, thread, card>>
    BY <1>0, Takes
  <2>3. UploadTypes'
    BY <1>0, <2>1, <2>2 DEF UploadTypes
  <2>. QED  BY <1>0, <2>1, <2>2, <2>3, Passes
<1>. QED  BY <1>4, <1>5, <1>6, <1>7, <1>8

LEMMA BeginKeeps ==
    ASSUME UploadsInv, NEW s \in Sessions, Begin(s)
    PROVE  UploadsInv'
<1>0. /\ UploadTypes /\ wire[s] # <<>> /\ Take(s) /\ pc[s] = "loop"
      /\ UNCHANGED <<replies, open, reported>>
  BY DEF UploadsInv, Begin, AtHead
<1>1. PICK m : m = Head(wire[s])
  OBVIOUS
<1>2. /\ m.op = "begin" /\ begun' = [begun EXCEPT ![s] = m.id]
      /\ pc' = [pc EXCEPT ![s] = "creating"]
  BY <1>1 DEF Begin, AtHead
<1>3. /\ m.id \in Upload /\ home[m.id] = s /\ thread[m.id] # "none" /\ Waits(m.op, m.id)
      /\ \A t \in Sessions : Msg("begin", m.id) \notin Range(wire'[t])
  BY <1>0, <1>1, <1>2, TakesOwn
<1>4. PICK u \in Upload : u = m.id
  BY <1>3
<1>5. /\ wire' \in [Sessions -> Seq(Message)]
      /\ \A t \in Sessions : Range(wire'[t]) \subseteq Range(wire[t])
      /\ \A t \in Sessions : \A x : Once(wire[t], x) => Once(wire'[t], x)
      /\ UNCHANGED <<home, thread, card>>
  BY <1>0, Takes
<1>6. /\ pc' \in [Sessions -> {"loop", "creating", "back"}]
      /\ begun' \in [Sessions -> Upload \union {Nobody}]
      /\ pc'[s] = "creating" /\ begun'[s] = u
      /\ \A t \in Sessions : t # s => pc'[t] = pc[t] /\ begun'[t] = begun[t]
  BY <1>0, <1>2, <1>4 DEF UploadTypes
<1>7. UploadTypes'
  BY <1>0, <1>5, <1>6 DEF UploadTypes
<1>8. ASSUME NEW w \in Upload
      PROVE  UploadInv(w)'
  <2>1. UploadInv(w)
    BY DEF UploadsInv
  <2>2. CASE w # u
    <3>1. \A t \in Sessions : pc'[t] = "creating" /\ begun'[t] = w =>
                                  pc[t] = "creating" /\ begun[t] = w
      BY <1>6, <2>2
    <3>. QED  BY <1>0, <1>5, <2>1, <3>1, Unconcerned
  <2>3. CASE w = u
    <3>1. ~Waits("begin", u)' /\ (Waits("last", u)' => Waits("last", u))
      BY <1>3, <1>4, <1>5 DEF Waits, Msg
    <3>2. AtHome(u)' /\ BegunOnce(u)'
      BY <1>5, <2>1, <2>3 DEF UploadInv, AtHome, BegunOnce, Once, Msg
    <3>3. ~open[u] /\ reported[u] = "nothing" /\ ~Creating(u)
      BY <1>2, <1>3, <1>4, <2>1, <2>3 DEF UploadInv, Stages
    <3>4. \A t \in Sessions : pc'[t] = "creating" /\ begun'[t] = u => home'[u] = t
      BY <1>3, <1>4, <1>5, <1>6, <3>3 DEF Creating
    <3>5. Stages(u)'
      <4>1. thread'[u] # "none" /\ ~open'[u] /\ reported'[u] = "nothing"
        BY <1>0, <1>3, <1>4, <1>5, <3>3
      <4>. QED  BY <3>1, <3>4, <4>1 DEF Stages
    <3>6. LastEnds(u)' /\ FailedHow(u)'
      BY <1>0, <1>5, <2>1, <2>3, <3>1 DEF UploadInv, LastEnds, FailedHow, Msg
    <3>. QED  BY <2>3, <3>2, <3>5, <3>6 DEF UploadInv
  <2>. QED  BY <2>2, <2>3
<1>. QED  BY <1>7, <1>8 DEF UploadsInv

\* The file is created, or could not be.
LEMMA CreateKeeps ==
    ASSUME UploadsInv, NEW s \in Sessions, Create(s) \/ CreateFails(s)
    PROVE  UploadsInv'
<1>0. /\ UploadTypes /\ pc[s] = "creating" /\ pc' = [pc EXCEPT ![s] = "loop"]
      /\ UNCHANGED <<home, thread, card, wire, begun>>
  BY DEF UploadsInv, Create, CreateFails, phoneVars, wireVars
<1>1. PICK u \in Upload : u = begun[s]
  BY <1>0 DEF UploadTypes
<1>2. UploadInv(u) /\ Creating(u)
  BY <1>0, <1>1 DEF UploadsInv, Creating
<1>3. thread[u] # "none" /\ home[u] = s /\ ~open[u] /\ reported[u] = "nothing" /\ ~Waits("begin", u)
  BY <1>0, <1>1, <1>2 DEF UploadInv, Stages
<1>4. /\ pc' \in [Sessions -> {"loop", "creating", "back"}] /\ pc'[s] = "loop"
      /\ \A t \in Sessions : t # s => pc'[t] = pc[t]
  BY <1>0 DEF UploadTypes
<1>5. \A t \in Sessions : ~(pc'[t] = "creating" /\ begun'[t] = u)
  BY <1>0, <1>2, <1>3, <1>4 DEF UploadInv, Stages
<1>6. /\ open' \in [Upload -> BOOLEAN] /\ replies' \in [Sessions -> Seq(Reply)]
      /\ reported' \in [Upload -> {"nothing", "failed", "complete"}]
      /\ \A w \in Upload : w # u => open'[w] = open[w] /\ reported'[w] = reported[w]
      /\ \/ open'[u] /\ UNCHANGED <<replies, reported>>
         \/ /\ ~open'[u] /\ reported'[u] = "failed"
            /\ \A t \in Sessions : Range(replies'[t]) \subseteq Range(replies[t]) \union {Msg("failed", u)}
  <2>1. CASE Create(s)
    <3>1. open' = [open EXCEPT ![u] = TRUE] /\ UNCHANGED <<replies, reported>>
      BY <1>1, <2>1 DEF Create, wireVars
    <3>. QED  BY <1>0, <3>1 DEF UploadTypes
  <2>2. CASE CreateFails(s)
    <3>1. Answer(s, "failed", u) /\ open' = open
      BY <1>1, <2>2 DEF CreateFails
    <3>2. /\ replies' \in [Sessions -> Seq(Reply)]
          /\ reported' \in [Upload -> {"nothing", "failed", "complete"}]
          /\ reported'[u] = "failed" /\ \A w \in Upload : w # u => reported'[w] = reported[w]
          /\ \A t \in Sessions : Range(replies'[t]) \subseteq Range(replies[t]) \union {Msg("failed", u)}
      BY <1>0, <3>1, Answers
    <3>3. open \in [Upload -> BOOLEAN]
      BY <1>0 DEF UploadTypes
    <3>. QED  BY <1>3, <3>1, <3>2, <3>3
  <2>. QED  BY <2>1, <2>2
<1>7. UploadTypes'
  BY <1>0, <1>4, <1>6 DEF UploadTypes
<1>8. ASSUME NEW w \in Upload, w # u
      PROVE  UploadInv(w)'
  <2>1. UploadInv(w)
    BY DEF UploadsInv
  <2>2. Msg("failed", w) # Msg("failed", u)
    BY <1>8 DEF Msg
  <2>3. \A t \in Sessions : Msg("failed", w) \in Range(replies'[t]) =>
                                Msg("failed", w) \in Range(replies[t])
    BY <1>6, <2>2
  <2>4. \A t \in Sessions : pc'[t] = "creating" /\ begun'[t] = w =>
                                pc[t] = "creating" /\ begun[t] = w
    BY <1>0, <1>4
  <2>. QED  BY <1>0, <1>6, <1>8, <2>1, <2>3, <2>4, Unconcerned
<1>9. UploadInv(u)'
  <2>1. \A t \in Sessions : Msg("failed", u) \notin Range(replies[t])
    BY <1>2, <1>3 DEF UploadInv, FailedHow
  <2>2. CASE open'[u] /\ UNCHANGED <<replies, reported>>
    <3>1. AtHome(u)' /\ BegunOnce(u)'
      BY <1>0, <1>2 DEF UploadInv, AtHome, BegunOnce, Once, Msg
    <3>2. ~Waits("begin", u)' /\ Waits("last", u)' = Waits("last", u) /\ ~Creating(u)'
      BY <1>0, <1>3, <1>5 DEF Waits, Creating, Msg
    <3>3. thread'[u] # "none" /\ open'[u] /\ reported'[u] = "nothing"
      BY <1>0, <1>3, <2>2
    <3>4. Stages(u)'
      BY <1>5, <3>2, <3>3 DEF Stages, Creating
    <3>5. LastEnds(u)' /\ FailedHow(u)'
      BY <1>0, <1>2, <2>2, <3>2 DEF UploadInv, LastEnds, FailedHow, Msg
    <3>. QED  BY <3>1, <3>4, <3>5 DEF UploadInv
  <2>3. CASE ~open'[u] /\ reported'[u] = "failed"
    <3>1. \A t \in Sessions : Msg("begin", u) \notin Range(wire'[t])
      BY <1>0, <1>3 DEF Waits
    <3>. QED  BY <1>0, <1>2, <1>3, <1>5, <2>3, <3>1, Ended
  <2>. QED  BY <1>6, <2>2, <2>3
<1>. QED  BY <1>7, <1>8, <1>9 DEF UploadsInv

\* The socket is gone: what is open of it is closed.
LEMMA LeaveKeeps ==
    ASSUME UploadsInv, NEW s \in Sessions, Leave(s)
    PROVE  UploadsInv'
<1>0. /\ UploadTypes /\ pc[s] = "loop" /\ pc' = [pc EXCEPT ![s] = "back"]
      /\ open' = [u \in Upload |-> open[u] /\ ~(home[u] = s /\ open[u])]
      /\ UNCHANGED <<home, thread, card, wire, replies, begun, reported>>
  BY DEF UploadsInv, Leave, phoneVars, wireVars
<1>1. /\ pc' \in [Sessions -> {"loop", "creating", "back"}] /\ pc'[s] = "back"
      /\ \A t \in Sessions : t # s => pc'[t] = pc[t]
  BY <1>0 DEF UploadTypes
<1>2. open' \in [Upload -> BOOLEAN]
  BY <1>0 DEF UploadTypes
<1>3. UploadTypes'
  BY <1>0, <1>1, <1>2 DEF UploadTypes
<1>4. \A t \in Sessions : \A w : pc'[t] = "creating" /\ begun'[t] = w =>
                                 pc[t] = "creating" /\ begun[t] = w
  BY <1>0, <1>1
<1>5. ASSUME NEW w \in Upload
      PROVE  UploadInv(w)'
  <2>1. UploadInv(w) /\ Stages(w)
    BY DEF UploadsInv, UploadInv
  <2>2. open'[w] = open[w] \/ (open[w] /\ ~open'[w])
    BY <1>0 DEF UploadTypes
  <2>3. CASE open'[w] = open[w]
    BY <1>0, <1>4, <2>1, <2>3, Unconcerned
  <2>4. CASE open[w] /\ ~open'[w]
    <3>1. ~Waits("begin", w) /\ ~Creating(w) /\ thread[w] # "none"
      BY <2>1, <2>4 DEF Stages
    <3>2. /\ \A t \in Sessions : Msg("begin", w) \notin Range(wire'[t])
          /\ \A t \in Sessions : ~(pc'[t] = "creating" /\ begun'[t] = w)
      BY <1>0, <1>4, <3>1 DEF Waits, Creating
    <3>3. \A t \in Sessions : Msg("failed", w) \in Range(replies'[t]) => reported'[w] = "failed"
      BY <1>0, <2>1 DEF UploadInv, FailedHow
    <3>. QED  BY <1>0, <2>1, <2>4, <3>1, <3>2, <3>3, Ended
  <2>. QED  BY <2>2, <2>3, <2>4
<1>. QED  BY <1>3, <1>5 DEF UploadsInv

-----------------------------------------------------------------------------
\* Every step keeps the invariant.
LEMMA UploadsStep == UploadsInv /\ [Next]_vars => UploadsInv'
<1> SUFFICES ASSUME UploadsInv, [Next]_vars
             PROVE  UploadsInv'
  OBVIOUS
<1>1. CASE UNCHANGED vars
  <2>1. UNCHANGED <<home, thread, card, wire, replies, pc, begun, open, reported>>
    BY <1>1 DEF vars, phoneVars, wireVars, fileVars
  <2>2. UploadTypes'
    BY <2>1 DEF UploadsInv, UploadTypes
  <2>. QED  BY <2>1, <2>2, Passes
<1>2. ASSUME NEW s \in Sessions, NEW u \in Upload, UploadFile(s, u)
      PROVE  UploadsInv'
  BY <1>2, UploadFileKeeps
<1>3. ASSUME NEW s \in Sessions, OnReply(s) \/ LinkDown(s) \/ Leave(s)
      PROVE  UploadsInv'
  BY <1>3, OnReplyKeeps, LinkDownKeeps, LeaveKeeps
<1>4. ASSUME NEW s \in Sessions, Handle(s)
      PROVE  UploadsInv'
  BY <1>4, TakingKeeps, BeginKeeps, CreateKeeps DEF Handle
<1>5. ASSUME NEW u \in Upload, UploadThread(u) \/ CancelUpload(u)
      PROVE  UploadsInv'
  BY <1>5, ThreadKeeps, CancelKeeps
<1>. QED  BY <1>1, <1>2, <1>3, <1>4, <1>5 DEF Next

\* The user is never told that an upload failed which the PC has in full: the
\* card fails on the PC's word or before the last chunk is sent, and only that
\* one makes the PC say complete (ConnectionClient.kt:453-460, 506-512).
THEOREM FailuresAreTrue == Spec => []FailedIsNotThere
<1>1. UploadsInv => FailedIsNotThere
  BY DEF UploadsInv, UploadInv, FailedHow, FailedIsNotThere
<1>. QED  BY <1>1, UploadsInit, UploadsStep, PTL DEF Spec

-----------------------------------------------------------------------------
(***************************************************************************)
(* That Downloads holds whole files and those being written, and no other  *)
(* (DownloadsWhole), for any number of phones, as long as no two of their  *)
(* sessions are at once between the look for a free path and the create    *)
(* (OneCreates): those two may get one path, and then it is false          *)
(* (OwnFile).                                                              *)
(*                                                                         *)
(* The PC says complete when it has read the last chunk, and counts        *)
(* nothing.  That all others came before follows from the order of the     *)
(* wire (Ordered), and from the sum of what is written and under way,      *)
(* which is what was sent of an upload that can still be completed         *)
(* (Accounted).                                                            *)
(***************************************************************************)

(* Order and number *)

\* In a queue every a is before every b.
Precedes(q, a, b) == \A i, j \in 1..Len(q) : q[i] = a /\ q[j] = b => i < j

\* Where m is in a queue, and how often.
Places(q, m) == {i \in 1..Len(q) : q[i] = m}
Times(q, m) == Cardinality(Places(q, m))

LEMMA Counted ==
    ASSUME NEW S, NEW q \in Seq(S), NEW m
    PROVE  /\ IsFiniteSet(Places(q, m)) /\ Times(q, m) \in Nat
           /\ m \notin Range(q) => Times(q, m) = 0
<1>1. Len(q) \in Nat /\ Range(q) = {q[i] : i \in 1..Len(q)}
  BY LenProperties, RangeEquality
<1>2. IsFiniteSet(1..Len(q)) /\ Places(q, m) \in SUBSET (1..Len(q))
  BY <1>1, FS_Interval DEF Places
<1>3. IsFiniteSet(Places(q, m))
  BY <1>2, FS_Subset
<1>4. m \notin Range(q) => Places(q, m) = {}
  BY <1>1 DEF Places
<1>. QED  BY <1>3, <1>4, FS_CardinalityType, FS_EmptySet DEF Times

\* A queue that grows.
LEMMA GrownOrder ==
    ASSUME NEW S, NEW q \in Seq(S), NEW e \in S
    PROVE  /\ \A m : Times(Append(q, e), m) =
                         IF m = e THEN Times(q, m) + 1 ELSE Times(q, m)
           /\ \A a, b : Precedes(q, a, b) /\ a # b /\ (a = e => b \notin Range(q))
                            => Precedes(Append(q, e), a, b)
<1>1. /\ Len(Append(q, e)) = Len(q) + 1 /\ Len(q) \in Nat
      /\ Append(q, e)[Len(q) + 1] = e
      /\ \A i \in 1..Len(q) : Append(q, e)[i] = q[i]
      /\ Range(q) = {q[i] : i \in 1..Len(q)}
  BY AppendProperties, RangeEquality
<1>2. 1..Len(q) + 1 = (1..Len(q)) \union {Len(q) + 1} /\ Len(q) + 1 \notin 1..Len(q)
  BY <1>1
<1>3. ASSUME NEW m
      PROVE  Times(Append(q, e), m) = IF m = e THEN Times(q, m) + 1 ELSE Times(q, m)
  <2>1. IsFiniteSet(Places(q, m)) /\ Len(q) + 1 \notin Places(q, m)
    BY <1>2, Counted DEF Places
  <2>2. Places(Append(q, e), m) =
            IF m = e THEN Places(q, m) \union {Len(q) + 1} ELSE Places(q, m)
    BY <1>1, <1>2 DEF Places
  <2>. QED  BY <2>1, <2>2, FS_AddElement DEF Times
<1>4. ASSUME NEW a, NEW b, Precedes(q, a, b), a # b, a = e => b \notin Range(q)
      PROVE  Precedes(Append(q, e), a, b)
  <2> SUFFICES ASSUME NEW i \in 1..Len(q) + 1, NEW j \in 1..Len(q) + 1,
                      Append(q, e)[i] = a, Append(q, e)[j] = b
               PROVE  i < j
    BY <1>1 DEF Precedes
  <2>1. CASE j = Len(q) + 1
    <3>1. i # Len(q) + 1
      BY <1>4, <2>1
    <3>. QED  BY <1>1, <2>1, <3>1
  <2>2. CASE j \in 1..Len(q) /\ i \in 1..Len(q)
    BY <1>1, <1>4, <2>2 DEF Precedes
  <2>3. CASE j \in 1..Len(q) /\ i = Len(q) + 1
    BY <1>1, <1>4, <2>3
  <2>. QED  BY <1>2, <2>1, <2>2, <2>3
<1>. QED  BY <1>3, <1>4

\* A queue whose head is taken.
LEMMA TakenOrder ==
    ASSUME NEW S, NEW q \in Seq(S), q # <<>>
    PROVE  /\ \A m : Times(Tail(q), m) =
                         IF m = Head(q) THEN Times(q, m) - 1 ELSE Times(q, m)
           /\ \A a, b : Precedes(q, a, b) => Precedes(Tail(q), a, b)
           /\ \A a, b : Precedes(q, a, b) /\ Head(q) = b => a \notin Range(q)
<1>1. /\ Tail(q) \in Seq(S) /\ Len(Tail(q)) = Len(q) - 1
      /\ Head(q) = q[1] /\ Len(q) \in Nat /\ Len(q) > 0
      /\ \A i \in 1..Len(q) - 1 : Tail(q)[i] = q[i + 1]
      /\ Range(q) = {q[i] : i \in 1..Len(q)}
  BY HeadTailProperties, RangeEquality
<1>2. \A i \in 1..Len(q) - 1 : i + 1 \in 1..Len(q) /\ i + 1 # 1 /\ i \in Int
  BY <1>1
<1>3. ASSUME NEW m
      PROVE  Times(Tail(q), m) = IF m = Head(q) THEN Times(q, m) - 1 ELSE Times(q, m)
  <2> DEFINE A == Places(Tail(q), m)
             B == Places(q, m) \ {1}
             f == [i \in A |-> i + 1]
  <2>1. /\ A = {i \in 1..Len(q) - 1 : q[i + 1] = m}
        /\ B = {i \in 1..Len(q) : q[i] = m /\ i # 1}
    BY <1>1 DEF Places
  <2>2. f \in [A -> B]
    BY <1>2, <2>1
  <2>3. \A i, j \in A : f[i] = f[j] => i = j
    BY <1>2, <2>1
  <2>4. \A k \in B : \E i \in A : f[i] = k
    <3> SUFFICES ASSUME NEW k \in B
                 PROVE  k - 1 \in A /\ f[k - 1] = k
      OBVIOUS
    <3>1. k \in 2..Len(q) /\ q[k] = m
      BY <1>1, <2>1
    <3>2. k - 1 \in 1..Len(q) - 1 /\ k - 1 + 1 = k
      BY <1>1, <3>1
    <3>. QED  BY <2>1, <3>1, <3>2
  <2>5. ExistsBijection(A, B)
    BY <2>2, <2>3, <2>4 DEF ExistsBijection, Bijection, Injection, Surjection, IsInjective
  <2>6. IsFiniteSet(A) /\ IsFiniteSet(Places(q, m))
    BY <1>1, Counted
  <2>7. Cardinality(B) = Cardinality(A)
    BY <2>5, <2>6, FS_Bijection
  <2>8. 1 \in Places(q, m) <=> m = Head(q)
    BY <1>1 DEF Places
  <2>. QED  BY <2>6, <2>7, <2>8, FS_RemoveElement DEF Times
<1>4. ASSUME NEW a, NEW b, Precedes(q, a, b)
      PROVE  Precedes(Tail(q), a, b) /\ (Head(q) = b => a \notin Range(q))
  <2>1. ASSUME NEW i \in 1..Len(q) - 1, NEW j \in 1..Len(q) - 1, Tail(q)[i] = a, Tail(q)[j] = b
        PROVE  i < j
    <3>1. i + 1 < j + 1
      BY <1>1, <1>2, <1>4, <2>1 DEF Precedes
    <3>. QED  BY <1>2, <3>1
  <2>2. ASSUME Head(q) = b, NEW i \in 1..Len(q), q[i] = a
        PROVE  FALSE
    BY <1>1, <1>4, <2>2 DEF Precedes
  <2>. QED  BY <1>1, <2>1, <2>2 DEF Precedes
<1>. QED  BY <1>3, <1>4

\* A queue whose end is lost: if an element that comes after all m is still
\* there, no m is lost.
LEMMA CutOrder ==
    ASSUME NEW S, NEW q \in Seq(S), NEW k \in 0..Len(q)
    PROVE  /\ \A a, b : Precedes(q, a, b) => Precedes(SubSeq(q, 1, k), a, b)
           /\ \A m, b : Precedes(q, m, b) /\ b \in Range(SubSeq(q, 1, k)) =>
                            Times(SubSeq(q, 1, k), m) = Times(q, m)
<1>0. Len(q) \in Nat /\ k \in Nat /\ k <= Len(q)
  BY LenProperties
<1>1. /\ SubSeq(q, 1, k) \in Seq(S) /\ Len(SubSeq(q, 1, k)) = k
      /\ \A i \in 1..k : SubSeq(q, 1, k)[i] = q[i] /\ i \in 1..Len(q)
  <2>1. \A i \in 1..k : i \in 1..Len(q) /\ q[i] \in S
    BY <1>0, ElementOfSeq
  <2>2. /\ SubSeq(q, 1, k) \in Seq(S)
        /\ Len(SubSeq(q, 1, k)) = IF 1 <= k THEN k - 1 + 1 ELSE 0
        /\ \A i \in 1..k - 1 + 1 : SubSeq(q, 1, k)[i] = q[1 + i - 1]
    BY <1>0, <2>1, SubSeqProperties
  <2>3. k - 1 + 1 = k /\ \A i \in 1..k : 1 + i - 1 = i
    BY <1>0
  <2>. QED  BY <1>0, <2>1, <2>2, <2>3
<1>2. Range(SubSeq(q, 1, k)) = {SubSeq(q, 1, k)[i] : i \in 1..k}
  BY <1>1, RangeEquality
<1>3. ASSUME NEW a, NEW b, Precedes(q, a, b)
      PROVE  Precedes(SubSeq(q, 1, k), a, b)
  BY <1>1, <1>3 DEF Precedes
<1>4. ASSUME NEW m, NEW b, Precedes(q, m, b), b \in Range(SubSeq(q, 1, k))
      PROVE  Times(SubSeq(q, 1, k), m) = Times(q, m)
  <2>1. PICK j \in 1..k : q[j] = b
    BY <1>1, <1>2, <1>4
  <2>2. \A i \in 1..Len(q) : q[i] = m => i < j
    BY <1>1, <1>4, <2>1 DEF Precedes
  <2>3. \A i \in 1..Len(q) : q[i] = m => i \in 1..k
    BY <1>0, <2>2
  <2>4. Places(SubSeq(q, 1, k), m) = Places(q, m)
    BY <1>1, <2>3 DEF Places
  <2>. QED  BY <2>4 DEF Times
<1>. QED  BY <1>3, <1>4

\* A set of numbers that is not empty has a least element.
LEMMA Least ==
    ASSUME NEW S \in SUBSET Nat, S # {}
    PROVE  Min(S) \in S
<1>1. \E x \in S : \A y \in S : ~ (<<y, x>> \in OpToRel(<, Nat))
  BY WFMin, NatLessThanWellFounded
<1>2. PICK x \in S : \A y \in S : ~ (<<y, x>> \in OpToRel(<, Nat))
  BY <1>1
<1>3. \A y \in S : ~ (y < x)
  BY <1>2, Zenon DEF OpToRel
<1>4. \A y \in S : x =< y
  BY <1>3
<1>. QED  BY <1>4 DEF Min

-----------------------------------------------------------------------------
(* The invariant *)

WholeTypes ==
    /\ link \in [Sessions -> {"up", "down"}]
    /\ sent \in [Upload -> Nat] /\ written \in [Upload -> Nat] /\ lost \in [Upload -> BOOLEAN]
    /\ path \in [Upload -> Path] /\ node \in [Upload -> Upload \union {Nobody}]
    /\ dir \in [Path -> Upload \union {Nobody}] /\ DOMAIN data = Upload

\* On the wire an upload's begin is before its chunks, and they are before its
\* last.
Ordered(u) ==
    \A s \in Sessions : /\ Precedes(wire[s], Msg("begin", u), Msg("chunk", u))
                        /\ Precedes(wire[s], Msg("chunk", u), Msg("last", u))

\* An upload that may still be completed: of its thread, and at the PC.
Due(u, s) == (thread[u] = "reading" /\ link[s] = "up") \/ Msg("last", u) \in Range(wire[s])
Alive(u)  == Waits("begin", u) \/ Creating(u) \/ open[u]

\* What was sent of it is written or under way.
Accounted(u) ==
    \A s \in Sessions : home[u] = s /\ Alive(u) /\ Due(u, s) =>
        written[u] + Times(wire[s], Msg("chunk", u)) = sent[u]

\* Until its file is created nothing is written, and its path stays free.
Early(u) ==
    /\ thread[u] = "none" => sent[u] = 0
    /\ thread[u] = "none" \/ Waits("begin", u) \/ Creating(u) => written[u] = 0 /\ ~lost[u]
    /\ Creating(u) => dir[path[u]] = Nobody

\* A file that is open or complete is its own, at its path, and holds what was
\* written; a complete one all that was sent.
Placed(u) ==
    /\ open[u] \/ reported[u] = "complete" =>
         /\ node[u] = u /\ dir[path[u]] = u
         /\ lost[u] \/ data[u] = [i \in 1..written[u] |-> u]
    /\ reported[u] = "complete" => lost[u] \/ written[u] = sent[u]

\* Nothing else is in the directory.
OnlyPlaced ==
    \A p \in Path : dir[p] # Nobody =>
        path[dir[p]] = p /\ (open[dir[p]] \/ reported[dir[p]] = "complete")

WholeInv(u) == Ordered(u) /\ Accounted(u) /\ Early(u) /\ Placed(u)

\* At most one session is between the look for a free path and the create.
OneCreates == \A s, t \in Sessions : pc[s] = "creating" /\ pc[t] = "creating" => s = t

DownloadsInv == UploadsInv /\ WholeTypes /\ OnlyPlaced /\ \A u \in Upload : WholeInv(u)

LEMMA UploadIsSomebody == Upload \in SUBSET Nat /\ Nobody \notin Upload
  BY DEF Upload, Nobody

LEMMA DownloadsInit == Init => DownloadsInv
<1> SUFFICES ASSUME Init
             PROVE  DownloadsInv
  OBVIOUS
<1>1. WholeTypes
  BY UploadAssumption DEF Init, WholeTypes, Path
<1>2. OnlyPlaced
  BY DEF Init, OnlyPlaced
<1>3. ASSUME NEW u \in Upload
      PROVE  WholeInv(u)
  <2>1. /\ \A s \in Sessions : wire[s] = <<>> /\ pc[s] = "loop"
        /\ thread[u] = "none" /\ ~open[u] /\ reported[u] = "nothing"
        /\ sent[u] = 0 /\ written[u] = 0 /\ ~lost[u]
    <3>1. \A s \in Sessions : wire[s] = <<>> /\ pc[s] = "loop"
      BY DEF Init
    <3>. QED  BY <3>1 DEF Init
  <2>2. Ordered(u)
    BY <2>1 DEF Ordered, Precedes
  <2>3. Accounted(u)
    BY <2>1 DEF Accounted, Alive, Waits, Creating, Range
  <2>4. Early(u) /\ Placed(u)
    BY <2>1 DEF Early, Placed, Creating
  <2>. QED  BY <2>2, <2>3, <2>4 DEF WholeInv
<1>. QED  BY <1>1, <1>2, <1>3, UploadsInit DEF DownloadsInv

\* What the invariant says is what is checked.
LEMMA DownloadsHold == DownloadsInv => DownloadsWhole
<1> SUFFICES ASSUME DownloadsInv
             PROVE  DownloadsWhole
  OBVIOUS
<1>0. \A u \in Upload : Placed(u) /\ u # Nobody
  BY UploadIsSomebody DEF DownloadsInv, WholeInv
<1>1. NoPartialLeft
  <2> SUFFICES ASSUME NEW p \in Path, dir[p] # Nobody
               PROVE  \E u \in Upload : path[u] = p /\ node[u] # Nobody
                                        /\ (open[u] \/ reported[u] = "complete")
    BY DEF NoPartialLeft
  <2>1. PICK u \in Upload : dir[p] = u
    BY DEF DownloadsInv, WholeTypes
  <2>2. path[u] = p /\ (open[u] \/ reported[u] = "complete")
    BY <2>1 DEF DownloadsInv, OnlyPlaced
  <2>. QED  BY <1>0, <2>2 DEF Placed
<1>2. CompleteIsWhole
  <2> SUFFICES ASSUME NEW u \in Upload, reported[u] = "complete", ~lost[u]
               PROVE  dir[path[u]] = node[u] /\ data[node[u]] = [i \in 1..sent[u] |-> u]
    BY DEF CompleteIsWhole
  <2>1. /\ node[u] = u /\ dir[path[u]] = u /\ data[u] = [i \in 1..written[u] |-> u]
        /\ written[u] = sent[u]
    BY <1>0 DEF Placed
  <2>. QED  BY <2>1
<1>. QED  BY <1>1, <1>2 DEF DownloadsWhole

-----------------------------------------------------------------------------
(* What a step does to the wire *)

\* A message is sent.
LEMMA SentOrder ==
    ASSUME UploadTypes, NEW s \in Sessions, NEW u \in Upload,
           NEW op \in {"begin", "chunk", "last", "abort"}, Send(s, op, u)
    PROVE  /\ \A m : Times(wire'[s], m) = IF m = Msg(op, u) THEN Times(wire[s], m) + 1
                                                             ELSE Times(wire[s], m)
           /\ \A a, b : Precedes(wire[s], a, b) /\ a # b /\ (a = Msg(op, u) => b \notin Range(wire[s]))
                            => Precedes(wire'[s], a, b)
           /\ Range(wire'[s]) = Range(wire[s]) \union {Msg(op, u)}
           /\ \A t \in Sessions : t # s => wire'[t] = wire[t]
<1>1. wire \in [Sessions -> Seq(Message)] /\ wire[s] \in Seq(Message) /\ Msg(op, u) \in Message
  BY DEF UploadTypes, Msg, Message
<1>2. wire' = [wire EXCEPT ![s] = Append(@, Msg(op, u))]
  BY DEF Send, Msg
<1>3. wire'[s] = Append(wire[s], Msg(op, u)) /\ \A t \in Sessions : t # s => wire'[t] = wire[t]
  BY <1>1, <1>2
<1>4. /\ \A m : Times(Append(wire[s], Msg(op, u)), m) =
                    IF m = Msg(op, u) THEN Times(wire[s], m) + 1 ELSE Times(wire[s], m)
      /\ \A a, b : Precedes(wire[s], a, b) /\ a # b /\ (a = Msg(op, u) => b \notin Range(wire[s]))
                       => Precedes(Append(wire[s], Msg(op, u)), a, b)
  BY <1>1, GrownOrder
<1>5. \A m : Times(wire'[s], m) = IF m = Msg(op, u) THEN Times(wire[s], m) + 1
                                                      ELSE Times(wire[s], m)
  BY <1>3, <1>4
<1>6. \A a, b : Precedes(wire[s], a, b) /\ a # b /\ (a = Msg(op, u) => b \notin Range(wire[s]))
                    => Precedes(wire'[s], a, b)
  <2> SUFFICES ASSUME NEW a, NEW b, Precedes(wire[s], a, b), a # b,
                      a = Msg(op, u) => b \notin Range(wire[s])
               PROVE  Precedes(wire'[s], a, b)
    OBVIOUS
  <2>. QED  BY <1>3, <1>4
<1>7. Range(wire'[s]) = Range(wire[s]) \union {Msg(op, u)}
  <2>1. Range(Append(wire[s], Msg(op, u))) = Range(wire[s]) \union {Msg(op, u)}
    BY <1>1, Grown
  <2>. QED  BY <1>3, <2>1
<1>. QED  BY <1>3, <1>5, <1>6, <1>7

\* A message is taken.
LEMMA TookOrder ==
    ASSUME UploadTypes, NEW s \in Sessions, wire[s] # <<>>, Take(s)
    PROVE  /\ \A m : Times(wire'[s], m) = IF m = Head(wire[s]) THEN Times(wire[s], m) - 1
                                                                ELSE Times(wire[s], m)
           /\ \A a, b : Precedes(wire[s], a, b) => Precedes(wire'[s], a, b)
           /\ \A a, b : Precedes(wire[s], a, b) /\ Head(wire[s]) = b => a \notin Range(wire[s])
           /\ \A t \in Sessions : t # s => wire'[t] = wire[t]
           /\ UNCHANGED <<home, thread, sent, link>>
<1>1. wire \in [Sessions -> Seq(Message)] /\ wire[s] \in Seq(Message)
  BY DEF UploadTypes
<1>2. wire' = [wire EXCEPT ![s] = Tail(@)] /\ UNCHANGED <<home, thread, sent, link>>
  BY DEF Take, phoneVars
<1>3. wire'[s] = Tail(wire[s]) /\ \A t \in Sessions : t # s => wire'[t] = wire[t]
  BY <1>1, <1>2
<1>4. /\ \A m : Times(Tail(wire[s]), m) =
                    IF m = Head(wire[s]) THEN Times(wire[s], m) - 1 ELSE Times(wire[s], m)
      /\ \A a, b : Precedes(wire[s], a, b) => Precedes(Tail(wire[s]), a, b)
      /\ \A a, b : Precedes(wire[s], a, b) /\ Head(wire[s]) = b => a \notin Range(wire[s])
  BY <1>1, TakenOrder
<1>. QED  BY <1>2, <1>3, <1>4

\* A socket ends.
LEMMA CutLink ==
    ASSUME UploadTypes, NEW s \in Sessions, LinkDown(s)
    PROVE  /\ \A t \in Sessions : Range(wire'[t]) \subseteq Range(wire[t])
           /\ \A a, b : Precedes(wire[s], a, b) => Precedes(wire'[s], a, b)
           /\ \A m, b : Precedes(wire[s], m, b) /\ b \in Range(wire'[s]) =>
                            Times(wire'[s], m) = Times(wire[s], m)
           /\ \A t \in Sessions : t # s => wire'[t] = wire[t]
           /\ link' = [link EXCEPT ![s] = "down"]
           /\ UNCHANGED <<home, thread, sent, pcUnchanged>>
<1>1. wire \in [Sessions -> Seq(Message)] /\ wire[s] \in Seq(Message)
  BY DEF UploadTypes
<1>2. /\ link' = [link EXCEPT ![s] = "down"] /\ UNCHANGED <<home, thread, sent, pcUnchanged>>
      /\ \E k \in 0..Len(wire[s]) : wire' = [wire EXCEPT ![s] = SubSeq(@, 1, k)]
  BY DEF LinkDown, phoneVars
<1>3. PICK k \in 0..Len(wire[s]) : wire' = [wire EXCEPT ![s] = SubSeq(@, 1, k)]
  BY <1>2
<1>4. wire'[s] = SubSeq(wire[s], 1, k) /\ \A t \in Sessions : t # s => wire'[t] = wire[t]
  BY <1>1, <1>3
<1>5. Range(SubSeq(wire[s], 1, k)) \subseteq Range(wire[s])
  BY <1>1, CutOff
<1>6. /\ \A a, b : Precedes(wire[s], a, b) => Precedes(SubSeq(wire[s], 1, k), a, b)
      /\ \A m, b : Precedes(wire[s], m, b) /\ b \in Range(SubSeq(wire[s], 1, k)) =>
                       Times(SubSeq(wire[s], 1, k), m) = Times(wire[s], m)
  BY <1>1, CutOrder
<1>. QED  BY <1>2, <1>4, <1>5, <1>6

\* What each step sends or takes.
LEMMA WireSteps ==
    ASSUME UploadTypes, [Next]_vars
    PROVE  \/ \E s \in Sessions, u \in Upload : UploadFile(s, u)
           \/ \E u \in Upload :
                /\ thread[u] = "reading" /\ home[u] \in Sessions
                /\ \E op \in {"chunk", "last", "abort"} : Send(home[u], op, u)
           \/ \E s \in Sessions : wire[s] # <<>> /\ Take(s)
           \/ \E s \in Sessions : LinkDown(s)
           \/ wire' = wire
<1>1. CASE UNCHANGED vars
  BY <1>1 DEF vars, wireVars
<1>2. ASSUME NEW s \in Sessions, OnReply(s) \/ Leave(s)
      PROVE  wire' = wire
  BY <1>2 DEF OnReply, Leave, wireVars
<1>3. ASSUME NEW s \in Sessions, Handle(s)
      PROVE  (wire[s] # <<>> /\ Take(s)) \/ wire' = wire
  <2>1. CASE Refuse(s) \/ Begin(s) \/ Stray(s) \/ Chunk(s) \/ ChunkFails(s) \/ LastChunk(s) \/ Abort(s)
    BY <2>1 DEF Refuse, Begin, Stray, Chunk, ChunkFails, LastChunk, Abort, AtHead
  <2>2. CASE Create(s) \/ CreateFails(s)
    BY <2>2 DEF Create, CreateFails, wireVars
  <2>. QED  BY <1>3, <2>1, <2>2 DEF Handle
<1>4. ASSUME NEW u \in Upload, UploadThread(u)
      PROVE  \/ /\ thread[u] = "reading" /\ home[u] \in Sessions
                /\ \E op \in {"chunk", "last", "abort"} : Send(home[u], op, u)
             \/ wire' = wire
  <2>1. thread[u] = "reading"
    BY <1>4 DEF UploadThread, SendChunk, SendLast, GiveUp, Polls
  <2>2. home[u] \in Sessions
    BY <2>1 DEF UploadTypes
  <2>3. (\E op \in {"chunk", "last", "abort"} : Send(home[u], op, u)) \/ wire' = wire
    BY <1>4 DEF UploadThread, SendChunk, SendLast, GiveUp, TellAbort
  <2>. QED  BY <2>1, <2>2, <2>3
<1>5. ASSUME NEW u \in Upload, CancelUpload(u)
      PROVE  wire' = wire
  BY <1>5 DEF CancelUpload, wireVars
<1>. QED  BY <1>1, <1>2, <1>3, <1>4, <1>5 DEF Next

\* The order of the wire is kept: a begin is sent before any chunk, and a last
\* after all.
LEMMA OrderKept ==
    ASSUME UploadsInv, \A u \in Upload : Ordered(u), [Next]_vars, NEW w \in Upload
    PROVE  Ordered(w)'
<1>0. UploadTypes /\ UploadInv(w) /\ Ordered(w)
  BY DEF UploadsInv
<1>1. Msg("begin", w) # Msg("chunk", w) /\ Msg("chunk", w) # Msg("last", w)
  BY DEF Msg
<1>2. ASSUME NEW s \in Sessions, NEW u \in Upload, NEW op \in {"begin", "chunk", "last", "abort"},
             Send(s, op, u),
             w = u /\ op = "begin" => Msg("chunk", w) \notin Range(wire[s]),
             w = u /\ op = "chunk" => Msg("last", w) \notin Range(wire[s])
      PROVE  Ordered(w)'
  <2>1. /\ Msg("begin", w) = Msg(op, u) => w = u /\ op = "begin"
        /\ Msg("chunk", w) = Msg(op, u) => w = u /\ op = "chunk"
    BY DEF Msg
  <2>2. /\ \A a, b : Precedes(wire[s], a, b) /\ a # b /\ (a = Msg(op, u) => b \notin Range(wire[s]))
                         => Precedes(wire'[s], a, b)
        /\ \A t \in Sessions : t # s => wire'[t] = wire[t]
    BY <1>0, <1>2, SentOrder
  <2>3. /\ Precedes(wire'[s], Msg("begin", w), Msg("chunk", w))
        /\ Precedes(wire'[s], Msg("chunk", w), Msg("last", w))
    BY <1>0, <1>1, <1>2, <2>1, <2>2 DEF Ordered
  <2>4. \A t \in Sessions : /\ Precedes(wire'[t], Msg("begin", w), Msg("chunk", w))
                            /\ Precedes(wire'[t], Msg("chunk", w), Msg("last", w))
    BY <1>0, <2>2, <2>3 DEF Ordered
  <2>. QED  BY <2>4 DEF Ordered, Precedes, Msg
<1>3. ASSUME NEW s \in Sessions,
             \A a, b : Precedes(wire[s], a, b) => Precedes(wire'[s], a, b),
             \A t \in Sessions : t # s => wire'[t] = wire[t]
      PROVE  Ordered(w)'
  <2>1. \A t \in Sessions : /\ Precedes(wire'[t], Msg("begin", w), Msg("chunk", w))
                            /\ Precedes(wire'[t], Msg("chunk", w), Msg("last", w))
    BY <1>0, <1>3 DEF Ordered
  <2>. QED  BY <2>1 DEF Ordered, Precedes, Msg
<1>4. ASSUME NEW s \in Sessions, NEW u \in Upload, UploadFile(s, u)
      PROVE  Ordered(w)'
  <2>1. Send(s, "begin", u) /\ thread[u] = "none"
    BY <1>4 DEF UploadFile
  <2>2. w = u => Msg("chunk", w) \notin Range(wire[s])
    BY <1>0, <2>1 DEF UploadInv, AtHome
  <2>. QED  BY <1>2, <2>1, <2>2
<1>5. ASSUME NEW u \in Upload, thread[u] = "reading", home[u] \in Sessions,
             NEW op \in {"chunk", "last", "abort"}, Send(home[u], op, u)
      PROVE  Ordered(w)'
  <2>1. w = u => Msg("last", w) \notin Range(wire[home[u]])
    BY <1>0, <1>5 DEF UploadInv, LastEnds, Waits
  <2>. QED  BY <1>2, <1>5, <2>1
<1>6. ASSUME NEW s \in Sessions, wire[s] # <<>>, Take(s)
      PROVE  Ordered(w)'
  BY <1>0, <1>3, <1>6, TookOrder
<1>7. ASSUME NEW s \in Sessions, LinkDown(s)
      PROVE  Ordered(w)'
  BY <1>0, <1>3, <1>7, CutLink
<1>8. CASE wire' = wire
  BY <1>0, <1>8 DEF Ordered, Precedes, Msg
<1>. QED  BY <1>0, <1>4, <1>5, <1>6, <1>7, <1>8, WireSteps

-----------------------------------------------------------------------------
(* What was sent is written or under way *)

\* A step that counts nothing of an upload.
LEMMA AccountStays ==
    ASSUME NEW w \in Upload, Accounted(w),
           home'[w] = home[w], sent'[w] = sent[w], written'[w] = written[w],
           Alive(w)' => Alive(w),
           \A s \in Sessions : home[w] = s /\ Due(w, s)' => Due(w, s),
           \A s \in Sessions : home[w] = s /\ Alive(w)' /\ Due(w, s)' =>
               Times(wire'[s], Msg("chunk", w)) = Times(wire[s], Msg("chunk", w))
    PROVE  Accounted(w)'
<1> SUFFICES ASSUME NEW s \in Sessions, home'[w] = s, Alive(w)', Due(w, s)'
             PROVE  written'[w] + Times(wire'[s], Msg("chunk", w)) = sent'[w]
  BY DEF Accounted, Times, Places, Msg
<1>. QED  BY DEF Accounted

\* A message is sent that is neither its begin nor a chunk of it.
LEMMA SentAccount ==
    ASSUME UploadTypes, NEW s \in Sessions, NEW u \in Upload,
           NEW op \in {"begin", "chunk", "last", "abort"}, Send(s, op, u),
           NEW w \in Upload, Accounted(w),
           w = u => op \in {"last", "abort"},
           w = u /\ op = "last" => thread[w] = "reading" /\ link[s] = "up",
           home'[w] = home[w], thread'[w] = "reading" => thread[w] = "reading",
           UNCHANGED <<sent, link, pcUnchanged>>
    PROVE  Accounted(w)'
<1>0. UNCHANGED <<pc, begun, open, written>>
  BY DEF pcUnchanged, fileVars
<1>1. /\ Msg(op, u) # Msg("begin", w) /\ Msg(op, u) # Msg("chunk", w)
      /\ Msg(op, u) = Msg("last", w) => w = u /\ op = "last"
  BY DEF Msg
<1>2. /\ Range(wire'[s]) = Range(wire[s]) \union {Msg(op, u)}
      /\ \A t \in Sessions : t # s => wire'[t] = wire[t]
  BY SentOrder
<1>3. \A m : Times(wire'[s], m) = IF m = Msg(op, u) THEN Times(wire[s], m) + 1
                                                     ELSE Times(wire[s], m)
  BY SentOrder
<1>4. \A t \in Sessions : Times(wire'[t], Msg("chunk", w)) = Times(wire[t], Msg("chunk", w))
  BY <1>1, <1>2, <1>3
<1>5. \A t \in Sessions : /\ Msg("begin", w) \in Range(wire'[t]) => Msg("begin", w) \in Range(wire[t])
                          /\ Msg("last", w) \in Range(wire'[t]) =>
                                Msg("last", w) \in Range(wire[t]) \/ (t = s /\ w = u /\ op = "last")
  BY <1>1, <1>2
<1>6. Alive(w)' => Alive(w)
  BY <1>0, <1>5 DEF Alive, Waits, Creating, Msg
<1>7. \A t \in Sessions : Due(w, t)' => Due(w, t)
  BY <1>5 DEF Due, Msg
<1>. QED  BY <1>0, <1>4, <1>6, <1>7, AccountStays

\* A message is taken that is not a chunk of it.
LEMMA TookAccount ==
    ASSUME UploadTypes, NEW s \in Sessions, wire[s] # <<>>, Take(s),
           NEW w \in Upload, Accounted(w), written'[w] = written[w],
           Alive(w)' => Alive(w),
           Head(wire[s]) = Msg("chunk", w) => ~Alive(w)'
    PROVE  Accounted(w)'
<1>1. /\ \A m : Times(wire'[s], m) = IF m = Head(wire[s]) THEN Times(wire[s], m) - 1
                                                           ELSE Times(wire[s], m)
      /\ \A t \in Sessions : t # s => wire'[t] = wire[t]
      /\ UNCHANGED <<home, thread, sent, link>>
  BY TookOrder
<1>2. \A t \in Sessions : Range(wire'[t]) \subseteq Range(wire[t])
  BY Takes
<1>3. \A t \in Sessions : Due(w, t)' => Due(w, t)
  BY <1>1, <1>2 DEF Due, Msg
<1>4. \A t \in Sessions : Alive(w)' =>
          Times(wire'[t], Msg("chunk", w)) = Times(wire[t], Msg("chunk", w))
  BY <1>1
<1>. QED  BY <1>1, <1>3, <1>4, AccountStays

LEMMA PhoneAccounts ==
    ASSUME DownloadsInv, NEW w \in Upload, NEW u \in Upload,
           (\E s \in Sessions : UploadFile(s, u)) \/ UploadThread(u)
    PROVE  Accounted(w)'
<1>0. /\ UploadTypes /\ UploadInv(w) /\ UploadInv(u) /\ WholeTypes
      /\ WholeInv(u) /\ Accounted(w)
  BY DEF DownloadsInv, UploadsInv, WholeInv
<1>1. ASSUME NEW s \in Sessions, UploadFile(s, u)
      PROVE  Accounted(w)'
  <2>1. /\ Send(s, "begin", u) /\ thread[u] = "none"
        /\ home' = [home EXCEPT ![u] = s] /\ thread' = [thread EXCEPT ![u] = "reading"]
        /\ UNCHANGED <<sent, link, pcUnchanged>>
    BY <1>1 DEF UploadFile
  <2>2. CASE w # u
    <3>1. home'[w] = home[w] /\ thread'[w] = thread[w]
      BY <1>0, <2>1, <2>2 DEF UploadTypes
    <3>. QED  BY <1>0, <2>1, <2>2, <3>1, SentAccount
  <2>3. CASE w = u
    <3>1. home'[u] = s /\ sent'[u] = 0 /\ written'[u] = 0
      BY <1>0, <2>1 DEF UploadTypes, WholeInv, Early, pcUnchanged, fileVars
    <3>2. Times(wire[s], Msg("chunk", u)) = 0
      <4>1. Msg("chunk", u) \notin Range(wire[s])
        BY <1>0, <2>1 DEF UploadInv, AtHome
      <4>2. wire[s] \in Seq(Message)
        BY <1>0 DEF UploadTypes
      <4>. QED  BY <4>1, <4>2, Counted
    <3>3. Times(wire'[s], Msg("chunk", u)) = 0
      <4>1. Msg("chunk", u) # Msg("begin", u)
        BY DEF Msg
      <4>2. \A m : Times(wire'[s], m) = IF m = Msg("begin", u) THEN Times(wire[s], m) + 1
                                                                ELSE Times(wire[s], m)
        BY <1>0, <2>1, SentOrder
      <4>. QED  BY <3>2, <4>1, <4>2
    <3>4. \A t \in Sessions : home'[u] = t =>
              written'[u] + Times(wire'[t], Msg("chunk", u)) = sent'[u]
      BY <3>1, <3>3
    <3>. QED  BY <2>3, <3>4 DEF Accounted, Times, Places, Msg
  <2>. QED  BY <2>2, <2>3
<1>2. CASE SendChunk(u)
  <2>0. PICK s \in Sessions : s = home[u]
    BY <1>0, <1>2 DEF SendChunk, UploadTypes
  <2>1. /\ Send(s, "chunk", u) /\ thread[u] = "reading" /\ link[s] = "up"
        /\ sent' = [sent EXCEPT ![u] = @ + 1] /\ UNCHANGED <<home, thread, link, pcUnchanged>>
    BY <1>2, <2>0 DEF SendChunk, HasRoom
  <2>2. sent \in [Upload -> Nat] /\ written \in [Upload -> Nat] /\ wire[s] \in Seq(Message)
    BY <1>0 DEF WholeTypes, UploadTypes
  <2>3. UNCHANGED <<pc, begun, open, written>>
    BY <2>1 DEF pcUnchanged, fileVars
  <2>4. \A t \in Sessions : t # s => wire'[t] = wire[t]
    BY <1>0, <2>1, SentOrder
  <2>5. \A m : Times(wire'[s], m) = IF m = Msg("chunk", u) THEN Times(wire[s], m) + 1
                                                            ELSE Times(wire[s], m)
    BY <1>0, <2>1, SentOrder
  <2>6. \A t \in Sessions : /\ Msg("begin", w) \in Range(wire'[t]) => Msg("begin", w) \in Range(wire[t])
                            /\ Msg("last", w) \in Range(wire'[t]) => Msg("last", w) \in Range(wire[t])
    <3>1. Range(wire'[s]) = Range(wire[s]) \union {Msg("chunk", u)}
      BY <1>0, <2>1, Sends
    <3>2. Msg("begin", w) # Msg("chunk", u) /\ Msg("last", w) # Msg("chunk", u)
      BY DEF Msg
    <3>. QED  BY <2>4, <3>1, <3>2
  <2>7. (Alive(w)' => Alive(w)) /\ \A t \in Sessions : Due(w, t)' => Due(w, t)
    BY <2>1, <2>3, <2>6 DEF Alive, Waits, Creating, Due, Msg
  <2>8. CASE w # u
    <3>1. sent'[w] = sent[w] /\ Msg("chunk", w) # Msg("chunk", u)
      BY <2>1, <2>2, <2>8 DEF Msg
    <3>2. \A t \in Sessions : Times(wire'[t], Msg("chunk", w)) = Times(wire[t], Msg("chunk", w))
      BY <2>4, <2>5, <3>1
    <3>. QED  BY <1>0, <2>1, <2>3, <2>7, <3>1, <3>2, AccountStays
  <2>9. CASE w = u
    <3>1. Alive(u)' => written[u] + Times(wire[s], Msg("chunk", u)) = sent[u]
      BY <1>0, <2>0, <2>1, <2>7, <2>9 DEF Accounted, Due
    <3>2. Times(wire[s], Msg("chunk", u)) \in Nat
      BY <2>2, Counted
    <3>3. sent'[u] = sent[u] + 1 /\ written'[u] = written[u]
      BY <2>1, <2>2, <2>3
    <3>4. Times(wire'[s], Msg("chunk", u)) = Times(wire[s], Msg("chunk", u)) + 1
      BY <2>5
    <3>5. Alive(u)' => written'[u] + Times(wire'[s], Msg("chunk", u)) = sent'[u]
      BY <2>2, <3>1, <3>2, <3>3, <3>4
    <3>. QED  BY <2>0, <2>1, <2>9, <3>5 DEF Accounted, Times, Places, Msg
  <2>. QED  BY <2>8, <2>9
<1>3. CASE SendLast(u)
  <2>0. PICK s \in Sessions : s = home[u]
    BY <1>0, <1>3 DEF SendLast, UploadTypes
  <2>1. /\ Send(s, "last", u) /\ thread[u] = "reading" /\ link[s] = "up"
        /\ thread' = [thread EXCEPT ![u] = "done"]
        /\ UNCHANGED <<home, sent, link, pcUnchanged>>
    BY <1>3, <2>0 DEF SendLast, HasRoom
  <2>2. thread'[w] = "reading" => thread[w] = "reading"
    BY <1>0, <2>1 DEF UploadTypes
  <2>. QED  BY <1>0, <2>1, <2>2, SentAccount
<1>4. CASE GiveUp(u)
  <2>0. PICK s \in Sessions : s = home[u]
    BY <1>0, <1>4 DEF GiveUp, Polls, UploadTypes
  <2>1. /\ thread' = [thread EXCEPT ![u] = "done"]
        /\ UNCHANGED <<home, sent, link, pcUnchanged>>
        /\ Send(s, "abort", u) \/ wire' = wire
    BY <1>4, <2>0 DEF GiveUp, TellAbort
  <2>2. thread'[w] = "reading" => thread[w] = "reading"
    BY <1>0, <2>1 DEF UploadTypes
  <2>3. CASE Send(s, "abort", u)
    BY <1>0, <2>1, <2>2, <2>3, SentAccount
  <2>4. CASE wire' = wire
    <3>1. UNCHANGED <<pc, begun, open, written>>
      BY <2>1 DEF pcUnchanged, fileVars
    <3>2. (Alive(w)' => Alive(w)) /\ \A t \in Sessions : Due(w, t)' => Due(w, t)
      BY <2>1, <2>2, <2>4, <3>1 DEF Alive, Waits, Creating, Due, Msg
    <3>. QED  BY <1>0, <2>1, <2>4, <3>1, <3>2, AccountStays
  <2>. QED  BY <2>1, <2>3, <2>4
<1>. QED  BY <1>1, <1>2, <1>3, <1>4 DEF UploadThread

\* The PC takes messages of its own uploads; of an upload it has closed or
\* refused nothing is alive.
LEMMA HandleAccounts ==
    ASSUME DownloadsInv, UploadsInv', NEW w \in Upload, NEW s \in Sessions, Handle(s)
    PROVE  Accounted(w)'
<1>0. /\ UploadTypes /\ UploadInv(w) /\ UploadInv(w)' /\ WholeTypes
      /\ Ordered(w) /\ Accounted(w) /\ open \in [Upload -> BOOLEAN]
  BY DEF DownloadsInv, UploadsInv, WholeInv, UploadTypes
<1>1. ASSUME wire[s] # <<>>, Take(s), NEW m, m = Head(wire[s])
      PROVE  /\ m.id \in Upload /\ home[m.id] = s /\ Waits(m.op, m.id)
             /\ m = Msg(m.op, m.id)
             /\ \A t \in Sessions : Range(wire'[t]) \subseteq Range(wire[t])
             /\ m = Msg("chunk", w) => Msg("begin", w) \notin Range(wire[s])
  <2>1. m.id \in Upload /\ home[m.id] = s /\ Waits(m.op, m.id)
    BY <1>1, TakesOwn DEF DownloadsInv
  <2>2. m \in Message /\ \A t \in Sessions : Range(wire'[t]) \subseteq Range(wire[t])
    BY <1>0, <1>1, Takes
  <2>3. m = Msg(m.op, m.id)
    BY <2>2 DEF Message, Msg
  <2>4. m = Msg("chunk", w) => Msg("begin", w) \notin Range(wire[s])
    BY <1>0, <1>1, TookOrder DEF Ordered
  <2>. QED  BY <2>1, <2>2, <2>3, <2>4
<1>2. CASE Refuse(s) \/ Begin(s)
  <2>0. PICK m : m = Head(wire[s])
    OBVIOUS
  <2>1. /\ wire[s] # <<>> /\ Take(s) /\ m.op = "begin" /\ UNCHANGED <<open, written>>
        /\ \/ UNCHANGED <<pc, begun>>
           \/ begun' = [begun EXCEPT ![s] = m.id] /\ pc' = [pc EXCEPT ![s] = "creating"]
    BY <1>2, <2>0 DEF Refuse, Begin, AtHead
  <2>2. /\ Waits("begin", m.id) /\ m # Msg("chunk", w)
        /\ \A t \in Sessions : Range(wire'[t]) \subseteq Range(wire[t])
    BY <1>1, <2>0, <2>1 DEF Msg
  <2>3. Creating(w)' => Creating(w) \/ w = m.id
    BY <1>0, <2>1 DEF Creating, UploadTypes
  <2>4. Alive(w)' => Alive(w)
    BY <2>1, <2>2, <2>3 DEF Alive, Waits, Msg
  <2>. QED  BY <1>0, <2>0, <2>1, <2>2, <2>4, TookAccount
<1>3. CASE Create(s) \/ CreateFails(s)
  <2>1. /\ UNCHANGED <<home, thread, sent, link, wire, begun, written>>
        /\ pc[s] = "creating" /\ pc' = [pc EXCEPT ![s] = "loop"]
        /\ open' = [open EXCEPT ![begun[s]] = TRUE] \/ open' = open
    BY <1>3 DEF Create, CreateFails, phoneVars, wireVars
  <2>2. open'[w] => open[w] \/ Creating(w)
    BY <1>0, <2>1 DEF Creating
  <2>3. Creating(w)' => Creating(w)
    BY <1>0, <2>1 DEF Creating, UploadTypes
  <2>4. Alive(w)' => Alive(w)
    BY <2>1, <2>2, <2>3 DEF Alive, Waits, Msg
  <2>5. \A t \in Sessions : Due(w, t)' => Due(w, t)
    BY <2>1 DEF Due, Msg
  <2>. QED  BY <1>0, <2>1, <2>4, <2>5, AccountStays
<1>4. CASE Stray(s)
  <2>0. PICK m : m = Head(wire[s])
    OBVIOUS
  <2>1. /\ wire[s] # <<>> /\ Take(s) /\ pc[s] = "loop" /\ ~open[m.id]
        /\ UNCHANGED <<pc, begun, open, written>>
    BY <1>4, <2>0 DEF Stray, AtHead, fileVars
  <2>2. \A t \in Sessions : Range(wire'[t]) \subseteq Range(wire[t])
    BY <1>1, <2>0, <2>1
  <2>3. Alive(w)' => Alive(w)
    BY <2>1, <2>2 DEF Alive, Waits, Creating, Msg
  <2>4. m = Msg("chunk", w) => ~Alive(w)
    <3> SUFFICES ASSUME m = Msg("chunk", w)
                 PROVE  ~Alive(w)
      OBVIOUS
    <3>1. m.id = w
      BY DEF Msg
    <3>2. home[w] = s /\ Msg("begin", w) \notin Range(wire[s])
      BY <1>1, <2>0, <2>1, <3>1
    <3>3. ~Waits("begin", w)
      BY <1>0, <3>2 DEF Waits, UploadInv, AtHome
    <3>4. ~Creating(w)
      BY <1>0, <2>1, <3>2 DEF Creating, UploadInv, Stages
    <3>. QED  BY <2>1, <3>1, <3>3, <3>4 DEF Alive
  <2>. QED  BY <1>0, <2>0, <2>1, <2>3, <2>4, TookAccount
<1>5. CASE Chunk(s)
  <2>0. PICK m : m = Head(wire[s])
    OBVIOUS
  <2>1. /\ wire[s] # <<>> /\ Take(s) /\ m.op = "chunk" /\ open[m.id]
        /\ written' = [written EXCEPT ![m.id] = @ + 1] /\ UNCHANGED <<pc, begun, open>>
    BY <1>5, <2>0 DEF Chunk, AtHead
  <2>2. PICK u \in Upload : u = m.id
    BY <1>1, <2>0, <2>1
  <2>3. /\ m = Msg("chunk", u) /\ home[u] = s
        /\ \A t \in Sessions : Range(wire'[t]) \subseteq Range(wire[t])
    BY <1>1, <2>0, <2>1, <2>2
  <2>4. written \in [Upload -> Nat] /\ sent \in [Upload -> Nat] /\ wire[s] \in Seq(Message)
    BY <1>0 DEF WholeTypes, UploadTypes
  <2>5. CASE w # u
    <3>1. written'[w] = written[w] /\ m # Msg("chunk", w)
      BY <2>1, <2>2, <2>3, <2>4, <2>5 DEF Msg
    <3>2. Alive(w)' => Alive(w)
      BY <2>1, <2>3 DEF Alive, Waits, Creating, Msg
    <3>. QED  BY <1>0, <2>0, <2>1, <3>1, <3>2, TookAccount
  <2>6. CASE w = u
    <3>1. Times(wire[s], m) \in Nat
      BY <2>4, Counted
    <3>2. Times(wire'[s], m) = Times(wire[s], m) - 1 /\ UNCHANGED <<home, thread, sent, link>>
      BY <1>0, <2>0, <2>1, TookOrder
    <3>3. Due(u, s)' => Due(u, s)
      BY <2>3, <3>2 DEF Due, Msg
    <3>4. Due(u, s)' => written[u] + Times(wire[s], m) = sent[u]
      BY <1>0, <2>1, <2>2, <2>3, <2>6, <3>3 DEF Accounted, Alive
    <3>5. written'[u] = written[u] + 1 /\ written[u] \in Nat /\ sent[u] \in Nat
      BY <2>1, <2>2, <2>4
    <3>6. Due(u, s)' => written'[u] + Times(wire'[s], m) = sent'[u]
      BY <3>1, <3>2, <3>4, <3>5
    <3>. QED  BY <2>3, <2>6, <3>2, <3>6 DEF Accounted, Times, Places, Msg
  <2>. QED  BY <2>5, <2>6
<1>6. CASE ChunkFails(s) \/ LastChunk(s) \/ Abort(s)
  <2>0. PICK m : m = Head(wire[s])
    OBVIOUS
  <2>1. /\ wire[s] # <<>> /\ Take(s) /\ open[m.id]
        /\ open' = [open EXCEPT ![m.id] = FALSE] /\ UNCHANGED <<pc, begun, written>>
    BY <1>6, <2>0 DEF ChunkFails, LastChunk, Abort, AtHead
  <2>2. PICK u \in Upload : u = m.id
    BY <1>1, <2>0, <2>1
  <2>3. /\ m = Msg(m.op, u) /\ home[u] = s
        /\ \A t \in Sessions : Range(wire'[t]) \subseteq Range(wire[t])
    BY <1>1, <2>0, <2>1, <2>2
  <2>4. (open'[w] => open[w]) /\ (w = u => ~open'[w])
    BY <1>0, <2>1, <2>2
  <2>5. Alive(w)' => Alive(w)
    BY <2>1, <2>3, <2>4 DEF Alive, Waits, Creating, Msg
  <2>6. m = Msg("chunk", w) => w = u
    BY <2>2 DEF Msg
  <2>7. w = u => ~Alive(w)'
    <3> SUFFICES ASSUME w = u
                 PROVE  ~Alive(w)'
      OBVIOUS
    <3>1. ~Waits("begin", w) /\ ~Creating(w)
      BY <1>0, <2>1, <2>2 DEF UploadInv, Stages
    <3>. QED  BY <2>1, <2>3, <2>4, <3>1 DEF Alive, Waits, Creating, Msg
  <2>. QED  BY <1>0, <2>0, <2>1, <2>5, <2>6, <2>7, TookAccount
<1>. QED  BY <1>2, <1>3, <1>4, <1>5, <1>6 DEF Handle

LEMMA AccountKept ==
    ASSUME DownloadsInv, UploadsInv', [Next]_vars, NEW w \in Upload
    PROVE  Accounted(w)'
<1>0. UploadTypes /\ Accounted(w) /\ Ordered(w) /\ open \in [Upload -> BOOLEAN] /\ WholeTypes
  BY DEF DownloadsInv, UploadsInv, WholeInv, UploadTypes
<1>1. ASSUME UNCHANGED <<home, thread, sent, link, wire, pc, begun, written>>, open'[w] => open[w]
      PROVE  Accounted(w)'
  <2>1. (Alive(w)' => Alive(w)) /\ \A t \in Sessions : Due(w, t)' => Due(w, t)
    BY <1>1 DEF Alive, Waits, Creating, Due, Msg
  <2>. QED  BY <1>0, <1>1, <2>1, AccountStays
<1>2. CASE UNCHANGED vars
  BY <1>1, <1>2 DEF vars, phoneVars, wireVars, fileVars
<1>3. ASSUME NEW s \in Sessions, OnReply(s)
      PROVE  Accounted(w)'
  BY <1>1, <1>3 DEF OnReply, pcUnchanged, fileVars
<1>4. ASSUME NEW u \in Upload, CancelUpload(u)
      PROVE  Accounted(w)'
  BY <1>1, <1>4 DEF CancelUpload, wireVars, pcUnchanged, fileVars
<1>5. ASSUME NEW s \in Sessions, Leave(s)
      PROVE  Accounted(w)'
  <2>1. /\ UNCHANGED <<home, thread, sent, link, wire, begun, written>>
        /\ pc' = [pc EXCEPT ![s] = "back"]
        /\ open' = [u \in Upload |-> open[u] /\ ~(home[u] = s /\ open[u])]
    BY <1>5 DEF Leave, phoneVars, wireVars
  <2>2. open'[w] => open[w]
    BY <1>0, <2>1
  <2>3. Creating(w)' => Creating(w)
    BY <1>0, <2>1 DEF Creating, UploadTypes
  <2>4. (Alive(w)' => Alive(w)) /\ \A t \in Sessions : Due(w, t)' => Due(w, t)
    BY <2>1, <2>2, <2>3 DEF Alive, Waits, Due, Msg
  <2>. QED  BY <1>0, <2>1, <2>4, AccountStays
<1>6. ASSUME NEW s \in Sessions, LinkDown(s)
      PROVE  Accounted(w)'
  <2>1. /\ \A t \in Sessions : Range(wire'[t]) \subseteq Range(wire[t])
        /\ \A m, b : Precedes(wire[s], m, b) /\ b \in Range(wire'[s]) =>
                         Times(wire'[s], m) = Times(wire[s], m)
        /\ \A t \in Sessions : t # s => wire'[t] = wire[t]
        /\ link' = [link EXCEPT ![s] = "down"]
        /\ UNCHANGED <<home, thread, sent, pcUnchanged>>
    BY <1>0, <1>6, CutLink
  <2>2. UNCHANGED <<pc, begun, open, written>>
    BY <2>1 DEF pcUnchanged, fileVars
  <2>3. link'[s] = "down" /\ \A t \in Sessions : t # s => link'[t] = link[t]
    BY <1>0, <2>1 DEF WholeTypes
  <2>4. (Alive(w)' => Alive(w)) /\ \A t \in Sessions : Due(w, t)' => Due(w, t)
    BY <2>1, <2>2, <2>3 DEF Alive, Waits, Creating, Due, Msg
  <2>5. Due(w, s)' => Msg("last", w) \in Range(wire'[s])
    BY <2>3 DEF Due, Msg
  <2>6. Due(w, s)' => Times(wire'[s], Msg("chunk", w)) = Times(wire[s], Msg("chunk", w))
    BY <1>0, <2>1, <2>5 DEF Ordered
  <2>7. \A t \in Sessions : Due(w, t)' =>
            Times(wire'[t], Msg("chunk", w)) = Times(wire[t], Msg("chunk", w))
    BY <2>1, <2>6
  <2>. QED  BY <1>0, <2>1, <2>2, <2>4, <2>7, AccountStays
<1>. QED  BY <1>2, <1>3, <1>4, <1>5, <1>6, PhoneAccounts, HandleAccounts DEF Next

-----------------------------------------------------------------------------
(* The files *)

FilesInv == WholeTypes /\ OnlyPlaced /\ \A u \in Upload : Early(u) /\ Placed(u)

\* An upload a step says nothing of, and whose file and path it leaves alone.
LEMMA FileStays ==
    ASSUME UploadsInv, NEW w \in Upload, Early(w), Placed(w),
           thread'[w] = "none" => thread[w] = "none",
           sent'[w] = sent[w] \/ thread[w] = "reading",
           written'[w] = written[w], lost'[w] = lost[w], path'[w] = path[w], node'[w] = node[w],
           Waits("begin", w)' => Waits("begin", w) \/ thread[w] = "none",
           Creating(w)' => Creating(w) /\ dir'[path[w]] = dir[path[w]],
           open'[w] \/ reported'[w] = "complete" =>
               /\ open[w] \/ reported[w] = "complete"
               /\ dir'[path[w]] = dir[path[w]] /\ data'[w] = data[w],
           reported'[w] = "complete" => reported[w] = "complete"
    PROVE  Early(w)' /\ Placed(w)'
<1>0. thread[w] = "reading" => reported[w] # "complete"
  BY DEF UploadsInv, UploadInv, LastEnds
<1>1. Early(w)'
  BY DEF Early
<1>2. Placed(w)'
  BY <1>0 DEF Placed
<1>. QED  BY <1>1, <1>2

\* The phone's steps, those of the network, and what the PC drops.
LEMMA PhoneFiles ==
    ASSUME UploadsInv, FilesInv, UNCHANGED <<pc, begun, fileVars, dir, data>>,
           sent' \in [Upload -> Nat], link' \in [Sessions -> {"up", "down"}],
           \A w \in Upload :
               /\ thread'[w] = "none" => thread[w] = "none"
               /\ sent'[w] = sent[w] \/ thread[w] = "reading"
               /\ Waits("begin", w)' => Waits("begin", w) \/ thread[w] = "none"
    PROVE  FilesInv'
<1>0. UNCHANGED <<path, open, node, written, lost, reported>>
  BY DEF fileVars
<1>1. WholeTypes' /\ OnlyPlaced'
  BY <1>0 DEF FilesInv, WholeTypes, OnlyPlaced
<1>2. ASSUME NEW w \in Upload
      PROVE  Early(w)' /\ Placed(w)'
  <2>1. Creating(w)' => Creating(w)
    BY DEF Creating
  <2>. QED  BY <1>0, <2>1, FileStays DEF FilesInv
<1>. QED  BY <1>1, <1>2 DEF FilesInv

\* Which steps these are.
LEMMA PhoneSteps ==
    ASSUME UploadsInv, FilesInv,
           \/ UNCHANGED vars
           \/ \E s \in Sessions : \/ OnReply(s) \/ LinkDown(s) \/ Stray(s)
                                  \/ \E u \in Upload : UploadFile(s, u)
           \/ \E u \in Upload : UploadThread(u) \/ CancelUpload(u)
    PROVE  FilesInv'
<1>0. /\ UploadTypes /\ sent \in [Upload -> Nat] /\ link \in [Sessions -> {"up", "down"}]
      /\ thread \in [Upload -> {"none", "reading", "done"}]
  BY DEF UploadsInv, UploadTypes, FilesInv, WholeTypes
<1>1. CASE UNCHANGED vars
  <2>1. UNCHANGED <<thread, sent, link, wire, pc, begun, fileVars, dir, data>>
    BY <1>1 DEF vars, phoneVars, wireVars
  <2>2. \A w \in Upload : Waits("begin", w)' => Waits("begin", w)
    BY <2>1 DEF Waits, Msg
  <2>. QED  BY <1>0, <2>1, <2>2, PhoneFiles
<1>2. ASSUME NEW s \in Sessions, OnReply(s)
      PROVE  FilesInv'
  <2>1. UNCHANGED <<thread, sent, link, wire, pc, begun, fileVars, dir, data>>
    BY <1>2 DEF OnReply, pcUnchanged
  <2>2. \A w \in Upload : Waits("begin", w)' => Waits("begin", w)
    BY <2>1 DEF Waits, Msg
  <2>. QED  BY <1>0, <2>1, <2>2, PhoneFiles
<1>3. ASSUME NEW s \in Sessions, LinkDown(s)
      PROVE  FilesInv'
  <2>1. /\ \A t \in Sessions : Range(wire'[t]) \subseteq Range(wire[t])
        /\ link' = [link EXCEPT ![s] = "down"]
        /\ UNCHANGED <<thread, sent, pc, begun, fileVars, dir, data>>
    BY <1>0, <1>3, CutLink DEF pcUnchanged
  <2>2. \A w \in Upload : Waits("begin", w)' => Waits("begin", w)
    BY <2>1 DEF Waits, Msg
  <2>3. link' \in [Sessions -> {"up", "down"}]
    BY <1>0, <2>1
  <2>. QED  BY <1>0, <2>1, <2>2, <2>3, PhoneFiles
<1>4. ASSUME NEW s \in Sessions, Stray(s)
      PROVE  FilesInv'
  <2>1. wire[s] # <<>> /\ Take(s) /\ UNCHANGED <<pc, begun, fileVars, dir, data>>
    BY <1>4 DEF Stray, AtHead
  <2>2. /\ \A t \in Sessions : Range(wire'[t]) \subseteq Range(wire[t])
        /\ UNCHANGED <<thread, sent, link>>
    BY <1>0, <2>1, Takes, TookOrder
  <2>3. \A w \in Upload : Waits("begin", w)' => Waits("begin", w)
    BY <2>2 DEF Waits, Msg
  <2>. QED  BY <1>0, <2>1, <2>2, <2>3, PhoneFiles
<1>5. ASSUME NEW s \in Sessions, NEW u \in Upload, UploadFile(s, u)
      PROVE  FilesInv'
  <2>1. /\ Send(s, "begin", u) /\ thread[u] = "none" /\ thread' = [thread EXCEPT ![u] = "reading"]
        /\ UNCHANGED <<sent, link, pc, begun, fileVars, dir, data>>
    BY <1>5 DEF UploadFile, pcUnchanged
  <2>2. /\ Range(wire'[s]) = Range(wire[s]) \union {Msg("begin", u)}
        /\ \A t \in Sessions : t # s => wire'[t] = wire[t]
    BY <1>0, <2>1, SentOrder
  <2>3. \A w \in Upload : Msg("begin", w) = Msg("begin", u) => w = u
    BY DEF Msg
  <2>4. \A w \in Upload : \A t \in Sessions :
            Msg("begin", w) \in Range(wire'[t]) => Msg("begin", w) \in Range(wire[t]) \/ w = u
    BY <2>2, <2>3
  <2>5. \A w \in Upload : Waits("begin", w)' => Waits("begin", w) \/ thread[w] = "none"
    BY <2>1, <2>4 DEF Waits, Msg
  <2>6. \A w \in Upload : thread'[w] = "none" => thread[w] = "none"
    BY <1>0, <2>1
  <2>. QED  BY <1>0, <2>1, <2>5, <2>6, PhoneFiles
<1>6. ASSUME NEW u \in Upload, UploadThread(u)
      PROVE  FilesInv'
  <2>0. thread[u] = "reading"
    BY <1>6 DEF UploadThread, SendChunk, SendLast, GiveUp, Polls
  <2>1. PICK s \in Sessions : s = home[u]
    BY <1>0, <2>0 DEF UploadTypes
  <2>2. /\ (\E op \in {"chunk", "last", "abort"} : Send(s, op, u)) \/ wire' = wire
        /\ thread' = [thread EXCEPT ![u] = "done"] \/ thread' = thread
        /\ sent' = [sent EXCEPT ![u] = @ + 1] \/ sent' = sent
        /\ UNCHANGED <<link, pc, begun, fileVars, dir, data>>
    BY <1>6, <2>1 DEF UploadThread, SendChunk, SendLast, GiveUp, TellAbort, pcUnchanged
  <2>3. \A w \in Upload : \A t \in Sessions :
            Msg("begin", w) \in Range(wire'[t]) => Msg("begin", w) \in Range(wire[t])
    <3>1. CASE wire' = wire
      BY <3>1
    <3>2. ASSUME NEW op \in {"chunk", "last", "abort"}, Send(s, op, u)
          PROVE  \A w \in Upload : \A t \in Sessions :
                     Msg("begin", w) \in Range(wire'[t]) => Msg("begin", w) \in Range(wire[t])
      <4>1. /\ Range(wire'[s]) = Range(wire[s]) \union {Msg(op, u)}
            /\ \A t \in Sessions : t # s => wire'[t] = wire[t]
        BY <1>0, <3>2, SentOrder
      <4>2. \A w \in Upload : Msg("begin", w) # Msg(op, u)
        BY DEF Msg
      <4>. QED  BY <4>1, <4>2
    <3>. QED  BY <2>2, <3>1, <3>2
  <2>4. \A w \in Upload : Waits("begin", w)' => Waits("begin", w)
    BY <2>3 DEF Waits, Msg
  <2>5. /\ sent' \in [Upload -> Nat]
        /\ \A w \in Upload : /\ thread'[w] = "none" => thread[w] = "none"
                             /\ sent'[w] = sent[w] \/ thread[w] = "reading"
    BY <1>0, <2>0, <2>2
  <2>. QED  BY <1>0, <2>2, <2>4, <2>5, PhoneFiles
<1>7. ASSUME NEW u \in Upload, CancelUpload(u)
      PROVE  FilesInv'
  <2>1. UNCHANGED <<thread, sent, link, wire, pc, begun, fileVars, dir, data>>
    BY <1>7 DEF CancelUpload, pcUnchanged, wireVars
  <2>2. \A w \in Upload : Waits("begin", w)' => Waits("begin", w)
    BY <2>1 DEF Waits, Msg
  <2>. QED  BY <1>0, <2>1, <2>2, PhoneFiles
<1>. QED  BY <1>1, <1>2, <1>3, <1>4, <1>5, <1>6, <1>7

\* An upload is refused, or its file cannot be created.
LEMMA RefuseFiles ==
    ASSUME UploadsInv, FilesInv, NEW s \in Sessions, Refuse(s) \/ CreateFails(s)
    PROVE  FilesInv'
<1>0. UploadTypes
  BY DEF UploadsInv
<1>1. PICK u \in Upload :
        /\ Answer(s, "failed", u) /\ ~open[u] /\ reported[u] = "nothing"
        /\ \A t \in Sessions : Range(wire'[t]) \subseteq Range(wire[t])
        /\ \A w \in Upload : Creating(w)' => Creating(w)
        /\ UNCHANGED <<thread, sent, link, path, open, node, written, lost, dir, data>>
  <2>1. CASE Refuse(s)
    <3>0. PICK m : m = Head(wire[s])
      OBVIOUS
    <3>1. /\ wire[s] # <<>> /\ Take(s) /\ m.op = "begin" /\ Answer(s, "failed", m.id)
          /\ UNCHANGED <<pc, begun, path, open, node, written, lost, dir, data>>
      BY <2>1, <3>0 DEF Refuse, AtHead
    <3>2. m.id \in Upload /\ Waits("begin", m.id)
      BY <3>0, <3>1, TakesOwn
    <3>3. ~open[m.id] /\ reported[m.id] = "nothing"
      BY <3>2 DEF UploadsInv, UploadInv, Stages
    <3>4. /\ \A t \in Sessions : Range(wire'[t]) \subseteq Range(wire[t])
          /\ UNCHANGED <<thread, sent, link>>
      BY <1>0, <3>1, Takes, TookOrder
    <3>5. \A w \in Upload : Creating(w)' => Creating(w)
      BY <3>1 DEF Creating
    <3>. QED  BY <3>1, <3>2, <3>3, <3>4, <3>5
  <2>2. CASE CreateFails(s)
    <3>1. /\ pc[s] = "creating" /\ pc' = [pc EXCEPT ![s] = "loop"] /\ Answer(s, "failed", begun[s])
          /\ UNCHANGED <<thread, sent, link, wire, begun, path, open, node, written, lost, dir, data>>
      BY <2>2 DEF CreateFails, phoneVars
    <3>2. begun[s] \in Upload /\ Creating(begun[s])
      BY <1>0, <3>1 DEF UploadTypes, Creating
    <3>3. ~open[begun[s]] /\ reported[begun[s]] = "nothing"
      BY <3>2 DEF UploadsInv, UploadInv, Stages
    <3>4. \A w \in Upload : Creating(w)' => Creating(w)
      BY <1>0, <3>1 DEF Creating, UploadTypes
    <3>. QED  BY <3>1, <3>2, <3>3, <3>4
  <2>. QED  BY <2>1, <2>2
<1>2. reported'[u] = "failed" /\ \A w \in Upload : w # u => reported'[w] = reported[w]
  BY <1>0, <1>1, Answers
<1>3. WholeTypes'
  BY <1>1 DEF FilesInv, WholeTypes
<1>4. OnlyPlaced'
  <2> SUFFICES ASSUME NEW p \in Path, dir[p] # Nobody
               PROVE  path[dir[p]] = p /\ (open[dir[p]] \/ reported'[dir[p]] = "complete")
    BY <1>1 DEF OnlyPlaced
  <2>1. dir[p] \in Upload /\ path[dir[p]] = p /\ (open[dir[p]] \/ reported[dir[p]] = "complete")
    BY DEF FilesInv, OnlyPlaced, WholeTypes
  <2>. QED  BY <1>1, <1>2, <2>1
<1>5. ASSUME NEW w \in Upload
      PROVE  Early(w)' /\ Placed(w)'
  <2>1. Waits("begin", w)' => Waits("begin", w)
    BY <1>1 DEF Waits, Msg
  <2>2. reported'[w] = "complete" => reported[w] = "complete"
    BY <1>2
  <2>. QED  BY <1>1, <2>1, <2>2, FileStays DEF FilesInv
<1>. QED  BY <1>3, <1>4, <1>5 DEF FilesInv

\* An upload gets a path that is free.
LEMMA BeginFiles ==
    ASSUME UploadsInv, FilesInv, NEW s \in Sessions, Begin(s)
    PROVE  FilesInv'
<1>0. UploadTypes /\ path \in [Upload -> Path]
  BY DEF UploadsInv, FilesInv, WholeTypes
<1>1. PICK m : m = Head(wire[s])
  OBVIOUS
<1>2. /\ wire[s] # <<>> /\ Take(s) /\ m.op = "begin" /\ Free # {}
      /\ begun' = [begun EXCEPT ![s] = m.id] /\ pc' = [pc EXCEPT ![s] = "creating"]
      /\ path' = [path EXCEPT ![m.id] = Min(Free)]
      /\ UNCHANGED <<open, node, written, lost, reported, dir, data>>
  BY <1>1 DEF Begin, AtHead
<1>3. m.id \in Upload /\ Waits("begin", m.id) /\ thread[m.id] # "none"
  BY <1>1, <1>2, TakesOwn
<1>4. PICK u \in Upload : u = m.id
  BY <1>3
<1>5. ~open[u] /\ reported[u] = "nothing" /\ written[u] = 0 /\ ~lost[u]
  BY <1>2, <1>3, <1>4 DEF UploadsInv, UploadInv, Stages, FilesInv, Early
<1>6. /\ \A t \in Sessions : Range(wire'[t]) \subseteq Range(wire[t])
      /\ UNCHANGED <<thread, sent, link>>
  BY <1>0, <1>2, Takes, TookOrder
<1>7. Min(Free) \in Path /\ dir[Min(Free)] = Nobody
  <2>1. Path \in SUBSET Nat
    BY UploadAssumption DEF Path
  <2>2. Min(Free) \in Free
    BY <1>2, <2>1, Least DEF Free
  <2>. QED  BY <2>2 DEF Free
<1>8. /\ path' \in [Upload -> Path] /\ path'[u] = Min(Free)
      /\ \A w \in Upload : w # u => path'[w] = path[w]
  BY <1>0, <1>2, <1>4, <1>7
<1>9. WholeTypes'
  BY <1>2, <1>6, <1>8 DEF FilesInv, WholeTypes
<1>10. OnlyPlaced'
  <2> SUFFICES ASSUME NEW p \in Path, dir[p] # Nobody
               PROVE  path'[dir[p]] = p /\ (open[dir[p]] \/ reported[dir[p]] = "complete")
    BY <1>2 DEF OnlyPlaced
  <2>1. dir[p] \in Upload /\ path[dir[p]] = p /\ (open[dir[p]] \/ reported[dir[p]] = "complete")
    BY DEF FilesInv, OnlyPlaced, WholeTypes
  <2>. QED  BY <1>5, <1>8, <2>1
<1>11. ASSUME NEW w \in Upload
       PROVE  Early(w)' /\ Placed(w)'
  <2>1. Waits("begin", w)' => Waits("begin", w)
    BY <1>6 DEF Waits, Msg
  <2>2. CASE w # u
    <3>1. Creating(w)' => Creating(w)
      BY <1>0, <1>2, <1>4, <2>2 DEF Creating, UploadTypes
    <3>. QED  BY <1>2, <1>6, <1>8, <2>1, <2>2, <3>1, FileStays DEF FilesInv
  <2>3. CASE w = u
    <3>1. Early(u)'
      BY <1>2, <1>3, <1>4, <1>5, <1>6, <1>7, <1>8 DEF Early
    <3>2. Placed(u)'
      BY <1>2, <1>5 DEF Placed
    <3>. QED  BY <2>3, <3>1, <3>2
  <2>. QED  BY <2>2, <2>3
<1>. QED  BY <1>9, <1>10, <1>11 DEF FilesInv

\* The file is created at its path, where no other session has created one in
\* between.
LEMMA CreateFiles ==
    ASSUME OneCreates, UploadsInv, FilesInv, NEW s \in Sessions, Create(s)
    PROVE  FilesInv'
<1>0. UploadTypes /\ WholeTypes
  BY DEF UploadsInv, FilesInv
<1>1. PICK u : u = begun[s]
  OBVIOUS
<1>2. pc[s] = "creating" /\ u \in Upload /\ Creating(u)
  BY <1>0, <1>1 DEF Create, UploadTypes, Creating
<1>3. /\ ~Waits("begin", u) /\ ~open[u] /\ reported[u] = "nothing" /\ thread[u] # "none"
      /\ written[u] = 0 /\ dir[path[u]] = Nobody /\ path[u] \in Path /\ u # Nobody
  BY <1>0, <1>2, UploadIsSomebody DEF UploadsInv, UploadInv, Stages, FilesInv, Early, WholeTypes
<1>4. /\ pc' = [pc EXCEPT ![s] = "loop"] /\ open' = [open EXCEPT ![u] = TRUE]
      /\ node' = [node EXCEPT ![u] = u] /\ dir' = [dir EXCEPT ![path[u]] = u]
      /\ data' = [data EXCEPT ![u] = <<>>]
      /\ UNCHANGED <<thread, sent, link, wire, begun, path, written, lost, reported>>
  BY <1>1, <1>3 DEF Create, phoneVars, wireVars
<1>5. /\ open'[u] /\ node'[u] = u /\ dir'[path[u]] = u /\ data'[u] = <<>>
      /\ \A w \in Upload : w # u => open'[w] = open[w] /\ node'[w] = node[w] /\ data'[w] = data[w]
      /\ \A p \in Path : p # path[u] => dir'[p] = dir[p]
  BY <1>0, <1>2, <1>3, <1>4 DEF UploadTypes, WholeTypes
<1>6. WholeTypes'
  BY <1>0, <1>2, <1>3, <1>4 DEF WholeTypes
<1>7. OnlyPlaced'
  <2> SUFFICES ASSUME NEW p \in Path, dir'[p] # Nobody
               PROVE  path[dir'[p]] = p /\ (open'[dir'[p]] \/ reported[dir'[p]] = "complete")
    BY <1>4 DEF OnlyPlaced
  <2>1. CASE p = path[u]
    BY <1>5, <2>1
  <2>2. CASE p # path[u]
    <3>1. dir'[p] = dir[p]
      BY <1>5, <2>2
    <3>2. dir[p] \in Upload /\ path[dir[p]] = p /\ (open[dir[p]] \/ reported[dir[p]] = "complete")
      BY <3>1 DEF FilesInv, OnlyPlaced, WholeTypes
    <3>. QED  BY <1>5, <3>1, <3>2
  <2>. QED  BY <2>1, <2>2
<1>8. \A w \in Upload : ~Creating(w)'
  BY <1>0, <1>2, <1>4 DEF Creating, UploadTypes, OneCreates
<1>9. ASSUME NEW w \in Upload
      PROVE  Early(w)' /\ Placed(w)'
  <2>1. Waits("begin", w)' => Waits("begin", w)
    BY <1>4 DEF Waits, Msg
  <2>2. CASE w # u
    <3>1. open[w] \/ reported[w] = "complete" => dir'[path[w]] = dir[path[w]]
      <4>1. open[w] \/ reported[w] = "complete" => dir[path[w]] = w /\ w # Nobody
        BY UploadIsSomebody DEF FilesInv, Placed
      <4>2. path[w] \in Path
        BY <1>0 DEF WholeTypes
      <4>. QED  BY <1>3, <1>5, <4>1, <4>2
    <3>. QED  BY <1>4, <1>5, <1>8, <2>1, <2>2, <3>1, FileStays DEF FilesInv
  <2>3. CASE w = u
    <3>1. Early(u)'
      BY <1>2, <1>3, <1>4, <1>8, <2>1, <2>3 DEF Early
    <3>2. <<>> = [i \in 1..0 |-> u]
      OBVIOUS
    <3>3. Placed(u)'
      BY <1>3, <1>4, <1>5, <3>2 DEF Placed
    <3>. QED  BY <2>3, <3>1, <3>3
  <2>. QED  BY <2>2, <2>3
<1>. QED  BY <1>6, <1>7, <1>9 DEF FilesInv

\* What a chunk makes of a file that holds the chunks before it.
LEMMA PutNext ==
    ASSUME NEW u \in Upload, node[u] = u, NEW n \in Nat, written[u] = n,
           data[u] = [i \in 1..n |-> u]
    PROVE  Put(u) = [i \in 1..n + 1 |-> u]
<1>1. data[u] \in Seq(Upload) /\ Len(data[u]) = n
  <2>1. PICK q : q = data[u]
    OBVIOUS
  <2>2. q \in [1..n -> Upload]
    BY <2>1
  <2>3. q \in Seq(Upload)
    BY <2>2
  <2>4. DOMAIN q = 1..Len(q) /\ Len(q) \in Nat /\ DOMAIN q = 1..n
    BY <2>2, <2>3, LenProperties
  <2>. QED  BY <2>1, <2>3, <2>4
<1>2. Max({n + 1, n}) = n + 1
  BY DEF Max
<1>3. Put(u) = [i \in 1..n + 1 |-> IF i = n + 1 THEN u ELSE IF i <= n THEN data[u][i] ELSE Nobody]
  BY <1>1, <1>2 DEF Put
<1>4. \A i \in 1..n + 1 :
          (IF i = n + 1 THEN u ELSE IF i <= n THEN data[u][i] ELSE Nobody) = u
  OBVIOUS
<1>. QED  BY <1>3, <1>4

\* A chunk goes to its upload's own file, or is lost.
LEMMA ChunkFiles ==
    ASSUME UploadsInv, FilesInv, NEW s \in Sessions, Chunk(s)
    PROVE  FilesInv'
<1>0. UploadTypes /\ WholeTypes
  BY DEF UploadsInv, FilesInv
<1>1. PICK m : m = Head(wire[s])
  OBVIOUS
<1>2. /\ wire[s] # <<>> /\ Take(s) /\ open[m.id] /\ ~lost[m.id]
      /\ written' = [written EXCEPT ![m.id] = @ + 1]
      /\ \/ data' = [data EXCEPT ![node[m.id]] = Put(m.id)] /\ UNCHANGED lost
         \/ lost' = [lost EXCEPT ![m.id] = TRUE] /\ UNCHANGED data
      /\ UNCHANGED <<pc, begun, path, open, node, reported, dir>>
  BY <1>1 DEF Chunk, AtHead
<1>3. PICK u \in Upload : u = m.id
  BY <1>1, <1>2, TakesOwn
<1>4. /\ thread[u] # "none" /\ ~Waits("begin", u) /\ ~Creating(u) /\ reported[u] = "nothing"
      /\ node[u] = u /\ dir[path[u]] = u /\ data[u] = [i \in 1..written[u] |-> u]
  BY <1>2, <1>3 DEF UploadsInv, UploadInv, Stages, FilesInv, Placed
<1>5. /\ \A t \in Sessions : Range(wire'[t]) \subseteq Range(wire[t])
      /\ UNCHANGED <<thread, sent, link>>
  BY <1>0, <1>2, Takes, TookOrder
<1>6. /\ \A w \in Upload : Waits("begin", w)' => Waits("begin", w)
      /\ \A w \in Upload : Creating(w)' => Creating(w)
  BY <1>2, <1>5 DEF Waits, Creating, Msg
<1>7. /\ written' \in [Upload -> Nat] /\ written'[u] = written[u] + 1
      /\ lost' \in [Upload -> BOOLEAN] /\ DOMAIN data' = Upload
      /\ lost'[u] \/ data'[u] = Put(u)
      /\ \A w \in Upload : w # u => /\ written'[w] = written[w] /\ lost'[w] = lost[w]
                                    /\ data'[w] = data[w]
  <2>1. /\ written \in [Upload -> Nat] /\ lost \in [Upload -> BOOLEAN] /\ DOMAIN data = Upload
    BY <1>0 DEF WholeTypes
  <2>2. CASE data' = [data EXCEPT ![u] = Put(u)] /\ UNCHANGED lost
    BY <1>2, <1>3, <2>1, <2>2
  <2>3. CASE lost' = [lost EXCEPT ![u] = TRUE] /\ UNCHANGED data
    BY <1>2, <1>3, <2>1, <2>3
  <2>. QED  BY <1>2, <1>3, <1>4, <2>2, <2>3
<1>8. WholeTypes' /\ OnlyPlaced'
  BY <1>2, <1>5, <1>7 DEF FilesInv, WholeTypes, OnlyPlaced
<1>9. ASSUME NEW w \in Upload
      PROVE  Early(w)' /\ Placed(w)'
  <2>1. CASE w # u
    BY <1>2, <1>5, <1>6, <1>7, <2>1, FileStays DEF FilesInv
  <2>2. CASE w = u
    <3>1. Early(u)'
      BY <1>4, <1>5, <1>6 DEF Early
    <3>2. written[u] \in Nat
      BY <1>0 DEF WholeTypes
    <3>3. Put(u) = [i \in 1..written[u] + 1 |-> u]
      BY <1>4, <3>2, PutNext
    <3>4. Placed(u)'
      BY <1>2, <1>4, <1>7, <3>3 DEF Placed
    <3>. QED  BY <2>2, <3>1, <3>4
  <2>. QED  BY <2>1, <2>2
<1>. QED  BY <1>8, <1>9 DEF FilesInv

\* What is open is closed and unlinked: each file has a path of its own.
LEMMA UnlinkFiles ==
    ASSUME UploadsInv, FilesInv, NEW us \in SUBSET Upload, \A u \in us : open[u],
           open' = [u \in Upload |-> open[u] /\ u \notin us],
           dir' = [p \in Path |-> IF \E u \in us : path[u] = p THEN Nobody ELSE dir[p]],
           \A w \in Upload : /\ Waits("begin", w)' => Waits("begin", w)
                             /\ Creating(w)' => Creating(w)
                             /\ reported'[w] = reported[w] \/ (w \in us /\ reported'[w] = "failed"),
           UNCHANGED <<thread, sent, link, path, node, written, lost, data>>
    PROVE  FilesInv'
<1>0. /\ WholeTypes
      /\ \A w \in Upload : Early(w) /\ Placed(w) /\ Stages(w)
  BY DEF FilesInv, UploadsInv, UploadInv
<1>1. \A u \in us : open[u] /\ dir[path[u]] = u /\ u # Nobody /\ reported[u] = "nothing"
  BY <1>0, UploadIsSomebody DEF Placed, Stages
<1>2. WholeTypes'
  BY <1>0 DEF WholeTypes
<1>3. OnlyPlaced'
  <2> SUFFICES ASSUME NEW p \in Path, dir'[p] # Nobody
               PROVE  path[dir'[p]] = p /\ (open'[dir'[p]] \/ reported'[dir'[p]] = "complete")
    BY DEF OnlyPlaced
  <2>1. dir'[p] = dir[p] /\ ~\E u \in us : path[u] = p
    OBVIOUS
  <2>2. dir[p] \in Upload /\ path[dir[p]] = p /\ (open[dir[p]] \/ reported[dir[p]] = "complete")
    BY <2>1 DEF FilesInv, OnlyPlaced, WholeTypes
  <2>3. dir[p] \notin us
    BY <2>1, <2>2
  <2>. QED  BY <2>1, <2>2, <2>3
<1>4. ASSUME NEW w \in Upload
      PROVE  Early(w)' /\ Placed(w)'
  <2>0. path[w] \in Path
    BY <1>0 DEF WholeTypes
  <2>1. open'[w] \/ reported'[w] = "complete" => w \notin us /\ (open[w] \/ reported[w] = "complete")
    BY <1>1
  <2>2. open'[w] \/ reported'[w] = "complete" => dir'[path[w]] = dir[path[w]]
    <3> SUFFICES ASSUME open'[w] \/ reported'[w] = "complete"
                 PROVE  dir'[path[w]] = dir[path[w]]
      OBVIOUS
    <3>1. dir[path[w]] = w /\ w \notin us
      BY <1>0, <2>1 DEF Placed
    <3>2. ~\E u \in us : path[u] = path[w]
      BY <1>1, <3>1
    <3>. QED  BY <2>0, <3>2
  <2>3. Creating(w)' => Creating(w) /\ dir'[path[w]] = dir[path[w]]
    BY <1>0, <2>0 DEF Early
  <2>4. reported'[w] = "complete" => reported[w] = "complete"
    BY <1>1
  <2>. QED  BY <1>0, <2>1, <2>2, <2>3, <2>4, FileStays
<1>. QED  BY <1>2, <1>3, <1>4 DEF FilesInv

\* One upload is given up, or a session returns.
LEMMA EndFiles ==
    ASSUME UploadsInv, FilesInv, NEW s \in Sessions, ChunkFails(s) \/ Abort(s) \/ Leave(s)
    PROVE  FilesInv'
<1>0. /\ UploadTypes /\ WholeTypes /\ open \in [Upload -> BOOLEAN]
      /\ dir \in [Path -> Upload \union {Nobody}]
  BY DEF UploadsInv, UploadTypes, FilesInv, WholeTypes
<1>1. CASE ChunkFails(s) \/ Abort(s)
  <2>0. PICK m : m = Head(wire[s])
    OBVIOUS
  <2>1. /\ wire[s] # <<>> /\ Take(s) /\ open[m.id] /\ open' = [open EXCEPT ![m.id] = FALSE]
        /\ dir' = [dir EXCEPT ![path[m.id]] = Nobody]
        /\ Answer(s, "failed", m.id) \/ reported' = reported
        /\ UNCHANGED <<pc, begun, path, node, written, lost, data>>
    BY <1>1, <2>0 DEF ChunkFails, Abort, AtHead, Unlink
  <2>2. PICK u \in Upload : u = m.id
    BY <2>0, <2>1, TakesOwn
  <2>3. /\ \A t \in Sessions : Range(wire'[t]) \subseteq Range(wire[t])
        /\ UNCHANGED <<thread, sent, link>>
    BY <1>0, <2>1, Takes, TookOrder
  <2>4. \A w \in Upload : (Waits("begin", w)' => Waits("begin", w)) /\ (Creating(w)' => Creating(w))
    BY <2>1, <2>3 DEF Waits, Creating, Msg
  <2>5. \A w \in Upload : reported'[w] = reported[w] \/ (w \in {u} /\ reported'[w] = "failed")
    <3>1. CASE Answer(s, "failed", u)
      <4>1. reported'[u] = "failed" /\ \A w \in Upload : w # u => reported'[w] = reported[w]
        BY <1>0, <3>1, Answers
      <4>. QED  BY <4>1
    <3>. QED  BY <2>1, <2>2, <3>1
  <2>6. /\ open' = [w \in Upload |-> open[w] /\ w \notin {u}]
        /\ dir' = [p \in Path |-> IF \E w \in {u} : path[w] = p THEN Nobody ELSE dir[p]]
    BY <1>0, <2>1, <2>2
  <2>7. PICK us \in SUBSET Upload : us = {u}
    OBVIOUS
  <2>8. \A w \in us : open[w]
    BY <2>1, <2>2, <2>7
  <2>. QED  BY <2>1, <2>3, <2>4, <2>5, <2>6, <2>7, <2>8, UnlinkFiles
<1>2. CASE Leave(s)
  <2> DEFINE mine == {u \in Upload : home[u] = s /\ open[u]}
  <2>1. /\ pc' = [pc EXCEPT ![s] = "back"] /\ open' = [u \in Upload |-> open[u] /\ u \notin mine]
        /\ dir' = [p \in Path |-> IF \E u \in mine : path[u] = p THEN Nobody ELSE dir[p]]
        /\ UNCHANGED <<thread, sent, link, wire, begun, path, node, written, lost, reported, data>>
    BY <1>2 DEF Leave, UnlinkAll, phoneVars, wireVars
  <2>2. \A w \in Upload : (Waits("begin", w)' => Waits("begin", w)) /\ (Creating(w)' => Creating(w))
    BY <1>0, <2>1 DEF Waits, Creating, Msg, UploadTypes
  <2>3. mine \in SUBSET Upload /\ \A u \in mine : open[u]
    OBVIOUS
  <2> HIDE DEF mine
  <2>. QED  BY <2>1, <2>2, <2>3, UnlinkFiles
<1>. QED  BY <1>1, <1>2

\* The last chunk: all others were before it, and all were written.
LEMMA LastFiles ==
    ASSUME DownloadsInv, NEW s \in Sessions, LastChunk(s)
    PROVE  FilesInv'
<1>0. /\ UploadsInv /\ UploadTypes /\ WholeTypes /\ open \in [Upload -> BOOLEAN] /\ OnlyPlaced
      /\ \A w \in Upload : Early(w) /\ Placed(w)
  BY DEF DownloadsInv, UploadsInv, UploadTypes, WholeInv
<1>1. PICK m : m = Head(wire[s])
  OBVIOUS
<1>2. /\ wire[s] # <<>> /\ Take(s) /\ m.op = "last" /\ open[m.id]
      /\ open' = [open EXCEPT ![m.id] = FALSE] /\ Answer(s, "complete", m.id)
      /\ UNCHANGED <<pc, begun, path, node, written, lost, dir, data>>
  BY <1>1 DEF LastChunk, AtHead
<1>3. m.id \in Upload /\ home[m.id] = s /\ thread[m.id] # "none"
  BY <1>0, <1>1, <1>2, TakesOwn
<1>4. PICK u \in Upload : u = m.id
  BY <1>3
<1>5. m = Msg("last", u) /\ m \in Range(wire[s])
  <2>1. m \in Message /\ m \in Range(wire[s])
    BY <1>0, <1>1, <1>2, Takes
  <2>. QED  BY <1>2, <1>4, <2>1 DEF Message, Msg
<1>6. written[u] = sent[u]
  <2>1. Msg("chunk", u) \notin Range(wire[s])
    <3>1. Precedes(wire[s], Msg("chunk", u), Msg("last", u))
      BY DEF DownloadsInv, WholeInv, Ordered
    <3>. QED  BY <1>0, <1>1, <1>2, <1>5, <3>1, TookOrder
  <2>2. Times(wire[s], Msg("chunk", u)) = 0
    BY <1>0, <2>1, Counted DEF UploadTypes
  <2>3. written[u] + Times(wire[s], Msg("chunk", u)) = sent[u]
    BY <1>2, <1>3, <1>4, <1>5 DEF DownloadsInv, WholeInv, Accounted, Alive, Due
  <2>4. written[u] \in Nat
    BY <1>0 DEF WholeTypes
  <2>. QED  BY <2>2, <2>3, <2>4
<1>7. /\ ~open'[u] /\ \A w \in Upload : w # u => open'[w] = open[w]
  BY <1>0, <1>2, <1>4
<1>8. reported'[u] = "complete" /\ \A w \in Upload : w # u => reported'[w] = reported[w]
  BY <1>0, <1>2, <1>4, Answers
<1>9. /\ \A t \in Sessions : Range(wire'[t]) \subseteq Range(wire[t])
      /\ UNCHANGED <<thread, sent, link>>
  BY <1>0, <1>2, Takes, TookOrder
<1>10. WholeTypes'
  BY <1>0, <1>2, <1>9 DEF WholeTypes
<1>11. OnlyPlaced'
  <2> SUFFICES ASSUME NEW p \in Path, dir[p] # Nobody
               PROVE  path[dir[p]] = p /\ (open'[dir[p]] \/ reported'[dir[p]] = "complete")
    BY <1>2 DEF OnlyPlaced
  <2>1. dir[p] \in Upload /\ path[dir[p]] = p /\ (open[dir[p]] \/ reported[dir[p]] = "complete")
    BY <1>0 DEF OnlyPlaced, WholeTypes
  <2>. QED  BY <1>7, <1>8, <2>1
<1>12. ASSUME NEW w \in Upload
       PROVE  Early(w)' /\ Placed(w)'
  <2>1. (Waits("begin", w)' => Waits("begin", w)) /\ (Creating(w)' => Creating(w))
    BY <1>2, <1>9 DEF Waits, Creating, Msg
  <2>2. CASE w # u
    BY <1>0, <1>2, <1>7, <1>8, <1>9, <2>1, <2>2, FileStays
  <2>3. CASE w = u
    <3>1. Early(u)'
      BY <1>0, <1>2, <1>9, <2>1, <2>3 DEF Early
    <3>2. Placed(u)'
      BY <1>0, <1>2, <1>4, <1>6, <1>9 DEF Placed
    <3>. QED  BY <2>3, <3>1, <3>2
  <2>. QED  BY <2>2, <2>3
<1>. QED  BY <1>10, <1>11, <1>12 DEF FilesInv

\* Every step keeps the invariant, as long as one session at a time creates.
LEMMA DownloadsStep == DownloadsInv /\ OneCreates /\ [Next]_vars => DownloadsInv'
<1> SUFFICES ASSUME DownloadsInv, OneCreates, [Next]_vars
             PROVE  DownloadsInv'
  OBVIOUS
<1>0. UploadsInv /\ FilesInv
  BY DEF DownloadsInv, FilesInv, WholeInv
<1>1. UploadsInv'
  BY <1>0, UploadsStep
<1>2. ASSUME NEW w \in Upload
      PROVE  Ordered(w)' /\ Accounted(w)'
  <2>1. Ordered(w)'
    BY <1>0, OrderKept DEF DownloadsInv, WholeInv
  <2>2. Accounted(w)'
    BY <1>1, AccountKept
  <2>. QED  BY <2>1, <2>2
<1>3. FilesInv'
  <2>1. ASSUME NEW s \in Sessions, Handle(s) \/ Leave(s)
        PROVE  FilesInv'
    <3>1. CASE Refuse(s) \/ CreateFails(s)
      BY <1>0, <3>1, RefuseFiles
    <3>2. CASE Begin(s)
      BY <1>0, <3>2, BeginFiles
    <3>3. CASE Create(s)
      BY <1>0, <3>3, CreateFiles
    <3>4. CASE Stray(s)
      BY <1>0, <3>4, PhoneSteps
    <3>5. CASE Chunk(s)
      BY <1>0, <3>5, ChunkFiles
    <3>6. CASE ChunkFails(s) \/ Abort(s) \/ Leave(s)
      BY <1>0, <3>6, EndFiles
    <3>7. CASE LastChunk(s)
      BY <3>7, LastFiles
    <3>. QED  BY <2>1, <3>1, <3>2, <3>3, <3>4, <3>5, <3>6, <3>7 DEF Handle
  <2>2. CASE UNCHANGED vars
    BY <1>0, <2>2, PhoneSteps
  <2>3. ASSUME NEW s \in Sessions, OnReply(s) \/ LinkDown(s) \/ \E u \in Upload : UploadFile(s, u)
        PROVE  FilesInv'
    BY <1>0, <2>3, PhoneSteps
  <2>4. ASSUME NEW u \in Upload, UploadThread(u) \/ CancelUpload(u)
        PROVE  FilesInv'
    BY <1>0, <2>4, PhoneSteps
  <2>. QED  BY <2>1, <2>2, <2>3, <2>4 DEF Next
<1>. QED  BY <1>1, <1>2, <1>3 DEF DownloadsInv, FilesInv, WholeInv

\* What lies in Downloads at any time is whole or being written: no half of a
\* file stays, whichever way its upload ends (connection.rs:394), and one that
\* was reported complete is there with the chunks the phone sent and nothing
\* else (connection.rs:983-1008).  As long as no two sessions are between
\* unique_dest_path and File::create at once (connection.rs:859-872).
THEOREM DownloadsAreWhole == Spec /\ []OneCreates => []DownloadsWhole
<1>. QED  BY DownloadsInit, DownloadsStep, DownloadsHold, PTL DEF Spec

(***************************************************************************)
(* What the phone keeps of the files it receives, for any number of files: *)
(* nothing half-written, and all it has told the PC is complete            *)
(* (ReceivedWhole).  Two threads write, fail, abort and forget a file with *)
(* no lock between them.  The invariant says for each point of either      *)
(* thread what is then on the disk: a file is deleted only once its stream *)
(* is closed, and a reader whose stream was closed never gets to its end.  *)
(***************************************************************************)

-----------------------------------------------------------------------------
(* The values *)

ReaderSteps == {"idle", "register", "announce", "chunk", "last", "close", "finish",
                "fail", "failed"}

FileTypes ==
    /\ connected \in BOOLEAN
    /\ next \in [D -> {"begin", "chunk", "last", "over"}]
    /\ reader \in ReaderSteps \X (D \union {0})
    /\ incoming \subseteq D
    /\ closed \in [D -> BOOLEAN] /\ bytes \in [D -> Nat]
    /\ disk \in [D -> {"none", "there", "gone"}]
    /\ told \in [D -> SUBSET {"accepted", "complete", "failed"}]

\* The reader is at a step for d.
At(d, steps) == \E s \in steps : reader = <<s, d>>

-----------------------------------------------------------------------------
(* The invariant, for one download *)

\* Before it is announced nothing is there; until its first chunk has come
\* nothing is written.
Fresh(d) ==
    /\ next[d] = "begin" => disk[d] = "none" /\ d \notin incoming /\ reader[2] # d
    /\ next[d] \in {"begin", "chunk"} => bytes[d] = 0
    /\ d \in incoming => disk[d] # "none"

\* Where the reader is says how much of the file was written before.
ReaderKnows(d) ==
    /\ reader = <<"register", d>> =>
          next[d] = "chunk" /\ disk[d] = "there" /\ ~closed[d] /\ d \notin incoming
    /\ reader = <<"announce", d>> => next[d] = "chunk"
    /\ reader = <<"chunk", d>> => next[d] = "last" /\ bytes[d] = 0
    /\ reader = <<"last", d>> => next[d] = "over" /\ bytes[d] = 1
    /\ At(d, {"close", "finish"}) => next[d] = "over" /\ bytes[d] = Chunks
    /\ At(d, {"fail", "failed"}) => next[d] \in {"last", "over"}
    /\ At(d, {"chunk", "last", "close", "finish", "fail", "failed"}) => disk[d] # "none"

\* A file whose first chunk failed is not in incomingFiles when the last comes.
FirstWritten(d) ==
    d \in incoming /\ next[d] = "last" /\ ~At(d, {"chunk", "fail", "failed"}) => bytes[d] = 1

\* A file is deleted with its stream closed; a closed one is whole or deleted.
ClosedOrWhole(d) ==
    /\ disk[d] = "gone" => closed[d]
    /\ closed[d] => disk[d] = "gone" \/ bytes[d] = Chunks
    /\ bytes[d] <= Chunks
    /\ reader = <<"failed", d>> \/ main = <<"failed", d>> => disk[d] = "gone"

\* The main thread fails a file only because its card was cancelled, once the
\* reader has registered it.
MainCancels(d) ==
    main \in {<<"fail", d>>, <<"failed", d>>} =>
        d \in cancelled /\ next[d] # "begin" /\ reader # <<"register", d>>

\* What is complete, or about to be, is there, unless its card was cancelled.
CompleteStays(d) ==
    /\ "complete" \in told[d] => next[d] = "over" /\ reader[2] # d
    /\ d \notin cancelled /\ ("complete" \in told[d] \/ At(d, {"close", "finish"})) =>
          disk[d] = "there" /\ bytes[d] = Chunks

\* What is not whole is in incomingFiles, or about to be.
PartialIsKnown(d) ==
    d \notin late /\ disk[d] = "there" /\ bytes[d] < Chunks =>
        d \in incoming \/ reader = <<"register", d>>

FileInv(d) ==
    /\ Fresh(d) /\ ReaderKnows(d) /\ FirstWritten(d) /\ ClosedOrWhole(d) /\ MainCancels(d)
    /\ CompleteStays(d) /\ PartialIsKnown(d)

ReceiveInv == FileTypes /\ \A d \in D : FileInv(d)

-----------------------------------------------------------------------------
LEMMA ReceiveInit == PhoneInit => ReceiveInv
<1> SUFFICES ASSUME PhoneInit
             PROVE  ReceiveInv
  OBVIOUS
<1>0. D \subseteq Nat /\ 0 \notin D
  BY DEF D
<1>1. FileTypes
  BY DEF PhoneInit, FileTypes, Nothing, ReaderSteps, Chunks
<1>2. ASSUME NEW d \in D
      PROVE  FileInv(d)
  <2>1. /\ next[d] = "begin" /\ reader = <<"idle", 0>> /\ main = <<"idle", 0>> /\ incoming = {}
        /\ ~closed[d] /\ bytes[d] = 0 /\ disk[d] = "none" /\ told[d] = {} /\ d # 0
    BY <1>0 DEF PhoneInit, Nothing
  <2>. QED
    BY <2>1
    DEF FileInv, Fresh, ReaderKnows, FirstWritten, ClosedOrWhole, MainCancels, CompleteStays,
        PartialIsKnown, At, Chunks
<1>. QED  BY <1>1, <1>2 DEF ReceiveInv

LEMMA ReceiveWhole == ReceiveInv => ReceivedWhole
<1> SUFFICES ASSUME ReceiveInv
             PROVE  ReceivedWhole
  OBVIOUS
<1>1. NoPartialStays
  <2> SUFFICES ASSUME AtRest, NEW d \in D \ late, disk[d] = "there", bytes[d] < Chunks
               PROVE  d \in incoming
    BY DEF NoPartialStays
  <2>1. reader = <<"idle", 0>>
    BY DEF AtRest, Nothing
  <2>. QED  BY <2>1 DEF ReceiveInv, FileInv, PartialIsKnown
<1>2. CompleteIsThere
  BY DEF CompleteIsThere, ReceiveInv, FileInv, CompleteStays
<1>. QED  BY <1>1, <1>2 DEF ReceivedWhole

-----------------------------------------------------------------------------
(* The steps *)

\* What a download keeps while both threads are at others, or at rest.
LEMMA Untouched ==
    ASSUME NEW d \in D, FileInv(d),
           next'[d] = next[d], closed'[d] = closed[d], bytes'[d] = bytes[d],
           disk'[d] = disk[d], told'[d] = told[d], d \in incoming' <=> d \in incoming,
           d \in cancelled => d \in cancelled', d \in late => d \in late',
           reader' = reader \/ (reader[2] # d /\ reader'[2] # d),
           main' = main \/ main'[2] # d
    PROVE  FileInv(d)'
<1>1. CASE reader' = reader
  <2>1. \A steps : At(d, steps)' <=> At(d, steps)
    BY <1>1 DEF At
  <2>2. /\ main' = <<"failed", d>> => main = <<"failed", d>>
        /\ main' \in {<<"fail", d>>, <<"failed", d>>} => main \in {<<"fail", d>>, <<"failed", d>>}
    OBVIOUS
  <2>3. Fresh(d)' /\ ReaderKnows(d)' /\ FirstWritten(d)'
    BY <1>1 DEF FileInv, Fresh, ReaderKnows, FirstWritten, At
  <2>4. ClosedOrWhole(d)' /\ MainCancels(d)' /\ CompleteStays(d)' /\ PartialIsKnown(d)'
    BY <1>1, <2>2 DEF FileInv, ClosedOrWhole, MainCancels, CompleteStays, PartialIsKnown, At
  <2>. QED  BY <2>3, <2>4 DEF FileInv
<1>2. CASE reader[2] # d /\ reader'[2] # d
  <2>1. /\ \A s : reader # <<s, d>> /\ reader' # <<s, d>>
        /\ \A steps : ~At(d, steps) /\ ~At(d, steps)'
    BY <1>2 DEF At
  <2>2. /\ main' = <<"failed", d>> => main = <<"failed", d>>
        /\ main' \in {<<"fail", d>>, <<"failed", d>>} => main \in {<<"fail", d>>, <<"failed", d>>}
    OBVIOUS
  <2>3. Fresh(d)' /\ ReaderKnows(d)' /\ FirstWritten(d)'
    BY <1>2, <2>1 DEF FileInv, Fresh, ReaderKnows, FirstWritten, At
  <2>4. ClosedOrWhole(d)' /\ MainCancels(d)' /\ CompleteStays(d)' /\ PartialIsKnown(d)'
    BY <1>2, <2>1, <2>2 DEF FileInv, ClosedOrWhole, MainCancels, CompleteStays, PartialIsKnown, At
  <2>. QED  BY <2>3, <2>4 DEF FileInv
<1>. QED  BY <1>1, <1>2

\* The types after a step of either thread.
LEMMA FileTypesStep == FileTypes /\ [PhoneNext]_(receiveVars) => FileTypes'
<1> SUFFICES ASSUME FileTypes, [PhoneNext]_(receiveVars)
             PROVE  FileTypes'
  OBVIOUS
<1> USE DEF FileTypes, ReaderSteps
<1>1. CASE UNCHANGED receiveVars
  BY <1>1 DEF receiveVars, incomingVars
<1>2. ASSUME NEW d \in D, BeginFile(d) \/ Register(d) \/ Announce(d)
      PROVE  FileTypes'
  <2>1. CASE BeginFile(d)
    <3>1. /\ UNCHANGED <<connected, incoming, closed, bytes>>
          /\ next' = [next EXCEPT ![d] = "chunk"]
          /\ disk' = disk \/ disk' = [disk EXCEPT ![d] = "there"]
          /\ told' = told \/ Tell(d, "failed")
          /\ reader' = reader \/ reader' = <<"register", d>>
      BY <2>1 DEF BeginFile, Then, Open, readerUnchanged
    <3>. QED  BY <3>1 DEF Tell
  <2>2. CASE Register(d)
    BY <2>2 DEF Register, Tell, readerUnchanged
  <2>3. CASE Announce(d)
    BY <2>3 DEF Announce, Nothing, incomingVars, readerUnchanged
  <2>. QED  BY <1>2, <2>1, <2>2, <2>3
<1>3. ASSUME NEW d \in D, ChunkComes(d) \/ Write(d) \/ Close(d) \/ Finish(d)
      PROVE  FileTypes'
  <2>1. CASE ChunkComes(d)
    <3>1. /\ UNCHANGED <<connected, incoming, closed, bytes, disk, told>>
          /\ next' = [next EXCEPT ![d] = IF next[d] = "chunk" THEN "last" ELSE "over"]
          /\ next[d] \in {"chunk", "last"}
          /\ reader' = reader \/ reader' = <<next[d], d>>
      BY <2>1 DEF ChunkComes, Then, incomingVars, readerUnchanged
    <3>. QED  BY <3>1
  <2>2. CASE Write(d)
    <3>1. /\ UNCHANGED <<connected, next, incoming, closed, disk, told>>
          /\ reader' \in {<<"fail", d>>, <<"idle", 0>>, <<"close", d>>}
          /\ bytes' = bytes \/ bytes' = [bytes EXCEPT ![d] = @ + 1]
      BY <2>2 DEF Write, GiveUpFile, Nothing, readerUnchanged
    <3>. QED  BY <3>1
  <2>3. CASE Close(d)
    <3>1. /\ UNCHANGED <<connected, next, incoming, bytes, disk, told>>
          /\ reader' \in {<<"fail", d>>, <<"finish", d>>}
          /\ closed' = closed \/ closed' = [closed EXCEPT ![d] = TRUE]
      BY <2>3 DEF Close, readerUnchanged
    <3>2. reader' \in ReaderSteps \X (D \union {0})
      BY <3>1
    <3>3. closed' \in [D -> BOOLEAN]
      BY <3>1
    <3>. QED  BY <3>1, <3>2, <3>3
  <2>4. CASE Finish(d)
    BY <2>4 DEF Finish, Tell, Nothing, readerUnchanged
  <2>. QED  BY <1>3, <2>1, <2>2, <2>3, <2>4
<1>4. ASSUME NEW d \in D, ReaderFails(d) \/ MainFails(d)
      PROVE  FileTypes'
  <2>1. /\ UNCHANGED <<connected, next>>
        /\ reader' \in {reader, <<"failed", d>>, <<"idle", 0>>}
        /\ FailFile(d) \/ FailTell(d)
    BY <1>4 DEF ReaderFails, MainFails, Nothing, readerUnchanged,
       mainUnchanged
  <2>2. reader' \in ReaderSteps \X (D \union {0})
    BY <2>1
  <2>3. CASE FailFile(d)
    <3>1. /\ UNCHANGED <<incoming, bytes, told>>
          /\ closed' = [closed EXCEPT ![d] = TRUE] /\ disk' = [disk EXCEPT ![d] = "gone"]
      BY <2>3 DEF FailFile, Delete
    <3>2. closed' \in [D -> BOOLEAN] /\ disk' \in [D -> {"none", "there", "gone"}]
      BY <3>1
    <3>. QED  BY <2>1, <2>2, <3>1, <3>2
  <2>4. CASE FailTell(d)
    <3>1. UNCHANGED <<closed, bytes, disk>> /\ incoming' = incoming \ {d}
      BY <2>4 DEF FailTell
    <3>2. told' \in [D -> SUBSET {"accepted", "complete", "failed"}]
      BY <2>4 DEF FailTell, Tell
    <3>. QED  BY <2>1, <2>2, <3>1, <3>2
  <2>. QED  BY <2>1, <2>3, <2>4
<1>5. CASE PhoneLinkDown \/ Disconnect \/ Clear \/ Collect
  <2>1. CASE PhoneLinkDown
    <3>1. UNCHANGED <<next, reader, bytes, told>>
      BY <2>1 DEF PhoneLinkDown
    <3>2. \/ AbortAll /\ incoming' = {} /\ connected' = FALSE
          \/ UNCHANGED <<connected, incoming, closed, disk>>
      BY <2>1 DEF PhoneLinkDown
    <3>3. CASE AbortAll /\ incoming' = {} /\ connected' = FALSE
      <4>1. closed' \in [D -> BOOLEAN] /\ disk' \in [D -> {"none", "there", "gone"}]
        BY <3>3 DEF AbortAll
      <4>. QED  BY <3>1, <3>3, <4>1
    <3>. QED  BY <3>1, <3>2, <3>3
  <2>2. CASE Disconnect
    BY <2>2 DEF Disconnect, AbortAll
  <2>3. CASE Clear
    BY <2>3 DEF Clear
  <2>4. CASE Collect
    BY <2>4 DEF Collect, incomingVars, mainUnchanged
  <2>. QED  BY <1>5, <2>1, <2>2, <2>3, <2>4
<1>6. ASSUME NEW i \in Ids, Cancel(i) \/ Expire(i)
      PROVE  FileTypes'
  BY <1>6 DEF Cancel, Expire, incomingVars, mainUnchanged
<1>7. ASSUME NEW u \in 1..MaxUp, StartUpload(u) \/ UploadTells(u)
      PROVE  FileTypes'
  BY <1>7 DEF StartUpload, UploadTells, incomingVars, mainUnchanged
<1>. QED  BY <1>1, <1>2, <1>3, <1>4, <1>5, <1>6, <1>7 DEF PhoneNext


\* The reader announces a download.
LEMMA AnnounceSteps ==
    ASSUME ReceiveInv, NEW e \in D, BeginFile(e) \/ Register(e) \/ Announce(e)
    PROVE  \A d \in D : FileInv(d)'
<1>0. FileTypes /\ (\A d \in D : FileInv(d)) /\ 0 \notin D /\ FileInv(e)
  BY DEF ReceiveInv, D
<1>1. UNCHANGED <<closed, bytes, main, cancelled, late>>
  BY DEF BeginFile, Register, Announce, readerUnchanged, history,
     incomingVars
<1>2. CASE BeginFile(e)
  <2>1. /\ reader = <<"idle", 0>> /\ next[e] = "begin" /\ next' = [next EXCEPT ![e] = "chunk"]
        /\ incoming' = incoming
        /\ \/ reader' = reader /\ disk' = disk /\ told' = told
           \/ reader' = reader /\ disk' = disk /\ Tell(e, "failed")
           \/ reader' = <<"register", e>> /\ disk' = [disk EXCEPT ![e] = "there"] /\ told' = told
    BY <1>2 DEF BeginFile, Comes, Then, Open, Nothing
  <2>2. ASSUME NEW d \in D, d # e
        PROVE  FileInv(d)'
    <3>1. /\ next'[d] = next[d] /\ disk'[d] = disk[d] /\ told'[d] = told[d]
          /\ reader' = reader \/ (reader[2] # d /\ reader'[2] # d)
      BY <1>0, <2>1, <2>2 DEF FileTypes, Tell
    <3>2. FileInv(d)
      BY <1>0
    <3>. QED  BY <1>1, <2>1, <3>1, <3>2, Untouched
  <2>3. FileInv(e)'
    <3>1. /\ next'[e] = "chunk" /\ e \notin incoming' /\ bytes'[e] = 0
          /\ disk[e] = "none" /\ ~closed[e] /\ ~closed'[e] /\ "complete" \notin told[e]
          /\ closed' = closed /\ main' = main
      BY <1>0, <1>1, <2>1
      DEF FileTypes, FileInv, Fresh, ClosedOrWhole, CompleteStays, Chunks
    <3>2. "complete" \notin told'[e]
      BY <1>0, <2>1, <3>1 DEF FileTypes, Tell
    <3>3. /\ main' = <<"failed", e>> => main = <<"failed", e>>
          /\ main # <<"failed", e>>
      BY <1>0, <1>1, <3>1 DEF FileInv, ClosedOrWhole
    <3>4. MainCancels(e)'
      BY <1>0, <1>1, <2>1 DEF FileInv, MainCancels
    <3>5. CASE reader' = reader /\ disk' = disk
      <4>1. \A s : reader' # <<s, e>>
        BY <1>0, <2>1, <3>5
      <4>2. \A steps : ~At(e, steps)'
        BY <4>1 DEF At
      <4>. QED
        BY <3>1, <3>2, <3>3, <3>4, <3>5, <4>1, <4>2
        DEF FileInv, Fresh, ReaderKnows, FirstWritten, ClosedOrWhole, CompleteStays,
            PartialIsKnown, Chunks
    <3>6. CASE reader' = <<"register", e>> /\ disk' = [disk EXCEPT ![e] = "there"]
      <4>1. disk'[e] = "there"
        BY <1>0, <3>6 DEF FileTypes
      <4>2. ~At(e, {"close", "finish"})' /\ ~At(e, {"fail", "failed"})'
            /\ ~At(e, {"chunk", "last", "close", "finish", "fail", "failed"})'
        BY <3>6 DEF At
      <4>. QED
        BY <3>1, <3>2, <3>3, <3>4, <3>6, <4>1, <4>2
        DEF FileInv, Fresh, ReaderKnows, FirstWritten, ClosedOrWhole, CompleteStays,
            PartialIsKnown, Chunks
    <3>. QED  BY <2>1, <3>5, <3>6
  <2>. QED  BY <2>2, <2>3
<1>3. CASE Register(e)
  <2>1. /\ reader = <<"register", e>> /\ reader' = <<"announce", e>>
        /\ incoming' = incoming \union {e} /\ UNCHANGED <<next, disk>>
        /\ told' = told \/ told' = [told EXCEPT ![e] = @ \union {"accepted"}]
    BY <1>3, <1>0 DEF Register, Tell, FileTypes
  <2>2. ASSUME NEW d \in D, d # e
        PROVE  FileInv(d)'
    <3>1. /\ told'[d] = told[d] /\ (d \in incoming' <=> d \in incoming)
          /\ reader[2] # d /\ reader'[2] # d
      BY <1>0, <2>1, <2>2 DEF FileTypes
    <3>2. FileInv(d)
      BY <1>0
    <3>. QED  BY <1>1, <2>1, <3>1, <3>2, Untouched
  <2>3. FileInv(e)'
    <3>1. /\ next'[e] = "chunk" /\ disk'[e] = "there" /\ ~closed'[e] /\ bytes'[e] = 0
          /\ "complete" \notin told[e] /\ main # <<"failed", e>> /\ e \in incoming'
      BY <1>0, <1>1, <2>1
      DEF FileInv, Fresh, ReaderKnows, ClosedOrWhole, CompleteStays
    <3>2. "complete" \notin told'[e]
      BY <1>0, <2>1, <3>1 DEF FileTypes
    <3>3. ~At(e, {"close", "finish"})' /\ ~At(e, {"fail", "failed"})'
          /\ ~At(e, {"chunk", "last", "close", "finish", "fail", "failed"})'
      BY <2>1 DEF At
    <3>4. MainCancels(e)'
      BY <1>0, <1>1, <2>1, <3>1 DEF FileInv, MainCancels
    <3>. QED
      BY <1>1, <2>1, <3>1, <3>2, <3>3, <3>4
      DEF FileInv, Fresh, ReaderKnows, FirstWritten, ClosedOrWhole, CompleteStays,
          PartialIsKnown, Chunks
  <2>. QED  BY <2>2, <2>3
<1>4. CASE Announce(e)
  <2>1. /\ reader = <<"announce", e>> /\ reader' = <<"idle", 0>>
        /\ UNCHANGED <<next, incoming, disk, told>>
    BY <1>4 DEF Announce, Nothing, incomingVars
  <2>2. ASSUME NEW d \in D, d # e
        PROVE  FileInv(d)'
    <3>1. reader[2] # d /\ reader'[2] # d
      BY <1>0, <2>1, <2>2
    <3>2. FileInv(d)
      BY <1>0
    <3>. QED  BY <1>1, <2>1, <3>1, <3>2, Untouched
  <2>3. FileInv(e)'
    <3>1. \A s : reader' # <<s, e>>
      BY <1>0, <2>1
    <3>2. (\A steps : ~At(e, steps)') /\ next[e] = "chunk" /\ reader'[2] # e
      BY <1>0, <2>1, <3>1 DEF At, FileInv, ReaderKnows
    <3>. QED
      BY <1>0, <1>1, <2>1, <3>1, <3>2
      DEF FileInv, Fresh, ReaderKnows, FirstWritten, ClosedOrWhole, MainCancels, CompleteStays,
          PartialIsKnown
  <2>. QED  BY <2>2, <2>3
<1>. QED  BY <1>2, <1>3, <1>4

\* The reader looks up, writes and finishes.
LEMMA ReceiveSteps ==
    ASSUME ReceiveInv, NEW e \in D, ChunkComes(e) \/ Write(e) \/ Close(e) \/ Finish(e)
    PROVE  \A d \in D : FileInv(d)'
<1>0. FileTypes /\ (\A d \in D : FileInv(d)) /\ 0 \notin D /\ FileInv(e)
  BY DEF ReceiveInv, D
<1>1. UNCHANGED <<disk, main, cancelled, late>>
  BY DEF ChunkComes, Write, Close, Finish, readerUnchanged,
     history, incomingVars
<1>2. CASE ChunkComes(e)
  <2>1. /\ reader = <<"idle", 0>> /\ next[e] \in {"chunk", "last"}
        /\ next' = [next EXCEPT ![e] = IF next[e] = "chunk" THEN "last" ELSE "over"]
        /\ UNCHANGED <<incoming, closed, bytes, told>>
        /\ \/ e \notin incoming /\ reader' = reader
           \/ e \in incoming /\ reader' = <<next[e], e>>
    BY <1>2 DEF ChunkComes, Then, Nothing, incomingVars
  <2>2. ASSUME NEW d \in D, d # e
        PROVE  FileInv(d)'
    <3>1. /\ next'[d] = next[d]
          /\ reader' = reader \/ (reader[2] # d /\ reader'[2] # d)
      BY <1>0, <2>1, <2>2 DEF FileTypes
    <3>2. FileInv(d)
      BY <1>0
    <3>. QED  BY <1>1, <2>1, <3>1, <3>2, Untouched
  <2>3. FileInv(e)'
    <3>1. (\A s : reader # <<s, e>>) /\ \A steps : ~At(e, steps)
      BY <1>0, <2>1 DEF At
    <3>2. /\ next'[e] = (IF next[e] = "chunk" THEN "last" ELSE "over")
          /\ "complete" \notin told'[e]
      BY <1>0, <2>1 DEF FileTypes, FileInv, CompleteStays
    <3>3. CASE e \notin incoming /\ reader' = reader
      <4>1. (\A s : reader' # <<s, e>>) /\ \A steps : ~At(e, steps)'
        BY <3>1, <3>3 DEF At
      <4>. QED
        BY <1>0, <1>1, <2>1, <3>1, <3>2, <3>3, <4>1
        DEF FileInv, Fresh, ReaderKnows, FirstWritten, ClosedOrWhole, MainCancels, CompleteStays,
            PartialIsKnown
    <3>4. CASE e \in incoming /\ reader' = <<next[e], e>>
      <4>1. disk'[e] # "none" /\ next'[e] \notin {"begin", "chunk"}
        BY <1>0, <1>1, <2>1, <3>2, <3>4 DEF FileInv, Fresh
      <4>2. CASE next[e] = "chunk"
        <5>1. bytes'[e] = 0 /\ next'[e] = "last" /\ reader' = <<"chunk", e>>
          BY <1>0, <2>1, <3>2, <3>4, <4>2 DEF FileInv, Fresh
        <5>2. At(e, {"chunk", "fail", "failed"})' /\ ~At(e, {"close", "finish"})'
              /\ ~At(e, {"fail", "failed"})'
          BY <5>1 DEF At
        <5>. QED
          BY <1>0, <1>1, <2>1, <3>1, <3>2, <3>4, <4>1, <5>1, <5>2
          DEF FileInv, Fresh, ReaderKnows, FirstWritten, ClosedOrWhole, MainCancels,
              CompleteStays, PartialIsKnown
      <4>3. CASE next[e] = "last"
        <5>1. bytes'[e] = 1 /\ next'[e] = "over" /\ reader' = <<"last", e>>
          BY <1>0, <2>1, <3>1, <3>2, <3>4, <4>3 DEF FileInv, FirstWritten
        <5>2. ~At(e, {"close", "finish"})' /\ ~At(e, {"fail", "failed"})'
          BY <5>1 DEF At
        <5>. QED
          BY <1>0, <1>1, <2>1, <3>1, <3>2, <3>4, <4>1, <5>1, <5>2
          DEF FileInv, Fresh, ReaderKnows, FirstWritten, ClosedOrWhole, MainCancels,
              CompleteStays, PartialIsKnown
      <4>. QED  BY <2>1, <4>2, <4>3
    <3>. QED  BY <2>1, <3>3, <3>4
  <2>. QED  BY <2>2, <2>3
<1>3. CASE Write(e)
  <2>1. /\ reader \in {<<"chunk", e>>, <<"last", e>>}
        /\ UNCHANGED <<next, incoming, closed, told>>
        /\ \/ reader' = <<"fail", e>> /\ bytes' = bytes
           \/ /\ ~closed[e] /\ bytes' = [bytes EXCEPT ![e] = @ + 1]
              /\ reader' = IF reader[1] = "chunk" THEN <<"idle", 0>> ELSE <<"close", e>>
    BY <1>3 DEF Write, GiveUpFile, Nothing
  <2>2. ASSUME NEW d \in D, d # e
        PROVE  FileInv(d)'
    <3>1. /\ bytes'[d] = bytes[d]
          /\ reader[2] # d /\ reader'[2] # d
      BY <1>0, <2>1, <2>2 DEF FileTypes
    <3>2. FileInv(d)
      BY <1>0
    <3>. QED  BY <1>1, <2>1, <3>1, <3>2, Untouched
  <2>3. FileInv(e)'
    <3>1. /\ disk[e] # "none" /\ "complete" \notin told[e] /\ disk[e] \in {"there", "gone"}
          /\ \/ reader = <<"chunk", e>> /\ next[e] = "last" /\ bytes[e] = 0
             \/ reader = <<"last", e>> /\ next[e] = "over" /\ bytes[e] = 1
      BY <1>0, <2>1 DEF FileTypes, FileInv, ReaderKnows, CompleteStays, At
    <3>2. CASE reader' = <<"fail", e>> /\ bytes' = bytes
      <4>1. /\ At(e, {"chunk", "fail", "failed"})' /\ ~At(e, {"close", "finish"})'
        BY <3>2 DEF At
      <4>. QED
        BY <1>0, <1>1, <2>1, <3>1, <3>2, <4>1
        DEF FileInv, Fresh, ReaderKnows, FirstWritten, ClosedOrWhole, MainCancels, CompleteStays,
            PartialIsKnown
    <3>3. CASE ~closed[e] /\ bytes' = [bytes EXCEPT ![e] = @ + 1]
      <4>1. bytes'[e] = bytes[e] + 1 /\ disk[e] = "there"
        BY <1>0, <3>1, <3>3 DEF FileTypes, FileInv, ClosedOrWhole
      <4>2. CASE reader = <<"chunk", e>>
        <5>1. reader' = <<"idle", 0>> /\ bytes'[e] = 1 /\ next[e] = "last"
          BY <2>1, <3>1, <3>3, <4>1, <4>2
        <5>2. (\A s : reader' # <<s, e>>) /\ (\A steps : ~At(e, steps)') /\ reader'[2] # e
          BY <1>0, <5>1 DEF At
        <5>3. e \notin late /\ bytes[e] < Chunks => e \in incoming
          BY <1>0, <3>1, <4>1, <4>2 DEF FileInv, PartialIsKnown
        <5>. QED
          BY <1>0, <1>1, <2>1, <3>1, <3>3, <4>1, <5>1, <5>2, <5>3
          DEF FileInv, Fresh, ReaderKnows, FirstWritten, ClosedOrWhole, MainCancels,
              CompleteStays, PartialIsKnown, Chunks
      <4>3. CASE reader = <<"last", e>>
        <5>1. reader' = <<"close", e>> /\ bytes'[e] = 2 /\ next[e] = "over"
          BY <2>1, <3>1, <3>3, <4>1, <4>3
        <5>2. ~At(e, {"fail", "failed"})'
          BY <5>1 DEF At
        <5>. QED
          BY <1>0, <1>1, <2>1, <3>1, <3>3, <4>1, <5>1, <5>2
          DEF FileInv, Fresh, ReaderKnows, FirstWritten, ClosedOrWhole, MainCancels,
              CompleteStays, PartialIsKnown, Chunks
      <4>. QED  BY <2>1, <4>2, <4>3
    <3>. QED  BY <2>1, <3>2, <3>3
  <2>. QED  BY <2>2, <2>3
<1>4. CASE Close(e)
  <2>1. /\ reader = <<"close", e>>
        /\ UNCHANGED <<next, incoming, bytes, told>>
        /\ \/ reader' = <<"fail", e>> /\ closed' = closed
           \/ reader' = <<"finish", e>> /\ closed' = [closed EXCEPT ![e] = TRUE]
    BY <1>4 DEF Close
  <2>2. ASSUME NEW d \in D, d # e
        PROVE  FileInv(d)'
    <3>1. /\ closed'[d] = closed[d]
          /\ reader[2] # d /\ reader'[2] # d
      BY <1>0, <2>1, <2>2 DEF FileTypes
    <3>2. FileInv(d)
      BY <1>0
    <3>. QED  BY <1>1, <2>1, <3>1, <3>2, Untouched
  <2>3. FileInv(e)'
    <3>1. /\ next[e] = "over" /\ bytes[e] = Chunks /\ disk[e] # "none"
          /\ "complete" \notin told[e]
      BY <1>0, <2>1 DEF FileInv, ReaderKnows, CompleteStays, At
    <3>2. e \notin cancelled => disk[e] = "there"
      BY <1>0, <2>1 DEF FileInv, CompleteStays, At
    <3>3. Chunks = 2 /\ bytes'[e] = 2
      BY <2>1, <3>1 DEF Chunks
    <3>4. CASE reader' = <<"fail", e>> /\ closed' = closed
      <4>1. ~At(e, {"close", "finish"})'
        BY <3>4 DEF At
      <4>. QED
        BY <1>0, <1>1, <2>1, <3>1, <3>3, <3>4, <4>1
        DEF FileInv, Fresh, ReaderKnows, FirstWritten, ClosedOrWhole, MainCancels, CompleteStays,
            PartialIsKnown
    <3>5. CASE reader' = <<"finish", e>> /\ closed' = [closed EXCEPT ![e] = TRUE]
      <4>1. closed'[e] /\ ~At(e, {"fail", "failed"})'
        BY <1>0, <3>5 DEF At, FileTypes
      <4>. QED
        BY <1>0, <1>1, <2>1, <3>1, <3>2, <3>3, <3>5, <4>1
        DEF FileInv, Fresh, ReaderKnows, FirstWritten, ClosedOrWhole, MainCancels, CompleteStays,
            PartialIsKnown
    <3>. QED  BY <2>1, <3>4, <3>5
  <2>. QED  BY <2>2, <2>3
<1>5. CASE Finish(e)
  <2>1. /\ reader = <<"finish", e>> /\ reader' = <<"idle", 0>>
        /\ incoming' = incoming \ {e} /\ Tell(e, "complete")
        /\ UNCHANGED <<next, closed, bytes>>
    BY <1>5 DEF Finish, Nothing
  <2>2. ASSUME NEW d \in D, d # e
        PROVE  FileInv(d)'
    <3>1. /\ told'[d] = told[d] /\ (d \in incoming' <=> d \in incoming)
          /\ reader[2] # d /\ reader'[2] # d
      BY <1>0, <2>1, <2>2 DEF FileTypes, Tell
    <3>2. FileInv(d)
      BY <1>0
    <3>. QED  BY <1>1, <2>1, <3>1, <3>2, Untouched
  <2>3. FileInv(e)'
    <3>1. next[e] = "over" /\ bytes[e] = Chunks /\ (e \notin cancelled => disk[e] = "there")
      BY <1>0, <2>1 DEF FileInv, ReaderKnows, CompleteStays, At
    <3>2. (\A s : reader' # <<s, e>>) /\ (\A steps : ~At(e, steps)') /\ reader'[2] # e
      BY <1>0, <2>1 DEF At
    <3>3. e \notin incoming' /\ Chunks = 2
      BY <2>1 DEF Chunks
    <3>. QED
      BY <1>0, <1>1, <2>1, <3>1, <3>2, <3>3
      DEF FileInv, Fresh, ReaderKnows, FirstWritten, ClosedOrWhole, MainCancels, CompleteStays,
          PartialIsKnown
  <2>. QED  BY <2>2, <2>3
<1>. QED  BY <1>2, <1>3, <1>4, <1>5

\* Either thread fails a download: first the file, then the entry.
LEMMA FailSteps ==
    ASSUME ReceiveInv, NEW e \in D, ReaderFails(e) \/ MainFails(e)
    PROVE  \A d \in D : FileInv(d)'
<1>0. FileTypes /\ (\A d \in D : FileInv(d)) /\ 0 \notin D /\ FileInv(e)
  BY DEF ReceiveInv, D
<1>1. /\ UNCHANGED <<next, bytes, cancelled, late>>
      /\ FailFile(e) => UNCHANGED <<incoming, told>>
      /\ FailTell(e) => UNCHANGED <<closed, disk>>
      /\ FailFile(e) \/ FailTell(e)
  BY DEF ReaderFails, MainFails, FailFile, FailTell,
     readerUnchanged, mainUnchanged, history
<1>2. \/ /\ reader = <<"fail", e>> /\ reader' = <<"failed", e>> /\ main' = main /\ FailFile(e)
      \/ /\ reader = <<"failed", e>> /\ reader' = <<"idle", 0>> /\ main' = main /\ FailTell(e)
      \/ /\ main = <<"fail", e>> /\ main' = <<"failed", e>> /\ reader' = reader /\ FailFile(e)
      \/ /\ main = <<"failed", e>> /\ main' = <<"idle", 0>> /\ reader' = reader /\ FailTell(e)
  BY DEF ReaderFails, MainFails, readerUnchanged, mainUnchanged,
     Nothing
<1>3. /\ FailFile(e) => /\ closed' = [closed EXCEPT ![e] = TRUE]
                        /\ disk' = [disk EXCEPT ![e] = "gone"]
      /\ FailTell(e) => /\ incoming' = incoming \ {e} /\ Tell(e, "failed")
  BY DEF FailFile, FailTell, Delete
<1>4. ASSUME NEW d \in D, d # e
      PROVE  FileInv(d)'
  <2>1. /\ closed'[d] = closed[d] /\ disk'[d] = disk[d] /\ told'[d] = told[d]
        /\ (d \in incoming' <=> d \in incoming)
    BY <1>0, <1>1, <1>3, <1>4 DEF FileTypes, Tell
  <2>2. reader' = reader \/ (reader[2] # d /\ reader'[2] # d)
    BY <1>0, <1>2, <1>4
  <2>3. main' = main \/ main'[2] # d
    BY <1>0, <1>2, <1>4
  <2>4. FileInv(d)
    BY <1>0
  <2>. QED  BY <1>1, <2>1, <2>2, <2>3, <2>4, Untouched
<1>5. FileInv(e)'
  <2>1. CASE reader = <<"fail", e>> /\ reader' = <<"failed", e>> /\ main' = main /\ FailFile(e)
    <3>1. closed'[e] /\ disk'[e] = "gone" /\ UNCHANGED <<incoming, told>>
      BY <1>0, <1>1, <1>3, <2>1 DEF FileTypes
    <3>2. /\ next[e] \in {"last", "over"} /\ "complete" \notin told[e]
          /\ At(e, {"fail", "failed"}) /\ At(e, {"fail", "failed"})'
      BY <1>0, <2>1 DEF FileInv, ReaderKnows, CompleteStays, At
    <3>3. ~At(e, {"close", "finish"})' /\ At(e, {"chunk", "fail", "failed"})'
      BY <2>1 DEF At
    <3>. QED
      BY <1>0, <1>1, <2>1, <3>1, <3>2, <3>3
      DEF FileInv, Fresh, ReaderKnows, FirstWritten, ClosedOrWhole, MainCancels, CompleteStays,
          PartialIsKnown
  <2>2. CASE reader = <<"failed", e>> /\ reader' = <<"idle", 0>> /\ main' = main /\ FailTell(e)
    <3>1. /\ disk'[e] = "gone" /\ closed'[e] /\ e \notin incoming'
          /\ "complete" \notin told[e] /\ next[e] \in {"last", "over"}
      BY <1>0, <1>1, <1>3, <2>2 DEF FileInv, ReaderKnows, ClosedOrWhole, CompleteStays, At
    <3>2. "complete" \notin told'[e]
      BY <1>0, <1>3, <2>2, <3>1 DEF FileTypes, Tell
    <3>3. (\A s : reader' # <<s, e>>) /\ (\A steps : ~At(e, steps)')
      BY <1>0, <2>2 DEF At
    <3>. QED
      BY <1>0, <1>1, <2>2, <3>1, <3>2, <3>3
      DEF FileInv, Fresh, ReaderKnows, FirstWritten, ClosedOrWhole, MainCancels, CompleteStays,
          PartialIsKnown
  <2>3. CASE main = <<"fail", e>> /\ main' = <<"failed", e>> /\ reader' = reader /\ FailFile(e)
    <3>1. closed'[e] /\ disk'[e] = "gone" /\ UNCHANGED <<incoming, told>>
      BY <1>0, <1>1, <1>3, <2>3 DEF FileTypes
    <3>2. e \in cancelled
      BY <1>0, <2>3 DEF FileInv, MainCancels
    <3>. QED
      BY <1>0, <1>1, <2>3, <3>1, <3>2
      DEF FileInv, Fresh, ReaderKnows, FirstWritten, ClosedOrWhole, MainCancels, CompleteStays,
          PartialIsKnown, At
  <2>4. CASE main = <<"failed", e>> /\ main' = <<"idle", 0>> /\ reader' = reader /\ FailTell(e)
    <3>1. disk'[e] = "gone" /\ closed'[e] /\ e \notin incoming' /\ e \in cancelled
      BY <1>0, <1>1, <1>3, <2>4 DEF FileInv, ClosedOrWhole, MainCancels
    <3>2. "complete" \in told'[e] => "complete" \in told[e]
      BY <1>0, <1>3, <2>4 DEF FileTypes, Tell
    <3>. QED
      BY <1>0, <1>1, <2>4, <3>1, <3>2
      DEF FileInv, Fresh, ReaderKnows, FirstWritten, ClosedOrWhole, MainCancels, CompleteStays,
          PartialIsKnown, At
  <2>. QED  BY <1>2, <2>1, <2>2, <2>3, <2>4
<1>. QED  BY <1>4, <1>5

\* abortAllIncomingFiles, with the entries left or gone, while the reader is at
\* rest or at any step.
LEMMA AbortAllKeeps ==
    ASSUME ReceiveInv, AbortAll, NEW d \in D,
           incoming' = incoming \/ (incoming' = {} /\ reader = <<"idle", 0>>),
           UNCHANGED <<next, reader, bytes, told, cancelled, late>>,
           main' = main \/ main' = <<"clear", 0>>
    PROVE  FileInv(d)'
<1>0. FileTypes /\ FileInv(d) /\ 0 \notin D
  BY DEF ReceiveInv, D
<1>1. /\ closed'[d] = (closed[d] \/ d \in incoming)
      /\ disk'[d] = (IF d \in incoming /\ bytes[d] < Chunks THEN "gone" ELSE disk[d])
      /\ closed[d] \in BOOLEAN /\ bytes[d] \in Nat
      /\ UNCHANGED <<next, reader, bytes, told, cancelled, late>>
  BY <1>0 DEF AbortAll, FileTypes
<1>2. /\ main' = <<"failed", d>> => main = <<"failed", d>>
      /\ main' \in {<<"fail", d>>, <<"failed", d>>} => main \in {<<"fail", d>>, <<"failed", d>>}
  BY <1>0
<1>3. \A steps : At(d, steps)' <=> At(d, steps)
  BY <1>1 DEF At
<1>4. reader = <<"idle", 0>> => \A s : reader # <<s, d>>
  BY <1>0
<1>5. bytes[d] <= Chunks /\ Chunks = 2
  BY <1>0 DEF FileInv, ClosedOrWhole, Chunks
<1>6. Fresh(d)'
  BY <1>0, <1>1 DEF FileInv, Fresh
<1>7. ReaderKnows(d)'
  BY <1>0, <1>1, <1>3 DEF FileInv, ReaderKnows
<1>8. FirstWritten(d)'
  BY <1>0, <1>1, <1>3 DEF FileInv, FirstWritten
<1>9. ClosedOrWhole(d)'
  <2>0. ClosedOrWhole(d)
    BY <1>0 DEF FileInv
  <2>1. disk'[d] = "gone" => closed'[d]
    BY <2>0, <1>1 DEF ClosedOrWhole
  <2>2. closed'[d] => disk'[d] = "gone" \/ bytes'[d] = Chunks
    BY <2>0, <1>1, <1>5 DEF ClosedOrWhole
  <2>3. reader' = <<"failed", d>> \/ main' = <<"failed", d>> => disk'[d] = "gone"
    BY <2>0, <1>1, <1>2 DEF ClosedOrWhole
  <2>. QED  BY <1>1, <1>5, <2>1, <2>2, <2>3 DEF ClosedOrWhole
<1>10. MainCancels(d)'
  BY <1>0, <1>1, <1>2 DEF FileInv, MainCancels
<1>11. CompleteStays(d)'
  BY <1>0, <1>1, <1>3 DEF FileInv, CompleteStays, Chunks
<1>12. PartialIsKnown(d)'
  BY <1>0, <1>1, <1>4 DEF FileInv, PartialIsKnown
<1>. QED  BY <1>6, <1>7, <1>8, <1>9, <1>10, <1>11, <1>12 DEF FileInv

\* The session ends, by either side.
LEMMA EndSteps ==
    ASSUME ReceiveInv, PhoneLinkDown \/ Disconnect \/ Clear, NEW d \in D
    PROVE  FileInv(d)'
<1>0. FileTypes /\ FileInv(d) /\ 0 \notin D
  BY DEF ReceiveInv, D
<1>1. CASE PhoneLinkDown
  <2>1. /\ UNCHANGED <<next, reader, main, bytes, told, cancelled, late>>
        /\ reader = <<"idle", 0>>
        /\ (AbortAll /\ incoming' = {}) \/ UNCHANGED <<incoming, closed, disk>>
    BY <1>1 DEF PhoneLinkDown, Nothing, history
  <2>2. CASE AbortAll /\ incoming' = {}
    BY <2>1, <2>2, AbortAllKeeps
  <2>3. CASE UNCHANGED <<incoming, closed, disk>>
    BY <1>0, <2>1, <2>3, Untouched
  <2>. QED  BY <2>1, <2>2, <2>3
<1>2. CASE Disconnect
  <2>1. /\ AbortAll /\ main' = <<"clear", 0>>
        /\ UNCHANGED <<next, reader, incoming, bytes, told, cancelled, late>>
    BY <1>2 DEF Disconnect
  <2>. QED  BY <2>1, AbortAllKeeps
<1>3. CASE Clear
  <2>1. /\ incoming' = {} /\ late' = late \union {e \in incoming : ~closed[e]}
        /\ main' = <<"idle", 0>>
        /\ UNCHANGED <<next, reader, closed, bytes, disk, told, cancelled>>
    BY <1>3 DEF Clear, Nothing
  <2>2. \A steps : At(d, steps)' <=> At(d, steps)
    BY <2>1 DEF At
  <2>3. d \notin incoming' /\ d \notin late' => d \notin late /\ (d \in incoming => closed[d])
    BY <2>1
  <2>4. PartialIsKnown(d)'
    <3> SUFFICES ASSUME d \notin late', disk[d] = "there", bytes[d] < Chunks
                 PROVE  reader = <<"register", d>>
      BY <2>1 DEF PartialIsKnown
    <3>1. ~closed[d]
      <4>1. closed[d] => bytes[d] = Chunks
        BY <1>0 DEF FileInv, ClosedOrWhole
      <4>. QED  BY <4>1 DEF Chunks
    <3>. QED  BY <1>0, <2>1, <2>3, <3>1 DEF FileInv, PartialIsKnown
  <2>. QED
    BY <1>0, <2>1, <2>2, <2>4
    DEF FileInv, Fresh, ReaderKnows, FirstWritten, ClosedOrWhole, MainCancels, CompleteStays
<1>. QED  BY <1>1, <1>2, <1>3

\* What only the cards are about leaves the files alone; a cancel tells the main
\* thread to fail one that is in incomingFiles.
LEMMA CardSteps ==
    ASSUME ReceiveInv, NEW d \in D,
           \/ Collect
           \/ \E i \in Ids : Cancel(i) \/ Expire(i)
           \/ \E u \in 1..MaxUp : StartUpload(u) \/ UploadTells(u)
    PROVE  FileInv(d)'
<1>0. FileTypes /\ FileInv(d) /\ 0 \notin D
  BY DEF ReceiveInv, D
<1>1. /\ UNCHANGED <<next, reader, incoming, closed, bytes, disk, told, late>>
      /\ \/ UNCHANGED <<main, cancelled>>
         \/ \E i : main' = (IF i \in incoming THEN <<"fail", i>> ELSE main)
                   /\ cancelled' = cancelled \union {i}
  BY DEF Collect, Cancel, Expire, StartUpload, UploadTells,
     incomingVars, mainUnchanged
<1>2. CASE UNCHANGED <<main, cancelled>>
  BY <1>0, <1>1, <1>2, Untouched
<1>3. ASSUME NEW i, main' = (IF i \in incoming THEN <<"fail", i>> ELSE main),
             cancelled' = cancelled \union {i}
      PROVE  FileInv(d)'
  <2>1. CASE i = d /\ i \in incoming
    <3>1. /\ main' = <<"fail", d>> /\ d \in cancelled' /\ d \in incoming
          /\ cancelled \subseteq cancelled'
      BY <1>3, <2>1
    <3>2. \A steps : At(d, steps)' <=> At(d, steps)
      BY <1>1 DEF At
    <3>3. next[d] # "begin" /\ reader # <<"register", d>>
      BY <1>0, <3>1 DEF FileInv, Fresh, ReaderKnows
    <3>. QED
      BY <1>0, <1>1, <3>1, <3>2, <3>3
      DEF FileInv, Fresh, ReaderKnows, FirstWritten, ClosedOrWhole, MainCancels, CompleteStays,
          PartialIsKnown
  <2>2. CASE ~(i = d /\ i \in incoming)
    <3>1. main' = main \/ main'[2] # d
      BY <1>3, <2>2
    <3>. QED  BY <1>0, <1>1, <1>3, <3>1, Untouched
  <2>. QED  BY <2>1, <2>2
<1>. QED  BY <1>1, <1>2, <1>3

LEMMA ReceiveStep == ReceiveInv /\ [PhoneNext]_(receiveVars) => ReceiveInv'
<1> SUFFICES ASSUME ReceiveInv, [PhoneNext]_(receiveVars)
             PROVE  ReceiveInv'
  OBVIOUS
<1>1. FileTypes'
  BY FileTypesStep DEF ReceiveInv
<1>2. CASE UNCHANGED receiveVars
  <2>1. \A d \in D : FileInv(d)
    BY DEF ReceiveInv
  <2>2. UNCHANGED <<next, reader, main, incoming, closed, bytes, disk, told, cancelled, late>>
    BY <1>2 DEF receiveVars, incomingVars
  <2>3. \A d \in D : FileInv(d)'
    BY <2>1, <2>2, Untouched
  <2>. QED  BY <1>1, <2>3 DEF ReceiveInv
<1>3. CASE PhoneNext
  <2>1. \A d \in D : FileInv(d)'
    <3>1. ASSUME NEW e \in D, BeginFile(e) \/ Register(e) \/ Announce(e)
          PROVE  \A d \in D : FileInv(d)'
      BY <3>1, AnnounceSteps
    <3>2. ASSUME NEW e \in D, ChunkComes(e) \/ Write(e) \/ Close(e) \/ Finish(e)
          PROVE  \A d \in D : FileInv(d)'
      BY <3>2, ReceiveSteps
    <3>3. ASSUME NEW e \in D, ReaderFails(e) \/ MainFails(e)
          PROVE  \A d \in D : FileInv(d)'
      BY <3>3, FailSteps
    <3>4. CASE PhoneLinkDown \/ Disconnect \/ Clear
      BY <3>4, EndSteps
    <3>5. CASE \/ Collect
               \/ \E i \in Ids : Cancel(i) \/ Expire(i)
               \/ \E u \in 1..MaxUp : StartUpload(u) \/ UploadTells(u)
      BY <3>5, CardSteps
    <3>. QED  BY <1>3, <3>1, <3>2, <3>3, <3>4, <3>5 DEF PhoneNext
  <2>. QED  BY <1>1, <2>1 DEF ReceiveInv
<1>. QED  BY <1>2, <1>3

\* However cancels, errors, disconnects and the end of the socket interleave
\* with the reader's chunks, a half-written file belongs to an entry of
\* incomingFiles, and what the PC was told is complete stays on the disk
\* (handleIncomingFileChunk, failIncoming, abortAllIncomingFiles).
THEOREM FilesReceivedWhole == PhoneSpec => []ReceivedWhole
<1>. QED  BY ReceiveInit, ReceiveStep, ReceiveWhole, PTL DEF PhoneSpec

-----------------------------------------------------------------------------
(***************************************************************************)
(* That no card of the phone says for ever that its transfer goes on       *)
(* (CardsSettle), for any number of downloads, uploads and events that     *)
(* fit.  What the cards show comes through _fileEvents, which lags behind  *)
(* what the two threads have done.  A card that says sending is therefore  *)
(* of a transfer that goes on, or of one whose last event is still in the  *)
(* flow; and so is each Incoming in the flow, from which a card will come, *)
(* with an event behind it.                                                *)
(***************************************************************************)

Down(d) == <<"down", d>>
Up(u)   == <<"up", u>>

EventType ==
    [kind : {"incoming"}, of : DownTransfer]
        \union [kind : {"progress", "complete", "failed"}, of : Transfer]
CardOf(i) ==
    [of : {t \in Transfer : Id(t) = i}, state : {"sending", "complete", "failed"}]

CardTypes ==
    /\ events \in Seq(EventType) /\ Len(events) <= EventCap /\ dropped \in BOOLEAN
    /\ cards = [i \in Ids |-> cards[i]] /\ \A i \in Ids : cards[i] \in Seq(CardOf(i))
    /\ upload \in [1..MaxUp -> {"none", "runs", "flagged", "over"}]

\* A download that goes on, or is excused by CardsSettle.
GoesOn(d) == (d \in incoming /\ ~closed[d]) \/ d \in late \union overtaken

\* Or a thread is about to emit its last event.
Known(d) ==
    GoesOn(d) \/ reader \in {<<"finish", d>>, <<"failed", d>>} \/ main = <<"failed", d>>

\* A card of t says sending.
Awaits(t) ==
    \E n \in 1..Len(cards[Id(t)]) : cards[Id(t)][n] = Card(t)

\* A last event of t is in the flow, behind the k-th.
Ends(t) == {Event("complete", t), Event("failed", t)}
EndsAfter(t, k) == \E j \in 1..Len(events) : j > k /\ events[j] \in Ends(t)

\* Before its Incoming is emitted a download has no card, and nobody cancels it.
Quiet(d) ==
    next[d] = "begin" \/ reader \in {<<"register", d>>, <<"announce", d>>} =>
        /\ \A n \in 1..Len(cards[d]) : cards[d][n].of # Down(d)
        /\ \A k \in 1..Len(events) : events[k] # Event("incoming", Down(d))
        /\ main \notin {<<"fail", d>>, <<"failed", d>>}

DownCards(d) ==
    /\ Quiet(d)
    /\ reader = <<"announce", d>> => GoesOn(d)
    /\ ~dropped => /\ Awaits(Down(d)) => Known(d) \/ EndsAfter(Down(d), 0)
                   /\ \A k \in 1..Len(events) :
                          events[k] = Event("incoming", Down(d)) =>
                              Known(d) \/ EndsAfter(Down(d), k)

UpCards(u) ==
    ~dropped /\ Awaits(Up(u)) /\ upload[u] = "over" => EndsAfter(Up(u), 0)

CardsInv ==
    /\ CardTypes
    /\ \A d \in D : DownCards(d)
    /\ \A u \in 1..MaxUp : UpCards(u)

-----------------------------------------------------------------------------
(* The flow *)

\* A step that emits the events S: nothing else is new in the flow, and if it
\* drops nothing they come behind what was there.
Grows(S) ==
    /\ events' \in Seq(EventType) /\ Len(events') <= EventCap /\ dropped' \in BOOLEAN
    /\ \A k \in 1..Len(events') :
          events'[k] \in S \/ \E j \in 1..Len(events) : events'[k] = events[j]
    /\ ~dropped' =>
          /\ ~dropped /\ Len(events) <= Len(events')
          /\ \A k \in 1..Len(events) : events'[k] = events[k]
          /\ \A k \in 1..Len(events') : k > Len(events) => events'[k] \in S
          /\ \A e \in S : \E k \in 1..Len(events') : k > Len(events) /\ events'[k] = e

LEMMA FlowStays ==
    ASSUME CardTypes, UNCHANGED <<events, dropped>>
    PROVE  Grows({})
<1>1. Len(events) \in Nat
  BY LenProperties DEF CardTypes
<1>. QED  BY <1>1 DEF Grows, CardTypes

\* What is left of a flow that got longer.
LEMMA Pushed ==
    ASSUME TransferAssumption, NEW q \in Seq(EventType)
    PROVE  /\ Push(q) \in Seq(EventType) /\ Len(Push(q)) <= EventCap
           /\ \A k \in 1..Len(Push(q)) :
                 \E j \in 1..Len(q) : Push(q)[k] = q[j]
           /\ Len(q) <= EventCap => Push(q) = q
<1>0. EventCap \in Nat /\ EventCap > 0 /\ Len(q) \in Nat /\ \A i \in 1..Len(q) : q[i] \in EventType
  BY LenProperties, ElementOfSeq DEF TransferAssumption
<1>1. CASE Len(q) > EventCap
  <2> DEFINE m == Len(q) - EventCap + 1
  <2>1. m \in Int /\ m >= 1 /\ Len(q) - m + 1 = EventCap /\ m <= Len(q)
    BY <1>0, <1>1
  <2>2. \A i \in m..Len(q) : q[i] \in EventType
    BY <1>0, <2>1
  <2>3. /\ SubSeq(q, m, Len(q)) \in Seq(EventType)
        /\ Len(SubSeq(q, m, Len(q))) = IF m <= Len(q) THEN Len(q) - m + 1 ELSE 0
        /\ \A i \in 1..Len(q) - m + 1 : SubSeq(q, m, Len(q))[i] = q[m + i - 1]
    BY <1>0, <2>1, <2>2, SubSeqProperties
  <2>4. /\ Len(SubSeq(q, m, Len(q))) = EventCap
        /\ \A i \in 1..EventCap : SubSeq(q, m, Len(q))[i] = q[m + i - 1]
    BY <2>1, <2>3
  <2>5. \A i \in 1..EventCap : m + i - 1 \in 1..Len(q)
    BY <1>0, <2>1
  <2>6. Push(q) = SubSeq(q, m, Len(q))
    BY <1>1 DEF Push
  <2> HIDE DEF m
  <2>7. PICK r : r = SubSeq(q, m, Len(q))
    OBVIOUS
  <2>8. /\ r \in Seq(EventType) /\ Len(r) = EventCap
        /\ \A i \in 1..EventCap : r[i] = q[m + i - 1]
    BY <2>3, <2>4, <2>7
  <2>9. \A i \in 1..Len(r) : \E j \in 1..Len(q) : r[i] = q[j]
    BY <2>5, <2>8
  <2>10. Push(q) = r /\ ~(Len(q) <= EventCap) /\ Len(r) <= EventCap
    BY <1>0, <1>1, <2>6, <2>7, <2>8
  <2>. QED  BY <2>8, <2>9, <2>10
<1>2. CASE ~(Len(q) > EventCap)
  <2>1. Push(q) = q
    BY <1>2 DEF Push
  <2>. QED  BY <1>0, <1>2, <2>1
<1>. QED  BY <1>1, <1>2

\* tryEmit.
LEMMA Emitted ==
    ASSUME TransferAssumption, CardTypes, NEW kind, NEW t,
           Event(kind, t) \in EventType, Emit(kind, t)
    PROVE  Grows({Event(kind, t)})
<1> DEFINE e == Event(kind, t)
           q == Append(events, e)
<1>0. /\ events \in Seq(EventType) /\ Len(events) \in Nat /\ Len(events) <= EventCap
      /\ EventCap \in Nat /\ dropped \in BOOLEAN
  BY LenProperties DEF CardTypes, TransferAssumption
<1>1. /\ q \in Seq(EventType) /\ Len(q) = Len(events) + 1 /\ q[Len(events) + 1] = e
      /\ \A i \in 1..Len(events) : q[i] = events[i]
  BY <1>0, AppendProperties
<1>2. events' = Push(q) /\ dropped' = (dropped \/ Len(events) = EventCap)
  BY DEF Emit
<1>3. /\ events' \in Seq(EventType) /\ Len(events') <= EventCap
      /\ \A k \in 1..Len(events') : \E j \in 1..Len(q) : events'[k] = q[j]
      /\ Len(q) <= EventCap => events' = q
  <2>1. q \in Seq(EventType)
    BY <1>1
  <2> HIDE DEF q
  <2>2. /\ Push(q) \in Seq(EventType) /\ Len(Push(q)) <= EventCap
        /\ \A k \in 1..Len(Push(q)) : \E j \in 1..Len(q) : Push(q)[k] = q[j]
        /\ Len(q) <= EventCap => Push(q) = q
    BY <2>1, Pushed
  <2>. QED  BY <1>2, <2>2
<1>4. \A j \in 1..Len(q) : j \in 1..Len(events) \/ j = Len(events) + 1
  BY <1>0, <1>1
<1>5. \A k \in 1..Len(events') :
          events'[k] \in {e} \/ \E j \in 1..Len(events) : events'[k] = events[j]
  BY <1>1, <1>3, <1>4
<1>6. ASSUME ~dropped'
      PROVE  ~dropped /\ events' = q
  <2>1. ~dropped /\ Len(events) # EventCap
    BY <1>2, <1>6
  <2>2. Len(q) <= EventCap
    BY <1>0, <1>1, <2>1
  <2>. QED  BY <1>3, <2>1, <2>2
<1>7. ASSUME ~dropped'
      PROVE  /\ Len(events) <= Len(events')
             /\ \A k \in 1..Len(events) : events'[k] = events[k]
             /\ \A k \in 1..Len(events') : k > Len(events) => events'[k] \in {e}
             /\ \A x \in {e} : \E k \in 1..Len(events') : k > Len(events) /\ events'[k] = x
  <2>1. Len(events) + 1 \in 1..Len(events') /\ Len(events) + 1 > Len(events)
    BY <1>0, <1>1, <1>6, <1>7
  <2>. QED  BY <1>0, <1>1, <1>4, <1>6, <1>7, <2>1
<1>8. dropped' \in BOOLEAN
  BY <1>2
<1>. QED  BY <1>3, <1>5, <1>6, <1>7, <1>8 DEF Grows

\* The flow that abortAllIncomingFiles leaves.
Failed(S) == {Event("failed", Down(d)) : d \in S}

\* A finite set as a sequence.
LEMMA Listed ==
    ASSUME NEW S, IsFiniteSet(S)
    PROVE  /\ SetToSeq(S) \in Seq(S) /\ Len(SetToSeq(S)) = Cardinality(S)
           /\ \A x \in S : \E i \in 1..Len(SetToSeq(S)) : SetToSeq(S)[i] = x
<1> DEFINE n == Cardinality(S)
<1>1. n \in Nat /\ ExistsBijection(1..n, S)
  BY FS_CardinalityType
<1>2. PICK g \in Bijection(1..n, S) : TRUE
  BY <1>1 DEF ExistsBijection
<1>3. g \in [1..n -> S] /\ IsInjective(g)
  BY <1>2 DEF Bijection, Injection
<1>4. PICK f : f = SetToSeq(S)
  OBVIOUS
<1>5. f \in [1..n -> S] /\ IsInjective(f)
  <2>1. f = CHOOSE h \in [1..n -> S] : IsInjective(h)
    BY <1>4 DEF SetToSeq
  <2>2. IsInjective(g)
    BY <1>3
  <2>3. f \in [1..n -> S] /\ IsInjective(f)
    BY <1>3, <2>1, <2>2
  <2>. QED  BY <2>3
<1>6. f \in Seq(S) /\ Len(f) = n
  BY <1>1, <1>5
<1>7. f \in Surjection(1..n, S)
  <2>1. f \in Injection(1..n, S)
    BY <1>5 DEF Injection
  <2>2. Cardinality(1..n) = n
    BY <1>1, FS_Interval
  <2>. QED  BY <2>1, <2>2, FS_Injection
<1>8. \A x \in S : \E i \in 1..n : f[i] = x
  BY <1>7 DEF Surjection
<1>. QED  BY <1>4, <1>6, <1>8

LEMMA Aborted ==
    ASSUME TransferAssumption, CardTypes, incoming \subseteq D, AbortAll
    PROVE  Grows(Failed(incoming))
<1>0. /\ events \in Seq(EventType) /\ Len(events) \in Nat /\ Len(events) <= EventCap
      /\ EventCap \in Nat /\ dropped \in BOOLEAN /\ MaxDown \in Nat
  BY LenProperties DEF CardTypes, TransferAssumption
<1>1. IsFiniteSet(incoming) /\ Cardinality(incoming) \in Nat
  <2>1. IsFiniteSet(1..MaxDown) /\ incoming \in SUBSET (1..MaxDown)
    <3>1. IsFiniteSet(1..MaxDown)
      BY <1>0, FS_Interval
    <3>. QED  BY <3>1 DEF D
  <2>2. IsFiniteSet(incoming)
    BY <2>1, FS_Subset
  <2>. QED  BY <2>2, FS_CardinalityType
<1>2. IsFiniteSet(Failed(incoming)) /\ Cardinality(Failed(incoming)) <= Cardinality(incoming)
  <2> DEFINE f == [d \in incoming |-> Event("failed", Down(d))]
  <2>1. f \in Surjection(incoming, Failed(incoming))
    BY DEF Surjection, Failed
  <2>. QED  BY <1>1, <2>1, FS_Surjection
<1>3. Failed(incoming) \subseteq EventType
  <2>1. \A d \in incoming : Down(d) \in Transfer
    BY DEF Transfer, DownTransfer, D, Down
  <2>. QED  BY <2>1 DEF Failed, EventType, Event
<1>4. PICK l : l = SetToSeq(Failed(incoming))
  OBVIOUS
<1>5. /\ l \in Seq(Failed(incoming)) /\ Len(l) = Cardinality(Failed(incoming))
      /\ \A x \in Failed(incoming) : \E i \in 1..Len(l) : l[i] = x
  BY <1>2, <1>4, Listed
<1>6. /\ l \in Seq(EventType) /\ Len(l) \in Nat
      /\ \A i \in 1..Len(l) : l[i] \in Failed(incoming)
  BY <1>3, <1>5, LenProperties, ElementOfSeq
<1>7. PICK q : q = events \o l
  OBVIOUS
<1>8. /\ q \in Seq(EventType) /\ Len(q) = Len(events) + Len(l)
      /\ \A i \in 1..Len(events) + Len(l) :
            q[i] = IF i <= Len(events) THEN events[i] ELSE l[i - Len(events)]
  BY <1>0, <1>6, <1>7, ConcatProperties
<1>9. events' = Push(q)
  <2>1. events' = FailEvents(incoming)
    BY DEF AbortAll
  <2>2. {Event("failed", <<"down", d>>) : d \in incoming} = Failed(incoming)
    BY DEF Failed, Down
  <2>. QED  BY <1>4, <1>7, <2>1, <2>2 DEF FailEvents
<1>10. /\ events' \in Seq(EventType) /\ Len(events') <= EventCap
       /\ \A k \in 1..Len(events') : \E j \in 1..Len(q) : events'[k] = q[j]
       /\ Len(q) <= EventCap => events' = q
  BY <1>8, <1>9, Pushed
<1>11. \A j \in 1..Len(q) : \/ j \in 1..Len(events) /\ q[j] = events[j]
                            \/ j > Len(events) /\ q[j] \in Failed(incoming)
  <2> SUFFICES ASSUME NEW j \in 1..Len(q)
               PROVE  \/ j \in 1..Len(events) /\ q[j] = events[j]
                      \/ j > Len(events) /\ q[j] \in Failed(incoming)
    OBVIOUS
  <2>1. CASE j <= Len(events)
    BY <1>0, <1>6, <1>8, <2>1
  <2>2. CASE ~(j <= Len(events))
    <3>1. j - Len(events) \in 1..Len(l) /\ j > Len(events)
      BY <1>0, <1>6, <1>8, <2>2
    <3>2. q[j] = l[j - Len(events)]
      BY <1>8, <2>2
    <3>. QED  BY <1>6, <3>1, <3>2
  <2>. QED  BY <2>1, <2>2
<1>12. \A k \in 1..Len(events') :
          events'[k] \in Failed(incoming) \/ \E j \in 1..Len(events) : events'[k] = events[j]
  BY <1>10, <1>11
<1>13. dropped' = (dropped \/ Len(events) + Cardinality(incoming) > EventCap)
  BY DEF AbortAll
<1>14. ASSUME ~dropped'
       PROVE  ~dropped /\ events' = q
  <2>1. ~dropped /\ ~(Len(events) + Cardinality(incoming) > EventCap)
    BY <1>13, <1>14
  <2>2. Len(q) <= EventCap
    <3>1. Len(l) <= Cardinality(incoming)
      BY <1>2, <1>5
    <3>. QED  BY <1>0, <1>1, <1>6, <1>8, <2>1, <3>1
  <2>. QED  BY <1>10, <2>1, <2>2
<1>15. ASSUME ~dropped'
       PROVE  /\ Len(events) <= Len(events')
              /\ \A k \in 1..Len(events) : events'[k] = events[k]
              /\ \A k \in 1..Len(events') : k > Len(events) => events'[k] \in Failed(incoming)
              /\ \A x \in Failed(incoming) :
                    \E k \in 1..Len(events') : k > Len(events) /\ events'[k] = x
  <2>1. Len(q) \in Nat /\ Len(events) <= Len(q) /\ events' = q
    BY <1>0, <1>6, <1>8, <1>14, <1>15
  <2>2. \A k \in 1..Len(events) : k \in 1..Len(q) /\ ~(k > Len(events))
    BY <1>0, <2>1
  <2>3. \A k \in 1..Len(q) : k > Len(events) => k \notin 1..Len(events)
    BY <1>0
  <2>4. ASSUME NEW x \in Failed(incoming)
        PROVE  \E k \in 1..Len(q) : k > Len(events) /\ q[k] = x
    <3>1. PICK i \in 1..Len(l) : l[i] = x
      BY <1>5
    <3>2. /\ Len(events) + i \in 1..Len(events) + Len(l) /\ Len(events) + i > Len(events)
          /\ Len(events) + i - Len(events) = i /\ ~(Len(events) + i <= Len(events))
      BY <1>0, <1>6
    <3>3. q[Len(events) + i] = l[i]
      BY <1>8, <3>2
    <3>. QED  BY <1>8, <3>1, <3>2, <3>3
  <2>. QED  BY <1>11, <2>1, <2>2, <2>3, <2>4
<1>16. dropped' \in BOOLEAN
  BY <1>13
<1>. QED  BY <1>10, <1>12, <1>14, <1>15, <1>16 DEF Grows

-----------------------------------------------------------------------------
(* What a step keeps of the invariant *)

\* Of a download, if the step emits S and does not collect.
LEMMA DownFrame ==
    ASSUME CardTypes, NEW d \in D, DownCards(d), NEW S, Grows(S),
           \A n \in 1..Len(cards'[d]) :
               cards'[d][n].of = Down(d) => \E m \in 1..Len(cards[d]) : cards'[d][n] = cards[d][m],
           next'[d] = "begin" \/ reader' \in {<<"register", d>>, <<"announce", d>>} =>
               /\ next[d] = "begin" \/ reader \in {<<"register", d>>, <<"announce", d>>}
               /\ main' \notin {<<"fail", d>>, <<"failed", d>>}
               /\ Event("incoming", Down(d)) \notin S,
           reader' = <<"announce", d>> => GoesOn(d)',
           ~dropped' /\ Known(d) => Known(d)' \/ \E e \in S : e \in Ends(Down(d)),
           Event("incoming", Down(d)) \in S => Known(d)'
    PROVE  DownCards(d)'
<1>0. Len(events) \in Nat /\ Id(Down(d)) = d
  BY LenProperties DEF CardTypes, Id, Down
<1>1. Quiet(d)'
  <2> SUFFICES ASSUME next'[d] = "begin" \/ reader' \in {<<"register", d>>, <<"announce", d>>}
               PROVE  /\ \A n \in 1..Len(cards'[d]) : cards'[d][n].of # Down(d)
                      /\ \A k \in 1..Len(events') :
                            events'[k] # Event("incoming", Down(d))
                      /\ main' \notin {<<"fail", d>>, <<"failed", d>>}
    BY DEF Quiet
  <2>1. /\ \A n \in 1..Len(cards[d]) : cards[d][n].of # Down(d)
        /\ \A k \in 1..Len(events) : events[k] # Event("incoming", Down(d))
    BY DEF DownCards, Quiet
  <2>2. \A n \in 1..Len(cards'[d]) : cards'[d][n].of # Down(d)
    BY <2>1
  <2>3. \A k \in 1..Len(events') :
            events'[k] \in S \/ \E j \in 1..Len(events) : events'[k] = events[j]
    BY DEF Grows
  <2>4. \A k \in 1..Len(events') : events'[k] # Event("incoming", Down(d))
    BY <2>1, <2>3
  <2>. QED  BY <2>2, <2>4
<1>2. ASSUME ~dropped'
      PROVE  /\ Awaits(Down(d))' => Known(d)' \/ EndsAfter(Down(d), 0)'
             /\ \A k \in 1..Len(events') :
                    events'[k] = Event("incoming", Down(d)) =>
                        Known(d)' \/ EndsAfter(Down(d), k)'
  <2>1. /\ ~dropped /\ Len(events) <= Len(events') /\ Len(events') \in Nat
        /\ \A k \in 1..Len(events) : events'[k] = events[k]
        /\ \A k \in 1..Len(events') : k > Len(events) => events'[k] \in S
        /\ \A e \in S : \E k \in 1..Len(events') : k > Len(events) /\ events'[k] = e
    BY <1>2, LenProperties DEF Grows
  <2>2. /\ Awaits(Down(d)) => Known(d) \/ EndsAfter(Down(d), 0)
        /\ \A k \in 1..Len(events) :
               events[k] = Event("incoming", Down(d)) => Known(d) \/ EndsAfter(Down(d), k)
    BY <2>1 DEF DownCards
  <2>3. ASSUME NEW k \in 0..Len(events), Known(d) \/ EndsAfter(Down(d), k)
        PROVE  Known(d)' \/ EndsAfter(Down(d), k)'
    <3>1. CASE EndsAfter(Down(d), k)
      <4>1. PICK j \in 1..Len(events) : j > k /\ events[j] \in Ends(Down(d))
        BY <3>1 DEF EndsAfter
      <4>2. j \in 1..Len(events') /\ events'[j] = events[j]
        BY <1>0, <2>1
      <4>. QED  BY <4>1, <4>2 DEF EndsAfter, Ends
    <3>2. CASE Known(d) /\ ~Known(d)'
      <4>1. PICK e \in S : e \in Ends(Down(d))
        BY <1>2, <3>2
      <4>2. PICK j \in 1..Len(events') : j > Len(events) /\ events'[j] = e
        BY <2>1
      <4>3. j > k
        BY <1>0, <4>2
      <4>. QED  BY <4>1, <4>2, <4>3 DEF EndsAfter, Ends
    <3>. QED  BY <2>3, <3>1, <3>2
  <2>4. ASSUME Awaits(Down(d))'
        PROVE  Known(d)' \/ EndsAfter(Down(d), 0)'
    <3>1. PICK n \in 1..Len(cards'[d]) : cards'[d][n] = Card(Down(d))
      BY <1>0, <2>4 DEF Awaits, Id, Down, Card
    <3>2. cards'[d][n].of = Down(d)
      BY <3>1 DEF Card
    <3>3. Awaits(Down(d))
      BY <1>0, <3>1, <3>2 DEF Awaits
    <3>4. 0 \in 0..Len(events)
      BY <1>0
    <3>. QED  BY <2>2, <2>3, <3>3, <3>4
  <2>5. ASSUME NEW k \in 1..Len(events'), events'[k] = Event("incoming", Down(d))
        PROVE  Known(d)' \/ EndsAfter(Down(d), k)'
    <3>1. CASE k > Len(events)
      BY <2>1, <2>5, <3>1
    <3>2. CASE ~(k > Len(events))
      <4>1. k \in 1..Len(events) /\ k \in 0..Len(events)
        BY <1>0, <3>2
      <4>. QED  BY <2>1, <2>2, <2>3, <2>5, <4>1
    <3>. QED  BY <3>1, <3>2
  <2>. QED  BY <2>4, <2>5
<1>. QED  BY <1>1, <1>2 DEF DownCards

\* The same of an upload.
LEMMA UpFrame ==
    ASSUME CardTypes, NEW u \in 1..MaxUp, UpCards(u), NEW S, Grows(S),
           upload'[u] = "over" =>
               /\ \A n \in 1..Len(cards'[u]) :
                     cards'[u][n].of = Up(u) =>
                         \E m \in 1..Len(cards[u]) : cards'[u][n] = cards[u][m]
               /\ upload[u] = "over" \/ \E e \in S : e \in Ends(Up(u))
    PROVE  UpCards(u)'
<1>0. Len(events) \in Nat /\ Id(Up(u)) = u
  BY LenProperties DEF CardTypes, Id, Up
<1> SUFFICES ASSUME ~dropped', Awaits(Up(u))', upload'[u] = "over"
             PROVE  EndsAfter(Up(u), 0)'
  BY DEF UpCards
<1>1. /\ ~dropped /\ Len(events) <= Len(events') /\ Len(events') \in Nat
      /\ \A k \in 1..Len(events) : events'[k] = events[k]
      /\ \A e \in S : \E k \in 1..Len(events') : k > Len(events) /\ events'[k] = e
  BY LenProperties DEF Grows
<1>2. CASE upload[u] = "over"
  <2>1. PICK n \in 1..Len(cards'[u]) : cards'[u][n] = Card(Up(u))
    BY <1>0 DEF Awaits, Id, Up, Card
  <2>2. cards'[u][n].of = Up(u)
    BY <2>1 DEF Card
  <2>3. Awaits(Up(u))
    BY <1>0, <2>1, <2>2 DEF Awaits
  <2>4. PICK j \in 1..Len(events) : j > 0 /\ events[j] \in Ends(Up(u))
    BY <1>1, <1>2, <2>3 DEF UpCards, EndsAfter
  <2>5. j \in 1..Len(events') /\ events'[j] = events[j]
    BY <1>0, <1>1
  <2>. QED  BY <2>4, <2>5 DEF EndsAfter, Ends
<1>3. CASE \E e \in S : e \in Ends(Up(u))
  <2>1. PICK e \in S : e \in Ends(Up(u))
    BY <1>3
  <2>2. PICK j \in 1..Len(events') : j > Len(events) /\ events'[j] = e
    BY <1>1
  <2>3. j > 0
    BY <1>0, <2>2
  <2>. QED  BY <2>1, <2>2, <2>3 DEF EndsAfter, Ends
<1>. QED  BY <1>2, <1>3

-----------------------------------------------------------------------------
(* The steps *)

LEMMA CardsInit == TransferAssumption /\ PhoneInit => CardsInv
<1> SUFFICES ASSUME TransferAssumption, PhoneInit
             PROVE  CardsInv
  OBVIOUS
<1>0. /\ events = <<>> /\ dropped = FALSE /\ cards = [i \in Ids |-> <<>>]
      /\ upload = [u \in 1..MaxUp |-> "none"]
      /\ reader = <<"idle", 0>> /\ main = <<"idle", 0>> /\ EventCap \in Nat
  BY DEF PhoneInit, Nothing, TransferAssumption
<1>1. CardTypes
  <2>1. events \in Seq(EventType) /\ Len(events) <= EventCap
    BY <1>0
  <2>2. \A i \in Ids : cards[i] \in Seq(CardOf(i))
    BY <1>0
  <2>. QED  BY <1>0, <2>1, <2>2 DEF CardTypes
<1>2. D \subseteq Ids /\ 1..MaxUp \subseteq Ids
  BY DEF D, Ids, TransferAssumption
<1>3. \A i \in Ids : Len(cards[i]) = 0
  BY <1>0
<1>4. ASSUME NEW d \in D
      PROVE  DownCards(d)
  <2>1. Len(cards[d]) = 0 /\ Len(events) = 0
    BY <1>0, <1>2, <1>3
  <2>2. ~Awaits(Down(d))
    BY <2>1 DEF Awaits, Id, Down
  <2>. QED  BY <1>0, <2>1, <2>2 DEF DownCards, Quiet
<1>5. ASSUME NEW u \in 1..MaxUp
      PROVE  UpCards(u)
  BY <1>0, <1>5 DEF UpCards
<1>. QED  BY <1>1, <1>4, <1>5 DEF CardsInv

\* An event of a transfer.
LEMMA EventsOf ==
    /\ \A d \in D : \A kind \in {"incoming", "progress", "complete", "failed"} :
          Event(kind, <<"down", d>>) \in EventType
    /\ \A u \in 1..MaxUp : \A kind \in {"progress", "complete", "failed"} :
          Event(kind, <<"up", u>>) \in EventType
<1>1. /\ \A d \in D : <<"down", d>> \in DownTransfer
      /\ \A u \in 1..MaxUp : <<"up", u>> \in UpTransfer
  BY DEF DownTransfer, UpTransfer, D
<1>. QED  BY <1>1 DEF EventType, Event, Transfer

\* A step of either thread that emits S and leaves the cards.
LEMMA CardsStay ==
    ASSUME CardTypes, NEW S, Grows(S), UNCHANGED <<cards, upload>>
    PROVE  CardTypes' /\ \A u \in 1..MaxUp : UpCards(u) => UpCards(u)'
<1>1. CardTypes'
  BY DEF CardTypes, Grows
<1>2. ASSUME NEW u \in 1..MaxUp, UpCards(u)
      PROVE  UpCards(u)'
  BY <1>2, UpFrame
<1>. QED  BY <1>1, <1>2

\* Those of the reader that go on with a download.
LEMMA ReaderCards ==
    ASSUME TransferAssumption, ReceiveInv, CardsInv, NEW e \in D,
           BeginFile(e) \/ Register(e) \/ Announce(e) \/ ChunkComes(e)
    PROVE  CardsInv'
<1>0. /\ CardTypes /\ (\A d \in D : DownCards(d)) /\ (\A u \in 1..MaxUp : UpCards(u))
      /\ reader \in ReaderSteps \X (D \union {0})
      /\ next \in [D -> {"begin", "chunk", "last", "over"}]
      /\ 0 \notin D
  BY DEF CardsInv, ReceiveInv, FileTypes, D
<1>1. UNCHANGED <<cards, upload, main, closed, late, overtaken>>
  BY DEF BeginFile, Register, Announce, ChunkComes, readerUnchanged,
         incomingVars, history
<1>2. CASE BeginFile(e)
  <2>1. /\ reader = <<"idle", 0>> /\ next[e] = "begin" /\ next' = [next EXCEPT ![e] = "chunk"]
        /\ reader' = reader \/ reader' = <<"register", e>>
        /\ UNCHANGED <<incoming, events, dropped>>
    BY <1>2 DEF BeginFile, Comes, Then, Nothing, flow
  <2>2. Grows({})
    BY <1>0, <2>1, FlowStays
  <2>3. ASSUME NEW d \in D
        PROVE  DownCards(d)'
    <3>1. /\ next'[d] = IF d = e THEN "chunk" ELSE next[d]
          /\ GoesOn(d)' <=> GoesOn(d)
          /\ Known(d) => Known(d)'
      BY <1>0, <1>1, <2>1 DEF Known, GoesOn
    <3>2. next[d] = "begin" => main \notin {<<"fail", d>>, <<"failed", d>>}
      BY <1>0 DEF DownCards, Quiet
    <3>3. reader' = <<"register", d>> => d = e
      BY <1>0, <2>1
    <3>4. reader' # <<"announce", d>>
      BY <2>1
    <3>. QED  BY <1>0, <1>1, <2>1, <2>2, <3>1, <3>2, <3>3, <3>4, DownFrame
  <2>. QED  BY <1>0, <1>1, <2>2, <2>3, CardsStay DEF CardsInv
<1>3. CASE Register(e)
  <2>1. /\ reader = <<"register", e>> /\ reader' = <<"announce", e>>
        /\ incoming' = incoming \union {e}
        /\ UNCHANGED <<next, events, dropped>>
    BY <1>3 DEF Register, flow
  <2>2. Grows({})
    BY <1>0, <2>1, FlowStays
  <2>3. ASSUME NEW d \in D
        PROVE  DownCards(d)'
    <3>1. Known(d) => Known(d)'
      BY <1>1, <2>1 DEF Known, GoesOn
    <3>2. reader' = <<"announce", d>> => d = e
      BY <2>1
    <3>3. GoesOn(e)'
      BY <1>1, <2>1 DEF GoesOn, ReceiveInv, FileInv, ReaderKnows
    <3>4. d = e \/ next[d] = "begin" => main \notin {<<"fail", d>>, <<"failed", d>>}
      BY <1>0, <2>1 DEF DownCards, Quiet
    <3>. QED  BY <1>0, <1>1, <2>1, <2>2, <3>1, <3>2, <3>3, <3>4, DownFrame
  <2>. QED  BY <1>0, <1>1, <2>2, <2>3, CardsStay DEF CardsInv
<1>4. CASE Announce(e)
  <2>1. /\ reader = <<"announce", e>> /\ reader' = <<"idle", 0>>
        /\ Emit("incoming", <<"down", e>>)
        /\ UNCHANGED <<next, incoming>>
    BY <1>4 DEF Announce, incomingVars, Nothing
  <2>2. Grows({Event("incoming", <<"down", e>>)})
    BY <1>0, <2>1, EventsOf, Emitted
  <2>3. ASSUME NEW d \in D
        PROVE  DownCards(d)'
    <3>1. GoesOn(d)' <=> GoesOn(d)
      BY <1>1, <2>1 DEF GoesOn
    <3>2. Known(d) => Known(d)'
      BY <1>1, <2>1, <3>1 DEF Known
    <3>3. GoesOn(e) /\ next[e] = "chunk"
      BY <1>0, <2>1 DEF DownCards, ReceiveInv, FileInv, ReaderKnows
    <3>4. Event("incoming", Down(d)) \in {Event("incoming", <<"down", e>>)} => d = e
      BY DEF Event, Down
    <3>5. d # e /\ next[d] = "begin" => main \notin {<<"fail", d>>, <<"failed", d>>}
      BY <1>0 DEF DownCards, Quiet
    <3>6. Event("incoming", Down(d)) \in {Event("incoming", <<"down", e>>)}
              => Known(d)'
      BY <3>1, <3>3, <3>4 DEF Known
    <3>7. reader' \notin {<<"register", d>>, <<"announce", d>>}
      BY <2>1
    <3>8. next'[d] = "begin" => d # e
      BY <2>1, <3>3
    <3>. QED
      BY <1>0, <1>1, <2>1, <2>2, <3>2, <3>4, <3>5, <3>6, <3>7, <3>8, DownFrame
  <2>. QED  BY <1>0, <1>1, <2>2, <2>3, CardsStay DEF CardsInv
<1>5. CASE ChunkComes(e)
  <2>1. /\ reader = <<"idle", 0>>
        /\ \A d \in D : next'[d] = "begin" => next[d] = "begin"
        /\ reader' \in {<<"idle", 0>>, <<"chunk", e>>, <<"last", e>>}
        /\ UNCHANGED <<incoming, events, dropped>>
    <3>1. /\ reader = <<"idle", 0>> /\ next[e] \in {"chunk", "last"}
          /\ next' = [next EXCEPT ![e] = IF next[e] = "chunk" THEN "last" ELSE "over"]
          /\ reader' = reader \/ reader' = <<next[e], e>>
          /\ UNCHANGED <<incoming, events, dropped>>
      BY <1>5 DEF ChunkComes, Then, Nothing, flow, incomingVars
    <3>. QED  BY <1>0, <3>1
  <2>2. Grows({})
    BY <1>0, <2>1, FlowStays
  <2>3. ASSUME NEW d \in D
        PROVE  DownCards(d)'
    <3>1. Known(d) => Known(d)'
      BY <1>1, <2>1 DEF Known, GoesOn
    <3>2. next[d] = "begin" => main \notin {<<"fail", d>>, <<"failed", d>>}
      BY <1>0 DEF DownCards, Quiet
    <3>3. reader' \notin {<<"register", d>>, <<"announce", d>>}
      BY <2>1
    <3>. QED  BY <1>0, <1>1, <2>1, <2>2, <3>1, <3>2, <3>3, DownFrame
  <2>. QED  BY <1>0, <1>1, <2>2, <2>3, CardsStay DEF CardsInv
<1>. QED  BY <1>2, <1>3, <1>4, <1>5

\* Those of the reader that write it or end it.
LEMMA WriterCards ==
    ASSUME TransferAssumption, ReceiveInv, CardsInv, NEW e \in D,
           Write(e) \/ Close(e) \/ Finish(e) \/ ReaderFails(e)
    PROVE  CardsInv'
<1>0. /\ CardTypes /\ (\A d \in D : DownCards(d)) /\ (\A u \in 1..MaxUp : UpCards(u))
      /\ reader \in ReaderSteps \X (D \union {0})
      /\ closed \in [D -> BOOLEAN]
      /\ 0 \notin D
  BY DEF CardsInv, ReceiveInv, FileTypes, D
<1>1. UNCHANGED <<cards, upload, main, next, late, overtaken>>
  BY DEF Write, Close, Finish, ReaderFails, readerUnchanged,
         history
\* It is at a step for e, and what it forgets of e it says in S.
<1>2. ASSUME NEW S, Grows(S), NEW step \in {"chunk", "last", "close", "finish", "fail", "failed"},
             reader = <<step, e>>,
             \A d \in D : Event("incoming", Down(d)) \notin S,
             \A d \in D : reader' \notin {<<"register", d>>, <<"announce", d>>},
             \A d \in D \ {e} : d \in incoming => d \in incoming' /\ closed'[d] = closed[d],
             Known(e) => Known(e)' \/ \E x \in S : x \in Ends(Down(e))
      PROVE  CardsInv'
  <2>1. ASSUME NEW d \in D
        PROVE  DownCards(d)'
    <3>1. Known(d) => Known(d)' \/ \E x \in S : x \in Ends(Down(d))
      <4>1. CASE d = e
        BY <1>2, <4>1
      <4>2. CASE d # e
        <5>1. reader \notin {<<"finish", d>>, <<"failed", d>>}
          BY <1>2, <4>2
        <5>2. GoesOn(d) => GoesOn(d)'
          BY <1>1, <1>2, <4>2 DEF GoesOn
        <5>. QED  BY <1>1, <5>1, <5>2 DEF Known
      <4>. QED  BY <4>1, <4>2
    <3>2. next[d] = "begin" => main \notin {<<"fail", d>>, <<"failed", d>>}
      BY <1>0 DEF DownCards, Quiet
    <3>. QED  BY <1>0, <1>1, <1>2, <3>1, <3>2, DownFrame
  <2>. QED  BY <1>0, <1>1, <1>2, <2>1, CardsStay DEF CardsInv
<1>3. /\ \A d \in D : Event("incoming", Down(d)) \notin {}
      /\ \A d \in D : \A kind \in {"progress", "complete", "failed"} :
            Event("incoming", Down(d)) \notin {Event(kind, <<"down", e>>)}
      /\ \A kind \in {"complete", "failed"} :
            Event(kind, <<"down", e>>) \in Ends(Down(e))
  BY DEF Event, Ends, Down
<1>4. CASE Write(e)
  <2>1. /\ reader \in {<<"chunk", e>>, <<"last", e>>}
        /\ UNCHANGED <<incoming, closed>>
        /\ \/ reader' = <<"fail", e>> /\ UNCHANGED <<events, dropped>>
           \/ /\ Emit("progress", <<"down", e>>)
              /\ reader' \in {<<"idle", 0>>, <<"close", e>>}
    BY <1>4 DEF Write, GiveUpFile, Nothing, flow
  <2>2. PICK S \in {{}, {Event("progress", <<"down", e>>)}} : Grows(S)
    BY <1>0, <2>1, FlowStays, EventsOf, Emitted
  <2>3. Known(e) => Known(e)'
    BY <1>1, <2>1 DEF Known, GoesOn
  <2>4. PICK step \in {"chunk", "last"} : reader = <<step, e>>
    BY <2>1
  <2>5. \A d \in D : /\ reader' \notin {<<"register", d>>, <<"announce", d>>}
                           /\ Event("incoming", Down(d)) \notin S
    BY <1>3, <2>1, <2>2
  <2>. QED  BY <1>2, <2>1, <2>2, <2>3, <2>4, <2>5
<1>5. CASE Close(e)
  <2>1. /\ reader = <<"close", e>>
        /\ UNCHANGED <<incoming, events, dropped>>
        /\ \/ reader' = <<"fail", e>> /\ UNCHANGED closed
           \/ reader' = <<"finish", e>> /\ closed' = [closed EXCEPT ![e] = TRUE]
    BY <1>5 DEF Close, flow
  <2>2. Grows({})
    BY <1>0, <2>1, FlowStays
  <2>3. Known(e) => Known(e)'
    BY <1>1, <2>1 DEF Known, GoesOn
  <2>4. \A d \in D : reader' \notin {<<"register", d>>, <<"announce", d>>}
    BY <2>1
  <2>5. \A d \in D \ {e} : closed'[d] = closed[d]
    BY <1>0, <2>1
  <2>. QED  BY <1>2, <1>3, <2>1, <2>2, <2>3, <2>4, <2>5
<1>6. CASE Finish(e)
  <2>1. /\ reader = <<"finish", e>> /\ reader' = <<"idle", 0>> /\ incoming' = incoming \ {e}
        /\ Emit("complete", <<"down", e>>) /\ UNCHANGED closed
    BY <1>6 DEF Finish, Nothing
  <2>2. Grows({Event("complete", <<"down", e>>)})
    BY <1>0, <2>1, EventsOf, Emitted
  <2>3. \A d \in D : reader' \notin {<<"register", d>>, <<"announce", d>>}
    BY <2>1
  <2>. QED  BY <1>2, <1>3, <2>1, <2>2, <2>3
<1>7. CASE ReaderFails(e)
  <2>1. CASE /\ reader = <<"fail", e>> /\ reader' = <<"failed", e>>
             /\ closed' = [closed EXCEPT ![e] = TRUE]
             /\ UNCHANGED <<incoming, events, dropped>>
    <3>1. Grows({})
      BY <1>0, <2>1, FlowStays
    <3>2. Known(e)'
      BY <2>1 DEF Known
    <3>3. \A d \in D : reader' \notin {<<"register", d>>, <<"announce", d>>}
      BY <2>1
    <3>4. \A d \in D \ {e} : closed'[d] = closed[d]
      BY <1>0, <2>1
    <3>. QED  BY <1>2, <1>3, <2>1, <3>1, <3>2, <3>3, <3>4
  <2>2. CASE /\ reader = <<"failed", e>> /\ reader' = <<"idle", 0>>
             /\ incoming' = incoming \ {e} /\ UNCHANGED closed
             /\ Emit("failed", <<"down", e>>)
    <3>1. Grows({Event("failed", <<"down", e>>)})
      BY <1>0, <2>2, EventsOf, Emitted
    <3>2. \A d \in D : reader' \notin {<<"register", d>>, <<"announce", d>>}
      BY <2>2
    <3>. QED  BY <1>2, <1>3, <2>2, <3>1, <3>2
  <2>. QED
    BY <1>7, <2>1, <2>2
    DEF ReaderFails, FailFile, FailTell, Nothing, flow
<1>. QED  BY <1>4, <1>5, <1>6, <1>7

\* The main thread fails one its card has cancelled.
LEMMA MainFailsCards ==
    ASSUME TransferAssumption, ReceiveInv, CardsInv, NEW e \in D, MainFails(e)
    PROVE  CardsInv'
<1>0. /\ CardTypes /\ (\A d \in D : DownCards(d)) /\ (\A u \in 1..MaxUp : UpCards(u))
      /\ closed \in [D -> BOOLEAN] /\ 0 \notin D
  BY DEF CardsInv, ReceiveInv, FileTypes, D
<1>1. UNCHANGED <<cards, upload, reader, next, late, overtaken>>
  BY DEF MainFails, mainUnchanged
<1>2. ASSUME NEW S, Grows(S), main \in {<<"fail", e>>, <<"failed", e>>},
             \A d \in D : Event("incoming", Down(d)) \notin S,
             main' \in {<<"failed", e>>, <<"idle", 0>>},
             \A d \in D \ {e} : d \in incoming => d \in incoming' /\ closed'[d] = closed[d],
             Known(e)' \/ \E x \in S : x \in Ends(Down(e))
      PROVE  CardsInv'
  <2>1. ASSUME NEW d \in D
        PROVE  DownCards(d)'
    <3>1. next[d] = "begin" \/ reader \in {<<"register", d>>, <<"announce", d>>} => d # e
      BY <1>0, <1>2 DEF DownCards, Quiet
    <3>2. d # e => main' \notin {<<"fail", d>>, <<"failed", d>>}
      BY <1>0, <1>2
    <3>3. d # e /\ GoesOn(d) => GoesOn(d)'
      BY <1>1, <1>2 DEF GoesOn
    <3>4. Known(d) => Known(d)' \/ \E x \in S : x \in Ends(Down(d))
      <4>1. CASE d = e
        BY <1>2, <4>1
      <4>2. CASE d # e
        <5>1. main # <<"failed", d>>
          BY <1>2, <4>2
        <5>. QED  BY <1>1, <3>3, <4>2, <5>1 DEF Known
      <4>. QED  BY <4>1, <4>2
    <3>5. reader' = <<"announce", d>> => GoesOn(d)'
      BY <1>0, <1>1, <3>1, <3>3 DEF DownCards
    <3>. QED  BY <1>0, <1>1, <1>2, <3>1, <3>2, <3>4, <3>5, DownFrame
  <2>. QED  BY <1>0, <1>1, <1>2, <2>1, CardsStay DEF CardsInv
<1>3. /\ \A d \in D : Event("incoming", Down(d)) \notin {}
      /\ \A d \in D :
            Event("incoming", Down(d)) \notin {Event("failed", <<"down", e>>)}
      /\ Event("failed", <<"down", e>>) \in Ends(Down(e))
  BY DEF Event, Ends, Down
<1>4. CASE /\ main = <<"fail", e>> /\ main' = <<"failed", e>>
           /\ closed' = [closed EXCEPT ![e] = TRUE]
           /\ UNCHANGED <<incoming, events, dropped>>
  <2>1. Grows({})
    BY <1>0, <1>4, FlowStays
  <2>2. Known(e)'
    BY <1>4 DEF Known
  <2>3. \A d \in D \ {e} : closed'[d] = closed[d]
    BY <1>0, <1>4
  <2>. QED  BY <1>2, <1>3, <1>4, <2>1, <2>2, <2>3
<1>5. CASE /\ main = <<"failed", e>> /\ main' = <<"idle", 0>>
           /\ incoming' = incoming \ {e} /\ UNCHANGED closed
           /\ Emit("failed", <<"down", e>>)
  <2>1. Grows({Event("failed", <<"down", e>>)})
    BY <1>0, <1>5, EventsOf, Emitted
  <2>. QED  BY <1>2, <1>3, <1>5, <2>1
<1>. QED
  BY <1>4, <1>5
  DEF MainFails, FailFile, FailTell, Nothing, flow

\* The end of the link, and what disconnect does to all of them.
LEMMA EndCards ==
    ASSUME TransferAssumption, ReceiveInv, CardsInv,
           PhoneLinkDown \/ Disconnect \/ Clear
    PROVE  CardsInv'
<1>0. /\ CardTypes /\ (\A d \in D : DownCards(d)) /\ (\A u \in 1..MaxUp : UpCards(u))
      /\ closed \in [D -> BOOLEAN] /\ incoming \subseteq D /\ 0 \notin D
  BY DEF CardsInv, ReceiveInv, FileTypes, D
<1>1. UNCHANGED <<cards, upload, reader, next>>
  BY DEF PhoneLinkDown, Disconnect, Clear, mainUnchanged, history
<1>2. ASSUME NEW S, Grows(S), S = {} \/ S = Failed(incoming),
             main' = main \/ main' \in {<<"clear", 0>>, <<"idle", 0>>},
             \A d \in D : reader = <<"announce", d>> /\ GoesOn(d) => GoesOn(d)',
             \A d \in D : Known(d) => Known(d)' \/ (d \in incoming /\ S = Failed(incoming))
      PROVE  CardsInv'
  <2>1. ASSUME NEW d \in D
        PROVE  DownCards(d)'
    <3>1. Event("incoming", Down(d)) \notin S
      BY <1>2 DEF Failed, Event
    <3>2. d \in incoming /\ S = Failed(incoming) => \E x \in S : x \in Ends(Down(d))
      <4>1. d \in incoming => Event("failed", Down(d)) \in Failed(incoming)
        BY DEF Failed
      <4>. QED  BY <4>1 DEF Ends
    <3>3. Known(d) => Known(d)' \/ \E x \in S : x \in Ends(Down(d))
      BY <1>2, <3>2
    <3>4. reader' = <<"announce", d>> => GoesOn(d)'
      BY <1>0, <1>1, <1>2 DEF DownCards
    <3>5. next[d] = "begin" \/ reader \in {<<"register", d>>, <<"announce", d>>} =>
              main' \notin {<<"fail", d>>, <<"failed", d>>}
      BY <1>0, <1>2 DEF DownCards, Quiet
    <3>. QED  BY <1>0, <1>1, <1>2, <3>1, <3>3, <3>4, <3>5, DownFrame
  <2>. QED  BY <1>0, <1>1, <1>2, <2>1, CardsStay DEF CardsInv
<1>3. CASE PhoneLinkDown
  <2>1. reader = <<"idle", 0>> /\ UNCHANGED <<main, late, overtaken>>
    BY <1>3 DEF PhoneLinkDown, Nothing, history
  <2>2. CASE AbortAll /\ incoming' = {}
    <3>1. Grows(Failed(incoming))
      BY <1>0, <2>2, Aborted
    <3>2. \A d \in D : Known(d) => Known(d)' \/ d \in incoming
      BY <1>1, <2>1 DEF Known, GoesOn
    <3>. QED  BY <1>2, <2>1, <3>1, <3>2
  <2>3. CASE UNCHANGED <<incoming, closed, events, dropped>>
    <3>1. Grows({})
      BY <1>0, <2>3, FlowStays
    <3>2. \A d \in D : Known(d) => Known(d)'
      BY <1>1, <2>1, <2>3 DEF Known, GoesOn
    <3>. QED  BY <1>2, <2>1, <3>1, <3>2
  <2>. QED  BY <1>3, <2>2, <2>3 DEF PhoneLinkDown, flow
<1>4. CASE Disconnect
  <2>1. /\ main = <<"idle", 0>> /\ main' = <<"clear", 0>> /\ AbortAll
        /\ overtaken' = overtaken \union {d \in incoming : reader = <<"announce", d>>}
        /\ UNCHANGED <<incoming, late>>
    BY <1>4 DEF Disconnect, Nothing
  <2>2. Grows(Failed(incoming))
    BY <1>0, <2>1, Aborted
  <2>3. \A d \in D : Known(d) => Known(d)' \/ d \in incoming
    BY <1>1, <2>1 DEF Known, GoesOn
  <2>4. \A d \in D : reader = <<"announce", d>> /\ GoesOn(d) => GoesOn(d)'
    BY <2>1 DEF GoesOn
  <2>. QED  BY <1>2, <2>1, <2>2, <2>3, <2>4
<1>5. CASE Clear
  <2>1. /\ main = <<"clear", 0>> /\ main' = <<"idle", 0>> /\ incoming' = {}
        /\ late' = late \union {d \in incoming : ~closed[d]}
        /\ UNCHANGED <<closed, overtaken, events, dropped>>
    BY <1>5 DEF Clear, Nothing, flow
  <2>2. Grows({})
    BY <1>0, <2>1, FlowStays
  <2>3. \A d \in D : GoesOn(d) => GoesOn(d)'
    BY <1>0, <2>1 DEF GoesOn
  <2>4. \A d \in D : Known(d) => Known(d)'
    BY <1>1, <2>1, <2>3 DEF Known
  <2>. QED  BY <1>2, <2>1, <2>2, <2>3, <2>4
<1>. QED  BY <1>3, <1>4, <1>5

\* What the view model does to the cards: a new upload, a cross, a timer; and
\* what an upload tells them.
LEMMA ViewCards ==
    ASSUME TransferAssumption, ReceiveInv, CardsInv,
           \/ \E u \in 1..MaxUp : StartUpload(u) \/ UploadTells(u)
           \/ \E i \in Ids : Cancel(i) \/ Expire(i)
    PROVE  CardsInv'
<1>0. /\ CardTypes /\ (\A d \in D : DownCards(d)) /\ (\A u \in 1..MaxUp : UpCards(u))
      /\ upload \in [1..MaxUp -> {"none", "runs", "flagged", "over"}]
      /\ cards = [i \in Ids |-> cards[i]] /\ \A i \in Ids : cards[i] \in Seq(CardOf(i))
      /\ main = <<"idle", 0>> => \A d \in D : main \notin {<<"fail", d>>, <<"failed", d>>}
  <2>1. CardTypes /\ (\A d \in D : DownCards(d)) /\ (\A u \in 1..MaxUp : UpCards(u))
    BY DEF CardsInv
  <2>. QED  BY <2>1 DEF CardTypes
<1>1. /\ UNCHANGED <<reader, next, incoming, closed, late, overtaken>>
      /\ D \subseteq Ids /\ 1..MaxUp \subseteq Ids
  <2>1. UNCHANGED <<reader, next, incoming, closed, late, overtaken>>
    BY DEF StartUpload, UploadTells, Cancel, Expire, incomingVars,
           mainUnchanged
  <2>. QED  BY <2>1 DEF D, Ids, TransferAssumption
\* The downloads know nothing of it, if no card of theirs is new.
<1>2. ASSUME NEW S, Grows(S),
             \A d \in D : Event("incoming", Down(d)) \notin S,
             main' = main \/ \E d \in D : main = <<"idle", 0>> /\ main' = <<"fail", d>> /\ Awaits(Down(d)),
             \A d \in D : \A n \in 1..Len(cards'[d]) :
                 cards'[d][n].of = Down(d) => \E m \in 1..Len(cards[d]) : cards'[d][n] = cards[d][m]
      PROVE  \A d \in D : DownCards(d)'
  <2> SUFFICES ASSUME NEW d \in D
               PROVE  DownCards(d)'
    OBVIOUS
  <2>1. Known(d) => Known(d)'
    <3>1. GoesOn(d) => GoesOn(d)'
      BY <1>1 DEF GoesOn
    <3>2. main = <<"failed", d>> => main' = main
      BY <1>2
    <3>. QED  BY <1>1, <3>1, <3>2 DEF Known
  <2>2. next[d] = "begin" \/ reader \in {<<"register", d>>, <<"announce", d>>} =>
            main' \notin {<<"fail", d>>, <<"failed", d>>}
    <3> SUFFICES ASSUME next[d] = "begin" \/ reader \in {<<"register", d>>, <<"announce", d>>}
                 PROVE  main' \notin {<<"fail", d>>, <<"failed", d>>}
      OBVIOUS
    <3>1. /\ \A n \in 1..Len(cards[d]) : cards[d][n].of # Down(d)
          /\ main \notin {<<"fail", d>>, <<"failed", d>>}
      BY <1>0 DEF DownCards, Quiet
    <3>2. ~Awaits(Down(d))
      BY <3>1 DEF Awaits, Id, Down, Card
    <3>. QED  BY <1>2, <3>1, <3>2
  <2>3. reader' = <<"announce", d>> => GoesOn(d)'
    BY <1>0, <1>1 DEF DownCards, GoesOn
  <2>. QED  BY <1>0, <1>1, <1>2, <2>1, <2>2, <2>3, DownFrame
<1>3. ASSUME NEW u \in 1..MaxUp, StartUpload(u)
      PROVE  CardsInv'
  <2>1. /\ upload[u] = "none" /\ upload' = [upload EXCEPT ![u] = "runs"]
        /\ cards' = [cards EXCEPT ![u] = <<Card(Up(u))>> \o cards[u]]
        /\ UNCHANGED <<main, events, dropped>>
    BY <1>3 DEF StartUpload, flow, Up
  <2>2. Grows({})
    BY <1>0, <2>1, FlowStays
  <2>3. Card(Up(u)) \in CardOf(u) /\ Card(Up(u)).of = Up(u)
    BY DEF Card, Up, CardOf, Transfer, UpTransfer, Id
  <2>4. cards[u] \in Seq(CardOf(u))
    BY <1>0, <1>1
  <2>5. PICK one : one = <<Card(Up(u))>>
    OBVIOUS
  <2>6. one \in Seq(CardOf(u)) /\ Len(one) = 1 /\ one[1] = Card(Up(u))
    BY <2>3, <2>5
  <2>7. PICK new : new = one \o cards[u]
    OBVIOUS
  <2>8. /\ new \in Seq(CardOf(u)) /\ Len(new) = 1 + Len(cards[u]) /\ Len(cards[u]) \in Nat
        /\ \A n \in 1..1 + Len(cards[u]) :
              new[n] = IF n <= 1 THEN one[n] ELSE cards[u][n - 1]
    <3>1. Len(cards[u]) \in Nat
      BY <2>4, LenProperties
    <3>2. /\ one \o cards[u] \in Seq(CardOf(u))
          /\ Len(one \o cards[u]) = Len(one) + Len(cards[u])
          /\ \A n \in 1..Len(one) + Len(cards[u]) :
                (one \o cards[u])[n] = IF n <= Len(one) THEN one[n] ELSE cards[u][n - Len(one)]
      BY <2>4, <2>6, ConcatProperties
    <3>. QED  BY <2>6, <2>7, <3>1, <3>2
  <2>9. \A i \in Ids : cards'[i] = IF i = u THEN new ELSE cards[i]
    BY <1>0, <1>1, <2>1, <2>5, <2>7
  <2>10. CardTypes'
    <3>1. cards' = [j \in Ids |-> cards'[j]]
      BY <1>0, <2>1
    <3>2. \A i \in Ids : cards'[i] \in Seq(CardOf(i))
      BY <1>0, <2>8, <2>9
    <3>3. upload' \in [1..MaxUp -> {"none", "runs", "flagged", "over"}]
      BY <1>0, <2>1
    <3>. QED  BY <2>2, <3>1, <3>2, <3>3 DEF CardTypes, Grows
  <2>11. ASSUME NEW d \in D, NEW n \in 1..Len(cards'[d]), cards'[d][n].of = Down(d)
         PROVE  \E m \in 1..Len(cards[d]) : cards'[d][n] = cards[d][m]
    <3>1. CASE d = u
      <4>1. cards'[d] = new /\ n \in 1..1 + Len(cards[u])
        BY <1>1, <2>8, <2>9, <3>1
      <4>2. n # 1
        <5>1. new[1] = Card(Up(u))
          BY <2>6, <2>8
        <5>2. Up(u) # Down(d)
          BY DEF Up, Down
        <5>. QED  BY <2>3, <2>11, <4>1, <5>1, <5>2
      <4>3. n - 1 \in 1..Len(cards[u]) /\ new[n] = cards[u][n - 1]
        BY <2>8, <4>1, <4>2
      <4>. QED  BY <3>1, <4>1, <4>3
    <3>2. CASE d # u
      BY <1>1, <2>9, <3>2
    <3>. QED  BY <3>1, <3>2
  <2>12. \A d \in D : DownCards(d)'
    BY <1>2, <2>1, <2>2, <2>11
  <2>13. ASSUME NEW w \in 1..MaxUp
         PROVE  UpCards(w)'
    <3>1. CASE w = u
      <4>1. upload'[w] # "over"
        BY <1>0, <2>1, <3>1
      <4>. QED  BY <4>1 DEF UpCards
    <3>2. CASE w # u
      <4>1. upload'[w] = upload[w] /\ cards'[w] = cards[w]
        BY <1>0, <1>1, <2>1, <2>9, <3>2
      <4>. QED  BY <1>0, <2>2, <4>1, UpFrame
    <3>. QED  BY <3>1, <3>2
  <2>. QED  BY <2>10, <2>12, <2>13 DEF CardsInv
<1>4. ASSUME NEW u \in 1..MaxUp, UploadTells(u)
      PROVE  CardsInv'
  <2>1. PICK kind \in {"progress", "complete", "failed"} :
            /\ Emit(kind, <<"up", u>>) /\ UNCHANGED <<main, cards>>
            /\ \/ UNCHANGED upload
               \/ kind # "progress" /\ upload' = [upload EXCEPT ![u] = "over"]
    <3>1. UNCHANGED <<main, cards>>
      BY <1>4 DEF UploadTells
    <3>2. CASE Emit("progress", <<"up", u>>) /\ UNCHANGED upload
      BY <3>1, <3>2
    <3>3. CASE /\ Emit(IF upload[u] = "runs" THEN "complete" ELSE "failed", <<"up", u>>)
               /\ upload' = [upload EXCEPT ![u] = "over"]
      <4>1. CASE upload[u] = "runs"
        BY <3>1, <3>3, <4>1
      <4>2. CASE upload[u] # "runs"
        BY <3>1, <3>3, <4>2
      <4>. QED  BY <4>1, <4>2
    <3>. QED  BY <1>4, <3>2, <3>3 DEF UploadTells
  <2> DEFINE e == Event(kind, <<"up", u>>)
  <2>2. Grows({e})
    BY <1>0, <2>1, EventsOf, Emitted
  <2>3. /\ \A d \in D : Event("incoming", Down(d)) \notin {e}
        /\ kind # "progress" => e \in Ends(Up(u))
    BY DEF Event, Ends, Up
  <2>4. CardTypes'
    <3>1. upload' \in [1..MaxUp -> {"none", "runs", "flagged", "over"}]
      BY <1>0, <2>1
    <3>. QED  BY <1>0, <2>1, <2>2, <3>1 DEF CardTypes, Grows
  <2>5. \A d \in D : DownCards(d)'
    BY <1>2, <2>1, <2>2, <2>3
  <2>6. ASSUME NEW w \in 1..MaxUp
        PROVE  UpCards(w)'
    <3>1. upload'[w] = "over" => upload[w] = "over" \/ \E x \in {e} : x \in Ends(Up(w))
      BY <1>0, <2>1, <2>3
    <3>. QED  BY <1>0, <2>1, <2>2, <3>1, UpFrame
  <2>. QED  BY <2>4, <2>5, <2>6 DEF CardsInv
<1>5. ASSUME NEW i \in Ids, Cancel(i)
      PROVE  CardsInv'
  <2>1. /\ main = <<"idle", 0>> /\ UNCHANGED <<cards, events, dropped>>
        /\ cards[i] # <<>> /\ Head(cards[i]).state = "sending"
        /\ \/ /\ Head(cards[i]).of \in UpTransfer /\ UNCHANGED main
              /\ upload' = [upload EXCEPT ![i] = IF @ = "runs" THEN "flagged" ELSE @]
           \/ /\ Head(cards[i]).of \in DownTransfer /\ UNCHANGED upload
              /\ main' = IF i \in incoming THEN <<"fail", i>> ELSE main
    BY <1>5 DEF Cancel, flow, Shown, First, Nothing
  <2>2. Grows({})
    BY <1>0, <2>1, FlowStays
  <2>3. Head(cards[i]) = cards[i][1] /\ Head(cards[i]) \in CardOf(i) /\ 1 \in 1..Len(cards[i])
    <3>1. cards[i] \in Seq(CardOf(i)) /\ Len(cards[i]) \in Nat
      BY <1>0, LenProperties
    <3>2. Head(cards[i]) \in CardOf(i) /\ Len(cards[i]) # 0
      BY <2>1, <3>1, HeadTailProperties, EmptySeq
    <3>3. Head(cards[i]) = cards[i][1]
      BY <3>1
    <3>. QED  BY <3>1, <3>2, <3>3
  <2>4. main' = main \/ \E d \in D : main' = <<"fail", d>> /\ Awaits(Down(d))
    <3> SUFFICES ASSUME Head(cards[i]).of \in DownTransfer
                 PROVE  \E d \in D : d = i /\ Awaits(Down(d))
      BY <2>1
    <3>1. i \in D /\ Head(cards[i]).of = Down(i)
      BY <2>3 DEF CardOf, DownTransfer, D, Id, Down
    <3>2. Head(cards[i]) = Card(Down(i))
      BY <2>1, <2>3, <3>1 DEF CardOf, Card
    <3>. QED  BY <2>3, <3>1, <3>2 DEF Awaits, Id, Down
  <2>5. /\ upload' \in [1..MaxUp -> {"none", "runs", "flagged", "over"}]
        /\ \A u \in 1..MaxUp : upload'[u] = "over" => upload[u] = "over"
    <3>1. CASE UNCHANGED upload
      BY <1>0, <3>1
    <3>2. CASE /\ Head(cards[i]).of \in UpTransfer
               /\ upload' = [upload EXCEPT ![i] = IF @ = "runs" THEN "flagged" ELSE @]
      BY <1>0, <3>2
    <3>. QED  BY <2>1, <3>1, <3>2
  <2>6. CardTypes'
    BY <1>0, <2>1, <2>2, <2>5 DEF CardTypes, Grows
  <2>7. \A d \in D : DownCards(d)'
    BY <1>2, <2>1, <2>2, <2>4
  <2>8. \A u \in 1..MaxUp : UpCards(u)'
    BY <1>0, <2>1, <2>2, <2>5, UpFrame
  <2>. QED  BY <2>6, <2>7, <2>8 DEF CardsInv
<1>6. ASSUME NEW i \in Ids, Expire(i)
      PROVE  CardsInv'
  <2>1. /\ cards' = [cards EXCEPT ![i] = <<>>]
        /\ UNCHANGED <<main, upload, events, dropped>>
    BY <1>6 DEF Expire, flow
  <2>2. Grows({})
    BY <1>0, <2>1, FlowStays
  <2>3. \A j \in Ids : cards'[j] = IF j = i THEN <<>> ELSE cards[j]
    BY <1>0, <2>1
  <2>4. CardTypes'
    <3>1. cards' = [j \in Ids |-> cards'[j]]
      BY <1>0, <2>1
    <3>2. \A j \in Ids : cards'[j] \in Seq(CardOf(j))
      <4>1. <<>> \in Seq(CardOf(i))
        OBVIOUS
      <4>. QED  BY <1>0, <2>3, <4>1
    <3>. QED  BY <1>0, <2>1, <2>2, <3>1, <3>2 DEF CardTypes, Grows
  <2>5. \A j \in Ids : \A n \in 1..Len(cards'[j]) : cards'[j][n] = cards[j][n] /\ n \in 1..Len(cards[j])
    <3>1. Len(<<>>) = 0
      OBVIOUS
    <3>. QED  BY <2>3, <3>1
  <2>6. \A d \in D : DownCards(d)'
    BY <1>1, <1>2, <2>1, <2>2, <2>5
  <2>7. \A u \in 1..MaxUp : UpCards(u)'
    BY <1>0, <1>1, <2>1, <2>2, <2>5, UpFrame
  <2>. QED  BY <2>4, <2>6, <2>7 DEF CardsInv
<1>. QED  BY <1>3, <1>4, <1>5, <1>6

\* A first event reaches the cards of its id: an Incoming puts one before them,
\* and a last event ends them all.
LEMMA CollectedCards ==
    ASSUME TransferAssumption, CardTypes, Collect
    PROVE  \E e \in EventType, i \in Ids :
               /\ e = events[1] /\ i = Id(e.of) /\ 1 \in 1..Len(events)
               /\ \A j \in Ids \ {i} : cards'[j] = cards[j]
               /\ cards' = [j \in Ids |-> cards'[j]] /\ cards'[i] \in Seq(CardOf(i))
               /\ \A n \in 1..Len(cards'[i]) :
                     \/ \E m \in 1..Len(cards[i]) :
                           /\ cards'[i][n].of = cards[i][m].of
                           /\ cards'[i][n].state = Outcome(cards[i][m].state, e.kind)
                     \/ e.kind = "incoming" /\ cards'[i][n].of = e.of
               /\ e.kind \in {"complete", "failed"} =>
                     \A n \in 1..Len(cards'[i]) : cards'[i][n].state # "sending"
<1>0. /\ events \in Seq(EventType) /\ events # <<>> /\ Len(events) \in Nat
      /\ cards = [j \in Ids |-> cards[j]] /\ \A j \in Ids : cards[j] \in Seq(CardOf(j))
      /\ MaxDown \in Nat /\ MaxUp \in Nat
  BY LenProperties DEF CardTypes, Collect, TransferAssumption
<1>1. PICK e : e = Head(events)
  OBVIOUS
<1>2. e \in EventType /\ e = events[1] /\ 1 \in 1..Len(events)
  <2>1. Head(events) \in EventType /\ Len(events) # 0
    BY <1>0, HeadTailProperties, EmptySeq
  <2>2. Head(events) = events[1]
    BY <1>0
  <2>. QED  BY <1>0, <1>1, <2>1, <2>2
<1>3. PICK i : i = Id(e.of)
  OBVIOUS
<1>4. /\ i \in Ids /\ e.of \in Transfer
      /\ e.kind \in {"incoming", "progress", "complete", "failed"}
  <2>1. /\ e.of \in Transfer
        /\ e.kind \in {"incoming", "progress", "complete", "failed"}
    BY <1>2 DEF EventType, Transfer
  <2>2. \A t \in Transfer : Id(t) \in Ids
    BY <1>0 DEF Transfer, DownTransfer, UpTransfer, Id, Ids
  <2>. QED  BY <1>3, <2>1, <2>2
<1>5. PICK all : all = IF e.kind = "incoming" THEN <<Card(e.of)>> \o cards[i] ELSE cards[i]
  OBVIOUS
<1>6. /\ all \in Seq(CardOf(i)) /\ Len(all) \in Nat
      /\ \A n \in 1..Len(all) :
            \/ \E m \in 1..Len(cards[i]) : all[n] = cards[i][m]
            \/ e.kind = "incoming" /\ all[n] = Card(e.of)
  <2>0. cards[i] \in Seq(CardOf(i)) /\ Len(cards[i]) \in Nat
    BY <1>0, <1>4, LenProperties
  <2>1. CASE e.kind = "incoming"
    <3>1. Card(e.of) \in CardOf(i)
      BY <1>3, <1>4 DEF CardOf, Card
    <3>2. PICK one : one = <<Card(e.of)>>
      OBVIOUS
    <3>3. one \in Seq(CardOf(i)) /\ Len(one) = 1 /\ one[1] = Card(e.of)
      BY <3>1, <3>2
    <3>4. /\ one \o cards[i] \in Seq(CardOf(i))
          /\ Len(one \o cards[i]) = Len(one) + Len(cards[i])
          /\ \A n \in 1..Len(one) + Len(cards[i]) :
                (one \o cards[i])[n] = IF n <= Len(one) THEN one[n] ELSE cards[i][n - Len(one)]
      BY <2>0, <3>3, ConcatProperties
    <3>5. all = one \o cards[i]
      BY <1>5, <2>1, <3>2
    <3>6. ASSUME NEW n \in 1..Len(all), n # 1
          PROVE  \E m \in 1..Len(cards[i]) : all[n] = cards[i][m]
      <4>1. n - 1 \in 1..Len(cards[i]) /\ ~(n <= 1)
        BY <2>0, <3>3, <3>4, <3>5, <3>6
      <4>. QED  BY <2>0, <3>3, <3>4, <3>5, <4>1
    <3>7. all[1] = Card(e.of)
      BY <2>0, <3>3, <3>4, <3>5
    <3>. QED  BY <2>0, <2>1, <3>3, <3>4, <3>5, <3>6, <3>7
  <2>2. CASE e.kind # "incoming"
    BY <1>5, <2>0, <2>2
  <2>. QED  BY <2>1, <2>2
<1>7. PICK new : new = [n \in 1..Len(all) |->
                           [all[n] EXCEPT !.state = Outcome(@, e.kind)]]
  OBVIOUS
<1>8. cards' = [cards EXCEPT ![i] = new]
  BY <1>1, <1>3, <1>5, <1>7 DEF Collect
<1>9. cards'[i] = new /\ \A j \in Ids \ {i} : cards'[j] = cards[j]
  BY <1>0, <1>4, <1>8
<1>10. \A n \in 1..Len(all) :
          /\ all[n] \in CardOf(i)
          /\ new[n] = [all[n] EXCEPT !.state = Outcome(@, e.kind)]
          /\ new[n].of = all[n].of /\ new[n].state = Outcome(all[n].state, e.kind)
          /\ new[n] \in CardOf(i)
  <2> SUFFICES ASSUME NEW n \in 1..Len(all)
               PROVE  /\ all[n] \in CardOf(i)
                      /\ new[n] = [all[n] EXCEPT !.state = Outcome(@, e.kind)]
                      /\ new[n].of = all[n].of
                      /\ new[n].state = Outcome(all[n].state, e.kind)
                      /\ new[n] \in CardOf(i)
    OBVIOUS
  <2>1. all[n] \in CardOf(i)
    BY <1>6, ElementOfSeq
  <2>2. new[n] = [all[n] EXCEPT !.state = Outcome(@, e.kind)]
    BY <1>7
  <2>3. Outcome(all[n].state, e.kind) \in {"sending", "complete", "failed"}
    BY <2>1 DEF Outcome, CardOf
  <2>. QED  BY <2>1, <2>2, <2>3 DEF CardOf
<1>11. new \in Seq(CardOf(i)) /\ Len(new) = Len(all)
  BY <1>6, <1>7, <1>10
<1>12. cards' = [j \in Ids |-> cards'[j]]
  BY <1>0, <1>8
<1>13. \A n \in 1..Len(new) :
          \/ \E m \in 1..Len(cards[i]) :
                /\ new[n].of = cards[i][m].of
                /\ new[n].state = Outcome(cards[i][m].state, e.kind)
          \/ e.kind = "incoming" /\ new[n].of = e.of
  <2> SUFFICES ASSUME NEW n \in 1..Len(all)
               PROVE  \/ \E m \in 1..Len(cards[i]) :
                            /\ new[n].of = cards[i][m].of
                            /\ new[n].state = Outcome(cards[i][m].state, e.kind)
                      \/ e.kind = "incoming" /\ new[n].of = e.of
    BY <1>11
  <2>1. new[n].of = all[n].of /\ new[n].state = Outcome(all[n].state, e.kind)
    BY <1>10
  <2>2. CASE \E m \in 1..Len(cards[i]) : all[n] = cards[i][m]
    BY <2>1, <2>2
  <2>3. CASE e.kind = "incoming" /\ all[n] = Card(e.of)
    BY <2>1, <2>3 DEF Card
  <2>. QED  BY <1>6, <2>2, <2>3
<1>14. e.kind \in {"complete", "failed"} => \A n \in 1..Len(new) : new[n].state # "sending"
  BY <1>10, <1>11 DEF Outcome
<1>15. /\ \A n \in 1..Len(cards'[i]) :
             \/ \E m \in 1..Len(cards[i]) :
                   /\ cards'[i][n].of = cards[i][m].of
                   /\ cards'[i][n].state = Outcome(cards[i][m].state, e.kind)
             \/ e.kind = "incoming" /\ cards'[i][n].of = e.of
       /\ e.kind \in {"complete", "failed"} =>
             \A n \in 1..Len(cards'[i]) : cards'[i][n].state # "sending"
       /\ cards'[i] \in Seq(CardOf(i))
  BY <1>9, <1>11, <1>13, <1>14
<1>. QED  BY <1>2, <1>3, <1>4, <1>9, <1>12, <1>15

\* fileEvents.collect.
LEMMA CollectCards ==
    ASSUME TransferAssumption, ReceiveInv, CardsInv, Collect
    PROVE  CardsInv'
<1>0. /\ CardTypes /\ (\A d \in D : DownCards(d)) /\ (\A u \in 1..MaxUp : UpCards(u))
      /\ events \in Seq(EventType) /\ Len(events) \in Nat /\ Len(events) <= EventCap
      /\ EventCap \in Nat
      /\ \A j \in Ids : cards[j] \in Seq(CardOf(j))
      /\ D \subseteq Ids /\ 1..MaxUp \subseteq Ids
  <2>1. CardTypes /\ (\A d \in D : DownCards(d)) /\ (\A u \in 1..MaxUp : UpCards(u))
    BY DEF CardsInv
  <2>. QED
    BY <2>1, LenProperties DEF CardTypes, TransferAssumption, D, Ids
<1>1. /\ UNCHANGED <<main, reader, next, incoming, closed, late, overtaken, upload, dropped>>
      /\ events # <<>> /\ events' = Tail(events)
  BY DEF Collect, incomingVars, mainUnchanged
<1>2. PICK e \in EventType, i \in Ids :
               /\ e = events[1] /\ i = Id(e.of) /\ 1 \in 1..Len(events)
               /\ \A j \in Ids \ {i} : cards'[j] = cards[j]
               /\ cards' = [j \in Ids |-> cards'[j]] /\ cards'[i] \in Seq(CardOf(i))
               /\ \A n \in 1..Len(cards'[i]) :
                     \/ \E m \in 1..Len(cards[i]) :
                           /\ cards'[i][n].of = cards[i][m].of
                           /\ cards'[i][n].state = Outcome(cards[i][m].state, e.kind)
                     \/ e.kind = "incoming" /\ cards'[i][n].of = e.of
               /\ e.kind \in {"complete", "failed"} =>
                     \A n \in 1..Len(cards'[i]) : cards'[i][n].state # "sending"
  BY <1>0, CollectedCards
<1>3. /\ events' \in Seq(EventType) /\ Len(events') = Len(events) - 1
      /\ \A k \in 1..Len(events') : events'[k] = events[k + 1]
  <2>1. /\ Tail(events) \in Seq(EventType) /\ Len(Tail(events)) = Len(events) - 1
        /\ \A k \in 1..Len(Tail(events)) : Tail(events)[k] = events[k + 1]
    BY <1>0, <1>1, HeadTailProperties
  <2>. QED  BY <1>1, <2>1
<1>4. CardTypes'
  <2>1. \A j \in Ids : cards'[j] \in Seq(CardOf(j))
    BY <1>0, <1>2
  <2>2. Len(events') <= EventCap
    BY <1>0, <1>3
  <2>3. dropped' \in BOOLEAN /\ upload' \in [1..MaxUp -> {"none", "runs", "flagged", "over"}]
    BY <1>0, <1>1 DEF CardTypes
  <2>. QED  BY <1>2, <1>3, <2>1, <2>2, <2>3 DEF CardTypes
\* What was behind the event is where it was, or nearer.
<1>5. ASSUME NEW t, NEW k \in 1..Len(events), EndsAfter(t, k)
      PROVE  EndsAfter(t, k - 1)'
  <2>1. PICK j \in 1..Len(events) : j > k /\ events[j] \in Ends(t)
    BY <1>5 DEF EndsAfter
  <2>2. j - 1 \in 1..Len(events') /\ j - 1 > k - 1 /\ events'[j - 1] = events[j]
    <3>1. j - 1 \in 1..Len(events') /\ j - 1 > k - 1
      BY <1>0, <1>3, <2>1
    <3>2. events'[j - 1] = events[(j - 1) + 1] /\ (j - 1) + 1 = j
      BY <1>3, <3>1
    <3>. QED  BY <3>1, <3>2
  <2>. QED  BY <2>1, <2>2 DEF EndsAfter, Ends
<1>6. ASSUME NEW t, EndsAfter(t, 0)
      PROVE  EndsAfter(t, 0)' \/ e \in Ends(t)
  <2>1. PICK j \in 1..Len(events) : events[j] \in Ends(t)
    BY <1>6 DEF EndsAfter
  <2>2. CASE j = 1
    BY <1>2, <2>1, <2>2
  <2>3. CASE j # 1
    <3>1. j > 1
      BY <1>0, <2>3
    <3>2. EndsAfter(t, 1)
      BY <2>1, <3>1 DEF EndsAfter
    <3>3. EndsAfter(t, 1 - 1)' /\ 1 - 1 = 0
      BY <1>2, <1>5, <3>2
    <3>. QED  BY <3>3
  <2>. QED  BY <2>2, <2>3
\* A card that says sending did so, or is new; and a last event leaves none.
<1>7. ASSUME NEW t, Id(t) \in Ids, Awaits(t)'
      PROVE  Awaits(t) \/ e = Event("incoming", t)
  <2>1. PICK n \in 1..Len(cards'[Id(t)]) : cards'[Id(t)][n] = Card(t)
    BY <1>7 DEF Awaits, Id, Card
  <2>2. CASE Id(t) # i
    <3>1. cards'[Id(t)] = cards[Id(t)]
      BY <1>2, <1>7, <2>2
    <3>. QED  BY <2>1, <3>1 DEF Awaits
  <2>3. CASE Id(t) = i
    <3>1. cards'[i][n].of = t /\ cards'[i][n].state = "sending" /\ n \in 1..Len(cards'[i])
      BY <2>1, <2>3 DEF Card
    <3>2. CASE e.kind = "incoming" /\ cards'[i][n].of = e.of
      <4>1. e = [kind |-> e.kind, of |-> e.of]
        BY DEF EventType
      <4>. QED  BY <3>1, <3>2, <4>1 DEF Event
    <3>3. ASSUME NEW m \in 1..Len(cards[i]), cards'[i][n].of = cards[i][m].of,
                 cards'[i][n].state = Outcome(cards[i][m].state, e.kind)
          PROVE  Awaits(t)
      <4>1. cards[i][m] \in CardOf(i)
        BY <1>0, ElementOfSeq
      <4>2. cards[i][m].state = "sending"
        BY <3>1, <3>3 DEF Outcome
      <4>3. cards[i][m] = Card(t)
        BY <3>1, <3>3, <4>1, <4>2 DEF CardOf, Card
      <4>. QED  BY <2>3, <4>3 DEF Awaits
    <3>. QED  BY <1>2, <3>1, <3>2, <3>3
  <2>. QED  BY <2>2, <2>3
<1>8. ASSUME NEW t, Id(t) \in Ids, Awaits(t)'
      PROVE  e \notin Ends(t)
  <2>1. PICK n \in 1..Len(cards'[Id(t)]) : cards'[Id(t)][n] = Card(t)
    BY <1>8 DEF Awaits, Id, Card
  <2>2. e \in Ends(t) => i = Id(t) /\ e.kind \in {"complete", "failed"}
    BY <1>2 DEF Ends, Event
  <2>3. cards'[Id(t)][n].state = "sending"
    BY <2>1 DEF Card
  <2>. QED  BY <1>2, <2>1, <2>2, <2>3
<1>9. ASSUME NEW d \in D
      PROVE  DownCards(d)'
  <2>0. Id(Down(d)) = d /\ d \in Ids
    BY <1>0 DEF Id, Down
  <2>1. Known(d)' <=> Known(d)
    BY <1>1 DEF Known, GoesOn
  <2>2. GoesOn(d)' <=> GoesOn(d)
    BY <1>1 DEF GoesOn
  <2>3. Quiet(d)'
    <3> SUFFICES ASSUME next'[d] = "begin" \/ reader' \in {<<"register", d>>, <<"announce", d>>}
                 PROVE  /\ \A n \in 1..Len(cards'[d]) : cards'[d][n].of # Down(d)
                        /\ \A k \in 1..Len(events') :
                              events'[k] # Event("incoming", Down(d))
                        /\ main' \notin {<<"fail", d>>, <<"failed", d>>}
      BY DEF Quiet
    <3>1. /\ \A n \in 1..Len(cards[d]) : cards[d][n].of # Down(d)
          /\ \A k \in 1..Len(events) : events[k] # Event("incoming", Down(d))
          /\ main \notin {<<"fail", d>>, <<"failed", d>>}
      BY <1>0, <1>1 DEF DownCards, Quiet
    <3>2. \A k \in 1..Len(events') : k + 1 \in 1..Len(events)
      BY <1>0, <1>3
    <3>3. \A k \in 1..Len(events') : events'[k] # Event("incoming", Down(d))
      BY <1>3, <3>1, <3>2
    <3>4. e.kind = "incoming" => e.of # Down(d)
      <4>1. e = [kind |-> e.kind, of |-> e.of]
        BY DEF EventType
      <4>. QED  BY <1>2, <3>1, <4>1 DEF Event
    <3>5. \A n \in 1..Len(cards'[d]) : cards'[d][n].of # Down(d)
      <4>1. CASE d # i
        BY <1>2, <2>0, <3>1, <4>1
      <4>2. CASE d = i
        BY <1>2, <3>1, <3>4, <4>2
      <4>. QED  BY <4>1, <4>2
    <3>. QED  BY <1>1, <3>1, <3>3, <3>5
  <2>4. ASSUME ~dropped', Awaits(Down(d))'
        PROVE  Known(d)' \/ EndsAfter(Down(d), 0)'
    <3>1. ~dropped /\ e \notin Ends(Down(d))
      BY <1>1, <1>8, <2>0, <2>4
    <3>2. CASE Awaits(Down(d))
      <4>1. Known(d) \/ EndsAfter(Down(d), 0)
        BY <1>0, <3>1, <3>2 DEF DownCards
      <4>. QED  BY <1>6, <2>1, <3>1, <4>1
    <3>3. CASE e = Event("incoming", Down(d))
      <4>1. Known(d) \/ EndsAfter(Down(d), 1)
        BY <1>0, <1>2, <3>1, <3>3 DEF DownCards
      <4>2. EndsAfter(Down(d), 1) => EndsAfter(Down(d), 1 - 1)'
        BY <1>2, <1>5
      <4>3. 1 - 1 = 0
        OBVIOUS
      <4>. QED  BY <2>1, <4>1, <4>2, <4>3
    <3>. QED  BY <1>7, <2>0, <2>4, <3>2, <3>3
  <2>5. ASSUME ~dropped', NEW k \in 1..Len(events'),
               events'[k] = Event("incoming", Down(d))
        PROVE  Known(d)' \/ EndsAfter(Down(d), k)'
    <3>1. k + 1 \in 1..Len(events) /\ (k + 1) - 1 = k /\ events'[k] = events[k + 1]
      BY <1>0, <1>3
    <3>2. Known(d) \/ EndsAfter(Down(d), k + 1)
      BY <1>0, <1>1, <2>5, <3>1 DEF DownCards
    <3>3. EndsAfter(Down(d), k + 1) => EndsAfter(Down(d), (k + 1) - 1)'
      BY <1>5, <3>1
    <3>. QED  BY <2>1, <3>1, <3>2, <3>3
  <2>6. reader' = <<"announce", d>> => GoesOn(d)'
    BY <1>0, <1>1, <2>2 DEF DownCards
  <2>. QED  BY <2>3, <2>4, <2>5, <2>6 DEF DownCards
<1>10. ASSUME NEW u \in 1..MaxUp
       PROVE  UpCards(u)'
  <2> SUFFICES ASSUME ~dropped', Awaits(Up(u))', upload'[u] = "over"
               PROVE  EndsAfter(Up(u), 0)'
    BY DEF UpCards
  <2>1. Id(Up(u)) = u /\ u \in Ids
    BY <1>0 DEF Id, Up
  <2>2. e \notin Ends(Up(u))
    BY <1>8, <2>1
  <2>3. e # Event("incoming", Up(u))
    <3>1. e.kind = "incoming" => e.of \in DownTransfer
      BY DEF EventType
    <3>2. Up(u) \notin DownTransfer
      BY DEF Up, DownTransfer
    <3>. QED  BY <3>1, <3>2 DEF Event
  <2>4. Awaits(Up(u))
    BY <1>7, <2>1, <2>3
  <2>5. EndsAfter(Up(u), 0)
    BY <1>0, <1>1, <2>4 DEF UpCards
  <2>. QED  BY <1>6, <2>2, <2>5
<1>. QED  BY <1>4, <1>9, <1>10 DEF CardsInv

LEMMA CardsStep ==
    TransferAssumption /\ ReceiveInv /\ CardsInv /\ [PhoneNext]_(receiveVars) => CardsInv'
<1> SUFFICES ASSUME TransferAssumption, ReceiveInv, CardsInv, [PhoneNext]_(receiveVars)
             PROVE  CardsInv'
  OBVIOUS
<1>1. CASE UNCHANGED receiveVars
  <2>0. CardTypes /\ (\A d \in D : DownCards(d)) /\ (\A u \in 1..MaxUp : UpCards(u))
    BY DEF CardsInv
  <2>1. UNCHANGED <<next, reader, main, incoming, closed, upload, events, dropped, cards,
                    overtaken, late>>
    BY <1>1 DEF receiveVars, incomingVars, flow
  <2>2. Grows({})
    BY <2>0, <2>1, FlowStays
  <2>3. ASSUME NEW d \in D
        PROVE  DownCards(d)'
    <3>1. (Known(d) => Known(d)') /\ (GoesOn(d) => GoesOn(d)')
      BY <2>1 DEF Known, GoesOn
    <3>2. /\ reader' = <<"announce", d>> => GoesOn(d)'
          /\ next'[d] = "begin" \/ reader' \in {<<"register", d>>, <<"announce", d>>} =>
                main' \notin {<<"fail", d>>, <<"failed", d>>}
      BY <2>0, <2>1, <3>1 DEF DownCards, Quiet
    <3>. QED  BY <2>0, <2>1, <2>2, <3>1, <3>2, DownFrame
  <2>. QED  BY <2>0, <2>1, <2>2, <2>3, CardsStay DEF CardsInv
<1>2. ASSUME NEW e \in D,
             BeginFile(e) \/ Register(e) \/ Announce(e) \/ ChunkComes(e)
      PROVE  CardsInv'
  BY <1>2, ReaderCards
<1>3. ASSUME NEW e \in D,
             Write(e) \/ Close(e) \/ Finish(e) \/ ReaderFails(e)
      PROVE  CardsInv'
  BY <1>3, WriterCards
<1>4. ASSUME NEW e \in D, MainFails(e)
      PROVE  CardsInv'
  BY <1>4, MainFailsCards
<1>5. CASE PhoneLinkDown \/ Disconnect \/ Clear
  BY <1>5, EndCards
<1>6. CASE \/ \E u \in 1..MaxUp : StartUpload(u) \/ UploadTells(u)
           \/ \E i \in Ids : Cancel(i) \/ Expire(i)
  BY <1>6, ViewCards
<1>7. CASE Collect
  BY <1>7, CollectCards
<1>. QED  BY <1>1, <1>2, <1>3, <1>4, <1>5, <1>6, <1>7 DEF PhoneNext

\* With both threads at rest and nothing in the flow, what a sending card is of
\* goes on.
LEMMA CardsHold == CardsInv => CardsSettle
<1> SUFFICES ASSUME CardsInv, AtRest, events = <<>>, ~dropped,
                    NEW i \in Ids, NEW n \in 1..Len(cards[i]),
                    cards[i][n].state = "sending"
             PROVE  IF cards[i][n].of \in UpTransfer THEN upload[i] # "over"
                    ELSE i \in incoming \union late \union overtaken
  BY DEF CardsSettle
<1>0. /\ cards[i] \in Seq(CardOf(i))
      /\ \A d \in D : DownCards(d)
      /\ \A u \in 1..MaxUp : UpCards(u)
      /\ reader = <<"idle", 0>> /\ main = <<"idle", 0>>
      /\ \A t, k : ~EndsAfter(t, k)
  <2>1. Len(events) = 0
    OBVIOUS
  <2>2. \A t, k : ~EndsAfter(t, k)
    BY <2>1 DEF EndsAfter
  <2>. QED  BY <2>2 DEF CardsInv, CardTypes, AtRest, Nothing
<1>1. PICK c : c = cards[i][n]
  OBVIOUS
<1>2. c \in CardOf(i) /\ c.state = "sending"
  BY <1>0, <1>1, ElementOfSeq
<1>3. CASE c.of \in UpTransfer
  <2>1. i \in 1..MaxUp /\ c.of = Up(i)
    BY <1>2, <1>3 DEF CardOf, UpTransfer, Id, Up
  <2>2. c = Card(Up(i))
    BY <1>2, <2>1 DEF CardOf, Card
  <2>3. Awaits(Up(i))
    BY <1>1, <2>2 DEF Awaits, Id, Up
  <2>. QED  BY <1>0, <1>1, <1>3, <2>1, <2>3 DEF UpCards
<1>4. CASE c.of \notin UpTransfer
  <2>1. i \in D /\ c.of = Down(i)
    BY <1>2, <1>4 DEF CardOf, Transfer, DownTransfer, D, Id, Down
  <2>2. c = Card(Down(i))
    BY <1>2, <2>1 DEF CardOf, Card
  <2>3. Awaits(Down(i))
    BY <1>1, <2>2 DEF Awaits, Id, Down
  <2>4. Known(i)
    BY <1>0, <2>1, <2>3 DEF DownCards
  <2>. QED  BY <1>0, <1>1, <1>4, <2>4 DEF Known, GoesOn
<1>. QED  BY <1>3, <1>4

\* However many transfers' events share the flow, no card is left saying that
\* its transfer goes on: once both threads rest and the flow is empty, a card
\* that says sending is of one that does, unless the flow dropped an event or a
\* disconnect overtook the reader's Incoming (abortAllIncomingFiles, tryEmit of
\* _fileEvents, applyEvent).
THEOREM CardsComeToRest == PhoneSpec => []CardsSettle
<1>1. PhoneInit => ReceiveInv /\ CardsInv
  BY TransferAssumption, ReceiveInit, CardsInit
<1>2. ReceiveInv /\ CardsInv /\ [PhoneNext]_(receiveVars) => ReceiveInv' /\ CardsInv'
  BY TransferAssumption, ReceiveStep, CardsStep
<1>3. ReceiveInv /\ CardsInv => CardsSettle
  BY CardsHold
<1>. QED  BY <1>1, <1>2, <1>3, PTL DEF PhoneSpec
=============================================================================
