------------------------------ MODULE RelayHub ------------------------------
(***************************************************************************)
(* The relay's live half (relay/src/main.rs): one host_loop per PC         *)
(* WebSocket, one client_loop per phone WebSocket, and the `online` table  *)
(* through which they meet.                                                *)
(*                                                                         *)
(* A host_loop is identified by its instance number, a client_loop by the  *)
(* uuid it draws.  Each loop has a reader (its pc is hpc / cpc) and a      *)
(* spawned writer task (hwriter / cwriter) that owns the WebSocket sink.   *)
(* An action runs from one await to the next: everything the code does     *)
(* under one lock, or between two awaits on its own locals, is one step,   *)
(* and all loops interleave.                                               *)
(*                                                                         *)
(* Data is abstracted to what the properties tell apart.  A PC -> phone    *)
(* frame is 0 when it is droppable (VIDEO, AUDIO) and n > 0 when it is the *)
(* n-th must-deliver frame (text, FILE) routed to that phone.  A phone ->  *)
(* PC frame is its tunnel kind and the phone.  A link is up, wedged (the   *)
(* peer's TCP window stays closed: writes neither finish nor fail) or dead *)
(* (reads and writes fail).  A 15 s send timeout fires only while the link *)
(* is wedged.                                                              *)
(***************************************************************************)
EXTENDS Naturals, Sequences, FiniteSets

CONSTANTS
    Hosts,        \* registered host ids
    Clients,      \* uuids that client_loops draw
    MaxInstance,  \* bound: host_loops started
    FastCap,      \* PER_CLIENT_FAST_CAP (0 leaves the droppable frames out)
    BulkCap,      \* PER_CLIENT_BULK_CAP
    ToHostCap,    \* TO_HOST_QUEUE_CAP
    MaxBulk,      \* bound: must-deliver frames routed to one phone
    MaxPong,      \* bound: pongs queued for one phone
    HostLinks,    \* bound: what can become of a PC's link
    PhoneLinks,   \* bound: what can become of a phone's link
    Busy,         \* bound: the phones that are sent frames, send, ping, and whose
                  \* link may fail; the others come and go
    Together,     \* bound: client_loops that run at once
    NoHost        \* "no host id yet"

ASSUME ConstantsAssumption ==
    /\ MaxInstance \in Nat \ {0}
    /\ FastCap \in Nat
    /\ BulkCap \in Nat \ {0}
    /\ ToHostCap \in Nat \ {0}
    /\ MaxBulk \in Nat
    /\ MaxPong \in Nat
    /\ HostLinks \subseteq {"up", "wedged", "dead"}
    /\ PhoneLinks \subseteq {"up", "wedged", "dead"}
    /\ Together \in Nat
    /\ Busy \subseteq Clients
    /\ NoHost \notin Hosts \cup Clients

Instance == 1..MaxInstance
None == 0                       \* no instance

VARIABLES
    nextInstance, \* RelayState.next_instance (the code's begins at 0)
    online,       \* RelayState.online: host id -> instance of its entry
    hostId,       \* the host id a host_loop serves
    hpc,          \* where the host_loop is
    displaced,    \* host_loop's local `displaced`
    cancel,       \* the permit in OnlineHost.cancel
    clients,      \* the keys of OnlineHost.clients
    routing,      \* the frame and phone the host reader is blocked on
    toHost,       \* the to_host queue
    hwriter,      \* the host writer task
    hlink,        \* the PC's link
    cpc,          \* where the client_loop is
    session,      \* the instance whose to_host and clients it cloned
    dialled,      \* the host id it was asked for
    pong,         \* pongs queued on pong_tx
    fast,         \* the fast queue
    bulk,         \* the bulk queue
    cwriter,      \* the client writer task
    inHand,       \* the frame the client writer is sending
    clink,        \* the phone's link
    routed,       \* how many must-deliver frames were routed to the phone
    got,          \* the last must-deliver frame the phone received
    pcView        \* what the PC was told about the phone

registryVars == <<nextInstance, online, hostId, hpc, displaced, cancel>>
tunnelVars   == <<toHost, hwriter, hlink, pcView>>
attachVars   == <<session, dialled>>
deliveryVars == <<pong, fast, bulk, cwriter, inHand, routed, got>>
phoneVars    == <<attachVars, deliveryVars, clink>>
hostVars     == <<registryVars, clients, routing, tunnelVars>>
clientVars   == <<cpc, phoneVars>>
vars == <<hostVars, clientVars>>

Frame == [kind : {"open", "data", "close"}, client : Clients]
NoFrame == [client |-> NoHost, n |-> 0]
Link == {"up", "wedged", "dead"}

\* The pcs of a host_loop between its swap-in and its cleanup, and of a
\* client_loop while it is alive and holds a clone of its session's to_host.
Running  == {"notify", "drain", "serve", "bulk", "remove"}
Attached == {"insert", "open", "serve", "send", "close", "remove", "join",
             "abort", "hangup"}

-----------------------------------------------------------------------------
(* Helper state formulae *)

\* A receiver lives until the task that owns it ends.
HostRxAlive(i) == hwriter[i] # "done"
PhoneRxAlive(c) == cpc[c] \notin {"gone", "refused"} /\ cwriter[c] # "done"

\* Somebody still owns a Sender of i's to_host: the entry in `online`, the
\* entry a successor took out and has not dropped yet, the loop itself, or a
\* client_loop that cloned it.
ToHostOpen(i) ==
    \/ hpc[i] \in Running
    \/ \E h \in Hosts : online[h] = i
    \/ \E j \in Instance : displaced[j] = i
    \/ \E c \in Clients : session[c] = i /\ cpc[c] \in Attached

\* Somebody still owns a Sender of c's fast and bulk queues: the client_loop
\* (until it drops fast_tx and bulk_tx), the clients map, or a host reader
\* that cloned the channels for the frame it is blocked on.
ClientQueuesOpen(c) ==
    \/ cpc[c] \in Attached \ {"join"}
    \/ \E i \in Instance : c \in clients[i]
    \/ \E i \in Instance : hpc[i] = "bulk" /\ routing[i].client = c

\* pong_tx is dropped as soon as the client reader's loop ends.
PongTxDropped(c) == cpc[c] \in {"close", "remove", "join"}

-----------------------------------------------------------------------------
Init ==
    /\ nextInstance = 1
    /\ online = [h \in Hosts |-> None]
    /\ hostId = [i \in Instance |-> NoHost]
    /\ hpc = [i \in Instance |-> "unborn"]
    /\ displaced = [i \in Instance |-> None]
    /\ cancel = [i \in Instance |-> FALSE]
    /\ clients = [i \in Instance |-> {}]
    /\ routing = [i \in Instance |-> NoFrame]
    /\ toHost = [i \in Instance |-> <<>>]
    /\ hwriter = [i \in Instance |-> "unborn"]
    /\ hlink = [i \in Instance |-> "up"]
    /\ cpc = [c \in Clients |-> "unborn"]
    /\ session = [c \in Clients |-> None]
    /\ dialled = [c \in Clients |-> NoHost]
    /\ pong = [c \in Clients |-> 0]
    /\ fast = [c \in Clients |-> <<>>]
    /\ bulk = [c \in Clients |-> <<>>]
    /\ cwriter = [c \in Clients |-> "unborn"]
    /\ inHand = [c \in Clients |-> 0]
    /\ clink = [c \in Clients |-> "up"]
    /\ routed = [c \in Clients |-> 0]
    /\ got = [c \in Clients |-> 0]
    /\ pcView = [c \in Clients |-> "unseen"]

-----------------------------------------------------------------------------
(* host_loop: setup, reader, cleanup *)

HostGoto(i, from, to) ==
    /\ hpc[i] = from
    /\ hpc' = [hpc EXCEPT ![i] = to]

\* The upgraded socket enters host_loop and draws its instance number.
HostStart(h) ==
    /\ nextInstance \in Instance
    /\ nextInstance' = nextInstance + 1
    /\ hostId' = [hostId EXCEPT ![nextInstance] = h]
    /\ hpc' = [hpc EXCEPT ![nextInstance] = "swap"]
    /\ UNCHANGED <<online, displaced, cancel, clients, routing, tunnelVars,
                   clientVars>>

\* online.insert replaces whoever was there.  Mutated: or_insert keeps it.
InsertIfVacant(i) == [online EXCEPT ![hostId[i]] = IF @ = None THEN i ELSE @]
SwapIn(i) == [online EXCEPT ![hostId[i]] = i]

\* Under the `online` lock.  With nobody to displace, the writer is spawned
\* and the reader starts at once.
HostSwapIn(i) ==
    /\ HostGoto(i, "swap", IF online[hostId[i]] = None THEN "serve" ELSE "notify")
    /\ online' = SwapIn(i)
    /\ displaced' = [displaced EXCEPT ![i] = online[hostId[i]]]
    /\ hwriter' = IF online[hostId[i]] = None
                  THEN [hwriter EXCEPT ![i] = "idle"] ELSE hwriter
    /\ UNCHANGED <<nextInstance, hostId, cancel, clients, routing, toHost,
                   hlink, pcView, clientVars>>

\* notify_one() leaves a permit for a loop that is not waiting right now.
\* Mutated: notify_waiters() does not.
NotifyWaiters(j) == cancel[j] \/ hpc[j] = "serve"
NotifyOne(j) == TRUE

\* old.cancel.notify_one()
HostNotifyOld(i) ==
    /\ HostGoto(i, "notify", "drain")
    /\ cancel' = [cancel EXCEPT ![displaced[i]] = NotifyOne(displaced[i])]
    /\ UNCHANGED <<nextInstance, online, hostId, displaced, clients, routing,
                   tunnelVars, clientVars>>

\* old.clients.lock().await.clear(), then `old` is dropped and the writer is
\* spawned.
HostDrainOld(i) ==
    /\ HostGoto(i, "drain", "serve")
    /\ clients' = [clients EXCEPT ![displaced[i]] = {}]
    /\ displaced' = [displaced EXCEPT ![i] = None]
    /\ hwriter' = [hwriter EXCEPT ![i] = "idle"]
    /\ UNCHANGED <<nextInstance, online, hostId, cancel, routing, toHost,
                   hlink, pcView, clientVars>>

\* The reader's select takes the cancel arm, or the stream ends: the PC
\* closed, or its link died; either way later sends on it fail.
HostCancelled(i) ==
    /\ HostGoto(i, "serve", "remove")
    /\ cancel[i]
    /\ UNCHANGED <<nextInstance, online, hostId, displaced, cancel, clients,
                   routing, tunnelVars, clientVars>>

HostEof(i) ==
    /\ HostGoto(i, "serve", "remove")
    /\ hlink' = [hlink EXCEPT ![i] = "dead"]
    /\ UNCHANGED <<nextInstance, online, hostId, displaced, cancel, clients,
                   routing, toHost, hwriter, pcView, clientVars>>

\* A Data frame for c arrives and c is in the map (otherwise it is dropped,
\* no step).  The PC knows c's uuid from its ClientOpen.
HostGetsFrameFor(i, c) ==
    /\ c \in Busy
    /\ hpc[i] = "serve"
    /\ hlink[i] # "dead"
    /\ pcView[c] # "unseen"
    /\ c \in clients[i]

\* VIDEO or AUDIO: try_send on the fast queue, dropped when the queue is full
\* or its receiver is gone (no step).
HostRouteFast(i, c) ==
    /\ HostGetsFrameFor(i, c)
    /\ PhoneRxAlive(c) /\ Len(fast[c]) < FastCap
    /\ fast' = [fast EXCEPT ![c] = Append(@, 0)]
    /\ UNCHANGED <<hostVars, cpc, attachVars, clink, pong, bulk, cwriter,
                   inHand, routed, got>>

\* text or FILE: the channels are cloned out of the map, then the reader
\* awaits bulk.send.
HostRouteBulk(i, c) ==
    /\ HostGetsFrameFor(i, c)
    /\ HostGoto(i, "serve", "bulk")
    /\ routed[c] < MaxBulk
    /\ routed' = [routed EXCEPT ![c] = @ + 1]
    /\ routing' = [routing EXCEPT ![i] = [client |-> c, n |-> routed[c] + 1]]
    /\ UNCHANGED <<nextInstance, online, hostId, displaced, cancel, clients,
                   tunnelVars, cpc, attachVars, clink, pong, fast, bulk,
                   cwriter, inHand, got>>

\* Room in the bulk queue.  Mutated: an unbounded channel.
BulkUnbounded(c) == TRUE
BulkHasRoom(c) == Len(bulk[c]) < BulkCap

\* bulk.send completes once there is room or the receiver is gone.  Mutated:
\* try_send, as on the fast queue; or a retry that overlooks a phone that went
\* away.
BulkTrySend(c) == TRUE
BulkRetry(c) == PhoneRxAlive(c) /\ BulkHasRoom(c)
BulkSendReady(c) == PhoneRxAlive(c) => BulkHasRoom(c)

\* The blocked send returns (an error is ignored) and the reader goes on.
HostBulkSent(i) ==
    LET c == routing[i].client IN
    /\ HostGoto(i, "bulk", "serve")
    /\ BulkSendReady(c)
    /\ bulk' = IF PhoneRxAlive(c) /\ BulkHasRoom(c)
               THEN [bulk EXCEPT ![c] = Append(@, routing[i].n)] ELSE bulk
    /\ routing' = [routing EXCEPT ![i] = NoFrame]
    /\ UNCHANGED <<nextInstance, online, hostId, displaced, cancel, clients,
                   tunnelVars, cpc, attachVars, clink, pong, fast, cwriter,
                   inHand, routed, got>>

\* Is the entry in `online` still this loop's?  Mutated: the check is missing;
\* or only a loop that was cancelled removes its entry.
OursUnchecked(i) == TRUE
OursIfCancelled(i) == online[hostId[i]] = i /\ cancel[i]
StillOurs(i) == online[hostId[i]] = i

\* Cleanup: under the `online` lock, remove the entry only when it is still
\* ours; then drop(to_host_tx).
HostRemove(i) ==
    /\ HostGoto(i, "remove", "join")
    /\ online' = IF StillOurs(i) THEN [online EXCEPT ![hostId[i]] = None]
                 ELSE online
    /\ UNCHANGED <<nextInstance, hostId, displaced, cancel, clients, routing,
                   tunnelVars, clientVars>>

\* writer.await, then clients.clear().
HostJoin(i) ==
    /\ HostGoto(i, "join", "done")
    /\ hwriter[i] = "done"
    /\ clients' = [clients EXCEPT ![i] = {}]
    /\ UNCHANGED <<nextInstance, online, hostId, displaced, cancel, routing,
                   tunnelVars, clientVars>>

(* host_loop: the writer task *)

\* What the PC learns from a tunnel frame.
PcHears(f) ==
    CASE f.kind = "open"  -> [pcView EXCEPT ![f.client] = "open"]
      [] f.kind = "close" -> [pcView EXCEPT ![f.client] = "closed"]
      [] f.kind = "data"  -> pcView

\* recv, then a send: it succeeds, or it fails or times out after 15 s, and
\* then the frame is lost and the loop breaks.
HostWriterSend(i) ==
    /\ hwriter[i] = "idle"
    /\ toHost[i] # <<>>
    /\ toHost' = [toHost EXCEPT ![i] = Tail(@)]
    /\ \/ /\ hlink[i] = "up"
          /\ pcView' = PcHears(Head(toHost[i]))
          /\ UNCHANGED hwriter
       \/ /\ hlink[i] # "up"
          /\ hwriter' = [hwriter EXCEPT ![i] = "close"]
          /\ UNCHANGED pcView
    /\ UNCHANGED <<registryVars, clients, routing, hlink, clientVars>>

\* recv returns None: the queue is empty and the last Sender is gone.
HostWriterDrained(i) ==
    /\ hwriter[i] = "idle"
    /\ toHost[i] = <<>>
    /\ ~ToHostOpen(i)
    /\ hwriter' = [hwriter EXCEPT ![i] = "close"]
    /\ UNCHANGED <<registryVars, clients, routing, toHost, hlink, pcView,
                   clientVars>>

\* sink.close().await has no timeout: it waits out a wedged link.  The task
\* ends and drops to_host_rx with what is still queued.
HostWriterClose(i) ==
    /\ hwriter[i] = "close"
    /\ hlink[i] # "wedged"
    /\ hwriter' = [hwriter EXCEPT ![i] = "done"]
    /\ toHost' = [toHost EXCEPT ![i] = <<>>]
    /\ UNCHANGED <<registryVars, clients, routing, hlink, pcView, clientVars>>

-----------------------------------------------------------------------------
(* client_ws and client_loop *)

ClientGoto(c, from, to) ==
    /\ cpc[c] = from
    /\ cpc' = [cpc EXCEPT ![c] = to]

\* client_ws: 503 unless the host is online (no step); otherwise upgrade.
ClientAccept(c, h) ==
    /\ Cardinality({d \in Clients : cpc[d] \notin {"unborn", "gone", "refused"}})
         < Together
    /\ ClientGoto(c, "unborn", "lookup")
    /\ online[h] # None
    /\ dialled' = [dialled EXCEPT ![c] = h]
    /\ UNCHANGED <<hostVars, session, deliveryVars, clink>>

\* Clone to_host and clients out of the `online` entry, or hang up when the
\* host went away since the upgrade.
ClientLookup(c) ==
    LET i == online[dialled[c]] IN
    /\ ClientGoto(c, "lookup", IF i = None THEN "hangup" ELSE "insert")
    /\ session' = [session EXCEPT ![c] = i]
    /\ UNCHANGED <<hostVars, dialled, deliveryVars, clink>>

\* clients.lock().await.insert
ClientInsert(c) ==
    /\ ClientGoto(c, "insert", "open")
    /\ clients' = [clients EXCEPT ![session[c]] = @ \cup {c}]
    /\ UNCHANGED <<registryVars, routing, tunnelVars, phoneVars>>

\* to_host.send: completes once there is room or the receiver is gone, in
\* which case the frame is nowhere.
ToHostReady(c) ==
    HostRxAlive(session[c]) => Len(toHost[session[c]]) < ToHostCap
PushToHost(c, kind) ==
    IF HostRxAlive(session[c]) /\ Len(toHost[session[c]]) < ToHostCap
    THEN [toHost EXCEPT ![session[c]] = Append(@, [kind |-> kind, client |-> c])]
    ELSE toHost

\* ClientOpen is sent and the writer task spawned, or the host's writer has
\* exited: the tunnel is dead.
ClientOpen(c) ==
    /\ ClientGoto(c, "open", IF HostRxAlive(session[c]) THEN "serve" ELSE "abort")
    /\ ToHostReady(c)
    /\ toHost' = PushToHost(c, "open")
    /\ cwriter' = IF HostRxAlive(session[c])
                  THEN [cwriter EXCEPT ![c] = "idle"] ELSE cwriter
    /\ UNCHANGED <<registryVars, clients, routing, hwriter, hlink, pcView,
                   attachVars, clink, pong, fast, bulk, inHand, routed, got>>

\* clients.lock().await.remove(&client_id).  Mutated: forgotten.
KeepMapped(c) == clients
Unmap(c) == [clients EXCEPT ![session[c]] = @ \ {c}]

ClientAbort(c) ==
    /\ ClientGoto(c, "abort", "hangup")
    /\ clients' = Unmap(c)
    /\ UNCHANGED <<registryVars, routing, tunnelVars, phoneVars>>

\* sink.close().await and return: the queues' receivers are dropped.
ClientHangup(c) ==
    /\ ClientGoto(c, "hangup", "refused")
    /\ clink[c] # "wedged"
    /\ fast' = [fast EXCEPT ![c] = <<>>]
    /\ bulk' = [bulk EXCEPT ![c] = <<>>]
    /\ UNCHANGED <<hostVars, attachVars, clink, pong, cwriter, inHand, routed,
                   got>>

\* The reader gets a Text or Binary message and awaits to_host.send.
ClientRecv(c) ==
    /\ c \in Busy
    /\ ClientGoto(c, "serve", "send")
    /\ clink[c] # "dead"
    /\ UNCHANGED <<hostVars, phoneVars>>

\* Where the reader goes after its send.  Mutated: the error is ignored.
GoesOn(c) == "serve"
AfterSend(c) == IF HostRxAlive(session[c]) THEN "serve" ELSE "close"

ClientSent(c) ==
    /\ ClientGoto(c, "send", AfterSend(c))
    /\ ToHostReady(c)
    /\ toHost' = PushToHost(c, "data")
    /\ UNCHANGED <<registryVars, clients, routing, hwriter, hlink, pcView,
                   phoneVars>>

\* A protocol Ping: the payload is queued for the writer to reflect.
ClientPing(c) ==
    /\ c \in Busy
    /\ cpc[c] = "serve"
    /\ clink[c] # "dead"
    /\ cwriter[c] \notin {"close", "done"}
    /\ pong[c] < MaxPong
    /\ pong' = [pong EXCEPT ![c] = @ + 1]
    /\ UNCHANGED <<hostVars, cpc, attachVars, clink, fast, bulk, cwriter,
                   inHand, routed, got>>

\* The stream ends: Close, an error or a dead link.  pong_tx is dropped.
ClientEof(c) ==
    /\ ClientGoto(c, "serve", "close")
    /\ clink' = [clink EXCEPT ![c] = "dead"]
    /\ UNCHANGED <<hostVars, attachVars, deliveryVars>>

\* Mutated: try_send of the ClientClose, lost when the queue is full.
ClientTryClose(c) ==
    /\ ClientGoto(c, "close", "remove")
    /\ toHost' = PushToHost(c, "close")
    /\ UNCHANGED <<registryVars, clients, routing, hwriter, hlink, pcView,
                   phoneVars>>

\* to_host.send(ClientClose).await, whatever it returns.
ClientClose(c) ==
    /\ ClientGoto(c, "close", "remove")
    /\ ToHostReady(c)
    /\ toHost' = PushToHost(c, "close")
    /\ UNCHANGED <<registryVars, clients, routing, hwriter, hlink, pcView,
                   phoneVars>>

\* clients.lock().await.remove, then drop(fast_tx), drop(bulk_tx).
ClientRemove(c) ==
    /\ ClientGoto(c, "remove", "join")
    /\ clients' = Unmap(c)
    /\ UNCHANGED <<registryVars, routing, tunnelVars, phoneVars>>

\* writer.await
ClientJoin(c) ==
    /\ ClientGoto(c, "join", "gone")
    /\ cwriter[c] = "done"
    /\ UNCHANGED <<hostVars, phoneVars>>

(* client_loop: the writer task *)

WriterGoto(c, from, to) ==
    /\ cwriter[c] = from
    /\ cwriter' = [cwriter EXCEPT ![c] = to]

\* The biased select: a pong first, then the fast queue, then the bulk one.
\* A closed pong_rx is seen before the queues.
ClientWriterTake(c) ==
    LET data == pong[c] = 0 /\ ~PongTxDropped(c) IN
    /\ \/ /\ pong[c] > 0
          /\ pong' = [pong EXCEPT ![c] = @ - 1]
          /\ WriterGoto(c, "idle", "pong")
          /\ UNCHANGED <<fast, bulk, inHand>>
       \/ /\ data /\ fast[c] # <<>>
          /\ fast' = [fast EXCEPT ![c] = Tail(@)]
          /\ inHand' = [inHand EXCEPT ![c] = Head(fast[c])]
          /\ WriterGoto(c, "idle", "data")
          /\ UNCHANGED <<pong, bulk>>
       \/ /\ data /\ fast[c] = <<>> /\ bulk[c] # <<>>
          /\ bulk' = [bulk EXCEPT ![c] = Tail(@)]
          /\ inHand' = [inHand EXCEPT ![c] = Head(bulk[c])]
          /\ WriterGoto(c, "idle", "data")
          /\ UNCHANGED <<pong, fast>>
    /\ UNCHANGED <<hostVars, cpc, attachVars, clink, routed, got>>

\* pong_rx returns None: break.  Mutated: `continue`.
ContinueOnNone(c) == "idle"
BreakOnNone(c) == "close"

ClientWriterStop(c) ==
    /\ WriterGoto(c, "idle", BreakOnNone(c))
    /\ pong[c] = 0
    /\ PongTxDropped(c)
    /\ UNCHANGED <<hostVars, cpc, attachVars, clink, pong, fast, bulk, inHand,
                   routed, got>>

ClientWriterSent(c) ==
    /\ WriterGoto(c, cwriter[c], "idle")
    /\ cwriter[c] \in {"pong", "data"}
    /\ clink[c] = "up"
    /\ got' = [got EXCEPT ![c] = IF inHand[c] = 0 THEN @ ELSE inHand[c]]
    /\ inHand' = [inHand EXCEPT ![c] = 0]
    /\ UNCHANGED <<hostVars, cpc, attachVars, clink, pong, fast, bulk, routed>>

\* The send fails, or send_to_phone's 15 s run out on a wedged link.  A pong
\* is sent without a timeout.
ClientWriterFail(c) ==
    /\ WriterGoto(c, cwriter[c], "close")
    /\ \/ cwriter[c] \in {"pong", "data"} /\ clink[c] = "dead"
       \/ cwriter[c] = "data" /\ clink[c] = "wedged"
    /\ inHand' = [inHand EXCEPT ![c] = 0]
    /\ UNCHANGED <<hostVars, cpc, attachVars, clink, pong, fast, bulk, routed,
                   got>>

\* sink.close().await, again without a timeout; the task drops its receivers.
ClientWriterClose(c) ==
    /\ WriterGoto(c, "close", "done")
    /\ clink[c] # "wedged"
    /\ fast' = [fast EXCEPT ![c] = <<>>]
    /\ bulk' = [bulk EXCEPT ![c] = <<>>]
    /\ UNCHANGED <<hostVars, cpc, attachVars, clink, pong, inHand, routed, got>>

-----------------------------------------------------------------------------
(* The network *)

HostLinkChange(i, l) ==
    /\ hpc[i] \notin {"unborn", "done"}
    /\ hlink[i] # "dead" /\ hlink[i] # l
    /\ hlink' = [hlink EXCEPT ![i] = l]
    /\ UNCHANGED <<registryVars, clients, routing, toHost, hwriter, pcView,
                   clientVars>>

ClientLinkChange(c, l) ==
    /\ c \in Busy
    /\ cpc[c] \notin {"unborn", "gone", "refused"}
    /\ clink[c] # "dead" /\ clink[c] # l
    /\ clink' = [clink EXCEPT ![c] = l]
    /\ UNCHANGED <<hostVars, cpc, attachVars, deliveryVars>>

-----------------------------------------------------------------------------
\* What a loop does outside its select or stream.next(): one thing at a time.
HostTask(i) ==
    \/ HostSwapIn(i) \/ HostNotifyOld(i) \/ HostDrainOld(i)
    \/ HostBulkSent(i) \/ HostRemove(i) \/ HostJoin(i)

ClientTask(c) ==
    \/ ClientLookup(c) \/ ClientInsert(c) \/ ClientOpen(c)
    \/ ClientAbort(c) \/ ClientHangup(c) \/ ClientSent(c)
    \/ ClientClose(c) \/ ClientRemove(c) \/ ClientJoin(c)

HostReader(i) ==
    \/ HostTask(i) \/ HostCancelled(i) \/ HostEof(i)
    \/ \E c \in Clients : HostRouteFast(i, c) \/ HostRouteBulk(i, c)

ClientReader(c) ==
    \/ ClientTask(c) \/ ClientRecv(c) \/ ClientPing(c) \/ ClientEof(c)
    \/ \E h \in Hosts : ClientAccept(c, h)

HostWriter(i) ==
    HostWriterSend(i) \/ HostWriterDrained(i) \/ HostWriterClose(i)

ClientWriter(c) ==
    \/ ClientWriterTake(c) \/ ClientWriterStop(c) \/ ClientWriterSent(c)
    \/ ClientWriterFail(c) \/ ClientWriterClose(c)

Next ==
    \/ \E h \in Hosts : HostStart(h)
    \/ \E i \in Instance :
         \/ HostReader(i)
         \/ HostWriter(i)
         \/ \E l \in HostLinks : HostLinkChange(i, l)
    \/ \E c \in Clients :
         \/ ClientReader(c)
         \/ ClientWriter(c)
         \/ \E l \in PhoneLinks : ClientLinkChange(c, l)

Spec == Init /\ [][Next]_vars

\* The runtime keeps polling every task that can go on.  A queue's permits are
\* handed out first come first served and a select picks its branch at random,
\* hence strong fairness of a blocked send and of a noticed cancel.  A reader
\* sees a dead link, and the close handshake its own writer started.
TasksRun ==
    /\ \A i \in Instance :
         /\ SF_vars(HostTask(i))
         /\ WF_vars(HostWriter(i))
         /\ SF_vars(HostCancelled(i))
         /\ WF_vars(hlink[i] = "dead" /\ HostEof(i))
    /\ \A c \in Clients :
         /\ SF_vars(ClientTask(c))
         /\ WF_vars(ClientWriter(c))
         /\ SF_vars((clink[c] = "dead" \/ cwriter[c] = "done") /\ ClientEof(c))

\* TCP does not keep a wedged link for ever: it recovers or it dies.
LinksSettle ==
    /\ \A i \in Instance :
         WF_vars(hlink[i] = "wedged" /\ HostLinkChange(i, "dead"))
    /\ \A c \in Clients :
         WF_vars(clink[c] = "wedged" /\ ClientLinkChange(c, "dead"))

\* A connected phone sends an application ping every 2 s
\* (AppViewModel.kt:97-104), and the link of a loop that stopped reading is
\* eventually found dead.
PhonesPing == \A c \in Clients : SF_vars(ClientRecv(c))
StaleLinksDie ==
    \A i \in Instance :
        WF_vars(hpc[i] = "join" /\ HostLinkChange(i, "dead"))

FairSpec     == Spec /\ TasksRun
SettlingSpec == FairSpec /\ LinksSettle
PingingSpec  == SettlingSpec /\ PhonesPing /\ StaleLinksDie

-----------------------------------------------------------------------------
(* Properties *)

\* Every variable stays in its domain and the three queues within their caps.
TypeOK ==
    /\ nextInstance \in 1..(MaxInstance + 1)
    /\ online \in [Hosts -> Instance \cup {None}]
    /\ hostId \in [Instance -> Hosts \cup {NoHost}]
    /\ hpc \in [Instance -> Running \cup {"unborn", "swap", "join", "done"}]
    /\ displaced \in [Instance -> Instance \cup {None}]
    /\ cancel \in [Instance -> BOOLEAN]
    /\ clients \in [Instance -> SUBSET Clients]
    /\ routing \in [Instance ->
                      {NoFrame} \cup [client : Clients, n : 1..MaxBulk]]
    /\ toHost \in [Instance -> Seq(Frame)]
    /\ \A i \in Instance : Len(toHost[i]) <= ToHostCap
    /\ hwriter \in [Instance -> {"unborn", "idle", "close", "done"}]
    /\ hlink \in [Instance -> Link]
    /\ cpc \in [Clients -> Attached \cup {"unborn", "lookup", "gone", "refused"}]
    /\ session \in [Clients -> Instance \cup {None}]
    /\ dialled \in [Clients -> Hosts \cup {NoHost}]
    /\ pong \in [Clients -> 0..MaxPong]
    /\ fast \in [Clients -> Seq({0})]
    /\ bulk \in [Clients -> Seq(1..MaxBulk)]
    /\ \A c \in Clients : Len(fast[c]) <= FastCap /\ Len(bulk[c]) <= BulkCap
    /\ cwriter \in [Clients -> {"unborn", "idle", "pong", "data", "close", "done"}]
    /\ inHand \in [Clients -> 0..MaxBulk]
    /\ clink \in [Clients -> Link]
    /\ routed \in [Clients -> 0..MaxBulk]
    /\ got \in [Clients -> 0..MaxBulk]
    /\ pcView \in [Clients -> {"unseen", "open", "closed"}]

\* A host_loop that took its place in `online` and has not cleaned up yet is
\* the one phones are sent to, or it has been told to stop, or its successor
\* is about to tell it: a stale loop's cleanup never takes the live session
\* offline, and no second loop serves a host unnoticed (main.rs:710-722).
LiveSessionPublished ==
    \A i \in Instance : hpc[i] \in Running =>
        \/ online[hostId[i]] = i
        \/ cancel[i]
        \/ \E j \in Instance : hpc[j] = "notify" /\ displaced[j] = i

\* `online` never names a loop that already cleaned up, nor one of another
\* host: a phone that finds an entry finds a session somebody still serves.
PublishedSessionRuns ==
    \A h \in Hosts : online[h] # None =>
        hpc[online[h]] \in Running /\ hostId[online[h]] = h

\* The must-deliver frames between the host reader and the phone: the one
\* the writer sends, the queued ones, the one the reader is blocked on.
Pending(c) ==
    (IF inHand[c] = 0 THEN <<>> ELSE <<inHand[c]>>)
    \o bulk[c]
    \o (IF session[c] # None /\ routing[session[c]].client = c
        THEN <<routing[session[c]].n>> ELSE <<>>)

\* As long as a phone's writer runs, no must-deliver frame routed to it is
\* lost, repeated or overtaken, whatever is dropped from the fast queue and
\* whoever displaces the session meanwhile ("MUST NOT drop; loss corrupts the
\* receiver's reassembled output", main.rs:662-664).
BulkInOrder ==
    \A c \in Clients : cwriter[c] \notin {"close", "done"} /\ cpc[c] # "refused" =>
        Pending(c) = [k \in 1..(routed[c] - got[c]) |-> got[c] + k]

\* A phone the PC believes connected either still has its client_loop short
\* of its ClientClose, or the ClientClose is on its way, or the tunnel to
\* that PC is broken: the PC's run_connection is not left holding the stream
\* for a phone that is gone (the production bug told at main.rs:838-840).
InFlight(c) == {toHost[session[c]][k] : k \in DOMAIN toHost[session[c]]}
NoOrphanSession ==
    \A c \in Clients : pcView[c] = "open" =>
        \/ cpc[c] \in {"serve", "send", "close"}
        \/ [kind |-> "close", client |-> c] \in InFlight(c)
        \/ hwriter[session[c]] \in {"close", "done"}

\* A phone whose client_loop returned is in no session's map, so that no host
\* reader routes to it any more (main.rs:797, 911).
NoStaleRoute ==
    \A c \in Clients : cpc[c] \in {"join", "gone", "refused"} =>
        \A i \in Instance : c \notin clients[i]

\* The abstract slot: a session is fresh until it swaps itself in, gone once
\* its cleanup looked at `online`, and in between it holds the slot or was
\* displaced from it.
Phase == [i \in Instance |->
            IF hpc[i] \in {"unborn", "swap"} THEN "fresh"
            ELSE IF hpc[i] \in {"join", "done"} THEN "gone"
            ELSE IF online[hostId[i]] = i THEN "holding" ELSE "displaced"]

Slot == INSTANCE SessionSlot WITH
            Keys <- Hosts, Sessions <- Instance, Nobody <- None,
            holder <- online, phase <- Phase

\* The relay's online table implements the abstract slot: only a newcomer
\* displaces a session, and only the holder's own cleanup empties the slot
\* (main.rs:216-223, 238-242).
OnlineIsSessionSlot == Slot!Spec

\* A displaced loop stops reading, even when it is blocked on a slow phone's
\* bulk queue at that moment ("immediately instead of waiting on TCP
\* keepalive", main.rs:606-608).
DisplacedLoopStops ==
    \A i \in Instance :
        hpc[i] \in Running /\ online[hostId[i]] # i ~> hpc[i] \in {"join", "done"}

\* When a phone's reader ends, the PC hears of it, unless its tunnel breaks.
PhoneGoneReachesPC ==
    \A c \in Clients : cpc[c] = "close" ~>
        \/ pcView[c] # "open" /\ cpc[c] # "close"
        \/ hwriter[session[c]] \in {"close", "done"}

\* A client_loop that starts to clean up returns: no task waits for ever for
\* the writer, the queue to the PC or the clients map.
ClientLoopReturns ==
    \A c \in Clients : cpc[c] \in {"close", "hangup"} ~> cpc[c] \in {"gone", "refused"}

\* A phone attached to a session that stopped reading leaves it, so that it
\* can dial again.
DisplacedPhoneLeaves ==
    \A c \in Clients, i \in Instance :
        cpc[c] \in Attached /\ session[c] = i /\ hpc[i] = "join"
            ~> cpc[c] \notin Attached

\* Said at main.rs:726-728: "Phones still attached have their per-client mpsc
\* senders inside `clients`; dropping the map closes them, so phone
\* client_loops exit on the next out_rx.recv()".  The code keeps fast_tx and
\* bulk_tx in client_loop until its reader has ended.
ClearingTheMapClosesQueues ==
    \A c \in Clients : session[c] # None /\ hpc[session[c]] = "done"
        => ~ClientQueuesOpen(c)

\* Said at main.rs:921-928: a send to the phone has a 15 s timeout, a "kernel
\* TCP send buffer is wedged" detector that disconnects it.  After the
\* timeout the task awaits sink.close(), which is not bounded, and keeps the
\* receivers; the host reader blocked on that phone's bulk queue, and with it
\* every other phone of the PC, waits as long as the link stays wedged.
BlockedReaderReturns ==
    \A i \in Instance : hpc[i] = "bulk" ~> hpc[i] # "bulk"
=============================================================================
