----------------------------- MODULE HostTunnel -----------------------------
(***************************************************************************)
(* The PC's end of the relay tunnel (server-pc/src/relay_client.rs), and   *)
(* the loop that dials again when it breaks (lib.rs).  One WebSocket       *)
(* carries every phone: a reader task demultiplexes it into one            *)
(* run_connection per phone, each phone's pump task wraps what its         *)
(* run_connection sends, and one writer task puts the frames on the wire.  *)
(*                                                                         *)
(* A tunnel is one call of RelayClient::run.  Its tasks are detached, so   *)
(* those of an old tunnel may live on next to those of a new one.  Of      *)
(* run_connection only what the tunnel depends on is kept: it takes a      *)
(* message, it sends one, it may stream, and it returns, for the reasons   *)
(* its loop has (connection.rs:132-152, 299-327).  A phone is the uuid of  *)
(* one connection to the relay and comes through one tunnel.               *)
(***************************************************************************)
EXTENDS Naturals, Sequences, FiniteSets

CONSTANTS
    Phones,     \* bound: uuids the relay announces
    MaxTunnel,  \* bound: tunnels dialled
    MaxData,    \* bound: messages one phone sends
    OutCap,     \* bound: what one phone's outbox queues hold, taken as one
    MaxOut,     \* bound: frames in host_out
    Quits,      \* bound: phones whose run_connection may end by itself
    Links       \* bound: what can become of a tunnel's link

ASSUME TunnelAssumption ==
    /\ MaxTunnel \in Nat \ {0}
    /\ MaxData \in Nat
    /\ OutCap \in Nat \ {0}
    /\ MaxOut \in Nat \ {0}
    /\ Quits \subseteq Phones
    /\ Links \subseteq {"wedged", "dead"}

Tunnel == 1..MaxTunnel
NoTunnel == 0

VARIABLES
    run,      \* where a call of RelayClient::run is
    link,     \* its WebSocket: up, wedged (nothing moves) or dead
    wire,     \* frames from the relay it has not read yet
    reader,   \* its reader task
    writer,   \* its writer task
    sessions, \* the keys of its sessions map
    hostOut,  \* its host_out queue: the phones the frames are for
    home,     \* the tunnel a phone came through
    said,     \* how many messages the phone has sent
    gone,     \* phones that left
    logic,    \* the phone's run_connection task
    inbox,    \* messages waiting for it
    streaming,\* it has an active stream
    outbox,   \* messages it sent that its pump has not taken
    pump,     \* the phone's pump task
    count     \* peer_count

tunnelVars == <<run, link, wire, reader, writer, sessions, hostOut>>
relayVars  == <<home, said, gone>>
logicVars  == <<logic, inbox, streaming, outbox, count>>
vars == <<tunnelVars, relayVars, logicVars, pump>>

Frame == [kind : {"open", "data", "close"}, phone : Phones]

Init ==
    /\ run = [t \in Tunnel |-> "none"]
    /\ link = [t \in Tunnel |-> "up"]
    /\ wire = [t \in Tunnel |-> <<>>]
    /\ reader = [t \in Tunnel |-> "none"]
    /\ writer = [t \in Tunnel |-> "none"]
    /\ sessions = [t \in Tunnel |-> {}]
    /\ hostOut = [t \in Tunnel |-> <<>>]
    /\ home = [p \in Phones |-> NoTunnel]
    /\ said = [p \in Phones |-> 0]
    /\ gone = {}
    /\ logic = [p \in Phones |-> "none"]
    /\ inbox = [p \in Phones |-> 0]
    /\ streaming = [p \in Phones |-> FALSE]
    /\ outbox = [p \in Phones |-> 0]
    /\ pump = [p \in Phones |-> "none"]
    /\ count = 0

-----------------------------------------------------------------------------
(* RelayClient::run and the reconnect loop *)

\* The loop in lib.rs dials when the previous call has returned, or at first.
Dial(t) ==
    /\ run[t] = "none"
    /\ \A u \in Tunnel : u < t => run[u] = "back"
    /\ run' = [run EXCEPT ![t] = "up"]
    /\ reader' = [reader EXCEPT ![t] = "run"]
    /\ writer' = [writer EXCEPT ![t] = "run"]
    /\ UNCHANGED <<link, wire, sessions, hostOut, relayVars, logicVars, pump>>

\* The select over the two JoinHandles: the handle that is left is dropped,
\* which detaches its task.
Return(t) ==
    /\ run[t] = "up"
    /\ reader[t] = "done" \/ writer[t] = "done"
    /\ run' = [run EXCEPT ![t] = "back"]
    /\ UNCHANGED <<link, wire, reader, writer, sessions, hostOut, relayVars,
                   logicVars, pump>>

-----------------------------------------------------------------------------
(* The relay *)

ToWire(t, kind, p) == [wire EXCEPT ![t] = Append(@, [kind |-> kind, phone |-> p])]

\* A phone connects: ClientOpen.
PhoneOpens(p, t) ==
    /\ home[p] = NoTunnel
    /\ run[t] # "none" /\ link[t] = "up"
    /\ home' = [home EXCEPT ![p] = t]
    /\ wire' = ToWire(t, "open", p)
    /\ UNCHANGED <<run, link, reader, writer, sessions, hostOut, said, gone,
                   logicVars, pump>>

\* It sends a message: Data.
PhoneSends(p) ==
    /\ home[p] # NoTunnel /\ p \notin gone
    /\ link[home[p]] = "up"
    /\ said[p] < MaxData
    /\ said' = [said EXCEPT ![p] = @ + 1]
    /\ wire' = ToWire(home[p], "data", p)
    /\ UNCHANGED <<run, link, reader, writer, sessions, hostOut, home, gone,
                   logicVars, pump>>

\* It leaves: ClientClose.
PhoneLeaves(p) ==
    /\ home[p] # NoTunnel /\ p \notin gone
    /\ link[home[p]] = "up"
    /\ gone' = gone \cup {p}
    /\ wire' = ToWire(home[p], "close", p)
    /\ UNCHANGED <<run, link, reader, writer, sessions, hostOut, home, said,
                   logicVars, pump>>

LinkChange(t, l) ==
    /\ run[t] # "none"
    /\ link[t] # "dead" /\ link[t] # l
    /\ link' = [link EXCEPT ![t] = l]
    /\ UNCHANGED <<run, wire, reader, writer, sessions, hostOut, relayVars,
                   logicVars, pump>>

-----------------------------------------------------------------------------
(* The reader task *)

\* The next frame, if it is of this kind.
Reads(t, kind, p) ==
    /\ reader[t] = "run" /\ link[t] = "up"
    /\ wire[t] # <<>> /\ Head(wire[t]) = [kind |-> kind, phone |-> p]
    /\ wire' = [wire EXCEPT ![t] = Tail(@)]

\* Channels are made, the session is inserted, run_connection and the pump
\* are spawned; run_connection's task counts itself in.
ReadOpen(t, p) ==
    /\ Reads(t, "open", p)
    /\ sessions' = [sessions EXCEPT ![t] = @ \cup {p}]
    /\ logic' = [logic EXCEPT ![p] = "run"]
    /\ pump' = [pump EXCEPT ![p] = "run"]
    /\ count' = count + 1
    /\ UNCHANGED <<run, link, reader, writer, hostOut, relayVars, inbox,
                   streaming, outbox>>

\* Forwarded to the inbox of a session that is still in the map.
ReadData(t, p) ==
    /\ Reads(t, "data", p)
    /\ inbox' = IF p \in sessions[t] /\ logic[p] = "run"
                THEN [inbox EXCEPT ![p] = @ + 1] ELSE inbox
    /\ UNCHANGED <<run, link, reader, writer, sessions, hostOut, relayVars,
                   logic, streaming, outbox, pump, count>>

\* What ClientClose leaves of the map.  Mutated: the frame is ignored.
IgnoreClose(t, p) == sessions[t]
DropSession(t, p) == sessions[t] \ {p}

ReadClose(t, p) ==
    /\ Reads(t, "close", p)
    /\ sessions' = [sessions EXCEPT ![t] = DropSession(t, p)]
    /\ UNCHANGED <<run, link, reader, writer, hostOut, relayVars, logicVars,
                   pump>>

ReaderEnds(t) ==
    /\ reader[t] = "run" /\ link[t] = "dead"
    /\ reader' = [reader EXCEPT ![t] = "done"]
    /\ wire' = [wire EXCEPT ![t] = <<>>]
    /\ UNCHANGED <<run, link, writer, sessions, hostOut, relayVars, logicVars,
                   pump>>

-----------------------------------------------------------------------------
(* run_connection *)

InboxOpen(p) == \E t \in Tunnel : p \in sessions[t]

\* Room for one more packet: try_send drops it otherwise, so that a slow
\* network sees few stale frames.  Mutated: an unbounded queue.
Unbounded(p) == outbox[p] < OutCap + 1
HasRoom(p)   == outbox[p] < OutCap

\* It handles a message: it may start or stop a stream, and it may answer.
\* (The control queue is unbounded in the code; answers are few.)
Take(p) ==
    /\ logic[p] = "run" /\ inbox[p] > 0
    /\ inbox' = [inbox EXCEPT ![p] = @ - 1]
    /\ streaming' \in {streaming, [streaming EXCEPT ![p] = ~@]}
    /\ outbox' \in {outbox} \cup
         (IF pump[p] = "run" /\ HasRoom(p)
          THEN {[outbox EXCEPT ![p] = @ + 1]} ELSE {})
    /\ UNCHANGED <<tunnelVars, relayVars, logic, pump, count>>

\* A packet of the stream: try_send.
Emit(p) ==
    /\ logic[p] = "run" /\ streaming[p]
    /\ pump[p] = "run" /\ HasRoom(p)
    /\ outbox' = [outbox EXCEPT ![p] = @ + 1]
    /\ UNCHANGED <<tunnelVars, relayVars, logic, inbox, streaming, pump, count>>

\* try_send finds the channel closed and breaks.  Mutated: taken for Full.
AsFull(p) == FALSE
Closed(p) == pump[p] = "done"

\* Why the loop ends: the inbox is closed and empty; the outbound channel is
\* closed under the stream; 45 s without any event; or an error of its own.
MustReturn(p) == inbox[p] = 0 /\ ~InboxOpen(p)
StreamCut(p)  == streaming[p] /\ Closed(p)
Idle(p)       == inbox[p] = 0 /\ ~streaming[p]

LogicReturns(p) ==
    /\ logic[p] = "run"
    /\ MustReturn(p) \/ StreamCut(p) \/ Idle(p) \/ p \in Quits
    /\ logic' = [logic EXCEPT ![p] = "done"]
    /\ inbox' = [inbox EXCEPT ![p] = 0]
    /\ streaming' = [streaming EXCEPT ![p] = FALSE]
    /\ count' = count - 1
    /\ UNCHANGED <<tunnelVars, relayVars, outbox, pump>>

-----------------------------------------------------------------------------
(* A phone's pump task *)

\* The map once the pump's loop is over.  Mutated: the entry is left.
LeaveEntry(p) == sessions
Forget(p)     == [sessions EXCEPT ![home[p]] = @ \ {p}]

PumpStops(p) ==
    /\ pump' = [pump EXCEPT ![p] = "done"]
    /\ outbox' = [outbox EXCEPT ![p] = 0]
    /\ sessions' = Forget(p)
    /\ UNCHANGED hostOut

\* host_out is unbounded: the pump never waits.
PumpForwards(p) ==
    /\ hostOut' = [hostOut EXCEPT ![home[p]] = Append(@, p)]
    /\ outbox' = [outbox EXCEPT ![p] = @ - 1]
    /\ UNCHANGED <<pump, sessions>>

\* What a failed host_out.send does.  Mutated: the error is ignored.
SkipFrame(p) ==
    /\ outbox' = [outbox EXCEPT ![p] = @ - 1]
    /\ UNCHANGED <<pump, sessions, hostOut>>
StopPump(p) == PumpStops(p)

Pump(p) ==
    /\ pump[p] = "run"
    /\ \/ /\ outbox[p] > 0 /\ writer[home[p]] = "run"
          /\ Len(hostOut[home[p]]) < MaxOut
          /\ PumpForwards(p)
       \/ outbox[p] > 0 /\ writer[home[p]] = "done" /\ StopPump(p)
       \/ outbox[p] = 0 /\ logic[p] = "done" /\ PumpStops(p)
    /\ UNCHANGED <<run, link, wire, reader, writer, relayVars, logic, inbox,
                   streaming, count>>

-----------------------------------------------------------------------------
(* The writer task *)

WriterSends(t) ==
    /\ writer[t] = "run" /\ link[t] = "up"
    /\ hostOut[t] # <<>>
    /\ hostOut' = [hostOut EXCEPT ![t] = Tail(@)]
    /\ UNCHANGED <<run, link, wire, reader, writer, sessions, relayVars,
                   logicVars, pump>>

\* The last Sender of host_out: run's own, the reader's and the pumps'.
NoSender(t) ==
    /\ run[t] = "back" /\ reader[t] = "done"
    /\ \A p \in Phones : home[p] = t => pump[p] # "run"

\* A frame or the 30 s keepalive cannot be written, or nobody is left to
\* send anything.  The receiver is dropped.
WriterEnds(t) ==
    /\ writer[t] = "run"
    /\ link[t] = "dead" \/ (NoSender(t) /\ hostOut[t] = <<>>)
    /\ writer' = [writer EXCEPT ![t] = "done"]
    /\ hostOut' = [hostOut EXCEPT ![t] = <<>>]
    /\ UNCHANGED <<run, link, wire, reader, sessions, relayVars, logicVars,
                   pump>>

-----------------------------------------------------------------------------
Reader(t) ==
    \/ \E p \in Phones : ReadOpen(t, p) \/ ReadData(t, p) \/ ReadClose(t, p)
    \/ ReaderEnds(t)

Writer(t) == WriterSends(t) \/ WriterEnds(t)

Logic(p) == Take(p) \/ Emit(p) \/ LogicReturns(p)

Next ==
    \/ \E t \in Tunnel :
         \/ Dial(t) \/ Return(t) \/ Reader(t) \/ Writer(t)
         \/ \E l \in Links \cup {"up"} : LinkChange(t, l)
         \/ \E p \in Phones : PhoneOpens(p, t)
    \/ \E p \in Phones :
         PhoneSends(p) \/ PhoneLeaves(p) \/ Logic(p) \/ Pump(p)

Spec == Init /\ [][Next]_vars

\* The runtime polls every task that can go on.  A stream produces packets
\* and the watchdog fires when nothing else happens.  Dialling never stops.
\* A link that is up again and again carries frames: strong fairness.
\* A pump's send never waits (host_out is unbounded): strong fairness, as only
\* the bound MaxOut, when another phone's frames use it up, can hold it back.
TasksRun ==
    /\ \A t \in Tunnel :
         WF_vars(Dial(t)) /\ WF_vars(Return(t))
         /\ SF_vars(Reader(t)) /\ SF_vars(Writer(t))
    /\ \A p \in Phones :
         /\ SF_vars(Pump(p)) /\ WF_vars(Take(p)) /\ WF_vars(Emit(p))
         /\ WF_vars((MustReturn(p) \/ StreamCut(p) \/ Idle(p)) /\ LogicReturns(p))

\* A link that stays wedged is given up by TCP in the end.
LinksSettle == \A t \in Tunnel :
    WF_vars(link[t] = "wedged" /\ LinkChange(t, "dead"))

FairSpec == Spec /\ TasksRun /\ LinksSettle

-----------------------------------------------------------------------------
(* Properties *)

\* Every variable stays in its domain; an outbox keeps its cap.
TypeOK ==
    /\ run \in [Tunnel -> {"none", "up", "back"}]
    /\ link \in [Tunnel -> {"up", "wedged", "dead"}]
    /\ wire \in [Tunnel -> Seq(Frame)]
    /\ reader \in [Tunnel -> {"none", "run", "done"}]
    /\ writer \in [Tunnel -> {"none", "run", "done"}]
    /\ sessions \in [Tunnel -> SUBSET Phones]
    /\ hostOut \in [Tunnel -> Seq(Phones)]
    /\ home \in [Phones -> Tunnel \cup {NoTunnel}]
    /\ said \in [Phones -> 0..MaxData]
    /\ gone \subseteq Phones
    /\ logic \in [Phones -> {"none", "run", "done"}]
    /\ inbox \in [Phones -> 0..MaxData]
    /\ streaming \in [Phones -> BOOLEAN]
    /\ outbox \in [Phones -> 0..OutCap]
    /\ pump \in [Phones -> {"none", "run", "done"}]
    /\ count \in 0..Cardinality(Phones)

\* When the phone of a run_connection is gone, said so by the relay or not, or
\* the tunnel it came by is, the connection ends by itself, streaming or not:
\* the reconnect loop does not pile up run_connections, each with its encoder,
\* behind tunnels nobody serves (relay_client.rs:472-488, connection.rs:322-326).
Orphan(p) ==
    \/ p \in gone
    \/ home[p] # NoTunnel /\ run[home[p]] = "back"
OrphansEnd ==
    \A p \in Phones : (logic[p] = "run" /\ Orphan(p)) ~> (logic[p] = "done")

\* A connection that ended by itself leaves nothing behind: its pump stops
\* and the map forgets the uuid (relay_client.rs:480-481).
EndedIsForgotten ==
    \A p \in Phones : (logic[p] = "done")
        ~> (pump[p] = "done" /\ \A t \in Tunnel : p \notin sessions[t])

-----------------------------------------------------------------------------
(* What the comments say, and the code does not do *)

\* relay_client.rs:558: "Whichever side dies first, drop the other": when the
\* call returns neither task of the tunnel runs any more.
BothTasksDropped ==
    \A t \in Tunnel :
        run[t] = "back" => reader[t] = "done" /\ writer[t] = "done"

\* relay_client.rs:377-380 and connection.rs:40-48: drop-on-full, "so a slow
\* downstream can't grow a backlog of stale video frames": no more of a
\* phone's packets wait for the network than its queue holds, and the one the
\* writer is about to write.
NoBacklog ==
    \A t \in Tunnel : \A p \in Phones :
        Len(SelectSeq(hostOut[t], LAMBDA q : q = p)) <= OutCap + 1

\* connection.rs:120-129: "if no inbound message arrives in this window,
\* treat the connection as zombied and tear it down": a phone says MaxData
\* things, then nothing, so its run_connection ends.
SilentPeerDropped ==
    \A p \in Phones : (logic[p] = "run") ~> (logic[p] = "done")
=============================================================================
