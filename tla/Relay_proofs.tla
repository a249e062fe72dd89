---------------------------- MODULE Relay_proofs ----------------------------
(***************************************************************************)
(* Proofs about the relay, for every number of hosts, phones and           *)
(* host_loops and for every queue capacity: its `online` table, and the    *)
(* queues between PCs and phones (RelayHub); and, for every number of      *)
(* registrations at once, the registry's file (HostRegistry).              *)
(***************************************************************************)
EXTENDS RelayHub, HostRegistry, SequenceTheorems, TLAPS

-----------------------------------------------------------------------------
(***************************************************************************)
(* Proofs about the relay's `online` table, for every number of hosts,     *)
(* phones and host_loops and for every queue capacity: the table never     *)
(* names a loop that is gone, every running loop is published or has been  *)
(* told to stop, the table implements the abstract SessionSlot, and no     *)
(* phone that left stays mapped.                                           *)
(*                                                                         *)
(* The first two are not inductive alone.  What they rest on is            *)
(* RegistryInv: instances are handed out in order and never reused, so a   *)
(* loop that has not started is nobody's, and the entry a successor took   *)
(* out of the table belongs to another loop of the same host that had      *)
(* swapped itself in.  TypeOK needs that a reader blocked on a phone's     *)
(* queue holds a frame for a phone, that a client_loop looks up the host   *)
(* it was asked for, and RegistryInv.  NoStaleRoute needs that a mapped    *)
(* phone is between its insert and its remove, in the session it cloned.   *)
(***************************************************************************)

\* The types of the variables that host_loops share.
RegistryTypeOK ==
    /\ nextInstance \in Nat
    /\ online \in [Hosts -> Instance \cup {None}]
    /\ hostId \in [Instance -> Hosts \cup {NoHost}]
    /\ hpc \in [Instance -> Running \cup {"unborn", "swap", "join", "done"}]
    /\ displaced \in [Instance -> Instance \cup {None}]
    /\ cancel \in [Instance -> BOOLEAN]

\* next_instance is past every loop that started.
InstancesInOrder ==
    \A i \in Instance : hpc[i] # "unborn" => i < nextInstance /\ hostId[i] \in Hosts

\* The entry a loop took out of `online` is another loop's, which had swapped
\* itself in for some host.
DisplacedWasThere ==
    \A j \in Instance : hpc[j] \in {"notify", "drain"} =>
        /\ displaced[j] \in Instance \ {j}
        /\ hpc[displaced[j]] \notin {"unborn", "swap"}

RegistryInv ==
    /\ RegistryTypeOK
    /\ InstancesInOrder
    /\ DisplacedWasThere
    /\ PublishedSessionRuns
    /\ LiveSessionPublished

-----------------------------------------------------------------------------
\* No step but those of host_loop's setup and cleanup touches the registry,
\* and its reader only moves between "serve" and "bulk".
LEMMA OtherSteps ==
    ASSUME Next
    PROVE  \/ \E h \in Hosts : HostStart(h)
           \/ \E i \in Instance : \/ HostSwapIn(i) \/ HostNotifyOld(i)
                                  \/ HostDrainOld(i) \/ HostRemove(i)
                                  \/ HostCancelled(i) \/ HostEof(i)
                                  \/ HostBulkSent(i) \/ HostJoin(i)
           \/ \E i \in Instance, c \in Clients : HostRouteBulk(i, c)
           \/ UNCHANGED registryVars
<1>1. ASSUME NEW i \in Instance, HostWriter(i) PROVE UNCHANGED registryVars
  BY <1>1 DEF HostWriter, HostWriterSend, HostWriterDrained, HostWriterClose
<1>2. ASSUME NEW c \in Clients, ClientWriter(c) PROVE UNCHANGED registryVars
  BY <1>2 DEF ClientWriter, ClientWriterTake, ClientWriterStop,
              ClientWriterSent, ClientWriterFail, ClientWriterClose, hostVars
<1>3. ASSUME NEW c \in Clients, ClientReader(c) PROVE UNCHANGED registryVars
  BY <1>3 DEF ClientReader, ClientTask, ClientAccept, ClientLookup,
              ClientInsert, ClientOpen, ClientAbort, ClientHangup,
              ClientRecv, ClientSent, ClientPing, ClientEof, ClientClose,
              ClientRemove, ClientJoin, hostVars
<1>4. ASSUME NEW i \in Instance, NEW l, HostLinkChange(i, l)
      PROVE  UNCHANGED registryVars
  BY <1>4 DEF HostLinkChange
<1>5. ASSUME NEW c \in Clients, NEW l, ClientLinkChange(c, l)
      PROVE  UNCHANGED registryVars
  BY <1>5 DEF ClientLinkChange, hostVars
<1>6. ASSUME NEW i \in Instance, NEW c \in Clients, HostRouteFast(i, c)
      PROVE  UNCHANGED registryVars
  BY <1>6 DEF HostRouteFast, hostVars
<1>7. QED
  BY <1>1, <1>2, <1>3, <1>4, <1>5, <1>6 DEF Next, HostReader, HostTask

-----------------------------------------------------------------------------
LEMMA RegistryInit == Init => RegistryInv
  BY ConstantsAssumption
  DEF Init, RegistryInv, RegistryTypeOK, InstancesInOrder, DisplacedWasThere,
      PublishedSessionRuns, LiveSessionPublished, Instance, None, Running

LEMMA RegistryStep == RegistryInv /\ [Next]_vars => RegistryInv'
<1> SUFFICES ASSUME RegistryInv, [Next]_vars PROVE RegistryInv'
  OBVIOUS
<1> USE ConstantsAssumption
    DEF RegistryInv, RegistryTypeOK, InstancesInOrder, DisplacedWasThere,
        PublishedSessionRuns, LiveSessionPublished, Running, None, HostGoto
<1>0. Instance \subseteq Nat \ {0}
  BY DEF Instance
<1>1. ASSUME NEW h \in Hosts, HostStart(h) PROVE RegistryInv'
  BY <1>0, <1>1 DEF HostStart
<1>2. ASSUME NEW i \in Instance, HostSwapIn(i) PROVE RegistryInv'
  <2>1. /\ hostId[i] \in Hosts
        /\ online' = [online EXCEPT ![hostId[i]] = i]
        /\ displaced' = [displaced EXCEPT ![i] = online[hostId[i]]]
        /\ hpc' = [hpc EXCEPT ![i] = IF online[hostId[i]] = None
                                     THEN "serve" ELSE "notify"]
        /\ hpc[i] = "swap"
        /\ UNCHANGED <<nextInstance, hostId, cancel>>
    BY <1>2 DEF HostSwapIn, SwapIn
  <2>2. RegistryTypeOK' /\ InstancesInOrder'
    BY <1>0, <2>1
  <2>3. DisplacedWasThere'
    BY <1>0, <2>1
  <2>4. PublishedSessionRuns'
    BY <1>0, <2>1
  <2>5. LiveSessionPublished'
    <3> SUFFICES ASSUME NEW k \in Instance, hpc'[k] \in Running
                 PROVE  \/ online'[hostId'[k]] = k
                        \/ cancel'[k]
                        \/ \E j \in Instance : hpc'[j] = "notify" /\ displaced'[j] = k
      OBVIOUS
    <3>1. CASE k = i
      BY <1>0, <2>1, <3>1
    <3>2. CASE k # i /\ online[hostId[k]] = k /\ hostId[k] = hostId[i]
      BY <1>0, <2>1, <3>2
    <3>3. CASE k # i /\ ~(online[hostId[k]] = k /\ hostId[k] = hostId[i])
      BY <1>0, <2>1, <3>3
    <3>4. QED BY <3>1, <3>2, <3>3
  <2>6. QED BY <2>2, <2>3, <2>4, <2>5
<1>3. ASSUME NEW i \in Instance, HostNotifyOld(i) PROVE RegistryInv'
  BY <1>0, <1>3 DEF HostNotifyOld, NotifyOne
<1>4. ASSUME NEW i \in Instance, HostDrainOld(i) PROVE RegistryInv'
  BY <1>0, <1>4 DEF HostDrainOld
<1>5. ASSUME NEW i \in Instance, HostRemove(i) PROVE RegistryInv'
  BY <1>0, <1>5 DEF HostRemove, StillOurs
<1>6. ASSUME NEW i \in Instance,
             HostCancelled(i) \/ HostEof(i) \/ HostBulkSent(i) \/ HostJoin(i)
      PROVE  RegistryInv'
  <2>1. UNCHANGED <<nextInstance, online, hostId, displaced, cancel>>
    BY <1>6 DEF HostCancelled, HostEof, HostBulkSent, HostJoin
  <2>2. CASE HostCancelled(i) \/ HostEof(i)
    <3>1. hpc[i] = "serve" /\ hpc' = [hpc EXCEPT ![i] = "remove"]
      BY <2>2 DEF HostCancelled, HostEof
    <3>2. QED BY <1>0, <2>1, <3>1
  <2>3. CASE HostBulkSent(i)
    <3>1. hpc[i] = "bulk" /\ hpc' = [hpc EXCEPT ![i] = "serve"]
      BY <2>3 DEF HostBulkSent
    <3>2. QED BY <1>0, <2>1, <3>1
  <2>4. CASE HostJoin(i)
    BY <1>0, <2>1, <2>4 DEF HostJoin
  <2>5. QED BY <1>6, <2>2, <2>3, <2>4
<1>7. ASSUME NEW i \in Instance, NEW c \in Clients, HostRouteBulk(i, c)
      PROVE  RegistryInv'
  <2>1. /\ hpc[i] = "serve" /\ hpc' = [hpc EXCEPT ![i] = "bulk"]
        /\ UNCHANGED <<nextInstance, online, hostId, displaced, cancel>>
    BY <1>7 DEF HostRouteBulk
  <2>2. QED BY <1>0, <2>1
<1>8. CASE UNCHANGED registryVars
  BY <1>8 DEF registryVars
<1>9. QED
  BY <1>1, <1>2, <1>3, <1>4, <1>5, <1>6, <1>7, <1>8, OtherSteps
  DEF vars, hostVars, registryVars

LEMMA RegistryInvariant == Spec => []RegistryInv
  BY RegistryInit, RegistryStep, PTL DEF Spec

-----------------------------------------------------------------------------
\* The cleanup of a stale loop never takes the live session offline: every
\* running host_loop is the one in `online`, or was told to stop, or is about
\* to be (host_loop, main.rs:536-565 and 710-722).
THEOREM LiveSession == Spec => []LiveSessionPublished
<1>1. RegistryInv => LiveSessionPublished
  BY DEF RegistryInv
<1>2. QED BY <1>1, RegistryInvariant, PTL

\* A phone that finds an entry in `online` finds a loop that still runs, for
\* the host it asked for (client_loop, main.rs:765-777).
THEOREM PublishedSession == Spec => []PublishedSessionRuns
<1>1. RegistryInv => PublishedSessionRuns
  BY DEF RegistryInv
<1>2. QED BY <1>1, RegistryInvariant, PTL

-----------------------------------------------------------------------------
(* The refinement: swap-in acquires the slot, cleanup releases it or withdraws
   from it, and every other step leaves holder and phase alone. *)

LEMMA PhaseIsFunction ==
    /\ Phase = [i \in Instance |-> Phase[i]]
    /\ Phase' = [i \in Instance |-> Phase'[i]]
  BY DEF Phase

LEMMA SlotInit == Init => Slot!Init
  BY DEF Init, Slot!Init, Phase, None

LEMMA SlotStep == RegistryInv /\ [Next]_vars => [Slot!Next]_(Slot!slotVars)
<1> SUFFICES ASSUME RegistryInv, [Next]_vars
             PROVE  [Slot!Next]_(Slot!slotVars)
  OBVIOUS
<1> USE ConstantsAssumption
    DEF RegistryInv, RegistryTypeOK, InstancesInOrder, PublishedSessionRuns,
        Running, None, HostGoto, Slot!slotVars
<1>0. Instance \subseteq Nat \ {0}
  BY DEF Instance
<1>1. ASSUME NEW h \in Hosts, HostStart(h) PROVE UNCHANGED <<online, Phase>>
  BY <1>0, <1>1 DEF HostStart, Phase
<1>2. ASSUME NEW i \in Instance, HostSwapIn(i)
      PROVE  Slot!Acquire(i, hostId[i])
  <2>1. /\ hostId[i] \in Hosts
        /\ online' = [online EXCEPT ![hostId[i]] = i]
        /\ hpc[i] = "swap" /\ hpc'[i] \in {"serve", "notify"}
        /\ \A t \in Instance \ {i} : hpc'[t] = hpc[t]
        /\ UNCHANGED hostId
    BY <1>0, <1>2 DEF HostSwapIn, SwapIn
  <2>2. Phase[i] = "fresh"
    BY <2>1 DEF Phase
  <2>3. ASSUME NEW t \in Instance
        PROVE  Phase'[t] = IF t = i THEN "holding"
                           ELSE IF t = online[hostId[i]] THEN "displaced"
                           ELSE Phase[t]
    <3>1. CASE t = i
      BY <1>0, <2>1, <3>1 DEF Phase
    <3>2. CASE t # i /\ t = online[hostId[i]]
      BY <1>0, <2>1, <3>2 DEF Phase
    <3>3. CASE t # i /\ t # online[hostId[i]]
      BY <1>0, <2>1, <3>3 DEF Phase
    <3>4. QED BY <3>1, <3>2, <3>3
  <2>4. Phase' = [t \in Instance |-> IF t = i THEN "holding"
                                     ELSE IF t = online[hostId[i]] THEN "displaced"
                                     ELSE Phase[t]]
    BY <2>3 DEF Phase
  <2>5. QED BY <2>1, <2>2, <2>4 DEF Slot!Acquire
<1>3. ASSUME NEW i \in Instance, HostRemove(i)
      PROVE  Slot!Release(i, hostId[i]) \/ Slot!Withdraw(i)
  <2>1. /\ hostId[i] \in Hosts
        /\ hpc[i] = "remove" /\ hpc' = [hpc EXCEPT ![i] = "join"]
        /\ UNCHANGED hostId
    BY <1>3 DEF HostRemove
  <2>2. CASE online[hostId[i]] = i
    <3>1. online' = [online EXCEPT ![hostId[i]] = 0]
      BY <1>3, <2>2 DEF HostRemove, StillOurs
    <3>2. Phase[i] = "holding"
      BY <2>1, <2>2 DEF Phase
    <3>3. ASSUME NEW t \in Instance
          PROVE  Phase'[t] = IF t = i THEN "gone" ELSE Phase[t]
      BY <1>0, <2>1, <2>2, <3>1 DEF Phase
    <3>4. Phase' = [Phase EXCEPT ![i] = "gone"]
      BY <3>3, PhaseIsFunction
    <3>5. QED BY <2>2, <3>1, <3>2, <3>4 DEF Slot!Release
  <2>3. CASE online[hostId[i]] # i
    <3>1. UNCHANGED online
      BY <1>3, <2>3 DEF HostRemove, StillOurs
    <3>2. Phase[i] = "displaced"
      BY <2>1, <2>3 DEF Phase
    <3>3. ASSUME NEW t \in Instance
          PROVE  Phase'[t] = IF t = i THEN "gone" ELSE Phase[t]
      BY <2>1, <3>1 DEF Phase
    <3>4. Phase' = [Phase EXCEPT ![i] = "gone"]
      BY <3>3, PhaseIsFunction
    <3>5. QED BY <3>1, <3>2, <3>4 DEF Slot!Withdraw
  <2>4. QED BY <2>2, <2>3
<1>4. ASSUME NEW i \in Instance, HostNotifyOld(i) \/ HostDrainOld(i)
      PROVE  UNCHANGED <<online, Phase>>
  BY <1>0, <1>4 DEF HostNotifyOld, HostDrainOld, Phase
<1>5. ASSUME NEW i \in Instance,
             HostCancelled(i) \/ HostEof(i) \/ HostBulkSent(i) \/ HostJoin(i)
      PROVE  UNCHANGED <<online, Phase>>
  <2>1. UNCHANGED <<online, hostId>>
    BY <1>5 DEF HostCancelled, HostEof, HostBulkSent, HostJoin
  <2>2. \/ /\ hpc[i] \in {"serve", "bulk"}
           /\ \E p \in {"serve", "remove"} : hpc' = [hpc EXCEPT ![i] = p]
        \/ hpc[i] = "join" /\ hpc' = [hpc EXCEPT ![i] = "done"]
    BY <1>5 DEF HostCancelled, HostEof, HostBulkSent, HostJoin
  <2>3. QED BY <2>1, <2>2 DEF Phase
<1>6. ASSUME NEW i \in Instance, NEW c \in Clients, HostRouteBulk(i, c)
      PROVE  UNCHANGED <<online, Phase>>
  <2>1. /\ hpc[i] = "serve" /\ hpc' = [hpc EXCEPT ![i] = "bulk"]
        /\ UNCHANGED <<online, hostId>>
    BY <1>6 DEF HostRouteBulk
  <2>2. QED BY <2>1 DEF Phase
<1>7. CASE UNCHANGED registryVars
  BY <1>7 DEF registryVars, Phase
<1>8. QED
  <2>1. CASE Next
    <3>1. ASSUME NEW i \in Instance, HostSwapIn(i) \/ HostRemove(i)
          PROVE  Slot!Next
      <4>1. hostId[i] \in Hosts
        BY <3>1 DEF HostSwapIn, HostRemove
      <4>2. QED BY <1>2, <1>3, <3>1, <4>1 DEF Slot!Next
    <3>2. QED
      BY <2>1, <1>1, <1>4, <1>5, <1>6, <1>7, <3>1, OtherSteps
  <2>2. CASE UNCHANGED vars
    BY <1>7, <2>2 DEF vars, hostVars, registryVars
  <2>3. QED BY <2>1, <2>2

\* The relay's `online` table implements the abstract slot: a newcomer takes
\* it at once, and only the holder's own cleanup empties it (RelayState.online
\* and next_instance, main.rs:213-223).
THEOREM OnlineImplementsSlot == Spec => OnlineIsSessionSlot
  BY SlotInit, SlotStep, RegistryInvariant, PTL
  DEF Spec, OnlineIsSessionSlot, Slot!Spec

-----------------------------------------------------------------------------
(* The types, and the phones' routes *)

\* A host reader in "bulk" holds a numbered frame for a phone.
RoutesAFrame ==
    \A i \in Instance : hpc[i] = "bulk" =>
        routing[i] \in [client : Clients, n : 1..MaxBulk]

\* A client_loop past its upgrade knows its host.
LooksUpAHost == \A c \in Clients : cpc[c] = "lookup" => dialled[c] \in Hosts

TypeInv == TypeOK /\ RoutesAFrame /\ LooksUpAHost

-----------------------------------------------------------------------------
LEMMA TypeInit == Init => TypeInv
  BY ConstantsAssumption
  DEF Init, TypeInv, TypeOK, RoutesAFrame, LooksUpAHost, Instance, None, Running, Link,
      Attached, NoFrame

\* A queue with room keeps its type and cap when one more element is queued,
\* and any queue when it is emptied or one element is taken.
LEMMA AppendFits ==
    ASSUME NEW S, NEW q \in Seq(S), NEW e \in S, NEW cap \in Nat, Len(q) < cap
    PROVE  Append(q, e) \in Seq(S) /\ Len(Append(q, e)) <= cap
  OBVIOUS

LEMMA EmptyFits ==
    ASSUME NEW S, NEW cap \in Nat
    PROVE  <<>> \in Seq(S) /\ Len(<<>>) <= cap
  OBVIOUS

LEMMA TailFits ==
    ASSUME NEW S, NEW q \in Seq(S), q # <<>>, NEW cap \in Nat, Len(q) <= cap
    PROVE  Head(q) \in S /\ Tail(q) \in Seq(S) /\ Len(Tail(q)) <= cap
  OBVIOUS

\* The setup and cleanup of a host_loop, and its reader.
LEMMA HostReaderType ==
    ASSUME TypeInv, RegistryInv, NEW i \in Instance,
           HostReader(i) \/ \E h \in Hosts : HostStart(h)
    PROVE  TypeInv'
<1> USE ConstantsAssumption DEF TypeInv, TypeOK, RoutesAFrame, LooksUpAHost, HostGoto
<1>1. ASSUME NEW h \in Hosts, HostStart(h) PROVE TypeInv'
  <2>1. nextInstance \in Instance /\ nextInstance' \in 1..(MaxInstance + 1)
    BY <1>1 DEF HostStart, Instance
  <2>2. /\ hostId' = [hostId EXCEPT ![nextInstance] = h]
        /\ hpc' = [hpc EXCEPT ![nextInstance] = "swap"]
        /\ UNCHANGED <<online, displaced, cancel, clients, routing, toHost,
                       hwriter, hlink, pcView, cpc, session, dialled, pong,
                       fast, bulk, cwriter, inHand, clink, routed, got>>
    BY <1>1
    DEF HostStart, tunnelVars, clientVars, phoneVars, attachVars, deliveryVars
  <2>3. QED BY <2>1, <2>2
<1>2. CASE HostSwapIn(i)
  <2>1. hostId[i] \in Hosts
    BY <1>2 DEF HostSwapIn, RegistryInv, InstancesInOrder
  <2>2. QED BY <1>2, <2>1
            DEF HostSwapIn, SwapIn, Running, clientVars, phoneVars, attachVars,
                deliveryVars
<1>3. CASE HostNotifyOld(i)
  BY <1>3
  DEF HostNotifyOld, NotifyOne, Running, tunnelVars, clientVars, phoneVars,
      attachVars, deliveryVars
<1>4. CASE HostDrainOld(i)
  BY <1>4
  DEF HostDrainOld, Running, clientVars, phoneVars, attachVars, deliveryVars
<1>5. CASE HostBulkSent(i)
  <2> DEFINE c == routing[i].client
  <2>1. /\ hpc[i] = "bulk" /\ hpc' = [hpc EXCEPT ![i] = "serve"]
        /\ bulk' = IF PhoneRxAlive(c) /\ Len(bulk[c]) < BulkCap
                   THEN [bulk EXCEPT ![c] = Append(@, routing[i].n)] ELSE bulk
        /\ routing' = [routing EXCEPT ![i] = NoFrame]
        /\ UNCHANGED <<nextInstance, online, hostId, displaced, cancel,
                       clients, toHost, hwriter, hlink, pcView, cpc, session,
                       dialled, pong, fast, cwriter, inHand, clink, routed, got>>
    BY <1>5 DEF HostBulkSent, BulkHasRoom, tunnelVars, attachVars
  <2>2. c \in Clients /\ routing[i].n \in 1..MaxBulk
    BY <2>1
  <2>3. /\ bulk' \in [Clients -> Seq(1..MaxBulk)]
        /\ \A d \in Clients : Len(bulk'[d]) <= BulkCap
    <3>1. CASE bulk' = bulk
      BY <3>1
    <3>2. CASE /\ bulk' = [bulk EXCEPT ![c] = Append(bulk[c], routing[i].n)]
               /\ Len(bulk[c]) < BulkCap
      BY <2>2, <3>2, AppendFits
    <3>3. QED BY <2>1, <3>1, <3>2
  <2>4. QED BY <2>1, <2>3 DEF Running
<1>6. CASE HostRemove(i)
  BY <1>6
  DEF HostRemove, Running, tunnelVars, clientVars, phoneVars, attachVars,
      deliveryVars
<1>7. CASE HostJoin(i)
  BY <1>7
  DEF HostJoin, Running, tunnelVars, clientVars, phoneVars, attachVars,
      deliveryVars
<1>8. CASE HostCancelled(i)
  BY <1>8
  DEF HostCancelled, Running, tunnelVars, clientVars, phoneVars, attachVars,
      deliveryVars
<1>9. CASE HostEof(i)
  BY <1>9
  DEF HostEof, Link, Running, clientVars, phoneVars, attachVars, deliveryVars
<1>10. ASSUME NEW c \in Clients, HostRouteFast(i, c) PROVE TypeInv'
  <2>1. /\ Len(fast[c]) < FastCap
        /\ fast' = [fast EXCEPT ![c] = Append(fast[c], 0)]
        /\ UNCHANGED <<nextInstance, online, hostId, hpc, displaced, cancel,
                       clients, routing, toHost, hwriter, hlink, pcView, cpc,
                       session, dialled, pong, bulk, cwriter, inHand, clink,
                       routed, got>>
    BY <1>10 DEF HostRouteFast, hostVars, registryVars, tunnelVars, attachVars
  <2>2. /\ fast' \in [Clients -> Seq({0})]
        /\ \A d \in Clients : Len(fast'[d]) <= FastCap
    BY <2>1, AppendFits
  <2>3. QED BY <2>1, <2>2
<1>11. ASSUME NEW c \in Clients, HostRouteBulk(i, c) PROVE TypeInv'
  <2>1. /\ hpc[i] = "serve" /\ hpc' = [hpc EXCEPT ![i] = "bulk"]
        /\ routed[c] < MaxBulk
        /\ routed' = [routed EXCEPT ![c] = routed[c] + 1]
        /\ routing' = [routing EXCEPT ![i] = [client |-> c, n |-> routed[c] + 1]]
        /\ UNCHANGED <<nextInstance, online, hostId, displaced, cancel,
                       clients, toHost, hwriter, hlink, pcView, cpc, session,
                       dialled, pong, fast, bulk, cwriter, inHand, clink, got>>
    BY <1>11 DEF HostRouteBulk, tunnelVars, attachVars
  <2>2. routed[c] + 1 \in 1..MaxBulk
    BY <2>1
  <2>3. routed' \in [Clients -> 0..MaxBulk]
    BY <2>1, <2>2
  <2>4. [client |-> c, n |-> routed[c] + 1] \in [client : Clients, n : 1..MaxBulk]
    BY <2>2
  <2>5. hpc' \in [Instance -> Running \cup {"unborn", "swap", "join", "done"}]
    BY <2>1 DEF Running
  <2>6. /\ routing' \in [Instance -> {NoFrame} \cup [client : Clients, n : 1..MaxBulk]]
        /\ RoutesAFrame'
    BY <2>1, <2>4
  <2>7. QED BY <2>1, <2>3, <2>5, <2>6
<1>12. QED
  BY <1>1, <1>2, <1>3, <1>4, <1>5, <1>6, <1>7, <1>8, <1>9, <1>10, <1>11
  DEF HostReader, HostTask

\* The host_loop's writer, and the network.
LEMMA HostWriterType ==
    ASSUME TypeInv, NEW i \in Instance,
           HostWriter(i) \/ \E l \in HostLinks : HostLinkChange(i, l)
    PROVE  TypeInv'
<1> USE ConstantsAssumption DEF TypeInv, TypeOK, RoutesAFrame, LooksUpAHost
<1>1. CASE HostWriterSend(i)
  <2>1. Head(toHost[i]) \in Frame /\ Tail(toHost[i]) \in Seq(Frame)
        /\ Len(Tail(toHost[i])) <= ToHostCap
    BY <1>1 DEF HostWriterSend
  <2>2. PcHears(Head(toHost[i])) \in [Clients -> {"unseen", "open", "closed"}]
    BY <2>1 DEF PcHears, Frame
  <2>3. QED BY <1>1, <2>1, <2>2
            DEF HostWriterSend, registryVars, clientVars, phoneVars, attachVars,
                deliveryVars
<1>2. CASE HostWriterDrained(i)
  BY <1>2
  DEF HostWriterDrained, registryVars, clientVars, phoneVars, attachVars,
      deliveryVars
<1>3. CASE HostWriterClose(i)
  <2>1. /\ hwriter' = [hwriter EXCEPT ![i] = "done"]
        /\ toHost' = [toHost EXCEPT ![i] = <<>>]
        /\ UNCHANGED <<nextInstance, online, hostId, hpc, displaced, cancel,
                       clients, routing, hlink, pcView, cpc, session, dialled,
                       pong, fast, bulk, cwriter, inHand, clink, routed, got>>
    BY <1>3
    DEF HostWriterClose, registryVars, clientVars, phoneVars, attachVars,
        deliveryVars
  <2>2. QED BY <2>1, EmptyFits
<1>4. ASSUME NEW l \in HostLinks, HostLinkChange(i, l) PROVE TypeInv'
  BY <1>4
  DEF HostLinkChange, Link, registryVars, clientVars, phoneVars, attachVars,
      deliveryVars
<1>5. QED BY <1>1, <1>2, <1>3, <1>4 DEF HostWriter

\* A phone's send to the PC keeps to_host a queue of frames within its cap.
LEMMA PushType ==
    ASSUME TypeOK, NEW c \in Clients, NEW kind \in {"open", "data", "close"}
    PROVE  /\ PushToHost(c, kind) \in [Instance -> Seq(Frame)]
           /\ \A i \in Instance : Len(PushToHost(c, kind)[i]) <= ToHostCap
<1>1. [kind |-> kind, client |-> c] \in Frame
  BY DEF Frame
<1>2. CASE PushToHost(c, kind) = toHost
  BY <1>2 DEF TypeOK
<1>3. CASE ~(PushToHost(c, kind) = toHost)
  <2> DEFINE i == session[c]
  <2>1. /\ PushToHost(c, kind) = [toHost EXCEPT ![i] = Append(toHost[i], [kind |-> kind, client |-> c])]
        /\ Len(toHost[i]) < ToHostCap
    BY <1>3 DEF PushToHost
  <2>2. CASE i \in Instance
    BY <1>1, <2>1, <2>2, AppendFits, ConstantsAssumption DEF TypeOK
  <2>3. CASE i \notin Instance
    BY <2>1, <2>3, <1>3 DEF TypeOK
  <2>4. QED BY <2>2, <2>3
<1>4. QED BY <1>2, <1>3

LEMMA ClientReaderType ==
    ASSUME TypeInv, NEW c \in Clients, ClientReader(c)
    PROVE  TypeInv'
<1> USE ConstantsAssumption DEF TypeInv, TypeOK, RoutesAFrame, LooksUpAHost, ClientGoto
<1>1. ASSUME NEW h \in Hosts, ClientAccept(c, h) PROVE TypeInv'
  BY <1>1
  DEF ClientAccept, Attached, hostVars, registryVars, tunnelVars, deliveryVars
<1>2. CASE ClientLookup(c)
  BY <1>2
  DEF ClientLookup, Attached, hostVars, registryVars, tunnelVars, deliveryVars
<1>3. CASE ClientInsert(c)
  BY <1>3
  DEF ClientInsert, Attached, registryVars, tunnelVars, phoneVars, attachVars,
      deliveryVars
<1>4. CASE ClientOpen(c)
  <2>1. toHost' \in [Instance -> Seq(Frame)] /\ \A i \in Instance : Len(toHost'[i]) <= ToHostCap
    BY <1>4, PushType DEF ClientOpen
  <2>2. QED BY <1>4, <2>1 DEF ClientOpen, Attached, registryVars, attachVars
<1>5. CASE ClientAbort(c)
  BY <1>5
  DEF ClientAbort, Unmap, Attached, registryVars, tunnelVars, phoneVars,
      attachVars, deliveryVars
<1>6. CASE ClientHangup(c)
  <2>1. /\ cpc' = [cpc EXCEPT ![c] = "refused"]
        /\ fast' = [fast EXCEPT ![c] = <<>>]
        /\ bulk' = [bulk EXCEPT ![c] = <<>>]
        /\ UNCHANGED <<nextInstance, online, hostId, hpc, displaced, cancel,
                       clients, routing, toHost, hwriter, hlink, pcView,
                       session, dialled,
                       pong, cwriter, inHand, clink, routed, got>>
    BY <1>6 DEF ClientHangup, hostVars, registryVars, tunnelVars, attachVars
  <2>2. fast' \in [Clients -> Seq({0})] /\ bulk' \in [Clients -> Seq(1..MaxBulk)]
    BY <2>1, EmptyFits
  <2>3. \A d \in Clients : Len(fast'[d]) <= FastCap /\ Len(bulk'[d]) <= BulkCap
    BY <2>1, EmptyFits
  <2>4. QED BY <2>1, <2>2, <2>3
<1>7. CASE ClientSent(c)
  <2>1. toHost' \in [Instance -> Seq(Frame)] /\ \A i \in Instance : Len(toHost'[i]) <= ToHostCap
    BY <1>7, PushType DEF ClientSent
  <2>2. QED BY <1>7, <2>1
            DEF ClientSent, AfterSend, Attached, registryVars, phoneVars,
                attachVars, deliveryVars
<1>8. CASE ClientClose(c)
  <2>1. toHost' \in [Instance -> Seq(Frame)] /\ \A i \in Instance : Len(toHost'[i]) <= ToHostCap
    BY <1>8, PushType DEF ClientClose
  <2>2. QED BY <1>8, <2>1
            DEF ClientClose, Attached, registryVars, phoneVars, attachVars,
                deliveryVars
<1>9. CASE ClientRemove(c)
  BY <1>9
  DEF ClientRemove, Unmap, Attached, registryVars, tunnelVars, phoneVars,
      attachVars, deliveryVars
<1>10. CASE ClientJoin(c) \/ ClientRecv(c)
  <2>1. /\ \E p \in {"gone", "send"} : cpc' = [cpc EXCEPT ![c] = p]
        /\ UNCHANGED <<nextInstance, online, hostId, hpc, displaced, cancel,
                       clients, routing, toHost, hwriter, hlink, pcView,
                       session, dialled,
                       pong, fast, bulk, cwriter, inHand, clink, routed, got>>
    BY <1>10 DEF ClientJoin, ClientRecv, hostVars, registryVars, tunnelVars,
                 phoneVars, attachVars, deliveryVars
  <2>2. cpc' \in [Clients -> Attached \cup {"unborn", "lookup", "gone", "refused"}]
    BY <2>1 DEF Attached
  <2>3. LooksUpAHost'
    BY <2>1
  <2>4. QED BY <2>1, <2>2, <2>3
<1>11. CASE ClientPing(c)
  <2>1. /\ pong[c] < MaxPong /\ pong' = [pong EXCEPT ![c] = pong[c] + 1]
        /\ UNCHANGED <<nextInstance, online, hostId, hpc, displaced, cancel,
                       clients, routing, toHost, hwriter, hlink, pcView,
                       session, dialled,
                       cpc, fast, bulk, cwriter, inHand, clink, routed, got>>
    BY <1>11 DEF ClientPing, hostVars, registryVars, tunnelVars, attachVars
  <2>2. pong' \in [Clients -> 0..MaxPong]
    BY <2>1
  <2>3. QED BY <2>1, <2>2
<1>12. CASE ClientEof(c)
  BY <1>12
  DEF ClientEof, Link, Attached, hostVars, registryVars, tunnelVars, attachVars,
      deliveryVars
<1>13. QED
  BY <1>1, <1>2, <1>3, <1>4, <1>5, <1>6, <1>7, <1>8, <1>9, <1>10, <1>11, <1>12
  DEF ClientReader, ClientTask

LEMMA ClientWriterType ==
    ASSUME TypeInv, NEW c \in Clients,
           ClientWriter(c) \/ \E l \in PhoneLinks : ClientLinkChange(c, l)
    PROVE  TypeInv'
<1> USE ConstantsAssumption DEF TypeInv, TypeOK, RoutesAFrame, LooksUpAHost, WriterGoto
<1>1. CASE ClientWriterTake(c)
  <2>0. \E p \in {"pong", "data"} : cwriter' = [cwriter EXCEPT ![c] = p]
    BY <1>1 DEF ClientWriterTake
  <2>1. /\ cwriter' \in [Clients -> {"unborn", "idle", "pong", "data", "close", "done"}]
        /\ UNCHANGED <<nextInstance, online, hostId, hpc, displaced, cancel,
                       clients, routing, toHost, hwriter, hlink, pcView, cpc,
                       session, dialled, clink, routed, got>>
    <3>1. UNCHANGED <<hostVars, cpc, attachVars, clink, routed, got>>
      BY <1>1 DEF ClientWriterTake
    <3>2. QED BY <2>0, <3>1 DEF hostVars, registryVars, tunnelVars, attachVars
  <2>2. CASE /\ pong[c] > 0 /\ pong' = [pong EXCEPT ![c] = pong[c] - 1]
             /\ UNCHANGED <<fast, bulk, inHand>>
    <3>1. pong' \in [Clients -> 0..MaxPong]
      BY <2>2
    <3>2. QED BY <2>1, <2>2, <3>1
  <2>3. CASE /\ fast[c] # <<>> /\ fast' = [fast EXCEPT ![c] = Tail(fast[c])]
             /\ inHand' = [inHand EXCEPT ![c] = Head(fast[c])]
             /\ UNCHANGED <<pong, bulk>>
    <3>1. Head(fast[c]) \in {0} /\ Tail(fast[c]) \in Seq({0}) /\ Len(Tail(fast[c])) <= FastCap
      BY <2>3, TailFits
    <3>2. inHand' \in [Clients -> 0..MaxBulk]
      BY <2>3, <3>1
    <3>3. fast' \in [Clients -> Seq({0})] /\ \A d \in Clients : Len(fast'[d]) <= FastCap
      BY <2>3, <3>1
    <3>4. QED BY <2>1, <2>3, <3>2, <3>3
  <2>4. CASE /\ bulk[c] # <<>> /\ bulk' = [bulk EXCEPT ![c] = Tail(bulk[c])]
             /\ inHand' = [inHand EXCEPT ![c] = Head(bulk[c])]
             /\ UNCHANGED <<pong, fast>>
    <3>1. Head(bulk[c]) \in 1..MaxBulk /\ Tail(bulk[c]) \in Seq(1..MaxBulk)
          /\ Len(Tail(bulk[c])) <= BulkCap
      BY <2>4, TailFits
    <3>2. inHand' \in [Clients -> 0..MaxBulk]
      BY <2>4, <3>1
    <3>3. bulk' \in [Clients -> Seq(1..MaxBulk)] /\ \A d \in Clients : Len(bulk'[d]) <= BulkCap
      BY <2>4, <3>1
    <3>4. QED BY <2>1, <2>4, <3>2, <3>3
  <2>5. QED BY <1>1, <2>2, <2>3, <2>4 DEF ClientWriterTake
<1>2. CASE ClientWriterStop(c) \/ ClientWriterSent(c) \/ ClientWriterFail(c)
  <2>1. \E p \in {"idle", "close"} : cwriter' = [cwriter EXCEPT ![c] = p]
    BY <1>2
    DEF ClientWriterStop, ClientWriterSent, ClientWriterFail, BreakOnNone
  <2>2. cwriter' \in [Clients -> {"unborn", "idle", "pong", "data", "close", "done"}]
    BY <2>1
  <2>3. UNCHANGED <<hostVars, cpc, attachVars, clink, pong, fast, bulk, routed>>
    BY <1>2 DEF ClientWriterStop, ClientWriterSent, ClientWriterFail
  <2>4. UNCHANGED <<nextInstance, online, hostId, hpc, displaced, cancel,
                    clients, routing, toHost, hwriter, hlink, pcView, session,
                    dialled>>
    BY <2>3 DEF hostVars, registryVars, tunnelVars, attachVars
  <2>5. inHand' \in [Clients -> 0..MaxBulk] /\ got' \in [Clients -> 0..MaxBulk]
    <3>1. 0 \in 0..MaxBulk /\ inHand[c] \in 0..MaxBulk
      OBVIOUS
    <3>2. inHand' = inHand \/ inHand' = [inHand EXCEPT ![c] = 0]
      BY <1>2 DEF ClientWriterStop, ClientWriterSent, ClientWriterFail
    <3>3. got' \in [Clients -> 0..MaxBulk]
      <4>1. CASE ClientWriterSent(c)
        <5>1. got' = [got EXCEPT ![c] = IF inHand[c] = 0 THEN got[c] ELSE inHand[c]]
          BY <4>1 DEF ClientWriterSent
        <5>2. QED BY <3>1, <5>1
      <4>2. CASE ClientWriterStop(c) \/ ClientWriterFail(c)
        BY <4>2 DEF ClientWriterStop, ClientWriterFail
      <4>3. QED BY <1>2, <4>1, <4>2
    <3>4. CASE inHand' = inHand
      BY <3>3, <3>4
    <3>5. CASE inHand' = [inHand EXCEPT ![c] = 0]
      BY <3>1, <3>3, <3>5
    <3>6. QED BY <3>2, <3>4, <3>5
  <2>6. QED BY <2>2, <2>3, <2>4, <2>5
<1>3. CASE ClientWriterClose(c)
  <2>1. /\ cwriter' = [cwriter EXCEPT ![c] = "done"]
        /\ fast' = [fast EXCEPT ![c] = <<>>]
        /\ bulk' = [bulk EXCEPT ![c] = <<>>]
        /\ UNCHANGED <<nextInstance, online, hostId, hpc, displaced, cancel,
                       clients, routing, toHost, hwriter, hlink, pcView, cpc,
                       session, dialled, pong, inHand, clink, routed, got>>
    BY <1>3
    DEF ClientWriterClose, hostVars, registryVars, tunnelVars, attachVars
  <2>2. fast' \in [Clients -> Seq({0})] /\ bulk' \in [Clients -> Seq(1..MaxBulk)]
    BY <2>1, EmptyFits
  <2>3. ASSUME NEW d \in Clients
        PROVE  Len(fast'[d]) <= FastCap /\ Len(bulk'[d]) <= BulkCap
    <3>1. CASE d = c
      BY <2>1, <3>1, EmptyFits
    <3>2. CASE d # c
      BY <2>1, <3>2
    <3>3. QED BY <3>1, <3>2
  <2>4. cwriter' \in [Clients -> {"unborn", "idle", "pong", "data", "close", "done"}]
    BY <2>1
  <2>5. QED BY <2>1, <2>2, <2>3, <2>4
<1>4. ASSUME NEW l \in PhoneLinks, ClientLinkChange(c, l) PROVE TypeInv'
  BY <1>4
  DEF ClientLinkChange, Link, hostVars, registryVars, tunnelVars, attachVars,
      deliveryVars
<1>5. QED BY <1>1, <1>2, <1>3, <1>4 DEF ClientWriter

LEMMA TypeStep == TypeInv /\ RegistryInv /\ [Next]_vars => TypeInv'
<1> SUFFICES ASSUME TypeInv, RegistryInv, [Next]_vars PROVE TypeInv'
  OBVIOUS
<1>1. CASE Next
  <2>1. 1 \in Instance
    BY ConstantsAssumption DEF Instance
  <2>2. QED
    BY <1>1, <2>1, HostReaderType, HostWriterType, ClientReaderType, ClientWriterType
    DEF Next
<1>2. CASE UNCHANGED vars
  BY <1>2
  DEF TypeInv, TypeOK, RoutesAFrame, LooksUpAHost, vars, hostVars, clientVars,
              registryVars, tunnelVars, phoneVars, attachVars, deliveryVars
<1>3. QED BY <1>1, <1>2

\* Whatever the loops, links and bounds, every variable of the relay stays in
\* its domain and to_host, fast and bulk never hold more than their caps
\* (mpsc::channel in host_loop and client_loop, main.rs:570 and 791-792).
THEOREM RelayTypes == Spec => []TypeOK
<1>1. TypeInv => TypeOK
  BY DEF TypeInv
<1>2. QED BY <1>1, TypeInit, TypeStep, RegistryInvariant, PTL DEF Spec
-----------------------------------------------------------------------------
\* A phone is mapped only in the session it cloned, from the step that inserts
\* it to the step that removes it.
MappedWhileAttached ==
    \A c \in Clients, i \in Instance : c \in clients[i] =>
        /\ session[c] = i
        /\ cpc[c] \in {"open", "serve", "send", "close", "remove", "abort"}

LEMMA MapStep ==
    TypeInv /\ MappedWhileAttached /\ [Next]_vars => MappedWhileAttached'
<1> SUFFICES ASSUME TypeInv, MappedWhileAttached, [Next]_vars
             PROVE  MappedWhileAttached'
  OBVIOUS
<1> USE DEF TypeInv, TypeOK, MappedWhileAttached
<1>1. CASE UNCHANGED <<cpc, session, clients>>
  BY <1>1
<1>2. ASSUME UNCHANGED clientVars PROVE UNCHANGED <<cpc, session>>
  BY <1>2 DEF clientVars, phoneVars, attachVars
<1>3. ASSUME NEW h \in Hosts, HostStart(h) PROVE MappedWhileAttached'
  BY <1>1, <1>2, <1>3 DEF HostStart
<1>4. ASSUME NEW i \in Instance, HostReader(i) PROVE MappedWhileAttached'
  <2>1. CASE HostDrainOld(i) \/ HostJoin(i)
    <3>1. /\ UNCHANGED <<cpc, session>>
          /\ \E j : clients' = [clients EXCEPT ![j] = {}]
      BY <1>2, <2>1 DEF HostDrainOld, HostJoin
    <3>2. QED BY <3>1
  <2>2. CASE HostSwapIn(i) \/ HostNotifyOld(i) \/ HostRemove(i) \/ HostCancelled(i) \/ HostEof(i)
    BY <1>1, <1>2, <2>2
    DEF HostSwapIn, HostNotifyOld, HostRemove, HostCancelled, HostEof
  <2>3. CASE HostBulkSent(i) \/ \E c \in Clients : HostRouteFast(i, c) \/ HostRouteBulk(i, c)
    BY <1>1, <2>3
    DEF HostBulkSent, HostRouteFast, HostRouteBulk, attachVars, hostVars
  <2>4. QED BY <1>4, <2>1, <2>2, <2>3 DEF HostReader, HostTask
<1>5. ASSUME NEW i \in Instance,
             HostWriter(i) \/ \E l \in HostLinks : HostLinkChange(i, l)
      PROVE  MappedWhileAttached'
  BY <1>1, <1>2, <1>5
  DEF HostWriter, HostWriterSend, HostWriterDrained, HostWriterClose, HostLinkChange
<1>6. ASSUME NEW c \in Clients, ClientReader(c) PROVE MappedWhileAttached'
  <2> USE DEF ClientGoto
  <2>1. CASE \/ ClientHangup(c) \/ ClientRecv(c) \/ ClientSent(c)
             \/ ClientEof(c) \/ ClientClose(c) \/ ClientJoin(c)
    <3>1. UNCHANGED <<session, clients>>
      BY <2>1 DEF ClientHangup, ClientRecv, ClientSent, ClientEof, ClientClose,
                  ClientJoin, phoneVars, attachVars, hostVars
    <3>2. \E p : /\ cpc' = [cpc EXCEPT ![c] = p]
                 /\ \/ cpc[c] \in {"hangup", "join"}
                    \/ p \in {"send", "serve", "close", "remove"}
      BY <2>1 DEF ClientHangup, ClientRecv, ClientSent, AfterSend, ClientEof,
                  ClientClose, ClientJoin
    <3>3. QED BY <3>1, <3>2
  <2>2. ASSUME NEW h \in Hosts, ClientAccept(c, h) PROVE MappedWhileAttached'
    <3>1. cpc[c] = "unborn" /\ cpc' = [cpc EXCEPT ![c] = "lookup"] /\ UNCHANGED <<session, clients>>
      BY <2>2 DEF ClientAccept, hostVars
    <3>2. QED BY <3>1
  <2>3. CASE ClientLookup(c)
    <3>1. /\ cpc[c] = "lookup" /\ \E p : cpc' = [cpc EXCEPT ![c] = p]
          /\ \E j : session' = [session EXCEPT ![c] = j]
          /\ UNCHANGED clients
      BY <2>3 DEF ClientLookup, hostVars
    <3>2. QED BY <3>1
  <2>4. CASE ClientInsert(c)
    <3>1. /\ cpc[c] = "insert" /\ cpc' = [cpc EXCEPT ![c] = "open"]
          /\ clients' = [clients EXCEPT ![session[c]] = @ \cup {c}]
          /\ UNCHANGED session
      BY <2>4 DEF ClientInsert, phoneVars, attachVars
    <3>2. QED BY <3>1
  <2>5. CASE ClientOpen(c)
    <3>1. /\ cpc[c] = "open" /\ \E p \in {"serve", "abort"} : cpc' = [cpc EXCEPT ![c] = p]
          /\ UNCHANGED <<session, clients>>
      BY <2>5 DEF ClientOpen, attachVars
    <3>2. QED BY <3>1
  <2>6. CASE ClientAbort(c) \/ ClientRemove(c)
    <3>1. /\ \E p \in {"hangup", "join"} : cpc' = [cpc EXCEPT ![c] = p]
          /\ clients' = [clients EXCEPT ![session[c]] = @ \ {c}]
          /\ UNCHANGED session
      BY <2>6 DEF ClientAbort, ClientRemove, Unmap, phoneVars, attachVars
    <3>2. QED BY <3>1
  <2>7. CASE ClientPing(c)
    BY <1>1, <2>7 DEF ClientPing, attachVars, hostVars
  <2>8. QED
    BY <1>6, <2>1, <2>2, <2>3, <2>4, <2>5, <2>6, <2>7
    DEF ClientReader, ClientTask
<1>7. ASSUME NEW c \in Clients,
             ClientWriter(c) \/ \E l \in PhoneLinks : ClientLinkChange(c, l)
      PROVE  MappedWhileAttached'
  BY <1>1, <1>7
  DEF ClientWriter, ClientWriterTake, ClientWriterStop, ClientWriterSent,
      ClientWriterFail, ClientWriterClose, ClientLinkChange, attachVars, hostVars
<1>8. CASE UNCHANGED vars
  BY <1>1, <1>8 DEF vars, hostVars, clientVars, phoneVars, attachVars
<1>9. QED
  BY <1>3, <1>4, <1>5, <1>6, <1>7, <1>8 DEF Next

\* A phone whose client_loop is past its clean-up is in no session's clients
\* map, however sessions displace each other and clear those maps meanwhile
\* (client_loop's insert and removes, main.rs:781, 797 and 911).
THEOREM NoPhoneLeftMapped == Spec => []NoStaleRoute
<1>1. Init => MappedWhileAttached
  BY DEF Init, MappedWhileAttached
<1>2. MappedWhileAttached => NoStaleRoute
  BY DEF MappedWhileAttached, NoStaleRoute
<1>3. QED
  BY <1>1, <1>2, MapStep, TypeInit, TypeStep, RegistryInvariant, PTL DEF Spec

(***************************************************************************)
(* What the relay's queues promise, for every value of the constants: that *)
(* the PC is told of every phone that left (NoOrphanSession), and that the *)
(* frames a phone must get reach it in order and without a gap             *)
(* (BulkInOrder).                                                          *)
(***************************************************************************)

-----------------------------------------------------------------------------
(* The way to the PC *)

\* The pcs of a client_loop whose ClientOpen was queued.
Opened == {"serve", "send", "close", "remove", "join", "gone"}
\* Those of one whose ClientClose was queued, too.
Closed == {"remove", "join", "gone"}

\* A host_loop spawns its writer once.
WriterStarts ==
    \A i \in Instance :
        hpc[i] \in {"unborn", "swap", "notify", "drain"} => hwriter[i] = "unborn"

\* From its lookup on a client_loop has a session.
SessionKnown ==
    \A c \in Clients : cpc[c] \in Opened \cup {"insert", "open", "abort"} =>
        session[c] \in Instance

\* A phone's frames are in its session's queue, and none is before its
\* ClientOpen.
FramesOfOpened ==
    \A i \in Instance : \A k \in 1..Len(toHost[i]) :
        /\ session[toHost[i][k].client] = i
        /\ cpc[toHost[i][k].client] \in Opened

\* The PC knows of a phone from its ClientOpen on.
ViewOfOpened == \A c \in Clients : pcView[c] # "unseen" => cpc[c] \in Opened

\* A ClientOpen still queued when the phone left has the ClientClose behind it.
CloseBehindOpen ==
    \A i \in Instance : \A k \in 1..Len(toHost[i]) :
        /\ toHost[i][k].kind = "open"
        /\ cpc[toHost[i][k].client] \in Closed
        /\ hwriter[i] \notin {"close", "done"}
        => \E m \in (k+1)..Len(toHost[i]) :
               toHost[i][m] = [kind |-> "close", client |-> toHost[i][k].client]

\* NoOrphanSession with the position of the ClientClose.
CloseComes ==
    \A c \in Clients : pcView[c] = "open" =>
        \/ cpc[c] \in Opened \ Closed
        \/ hwriter[session[c]] \in {"close", "done"}
        \/ \E m \in 1..Len(toHost[session[c]]) :
               toHost[session[c]][m] = [kind |-> "close", client |-> c]

ToPcInv ==
    /\ WriterStarts /\ SessionKnown /\ FramesOfOpened /\ ViewOfOpened
    /\ CloseBehindOpen /\ CloseComes

-----------------------------------------------------------------------------
(* The way to the phone *)

\* The phone's receiver has not begun to end.
Delivers(c) == cwriter[c] \notin {"close", "done"} /\ cpc[c] # "refused"

\* The must-deliver frames up to this one were taken off the queue.
Taken(c) == got[c] + (IF inHand[c] = 0 THEN 0 ELSE 1)

\* The session's reader is blocked on this phone's queue.
Blocked(c) == session[c] # None /\ routing[session[c]].client = c

\* The writer task is spawned by ClientOpen, ends before its loop does, and
\* holds a frame only while it sends it.
WriterAt ==
    \A c \in Clients :
        /\ cpc[c] \in {"unborn", "lookup", "insert", "open", "abort", "hangup", "refused"}
             => cwriter[c] = "unborn"
        /\ cpc[c] = "gone" => cwriter[c] = "done"
        /\ cwriter[c] # "data" => inHand[c] = 0

\* A reader is blocked on a phone of its own session.
RoutesOwn ==
    \A i \in Instance :
        /\ hpc[i] = "bulk" =>
             /\ session[routing[i].client] = i
             /\ cpc[routing[i].client] \notin {"unborn", "lookup", "insert"}
        /\ hpc[i] # "bulk" => routing[i] = NoFrame

\* BulkInOrder, element by element.
Numbered(c) ==
    /\ inHand[c] # 0 => inHand[c] = got[c] + 1
    /\ \A k \in 1..Len(bulk[c]) : bulk[c][k] = Taken(c) + k
    /\ Blocked(c) => routing[session[c]].n = routed[c]
    /\ routed[c] = Taken(c) + Len(bulk[c]) + (IF Blocked(c) THEN 1 ELSE 0)

AllNumbered == \A c \in Clients : Delivers(c) => Numbered(c)

ToPhoneInv == WriterAt /\ RoutesOwn /\ AllNumbered

-----------------------------------------------------------------------------
(* The way to the PC: every step keeps ToPcInv *)

LEMMA ToPcInit == Init => ToPcInv
  BY DEF Init, ToPcInv, WriterStarts, SessionKnown, FramesOfOpened, ViewOfOpened,
         CloseBehindOpen, CloseComes, Opened, Closed

\* A host_loop moves, and may spawn its writer: no writer starts to end, and
\* nothing else the invariant reads changes.
LEMMA LoopMoves ==
    ASSUME ToPcInv, UNCHANGED <<toHost, pcView, session, cpc>>,
           WriterStarts',
           \A j \in Instance :
               hwriter'[j] \in {"close", "done"} <=> hwriter[j] \in {"close", "done"}
    PROVE  ToPcInv'
<1> USE DEF ToPcInv
<1>1. SessionKnown' /\ ViewOfOpened'
  BY DEF SessionKnown, ViewOfOpened
<1>2. FramesOfOpened'
  BY DEF FramesOfOpened
<1>3. CloseBehindOpen'
  BY DEF CloseBehindOpen
<1>4. CloseComes'
  <2>1. ASSUME NEW c \in Clients, pcView[c] = "open" PROVE session[c] \in Instance
    BY <2>1 DEF ViewOfOpened, SessionKnown
  <2>2. QED BY <2>1 DEF CloseComes
<1>5. QED BY <1>1, <1>2, <1>3, <1>4

\* What is queued for a PC is a phone's frame.
LEMMA QueuedFrames ==
    ASSUME TypeInv, NEW i \in Instance, NEW k \in 1..Len(toHost[i])
    PROVE  toHost[i][k] \in Frame /\ toHost[i][k].client \in Clients
<1>1. toHost[i] \in Seq(Frame)
  BY DEF TypeInv, TypeOK
<1>2. toHost[i][k] \in Frame
  BY <1>1
<1>3. QED BY <1>2 DEF Frame

\* A client_loop moves without a send to the PC.
LEMMA PhoneMoves ==
    ASSUME TypeInv, ToPcInv, NEW c \in Clients, NEW p,
           cpc' = [cpc EXCEPT ![c] = p],
           UNCHANGED <<hpc, hwriter, toHost, pcView>>,
           cpc[c] \in Opened <=> p \in Opened,
           cpc[c] \in Closed <=> p \in Closed,
           p \in Opened \cup {"insert", "open", "abort"} => session'[c] \in Instance,
           \/ session' = session
           \/ cpc[c] \notin Opened /\ \E j : session' = [session EXCEPT ![c] = j]
    PROVE  ToPcInv'
<1> USE DEF ToPcInv
<1>0. /\ cpc \in [Clients -> Attached \cup {"unborn", "lookup", "gone", "refused"}]
      /\ session \in [Clients -> Instance \cup {None}]
      /\ toHost \in [Instance -> Seq(Frame)]
  BY DEF TypeInv, TypeOK
<1>1. \A d \in Clients : /\ cpc[d] \in Opened <=> cpc'[d] \in Opened
                         /\ cpc[d] \in Closed <=> cpc'[d] \in Closed
                         /\ cpc[d] \in Opened => session'[d] = session[d]
  BY <1>0
<1>2. \A i \in Instance : \A k \in 1..Len(toHost[i]) : toHost[i][k].client \in Clients
  BY QueuedFrames
<1>3. WriterStarts'
  BY DEF WriterStarts
<1>4. SessionKnown'
  BY <1>0 DEF SessionKnown
<1>5. FramesOfOpened'
  BY <1>1, <1>2 DEF FramesOfOpened
<1>6. ViewOfOpened'
  BY <1>1 DEF ViewOfOpened
<1>7. CloseBehindOpen'
  BY <1>1, <1>2 DEF CloseBehindOpen
<1>8. CloseComes'
  <2>1. ASSUME NEW d \in Clients, pcView[d] = "open"
        PROVE  \/ cpc'[d] \in Opened \ Closed
               \/ hwriter[session'[d]] \in {"close", "done"}
               \/ \E m \in 1..Len(toHost[session'[d]]) :
                      toHost[session'[d]][m] = [kind |-> "close", client |-> d]
    <3>1. cpc[d] \in Opened
      BY <2>1 DEF ViewOfOpened
    <3>2. session'[d] = session[d] /\ (cpc[d] \in Closed <=> cpc'[d] \in Closed) /\ cpc'[d] \in Opened
      BY <1>1, <3>1
    <3>3. QED BY <2>1, <3>2 DEF CloseComes
  <2>2. QED BY <2>1 DEF CloseComes
<1>9. QED BY <1>3, <1>4, <1>5, <1>6, <1>7, <1>8

\* A client_loop's send to the PC returns.
LEMMA PhonePushes ==
    ASSUME TypeInv, ToPcInv, NEW c \in Clients, NEW p,
           NEW kind \in {"open", "data", "close"},
           cpc' = [cpc EXCEPT ![c] = p],
           UNCHANGED <<hpc, hwriter, pcView, session>>,
           toHost' = PushToHost(c, kind), ToHostReady(c),
           cpc[c] \in (Opened \ Closed) \cup {"open"},
           p \in Opened \/ (p = "abort" /\ cpc[c] = "open" /\ ~HostRxAlive(session[c])),
           kind = "open" => cpc[c] = "open" /\ p \notin Closed,
           p \in Closed => kind = "close"
    PROVE  ToPcInv'
<1> USE DEF ToPcInv
<1> DEFINE s == session[c]
           f == [kind |-> kind, client |-> c]
<1>0. /\ cpc \in [Clients -> Attached \cup {"unborn", "lookup", "gone", "refused"}]
      /\ toHost \in [Instance -> Seq(Frame)]
      /\ hwriter \in [Instance -> {"unborn", "idle", "close", "done"}]
  BY DEF TypeInv, TypeOK
<1>1. s \in Instance /\ f \in Frame
  BY DEF SessionKnown, Frame
<1>2. \A i \in Instance : \A k \in 1..Len(toHost[i]) : toHost[i][k].client \in Clients
  BY QueuedFrames
<1>3. WriterStarts'
  BY DEF WriterStarts
<1>4. SessionKnown'
  BY <1>0, <1>1 DEF SessionKnown
<1>5. ViewOfOpened'
  BY <1>0 DEF ViewOfOpened, Opened
<1>6. CASE ~HostRxAlive(s)
  <2>1. toHost' = toHost /\ hwriter[s] = "done"
    BY <1>6 DEF PushToHost, HostRxAlive
  <2>2. \A i \in Instance : \A k \in 1..Len(toHost[i]) :
            toHost[i][k].client = c => i = s /\ p \in Opened
    BY <1>2 DEF FramesOfOpened, Opened
  <2>3. FramesOfOpened'
    BY <1>0, <1>2, <2>1, <2>2 DEF FramesOfOpened
  <2>4. CloseBehindOpen'
    BY <1>0, <1>2, <2>1, <2>2 DEF CloseBehindOpen
  <2>5. CloseComes'
    <3>1. ASSUME NEW d \in Clients, pcView[d] = "open"
          PROVE  \/ cpc'[d] \in Opened \ Closed
                 \/ hwriter[session[d]] \in {"close", "done"}
                 \/ \E m \in 1..Len(toHost[session[d]]) :
                        toHost[session[d]][m] = [kind |-> "close", client |-> d]
      <4>1. CASE d = c
        BY <2>1, <4>1
      <4>2. CASE d # c
        <5>1. cpc'[d] = cpc[d]
          BY <1>0, <4>2
        <5>2. QED BY <3>1, <5>1 DEF CloseComes
      <4>3. QED BY <4>1, <4>2
    <3>2. QED BY <2>1, <3>1 DEF CloseComes
  <2>6. QED BY <1>3, <1>4, <1>5, <2>3, <2>4, <2>5
<1>7. CASE HostRxAlive(s)
  <2>1. toHost' = [toHost EXCEPT ![s] = Append(toHost[s], f)]
    BY <1>7 DEF PushToHost, ToHostReady
  <2>2. p \in Opened
    BY <1>7
  <2>3. /\ Len(toHost'[s]) = Len(toHost[s]) + 1 /\ Len(toHost[s]) \in Nat
        /\ \A k \in 1..Len(toHost[s]) : toHost'[s][k] = toHost[s][k]
        /\ toHost'[s][Len(toHost[s]) + 1] = f
    BY <1>0, <1>1, <2>1, AppendProperties
  <2>4. \A i \in Instance : i # s => toHost'[i] = toHost[i]
    BY <1>0, <2>1
  <2> HIDE DEF f, s
  <2>5. \A d \in Clients : d # c => cpc'[d] = cpc[d]
    BY <1>0
  <2>6. cpc'[c] = p
    BY <1>0
  <2>f. f.client = c /\ f.kind = kind
    BY DEF f
  <2>s. s = session[c]
    BY DEF s
  <2>7. FramesOfOpened'
    <3>1. ASSUME NEW i \in Instance, NEW k \in 1..Len(toHost'[i])
          PROVE  session[toHost'[i][k].client] = i /\ cpc'[toHost'[i][k].client] \in Opened
      <4>1. CASE i = s /\ k = Len(toHost[s]) + 1
        BY <2>2, <2>3, <2>6, <2>f, <2>s, <4>1
      <4>2. CASE k \in 1..Len(toHost[i])
        <5>1. toHost'[i][k] = toHost[i][k] /\ toHost[i][k].client \in Clients
          BY <1>2, <2>3, <2>4, <4>2
        <5>2. QED BY <2>2, <2>5, <2>6, <4>2, <5>1 DEF FramesOfOpened
      <4>3. QED BY <2>3, <2>4, <3>1, <4>1, <4>2
    <3>2. QED BY <3>1 DEF FramesOfOpened
  <2>8. CloseBehindOpen'
    <3>1. ASSUME NEW i \in Instance, NEW k \in 1..Len(toHost'[i]),
                 toHost'[i][k].kind = "open",
                 cpc'[toHost'[i][k].client] \in Closed,
                 hwriter[i] \notin {"close", "done"}
          PROVE  \E m \in (k+1)..Len(toHost'[i]) :
                     toHost'[i][m] = [kind |-> "close", client |-> toHost'[i][k].client]
      <4>1. k \in 1..Len(toHost[i])
        <5>1. ~(i = s /\ k = Len(toHost[s]) + 1)
          BY <2>3, <2>6, <2>f, <3>1
        <5>2. QED BY <2>3, <2>4, <3>1, <5>1
      <4>2. toHost'[i][k] = toHost[i][k] /\ toHost[i][k].client \in Clients
        BY <1>2, <2>3, <2>4, <4>1
      <4>3. CASE toHost[i][k].client = c
        <5>1. i = s /\ kind = "close"
          BY <2>6, <2>s, <3>1, <4>1, <4>2, <4>3 DEF FramesOfOpened
        <5>2. f = [kind |-> "close", client |-> c]
          BY <5>1 DEF f
        <5>3. Len(toHost[s]) + 1 \in (k+1)..Len(toHost'[s])
          BY <2>3, <4>1, <5>1
        <5>4. QED BY <2>3, <4>2, <4>3, <5>1, <5>2, <5>3
      <4>4. CASE toHost[i][k].client # c
        <5>1. cpc[toHost[i][k].client] \in Closed
          BY <2>5, <3>1, <4>2, <4>4
        <5>2. PICK m \in (k+1)..Len(toHost[i]) :
                  toHost[i][m] = [kind |-> "close", client |-> toHost[i][k].client]
          BY <3>1, <4>1, <4>2, <5>1 DEF CloseBehindOpen
        <5>3. m \in (k+1)..Len(toHost'[i]) /\ m \in 1..Len(toHost[i])
          <6>1. Len(toHost[i]) \in Nat
            BY <1>0
          <6>2. CASE i = s
            BY <2>3, <4>1, <6>1, <6>2
          <6>3. CASE i # s
            BY <2>4, <4>1, <6>1, <6>3
          <6>4. QED BY <6>2, <6>3
        <5>4. toHost'[i][m] = toHost[i][m]
          BY <2>3, <2>4, <5>3
        <5>5. QED BY <4>2, <5>2, <5>3, <5>4
      <4>5. QED BY <4>3, <4>4
    <3>2. QED BY <3>1 DEF CloseBehindOpen
  <2>9. CloseComes'
    <3>1. ASSUME NEW d \in Clients, pcView[d] = "open"
          PROVE  \/ cpc'[d] \in Opened \ Closed
                 \/ hwriter[session[d]] \in {"close", "done"}
                 \/ \E m \in 1..Len(toHost'[session[d]]) :
                        toHost'[session[d]][m] = [kind |-> "close", client |-> d]
      <4>1. CASE d = c /\ p \in Closed
        <5>1. f = [kind |-> "close", client |-> c]
          BY <4>1 DEF f
        <5>2. QED BY <2>3, <2>s, <4>1, <5>1
      <4>2. CASE d = c /\ p \notin Closed
        BY <2>2, <2>6, <4>2
      <4>3. CASE d # c
        <5>1. session[d] \in Instance
          BY <3>1 DEF ViewOfOpened, SessionKnown
        <5>2. \A m \in 1..Len(toHost[session[d]]) :
                  m \in 1..Len(toHost'[session[d]]) /\ toHost'[session[d]][m] = toHost[session[d]][m]
          BY <2>3, <2>4, <5>1
        <5>3. QED BY <2>5, <3>1, <4>3, <5>2 DEF CloseComes
      <4>4. QED BY <4>1, <4>2, <4>3
    <3>2. QED BY <3>1 DEF CloseComes
  <2>10. QED BY <1>3, <1>4, <1>5, <2>7, <2>8, <2>9
<1>8. QED BY <1>6, <1>7

\* The host_loop's writer takes a frame, delivers or loses it, and ends.
LEMMA HostWriterToPc ==
    ASSUME TypeInv, ToPcInv, NEW i \in Instance, HostWriter(i)
    PROVE  ToPcInv'
<1> USE DEF ToPcInv
<1>0. /\ hwriter \in [Instance -> {"unborn", "idle", "close", "done"}]
      /\ toHost \in [Instance -> Seq(Frame)]
      /\ pcView \in [Clients -> {"unseen", "open", "closed"}]
  BY DEF TypeInv, TypeOK
<1>1. UNCHANGED <<hpc, cpc, session>>
  BY DEF HostWriter, HostWriterSend, HostWriterDrained, HostWriterClose,
         registryVars, clientVars, phoneVars, attachVars
<1>2. SessionKnown'
  BY <1>1 DEF SessionKnown
<1>3. \A c \in Clients : pcView[c] # "unseen" => session[c] \in Instance
  BY DEF ViewOfOpened, SessionKnown
<1>4. \A j \in Instance : \A k \in 1..Len(toHost[j]) : toHost[j][k].client \in Clients
  BY QueuedFrames
<1>5. CASE HostWriterSend(i)
  <2> DEFINE f == Head(toHost[i])
  <2>1. /\ hwriter[i] = "idle" /\ toHost[i] # <<>>
        /\ toHost' = [toHost EXCEPT ![i] = Tail(toHost[i])]
        /\ \/ pcView' = PcHears(f) /\ hwriter' = hwriter
           \/ pcView' = pcView /\ hwriter' = [hwriter EXCEPT ![i] = "close"]
    BY <1>5 DEF HostWriterSend
  <2>2. /\ f = toHost[i][1] /\ Len(toHost[i]) \in Nat \ {0}
        /\ Len(toHost'[i]) = Len(toHost[i]) - 1
        /\ \A k \in 1..Len(toHost'[i]) : toHost'[i][k] = toHost[i][k+1]
    BY <1>0, <2>1, HeadTailProperties
  <2>3. \A j \in Instance : j # i => toHost'[j] = toHost[j]
    BY <1>0, <2>1
  <2> HIDE DEF f
  <2>4. f \in Frame /\ f.client \in Clients
    BY <2>2, QueuedFrames
  <2>5. session[f.client] = i /\ cpc[f.client] \in Opened
    BY <2>2 DEF FramesOfOpened
  <2>6. /\ \A c \in Clients : c # f.client => pcView'[c] = pcView[c]
        /\ pcView'[f.client] = "open" =>
             pcView[f.client] = "open" \/ f.kind = "open" \/ hwriter'[i] = "close"
        /\ hwriter' = hwriter /\ f.kind = "close" => pcView'[f.client] = "closed"
    BY <1>0, <2>1, <2>4 DEF PcHears, Frame
  <2>7. \/ hwriter' = hwriter
        \/ hwriter'[i] = "close" /\ \A j \in Instance : j # i => hwriter'[j] = hwriter[j]
    BY <1>0, <2>1
  <2>8. WriterStarts'
    BY <1>0, <1>1, <2>1 DEF WriterStarts
  <2>9. FramesOfOpened'
    <3>1. ASSUME NEW j \in Instance, NEW k \in 1..Len(toHost'[j])
          PROVE  session[toHost'[j][k].client] = j /\ cpc[toHost'[j][k].client] \in Opened
      <4>1. CASE j = i
        <5>1. k + 1 \in 1..Len(toHost[i])
          BY <2>2, <4>1
        <5>2. QED BY <2>2, <4>1, <5>1 DEF FramesOfOpened
      <4>2. CASE j # i
        BY <2>3, <4>2 DEF FramesOfOpened
      <4>3. QED BY <4>1, <4>2
    <3>2. QED BY <1>1, <3>1 DEF FramesOfOpened
  <2>10. ViewOfOpened'
    BY <1>1, <2>5, <2>6 DEF ViewOfOpened
  <2>11. CloseBehindOpen'
    <3>1. ASSUME NEW j \in Instance, NEW k \in 1..Len(toHost'[j]),
                 toHost'[j][k].kind = "open",
                 cpc[toHost'[j][k].client] \in Closed,
                 hwriter'[j] \notin {"close", "done"}
          PROVE  \E m \in (k+1)..Len(toHost'[j]) :
                     toHost'[j][m] = [kind |-> "close", client |-> toHost'[j][k].client]
      <4>0. hwriter[j] \notin {"close", "done"}
        BY <2>7, <3>1
      <4>1. CASE j = i
        <5>1. k + 1 \in 1..Len(toHost[i]) /\ toHost'[i][k] = toHost[i][k+1]
          BY <2>2, <4>1
        <5>2. PICK m \in ((k+1)+1)..Len(toHost[i]) :
                  toHost[i][m] = [kind |-> "close", client |-> toHost[i][k+1].client]
          BY <3>1, <4>0, <4>1, <5>1 DEF CloseBehindOpen
        <5>a. /\ k \in Nat /\ k >= 1
              /\ Len(toHost[i]) \in Nat /\ Len(toHost'[i]) = Len(toHost[i]) - 1
          BY <2>2, <4>1, <5>1
        <5>b. m \in Nat /\ m >= k + 2 /\ m <= Len(toHost[i])
          BY <5>2, <5>a
        <5>3. m - 1 \in (k+1)..Len(toHost'[i]) /\ m - 1 \in 1..Len(toHost'[i]) /\ (m - 1) + 1 = m
          BY <5>a, <5>b
        <5>4. toHost'[i][m-1] = toHost[i][m]
          BY <2>2, <5>3
        <5>5. QED BY <4>1, <5>1, <5>2, <5>3, <5>4
      <4>2. CASE j # i
        BY <2>3, <3>1, <4>0, <4>2 DEF CloseBehindOpen
      <4>3. QED BY <4>1, <4>2
    <3>2. QED BY <1>1, <3>1 DEF CloseBehindOpen
  <2>12. CloseComes'
    <3>1. ASSUME NEW c \in Clients, pcView'[c] = "open"
          PROVE  \/ cpc[c] \in Opened \ Closed
                 \/ hwriter'[session[c]] \in {"close", "done"}
                 \/ \E m \in 1..Len(toHost'[session[c]]) :
                        toHost'[session[c]][m] = [kind |-> "close", client |-> c]
      <4>1. CASE c = f.client /\ hwriter' # hwriter
        BY <2>5, <2>7, <4>1
      <4>2. CASE c = f.client /\ hwriter' = hwriter /\ f.kind = "open" /\ cpc[c] \in Closed
        <5>1. toHost[i][1].kind = "open" /\ 1 \in 1..Len(toHost[i])
          BY <2>2, <4>2
        <5>2. PICK m \in (1+1)..Len(toHost[i]) :
                  toHost[i][m] = [kind |-> "close", client |-> c]
          BY <2>1, <2>2, <4>2, <5>1 DEF CloseBehindOpen
        <5>3. m - 1 \in 1..Len(toHost'[i]) /\ (m - 1) + 1 = m
          BY <2>2, <5>2
        <5>4. toHost'[i][m-1] = toHost[i][m]
          BY <2>2, <5>3
        <5>5. QED BY <2>5, <4>2, <5>2, <5>3, <5>4
      <4>3. CASE c = f.client /\ hwriter' = hwriter /\ f.kind = "open" /\ cpc[c] \notin Closed
        BY <2>5, <4>3
      <4>4. CASE /\ pcView[c] = "open"
                 /\ ~(c = f.client /\ hwriter' # hwriter)
                 /\ ~(c = f.client /\ f.kind = "open")
        <5>0. session[c] \in Instance
          BY <1>3, <4>4
        <5>1. CASE cpc[c] \in Opened \ Closed
          BY <5>1
        <5>2. CASE hwriter[session[c]] \in {"close", "done"}
          BY <2>1, <2>7, <5>0, <5>2
        <5>3. ASSUME NEW m \in 1..Len(toHost[session[c]]),
                     toHost[session[c]][m] = [kind |-> "close", client |-> c]
              PROVE  \/ hwriter'[session[c]] \in {"close", "done"}
                     \/ \E n \in 1..Len(toHost'[session[c]]) :
                           toHost'[session[c]][n] = [kind |-> "close", client |-> c]
          <6>1. CASE session[c] # i
            BY <2>3, <5>0, <5>3, <6>1
          <6>2. CASE session[c] = i /\ hwriter' # hwriter
            BY <2>7, <6>2
          <6>3. CASE session[c] = i /\ hwriter' = hwriter
            <7>1. m # 1
              BY <2>2, <2>6, <3>1, <5>3, <6>3
            <7>2. m - 1 \in 1..Len(toHost'[i]) /\ (m - 1) + 1 = m
              BY <2>2, <5>3, <6>3, <7>1
            <7>3. toHost'[i][m-1] = toHost[i][m]
              BY <2>2, <7>2
            <7>4. QED BY <5>3, <6>3, <7>2, <7>3
          <6>4. QED BY <6>1, <6>2, <6>3
        <5>4. QED BY <4>4, <5>1, <5>2, <5>3 DEF CloseComes
      <4>5. pcView[c] = "open" \/ (c = f.client /\ (f.kind = "open" \/ hwriter'[i] = "close"))
        <5>1. CASE c = f.client
          BY <2>6, <3>1, <5>1
        <5>2. CASE c # f.client
          BY <2>6, <3>1, <5>2
        <5>3. QED BY <5>1, <5>2
      <4>6. hwriter'[i] = "close" => hwriter' # hwriter
        BY <2>1
      <4>7. QED BY <4>1, <4>2, <4>3, <4>4, <4>5, <4>6
    <3>2. QED BY <1>1, <3>1 DEF CloseComes
  <2>13. QED BY <1>2, <2>8, <2>9, <2>10, <2>11, <2>12
<1>6. CASE HostWriterDrained(i) \/ HostWriterClose(i)
  <2>1. /\ hwriter[i] \in {"idle", "close"} /\ pcView' = pcView
        /\ \E w \in {"close", "done"} : hwriter' = [hwriter EXCEPT ![i] = w]
        /\ toHost' = toHost \/ toHost' = [toHost EXCEPT ![i] = <<>>]
    BY <1>6 DEF HostWriterDrained, HostWriterClose
  <2>2. /\ hwriter'[i] \in {"close", "done"}
        /\ \A j \in Instance : j # i => hwriter'[j] = hwriter[j] /\ toHost'[j] = toHost[j]
        /\ toHost'[i] = toHost[i] \/ toHost'[i] = <<>>
    BY <1>0, <2>1
  <2>3. WriterStarts'
    BY <1>0, <1>1, <2>1 DEF WriterStarts
  <2>4. FramesOfOpened'
    BY <1>1, <2>2 DEF FramesOfOpened
  <2>5. ViewOfOpened'
    BY <1>1, <2>1 DEF ViewOfOpened
  <2>6. CloseBehindOpen'
    <3>1. ASSUME NEW j \in Instance, NEW k \in 1..Len(toHost'[j]),
                 toHost'[j][k].kind = "open",
                 cpc[toHost'[j][k].client] \in Closed,
                 hwriter'[j] \notin {"close", "done"}
          PROVE  \E m \in (k+1)..Len(toHost'[j]) :
                     toHost'[j][m] = [kind |-> "close", client |-> toHost'[j][k].client]
      <4>1. j # i
        BY <2>2, <3>1
      <4>2. toHost'[j] = toHost[j] /\ hwriter'[j] = hwriter[j]
        BY <2>2, <4>1
      <4>3. QED BY <3>1, <4>2 DEF CloseBehindOpen
    <3>2. QED BY <1>1, <3>1 DEF CloseBehindOpen
  <2>7. CloseComes'
    <3>1. ASSUME NEW c \in Clients, pcView[c] = "open"
          PROVE  \/ cpc[c] \in Opened \ Closed
                 \/ hwriter'[session[c]] \in {"close", "done"}
                 \/ \E m \in 1..Len(toHost'[session[c]]) :
                        toHost'[session[c]][m] = [kind |-> "close", client |-> c]
      <4>1. CASE session[c] = i
        BY <2>2, <4>1
      <4>2. CASE session[c] # i
        <5>1. toHost'[session[c]] = toHost[session[c]] /\ hwriter'[session[c]] = hwriter[session[c]]
          BY <1>3, <2>2, <3>1, <4>2
        <5>2. QED BY <3>1, <5>1 DEF CloseComes
      <4>3. QED BY <4>1, <4>2
    <3>2. QED BY <1>1, <2>1, <3>1 DEF CloseComes
  <2>8. QED BY <1>2, <2>3, <2>4, <2>5, <2>6, <2>7
<1>7. QED BY <1>5, <1>6 DEF HostWriter

LEMMA HostLoopToPc ==
    ASSUME TypeInv, RegistryInv, ToPcInv, NEW i \in Instance,
           \/ HostReader(i) \/ \E h \in Hosts : HostStart(h)
           \/ \E l \in HostLinks : HostLinkChange(i, l)
    PROVE  ToPcInv'
<1>0. /\ hpc \in [Instance -> Running \cup {"unborn", "swap", "join", "done"}]
      /\ hwriter \in [Instance -> {"unborn", "idle", "close", "done"}]
  BY DEF TypeInv, TypeOK
<1>1. UNCHANGED <<toHost, pcView, session, cpc>>
  BY DEF HostReader, HostTask, HostStart, HostSwapIn, HostNotifyOld, HostDrainOld,
         HostCancelled, HostEof, HostRouteFast, HostRouteBulk, HostBulkSent,
         HostRemove, HostJoin, HostLinkChange, tunnelVars, hostVars, clientVars,
         phoneVars, attachVars
<1>2. WriterStarts
  BY DEF ToPcInv
<1>3. CASE HostSwapIn(i) \/ HostDrainOld(i)
  <2>1. /\ hpc[i] \in {"swap", "drain"}
        /\ \/ \E p \in {"serve"} : hpc' = [hpc EXCEPT ![i] = p] /\ hwriter' = [hwriter EXCEPT ![i] = "idle"]
           \/ \E p \in {"notify"} : hpc' = [hpc EXCEPT ![i] = p] /\ hwriter' = hwriter
    BY <1>3 DEF HostSwapIn, HostDrainOld, HostGoto
  <2>2. hwriter[i] = "unborn"
    BY <1>2, <2>1 DEF WriterStarts
  <2>3. WriterStarts'
    BY <1>0, <1>2, <2>1, <2>2 DEF WriterStarts
  <2>4. \A j \in Instance :
            hwriter'[j] \in {"close", "done"} <=> hwriter[j] \in {"close", "done"}
    BY <1>0, <2>1, <2>2
  <2>5. QED BY <1>1, <2>3, <2>4, LoopMoves
<1>4. ASSUME UNCHANGED hwriter, WriterStarts' PROVE ToPcInv'
  BY <1>1, <1>4, LoopMoves
<1>5. ASSUME NEW h \in Hosts, HostStart(h) PROVE ToPcInv'
  <2>1. /\ nextInstance \in Instance /\ hpc' = [hpc EXCEPT ![nextInstance] = "swap"]
        /\ UNCHANGED hwriter
    BY <1>5 DEF HostStart, tunnelVars
  <2>2. hpc[nextInstance] = "unborn"
    BY <2>1 DEF RegistryInv, InstancesInOrder, Instance
  <2>3. WriterStarts'
    BY <1>0, <1>2, <2>1, <2>2 DEF WriterStarts
  <2>4. QED BY <1>4, <2>1, <2>3
<1>6. CASE \/ HostNotifyOld(i) \/ HostCancelled(i) \/ HostEof(i) \/ HostRemove(i)
           \/ HostJoin(i) \/ HostBulkSent(i)
  <2>1. /\ \/ hpc[i] = "notify" /\ hpc' = [hpc EXCEPT ![i] = "drain"]
           \/ \E p \in {"serve", "remove", "join", "done"} : hpc' = [hpc EXCEPT ![i] = p]
        /\ UNCHANGED hwriter
    BY <1>6 DEF HostNotifyOld, HostCancelled, HostEof, HostRemove, HostJoin,
                HostBulkSent, HostGoto, tunnelVars
  <2>2. WriterStarts'
    BY <1>0, <1>2, <2>1 DEF WriterStarts
  <2>3. QED BY <1>4, <2>1, <2>2
<1>7. ASSUME NEW c \in Clients, HostRouteFast(i, c) \/ HostRouteBulk(i, c) PROVE ToPcInv'
  <2>1. /\ hpc' = hpc \/ hpc' = [hpc EXCEPT ![i] = "bulk"]
        /\ UNCHANGED hwriter
    BY <1>7 DEF HostRouteFast, HostRouteBulk, HostGoto, hostVars, tunnelVars, registryVars
  <2>2. WriterStarts'
    BY <1>0, <1>2, <2>1 DEF WriterStarts
  <2>3. QED BY <1>4, <2>1, <2>2
<1>8. ASSUME NEW l \in HostLinks, HostLinkChange(i, l) PROVE ToPcInv'
  <2>1. UNCHANGED <<hpc, hwriter>>
    BY <1>8 DEF HostLinkChange, registryVars
  <2>2. QED BY <1>2, <1>4, <2>1 DEF WriterStarts
<1>9. QED BY <1>3, <1>5, <1>6, <1>7, <1>8 DEF HostReader, HostTask

LEMMA ClientLoopToPc ==
    ASSUME TypeInv, ToPcInv, NEW c \in Clients, ClientReader(c)
    PROVE  ToPcInv'
<1> USE DEF ClientGoto
<1>0. session \in [Clients -> Instance \cup {None}] /\ online \in [Hosts -> Instance \cup {None}]
      /\ (cpc[c] = "lookup" => dialled[c] \in Hosts)
  BY DEF TypeInv, TypeOK, LooksUpAHost
<1>1. SessionKnown
  BY DEF ToPcInv
<1>2. CASE ClientLookup(c)
  <2> DEFINE j == online[dialled[c]]
             p == IF j = None THEN "hangup" ELSE "insert"
  <2>1. /\ cpc[c] = "lookup" /\ cpc' = [cpc EXCEPT ![c] = p]
        /\ session' = [session EXCEPT ![c] = j]
        /\ UNCHANGED <<hpc, hwriter, toHost, pcView>>
    BY <1>2 DEF ClientLookup, hostVars, registryVars, tunnelVars
  <2>2. /\ cpc[c] \notin Opened /\ p \notin Opened /\ cpc[c] \notin Closed /\ p \notin Closed
        /\ p \in {"insert", "open", "abort"} => session'[c] \in Instance
    BY <1>0, <2>1 DEF Opened, Closed
  <2> HIDE DEF j, p
  <2>3. QED BY <2>1, <2>2, PhoneMoves
<1>3. ASSUME NEW p, cpc' = [cpc EXCEPT ![c] = p],
             UNCHANGED <<hpc, hwriter, toHost, pcView, session>>,
             \/ cpc[c] = "unborn" /\ p = "lookup"
             \/ cpc[c] = "insert" /\ p = "open"
             \/ cpc[c] = "abort" /\ p = "hangup"
             \/ cpc[c] = "hangup" /\ p = "refused"
             \/ cpc[c] = "serve" /\ p \in {"send", "close"}
             \/ cpc[c] = "remove" /\ p = "join"
             \/ cpc[c] = "join" /\ p = "gone"
      PROVE  ToPcInv'
  <2>1. /\ cpc[c] \in Opened <=> p \in Opened
        /\ cpc[c] \in Closed <=> p \in Closed
        /\ p \in Opened \cup {"insert", "open", "abort"} => session'[c] \in Instance
    BY <1>1, <1>3 DEF Opened, Closed, SessionKnown
  <2>2. QED BY <1>3, <2>1, PhoneMoves
<1>4. ASSUME NEW h \in Hosts, ClientAccept(c, h) PROVE ToPcInv'
  BY <1>3, <1>4 DEF ClientAccept, hostVars, registryVars, tunnelVars
<1>5. CASE ClientInsert(c) \/ ClientAbort(c) \/ ClientRemove(c)
  BY <1>3, <1>5 DEF ClientInsert, ClientAbort, ClientRemove, registryVars, tunnelVars,
                    phoneVars, attachVars
<1>6. CASE ClientHangup(c) \/ ClientRecv(c) \/ ClientEof(c) \/ ClientJoin(c)
  BY <1>3, <1>6 DEF ClientHangup, ClientRecv, ClientEof, ClientJoin, hostVars,
                    registryVars, tunnelVars, phoneVars, attachVars
<1>7. ASSUME NEW kind \in {"open", "data", "close"}, NEW p,
             cpc' = [cpc EXCEPT ![c] = p],
             UNCHANGED <<hpc, hwriter, pcView, session>>,
             toHost' = PushToHost(c, kind), ToHostReady(c),
             \/ /\ cpc[c] = "open" /\ kind = "open"
                /\ p = IF HostRxAlive(session[c]) THEN "serve" ELSE "abort"
             \/ cpc[c] = "send" /\ kind = "data" /\ p \in {"serve", "close"}
             \/ cpc[c] = "close" /\ kind = "close" /\ p = "remove"
      PROVE  ToPcInv'
  <2>0. \/ cpc[c] = "open" /\ kind = "open" /\ p = "serve"
        \/ cpc[c] = "open" /\ kind = "open" /\ p = "abort" /\ ~HostRxAlive(session[c])
        \/ cpc[c] = "send" /\ kind = "data" /\ p \in {"serve", "close"}
        \/ cpc[c] = "close" /\ kind = "close" /\ p = "remove"
    BY <1>7
  <2>1. /\ cpc[c] \in (Opened \ Closed) \cup {"open"}
        /\ p \in Opened \/ (p = "abort" /\ cpc[c] = "open" /\ ~HostRxAlive(session[c]))
        /\ kind = "open" => cpc[c] = "open" /\ p \notin Closed
        /\ p \in Closed => kind = "close"
    BY <2>0 DEF Opened, Closed
  <2>2. QED BY <1>7, <2>1, PhonePushes
<1>8. CASE ClientOpen(c)
  <2> DEFINE p == IF HostRxAlive(session[c]) THEN "serve" ELSE "abort"
  <2>1. /\ cpc' = [cpc EXCEPT ![c] = p] /\ cpc[c] = "open"
        /\ UNCHANGED <<hpc, hwriter, pcView, session>>
        /\ toHost' = PushToHost(c, "open") /\ ToHostReady(c)
    BY <1>8 DEF ClientOpen, registryVars, attachVars
  <2>2. QED BY <1>7, <2>1
<1>9. CASE ClientSent(c)
  <2> DEFINE p == AfterSend(c)
  <2>1. /\ cpc' = [cpc EXCEPT ![c] = p] /\ cpc[c] = "send" /\ p \in {"serve", "close"}
        /\ UNCHANGED <<hpc, hwriter, pcView, session>>
        /\ toHost' = PushToHost(c, "data") /\ ToHostReady(c)
    BY <1>9 DEF ClientSent, AfterSend, registryVars, phoneVars, attachVars
  <2>2. QED BY <1>7, <2>1
<1>10. CASE ClientClose(c)
  <2>1. /\ cpc' = [cpc EXCEPT ![c] = "remove"] /\ cpc[c] = "close"
        /\ UNCHANGED <<hpc, hwriter, pcView, session>>
        /\ toHost' = PushToHost(c, "close") /\ ToHostReady(c)
    BY <1>10 DEF ClientClose, registryVars, phoneVars, attachVars
  <2>2. QED BY <1>7, <2>1
<1>11. CASE ClientPing(c)
  <2>1. UNCHANGED <<hpc, hwriter, toHost, pcView, session, cpc>>
    BY <1>11 DEF ClientPing, hostVars, registryVars, tunnelVars, attachVars
  <2>2. WriterStarts'
    BY <2>1 DEF ToPcInv, WriterStarts
  <2>3. QED BY <2>1, <2>2, LoopMoves
<1>12. QED
  BY <1>2, <1>4, <1>5, <1>6, <1>8, <1>9, <1>10, <1>11 DEF ClientReader, ClientTask

LEMMA ToPcStep == TypeInv /\ RegistryInv /\ ToPcInv /\ [Next]_vars => ToPcInv'
<1> SUFFICES ASSUME TypeInv, RegistryInv, ToPcInv, [Next]_vars PROVE ToPcInv'
  OBVIOUS
<1>1. 1 \in Instance
  BY ConstantsAssumption DEF Instance
<1>2. ASSUME UNCHANGED <<hpc, hwriter, toHost, pcView, session, cpc>> PROVE ToPcInv'
  <2>1. WriterStarts'
    BY <1>2 DEF ToPcInv, WriterStarts
  <2>2. QED BY <1>2, <2>1, LoopMoves
<1>3. ASSUME NEW c \in Clients,
             ClientWriter(c) \/ \E l \in PhoneLinks : ClientLinkChange(c, l)
      PROVE  ToPcInv'
  BY <1>2, <1>3
  DEF ClientWriter, ClientWriterTake, ClientWriterStop, ClientWriterSent, ClientWriterFail,
      ClientWriterClose, ClientLinkChange, hostVars, registryVars, tunnelVars, attachVars
<1>4. CASE UNCHANGED vars
  BY <1>2, <1>4 DEF vars, hostVars, clientVars, registryVars, tunnelVars, phoneVars, attachVars
<1>5. CASE Next
  BY <1>1, <1>3, <1>5, HostLoopToPc, HostWriterToPc, ClientLoopToPc DEF Next
<1>6. QED BY <1>4, <1>5

\* However sessions displace each other, links wedge and queues fill, a PC that
\* believes a phone connected still has its client_loop short of its
\* ClientClose, or the ClientClose queued behind what it waits for, or its
\* tunnel is broken (client_loop's to_host sends, main.rs:800-812, 890-911).
THEOREM PhonesEndReachesPC == Spec => []NoOrphanSession
<1>1. ToPcInv => NoOrphanSession
  <2>1. ASSUME ToPcInv, NEW c \in Clients, pcView[c] = "open"
        PROVE  \/ cpc[c] \in {"serve", "send", "close"}
               \/ [kind |-> "close", client |-> c] \in InFlight(c)
               \/ hwriter[session[c]] \in {"close", "done"}
    BY <2>1 DEF ToPcInv, CloseComes, Opened, Closed, InFlight
  <2>2. QED BY <2>1 DEF NoOrphanSession
<1>2. QED
  BY <1>1, ToPcInit, ToPcStep, TypeInit, TypeStep, RegistryInvariant, PTL DEF Spec

-----------------------------------------------------------------------------
(* The way to the phone: every step keeps ToPhoneInv *)

LEMMA ToPhoneInit == Init => ToPhoneInv
<1> SUFFICES ASSUME Init PROVE ToPhoneInv
  OBVIOUS
<1>1. WriterAt /\ RoutesOwn
  BY DEF Init, WriterAt, RoutesOwn
<1>2. AllNumbered
  BY DEF Init, AllNumbered, Numbered, Taken, Blocked, None
<1>3. QED BY <1>1, <1>2 DEF ToPhoneInv

\* Whoever is blocked on a phone's queue is the reader of its session.
LEMMA BlockedReader ==
    ASSUME TypeInv, RoutesOwn, NEW c \in Clients, NEW i \in Instance,
           routing[i].client = c
    PROVE  /\ hpc[i] = "bulk" /\ session[c] = i /\ Blocked(c)
           /\ cpc[c] \notin {"unborn", "lookup", "insert"}
<1>1. hpc[i] = "bulk"
  BY ConstantsAssumption DEF RoutesOwn, NoFrame
<1>2. QED BY <1>1 DEF RoutesOwn, Blocked, Instance, None

LEMMA BlockedSession ==
    ASSUME TypeInv, NEW c \in Clients, Blocked(c)
    PROVE  session[c] \in Instance /\ routing[session[c]].client = c
  BY DEF TypeInv, TypeOK, Blocked

\* A step that leaves a phone's frames alone leaves them in order.
LEMMA NumberedKept ==
    ASSUME AllNumbered, NEW d \in Clients,
           inHand'[d] = inHand[d], got'[d] = got[d], bulk'[d] = bulk[d],
           routed'[d] = routed[d], Blocked(d)' <=> Blocked(d),
           Blocked(d) => routing'[session'[d]].n = routing[session[d]].n,
           Delivers(d)' => Delivers(d)
    PROVE  Delivers(d)' => Numbered(d)'
<1>1. Delivers(d) => Numbered(d)
  BY DEF AllNumbered
<1>2. Taken(d)' = Taken(d)
  BY DEF Taken
<1> HIDE DEF Delivers
<1>3. SUFFICES ASSUME Numbered(d) PROVE Numbered(d)'
  BY <1>1
<1>4. QED BY <1>2, <1>3 DEF Numbered

\* A step of a host_loop that neither begins nor ends a blocked send.
LEMMA ReaderMoves ==
    ASSUME ToPhoneInv,
           UNCHANGED <<routing, session, cpc, bulk, cwriter, inHand, routed, got>>,
           \A j \in Instance : hpc'[j] = "bulk" <=> hpc[j] = "bulk"
    PROVE  ToPhoneInv'
<1>1. WriterAt'
  BY DEF ToPhoneInv, WriterAt
<1>2. RoutesOwn'
  BY DEF ToPhoneInv, RoutesOwn
<1>3. ASSUME NEW d \in Clients PROVE Delivers(d)' => Numbered(d)'
  <2>1. /\ Blocked(d)' <=> Blocked(d)
        /\ Blocked(d) => routing'[session'[d]].n = routing[session[d]].n
        /\ Delivers(d)' => Delivers(d)
    BY DEF Blocked, Delivers
  <2>2. QED BY <2>1, NumberedKept DEF ToPhoneInv
<1>4. AllNumbered'
  BY <1>3 DEF AllNumbered
<1>5. QED BY <1>1, <1>2, <1>4 DEF ToPhoneInv

\* A client_loop moves; its session is fixed by its lookup.
LEMMA PhoneWalks ==
    ASSUME TypeInv, ToPhoneInv, NEW c \in Clients, NEW p,
           cpc' = [cpc EXCEPT ![c] = p],
           UNCHANGED <<hpc, routing, bulk, cwriter, inHand, routed, got>>,
           \/ session' = session
           \/ cpc[c] = "lookup" /\ \E j \in Instance \cup {None} : session' = [session EXCEPT ![c] = j],
           p \in {"unborn", "lookup", "insert", "open", "abort", "hangup", "refused"}
               => cwriter[c] = "unborn",
           p = "gone" => cwriter[c] = "done",
           p \in {"unborn", "lookup", "insert"} => cpc[c] \in {"unborn", "lookup", "insert"},
           cpc[c] # "refused"
    PROVE  ToPhoneInv'
<1> USE DEF ToPhoneInv
<1>0. /\ cpc \in [Clients -> Attached \cup {"unborn", "lookup", "gone", "refused"}]
      /\ session \in [Clients -> Instance \cup {None}]
  BY DEF TypeInv, TypeOK
<1>1. \A d \in Clients : d # c => cpc'[d] = cpc[d] /\ session'[d] = session[d]
  BY <1>0
<1>2. cpc'[c] = p /\ (session'[c] = session[c] \/ (cpc[c] = "lookup" /\ session'[c] \in Instance \cup {None}))
  BY <1>0
<1>3. WriterAt'
  BY <1>0 DEF WriterAt
<1>4. RoutesOwn'
  <2>1. ASSUME NEW i \in Instance, hpc[i] = "bulk"
        PROVE  /\ session'[routing[i].client] = i
               /\ cpc'[routing[i].client] \notin {"unborn", "lookup", "insert"}
    <3>1. routing[i].client \in Clients
      BY <2>1 DEF TypeInv, RoutesAFrame
    <3>2. session[routing[i].client] = i /\ cpc[routing[i].client] \notin {"unborn", "lookup", "insert"}
      BY <2>1 DEF RoutesOwn
    <3>3. CASE routing[i].client = c
      BY <1>2, <3>2, <3>3
    <3>4. CASE routing[i].client # c
      BY <1>1, <3>1, <3>2, <3>4
    <3>5. QED BY <3>3, <3>4
  <2>2. QED BY <2>1 DEF RoutesOwn
<1>5. ASSUME NEW d \in Clients PROVE Delivers(d)' => Numbered(d)'
  <2>1. (Blocked(d)' <=> Blocked(d)) /\ (Blocked(d) => session'[d] = session[d])
    <3>1. CASE session'[d] = session[d]
      BY <3>1 DEF Blocked
    <3>2. CASE session'[d] # session[d]
      <4>1. d = c /\ cpc[d] = "lookup" /\ session'[d] \in Instance \cup {None}
        BY <1>1, <1>2, <3>2
      <4>2. ~Blocked(d)
        BY <4>1, BlockedSession, BlockedReader
      <4>3. ~Blocked(d)'
        BY <4>1, BlockedReader DEF Blocked
      <4>4. QED BY <4>2, <4>3
    <3>3. QED BY <3>1, <3>2
  <2>2. Delivers(d)' => Delivers(d)
    <3>1. CASE d = c
      BY <3>1 DEF Delivers
    <3>2. CASE d # c
      BY <1>1, <3>2 DEF Delivers
    <3>3. QED BY <3>1, <3>2
  <2>3. QED BY <2>1, <2>2, NumberedKept
<1>6. QED BY <1>3, <1>4, <1>5 DEF AllNumbered

\* The host reader takes a must-deliver frame for a mapped phone.
LEMMA BulkRouted ==
    ASSUME TypeInv, MappedWhileAttached, ToPhoneInv,
           NEW i \in Instance, NEW c \in Clients, HostRouteBulk(i, c)
    PROVE  ToPhoneInv'
<1> USE DEF ToPhoneInv
<1>0. /\ hpc \in [Instance -> Running \cup {"unborn", "swap", "join", "done"}]
      /\ routing \in [Instance -> {NoFrame} \cup [client : Clients, n : 1..MaxBulk]]
      /\ routed \in [Clients -> 0..MaxBulk]
      /\ MaxBulk \in Nat
  BY ConstantsAssumption DEF TypeInv, TypeOK
<1>1. /\ hpc[i] = "serve" /\ hpc' = [hpc EXCEPT ![i] = "bulk"] /\ c \in clients[i]
      /\ routed' = [routed EXCEPT ![c] = routed[c] + 1]
      /\ routing' = [routing EXCEPT ![i] = [client |-> c, n |-> routed[c] + 1]]
      /\ UNCHANGED <<session, cpc, bulk, cwriter, inHand, got>>
  BY DEF HostRouteBulk, HostGetsFrameFor, HostGoto, attachVars
<1>2. session[c] = i /\ cpc[c] \in {"open", "serve", "send", "close", "remove", "abort"}
  BY <1>1 DEF MappedWhileAttached
<1>3. routing[i] = NoFrame /\ NoFrame.client = NoHost /\ NoHost \notin Clients
  BY <1>1, ConstantsAssumption DEF RoutesOwn, NoFrame
<1>4. /\ routing'[i] = [client |-> c, n |-> routed[c] + 1] /\ hpc'[i] = "bulk"
      /\ \A j \in Instance : j # i => routing'[j] = routing[j] /\ hpc'[j] = hpc[j]
  BY <1>0, <1>1
<1>5. WriterAt'
  BY <1>1 DEF WriterAt
<1>6. RoutesOwn'
  <2>1. ASSUME NEW j \in Instance
        PROVE  /\ hpc'[j] = "bulk" =>
                    /\ session'[routing'[j].client] = j
                    /\ cpc'[routing'[j].client] \notin {"unborn", "lookup", "insert"}
               /\ hpc'[j] # "bulk" => routing'[j] = NoFrame
    <3>1. CASE j = i
      BY <1>1, <1>2, <1>4, <3>1
    <3>2. CASE j # i
      BY <1>1, <1>4, <3>2 DEF RoutesOwn
    <3>3. QED BY <3>1, <3>2
  <2>2. QED BY <2>1 DEF RoutesOwn
<1>7. ASSUME NEW d \in Clients, d # c PROVE Delivers(d)' => Numbered(d)'
  <2>1. /\ Blocked(d)' <=> Blocked(d)
        /\ Blocked(d) => routing'[session'[d]].n = routing[session[d]].n
    <3>1. session[d] \in Instance \cup {None}
      BY DEF TypeInv, TypeOK
    <3>2. CASE session[d] = i
      BY <1>1, <1>3, <1>4, <1>7, <3>2 DEF Blocked
    <3>3. CASE session[d] # i
      BY <1>1, <1>4, <3>1, <3>3 DEF Blocked
    <3>4. QED BY <3>2, <3>3
  <2>2. routed'[d] = routed[d]
    BY <1>0, <1>1, <1>7
  <2>3. Delivers(d)' => Delivers(d)
    BY <1>1 DEF Delivers
  <2>4. QED BY <1>1, <2>1, <2>2, <2>3, NumberedKept
<1>8. Delivers(c)' => Numbered(c)'
  <2>1. SUFFICES ASSUME Delivers(c)' PROVE Numbered(c)'
    OBVIOUS
  <2>2. Numbered(c)
    BY <1>1, <2>1 DEF AllNumbered, Delivers
  <2>3. ~Blocked(c)
    BY <1>2, <1>3 DEF Blocked
  <2>4. Blocked(c)' /\ routing'[session'[c]].n = routed[c] + 1
    BY <1>1, <1>2, <1>4 DEF Blocked, Instance, None
  <2>5. Taken(c)' = Taken(c)
    BY <1>1 DEF Taken
  <2>6. routed'[c] = routed[c] + 1 /\ routed[c] = Taken(c) + Len(bulk[c]) + 0
    BY <1>0, <1>1, <2>2, <2>3 DEF Numbered
  <2>7. /\ routed[c] \in Nat /\ Len(bulk[c]) \in Nat /\ Taken(c) \in Nat
    BY <1>0 DEF TypeInv, TypeOK, Taken
  <2>8. routed'[c] = Taken(c)' + Len(bulk'[c]) + 1
    BY <1>1, <2>5, <2>6, <2>7
  <2>9. \A k \in 1..Len(bulk'[c]) : bulk'[c][k] = Taken(c)' + k
    BY <1>1, <2>2, <2>5 DEF Numbered
  <2>10. inHand'[c] # 0 => inHand'[c] = got'[c] + 1
    BY <1>1, <2>2 DEF Numbered
  <2> HIDE DEF Taken
  <2>11. QED BY <2>4, <2>6, <2>8, <2>9, <2>10 DEF Numbered
<1>9. QED BY <1>5, <1>6, <1>7, <1>8 DEF AllNumbered

\* The blocked send returns: the frame is queued, or the phone is leaving.
LEMMA BulkQueued ==
    ASSUME TypeInv, ToPhoneInv, NEW i \in Instance, HostBulkSent(i)
    PROVE  ToPhoneInv'
<1> USE DEF ToPhoneInv
<1>0. /\ hpc \in [Instance -> Running \cup {"unborn", "swap", "join", "done"}]
      /\ routing \in [Instance -> {NoFrame} \cup [client : Clients, n : 1..MaxBulk]]
      /\ bulk \in [Clients -> Seq(1..MaxBulk)]
  BY DEF TypeInv, TypeOK
<1>b. hpc[i] = "bulk"
  BY DEF HostBulkSent, HostGoto
<1>c. PICK c \in Clients, n \in 1..MaxBulk : c = routing[i].client /\ n = routing[i].n
  BY <1>b DEF TypeInv, RoutesAFrame
<1>1. /\ hpc[i] = "bulk" /\ hpc' = [hpc EXCEPT ![i] = "serve"]
      /\ BulkSendReady(c)
      /\ bulk' = IF PhoneRxAlive(c) /\ BulkHasRoom(c)
                 THEN [bulk EXCEPT ![c] = Append(bulk[c], n)] ELSE bulk
      /\ routing' = [routing EXCEPT ![i] = NoFrame]
      /\ UNCHANGED <<session, cpc, cwriter, inHand, routed, got>>
  BY <1>c DEF HostBulkSent, HostGoto, attachVars
<1>2. c \in Clients /\ n \in 1..MaxBulk
  BY <1>c
<1>3. session[c] = i /\ cpc[c] \notin {"unborn", "lookup", "insert"} /\ Blocked(c)
  BY <1>1, <1>2, <1>c, BlockedReader
<1>4. /\ routing'[i] = NoFrame /\ hpc'[i] = "serve" /\ NoFrame.client = NoHost /\ NoHost \notin Clients
      /\ \A j \in Instance : j # i => routing'[j] = routing[j] /\ hpc'[j] = hpc[j]
  BY <1>0, <1>1, ConstantsAssumption DEF NoFrame
<1>5. WriterAt'
  BY <1>1 DEF WriterAt
<1>6. RoutesOwn'
  <2>1. ASSUME NEW j \in Instance
        PROVE  /\ hpc'[j] = "bulk" =>
                    /\ session'[routing'[j].client] = j
                    /\ cpc'[routing'[j].client] \notin {"unborn", "lookup", "insert"}
               /\ hpc'[j] # "bulk" => routing'[j] = NoFrame
    <3>1. CASE j = i
      BY <1>4, <3>1
    <3>2. CASE j # i
      BY <1>1, <1>4, <3>2 DEF RoutesOwn
    <3>3. QED BY <3>1, <3>2
  <2>2. QED BY <2>1 DEF RoutesOwn
<1>7. ASSUME NEW d \in Clients, d # c PROVE Delivers(d)' => Numbered(d)'
  <2>1. /\ Blocked(d)' <=> Blocked(d)
        /\ Blocked(d) => routing'[session'[d]].n = routing[session[d]].n
    <3>1. session[d] \in Instance \cup {None}
      BY DEF TypeInv, TypeOK
    <3>2. CASE session[d] = i
      BY <1>1, <1>c, <1>4, <1>7, <3>2 DEF Blocked
    <3>3. CASE session[d] # i
      BY <1>1, <1>4, <3>1, <3>3 DEF Blocked
    <3>4. QED BY <3>2, <3>3
  <2>2. bulk'[d] = bulk[d]
    BY <1>0, <1>1, <1>7
  <2>3. Delivers(d)' => Delivers(d)
    BY <1>1 DEF Delivers
  <2>4. QED BY <1>1, <2>1, <2>2, <2>3, NumberedKept
<1>8. Delivers(c)' => Numbered(c)'
  <2>1. SUFFICES ASSUME Delivers(c)' PROVE Numbered(c)'
    OBVIOUS
  <2>2. Numbered(c) /\ cwriter[c] \notin {"close", "done"} /\ cpc[c] # "refused"
    BY <1>1, <1>2, <2>1 DEF AllNumbered, Delivers
  <2>3. PhoneRxAlive(c)
    BY <1>2, <2>2 DEF PhoneRxAlive, WriterAt
  <2>4. bulk'[c] = Append(bulk[c], n)
    BY <1>0, <1>1, <1>2, <2>3 DEF BulkSendReady
  <2>5. /\ Len(bulk'[c]) = Len(bulk[c]) + 1 /\ Len(bulk[c]) \in Nat
        /\ \A k \in 1..Len(bulk[c]) : bulk'[c][k] = bulk[c][k]
        /\ bulk'[c][Len(bulk[c]) + 1] = n
    BY <1>0, <1>2, <2>4, AppendProperties
  <2>6. Taken(c)' = Taken(c)
    BY <1>1 DEF Taken
  <2>7. Taken(c) \in Nat
    BY <1>2 DEF TypeInv, TypeOK, Taken
  <2>8. routed[c] = Taken(c) + Len(bulk[c]) + 1 /\ n = routed[c]
    BY <1>3, <1>c, <2>2 DEF Numbered
  <2>9. \A k \in 1..Len(bulk[c]) : bulk[c][k] = Taken(c) + k
    BY <2>2 DEF Numbered
  <2>10. ASSUME NEW k \in 1..Len(bulk'[c]) PROVE bulk'[c][k] = Taken(c)' + k
    <3>1. CASE k \in 1..Len(bulk[c])
      BY <2>5, <2>6, <2>9, <3>1
    <3>2. CASE k = Len(bulk[c]) + 1
      BY <2>5, <2>6, <2>7, <2>8, <3>2
    <3>3. QED BY <2>5, <3>1, <3>2
  <2>11. ~Blocked(c)'
    BY <1>1, <1>2, <1>3, <1>4 DEF Blocked
  <2>12. routed'[c] = Taken(c)' + Len(bulk'[c]) + 0
    BY <1>1, <2>5, <2>6, <2>7, <2>8
  <2>13. inHand'[c] # 0 => inHand'[c] = got'[c] + 1
    BY <1>1, <2>2 DEF Numbered
  <2> HIDE DEF Taken
  <2>14. QED BY <2>10, <2>11, <2>12, <2>13 DEF Numbered
<1>9. QED BY <1>2, <1>5, <1>6, <1>7, <1>8 DEF AllNumbered

LEMMA ClientHangupToPhone ==
    ASSUME TypeInv, ToPhoneInv, NEW c \in Clients,
           ClientHangup(c) \/ ClientWriterClose(c)
    PROVE  ToPhoneInv'
<1> USE DEF ToPhoneInv
<1>0. /\ cpc \in [Clients -> Attached \cup {"unborn", "lookup", "gone", "refused"}]
      /\ cwriter \in [Clients -> {"unborn", "idle", "pong", "data", "close", "done"}]
      /\ bulk \in [Clients -> Seq(1..MaxBulk)]
  BY DEF TypeInv, TypeOK
<1>1. /\ \/ cpc[c] = "hangup" /\ cpc' = [cpc EXCEPT ![c] = "refused"] /\ cwriter' = cwriter
         \/ cpc' = cpc /\ cwriter[c] = "close" /\ cwriter' = [cwriter EXCEPT ![c] = "done"]
      /\ bulk' = [bulk EXCEPT ![c] = <<>>]
      /\ UNCHANGED <<hpc, routing, session, inHand, routed, got>>
  BY DEF ClientHangup, ClientWriterClose, ClientGoto, WriterGoto, hostVars, registryVars, attachVars
<1>2. WriterAt'
  BY <1>0, <1>1 DEF WriterAt
<1>3. RoutesOwn'
  <2>1. ASSUME NEW i \in Instance, hpc[i] = "bulk"
        PROVE  cpc'[routing[i].client] \notin {"unborn", "lookup", "insert"}
    <3>1. routing[i].client \in Clients /\ cpc[routing[i].client] \notin {"unborn", "lookup", "insert"}
      BY <2>1 DEF TypeInv, RoutesAFrame, RoutesOwn
    <3>2. QED BY <1>0, <1>1, <3>1
  <2>2. QED BY <1>1, <2>1 DEF RoutesOwn
<1>4. ASSUME NEW d \in Clients PROVE Delivers(d)' => Numbered(d)'
  <2>1. CASE d = c
    BY <1>0, <1>1, <2>1 DEF Delivers
  <2>2. CASE d # c
    <3>1. bulk'[d] = bulk[d] /\ cpc'[d] = cpc[d] /\ cwriter'[d] = cwriter[d]
      BY <1>0, <1>1, <2>2
    <3>2. /\ Blocked(d)' <=> Blocked(d)
          /\ Blocked(d) => routing'[session'[d]].n = routing[session[d]].n
      BY <1>1 DEF Blocked
    <3>3. Delivers(d)' => Delivers(d)
      BY <3>1 DEF Delivers
    <3>4. QED BY <1>1, <3>1, <3>2, <3>3, NumberedKept
  <2>3. QED BY <2>1, <2>2
<1>5. QED BY <1>2, <1>3, <1>4 DEF AllNumbered

\* The phone's writer task, but for its end.
LEMMA WriterToPhone ==
    ASSUME TypeInv, ToPhoneInv, NEW c \in Clients,
           \/ ClientWriterTake(c) \/ ClientWriterStop(c)
           \/ ClientWriterSent(c) \/ ClientWriterFail(c)
    PROVE  ToPhoneInv'
<1> USE DEF ToPhoneInv
<1>0. /\ cwriter \in [Clients -> {"unborn", "idle", "pong", "data", "close", "done"}]
      /\ bulk \in [Clients -> Seq(1..MaxBulk)] /\ fast \in [Clients -> Seq({0})]
      /\ inHand \in [Clients -> 0..MaxBulk] /\ got \in [Clients -> 0..MaxBulk]
      /\ routed \in [Clients -> 0..MaxBulk]
      /\ MaxBulk \in Nat
  BY ConstantsAssumption DEF TypeInv, TypeOK
<1>1. UNCHANGED <<hpc, routing, session, cpc, routed>>
  BY DEF ClientWriterTake, ClientWriterStop, ClientWriterSent, ClientWriterFail,
         hostVars, registryVars, attachVars
<1>2. /\ cwriter[c] \in {"idle", "pong", "data"}
      /\ \E w \in {"idle", "pong", "data", "close"} :
            /\ cwriter' = [cwriter EXCEPT ![c] = w]
            /\ w # "data" => inHand'[c] = 0
      /\ \A d \in Clients : d # c => inHand'[d] = inHand[d] /\ got'[d] = got[d] /\ bulk'[d] = bulk[d]
  <2>1. cwriter[c] # "data" => inHand[c] = 0
    BY DEF WriterAt
  <2>2. CASE ClientWriterTake(c)
    <3>1. CASE inHand' = inHand /\ bulk' = bulk /\ WriterGoto(c, "idle", "pong")
      BY <1>0, <2>1, <2>2, <3>1 DEF ClientWriterTake, WriterGoto
    <3>2. CASE WriterGoto(c, "idle", "data")
      BY <1>0, <2>2, <3>2 DEF ClientWriterTake, WriterGoto
    <3>3. QED BY <2>2, <3>1, <3>2 DEF ClientWriterTake
  <2>3. CASE ClientWriterStop(c)
    BY <1>0, <2>1, <2>3 DEF ClientWriterStop, WriterGoto, BreakOnNone
  <2>4. CASE ClientWriterSent(c)
    BY <1>0, <2>4 DEF ClientWriterSent, WriterGoto
  <2>5. CASE ClientWriterFail(c)
    BY <1>0, <2>5 DEF ClientWriterFail, WriterGoto
  <2>6. QED BY <2>2, <2>3, <2>4, <2>5
<1>3. WriterAt'
  <2>1. ASSUME NEW d \in Clients
        PROVE  /\ cpc'[d] \in {"unborn", "lookup", "insert", "open", "abort", "hangup", "refused"}
                    => cwriter'[d] = "unborn"
               /\ cpc'[d] = "gone" => cwriter'[d] = "done"
               /\ cwriter'[d] # "data" => inHand'[d] = 0
    <3>1. CASE d = c
      BY <1>0, <1>1, <1>2, <3>1 DEF WriterAt
    <3>2. CASE d # c
      BY <1>0, <1>1, <1>2, <3>2 DEF WriterAt
    <3>3. QED BY <3>1, <3>2
  <2>2. QED BY <2>1 DEF WriterAt
<1>4. RoutesOwn'
  BY <1>1 DEF RoutesOwn
<1>5. ASSUME NEW d \in Clients, d # c PROVE Delivers(d)' => Numbered(d)'
  <2>1. /\ Blocked(d)' <=> Blocked(d)
        /\ Blocked(d) => routing'[session'[d]].n = routing[session[d]].n
    BY <1>1 DEF Blocked
  <2>2. Delivers(d)' => Delivers(d)
    BY <1>0, <1>1, <1>2, <1>5 DEF Delivers
  <2>3. QED BY <1>1, <1>2, <1>5, <2>1, <2>2, NumberedKept
<1>6. Delivers(c)' => Numbered(c)'
  <2>1. SUFFICES ASSUME Delivers(c)' PROVE Numbered(c)'
    OBVIOUS
  <2>2. Numbered(c)
    BY <1>1, <1>2, <2>1 DEF AllNumbered, Delivers
  <2>3. /\ inHand[c] # 0 => inHand[c] = got[c] + 1
        /\ \A k \in 1..Len(bulk[c]) : bulk[c][k] = Taken(c) + k
        /\ Blocked(c) => routing[session[c]].n = routed[c]
        /\ routed[c] = Taken(c) + Len(bulk[c]) + (IF Blocked(c) THEN 1 ELSE 0)
    BY <2>2 DEF Numbered
  <2>4. /\ Blocked(c)' <=> Blocked(c)
        /\ Blocked(c)' => routing'[session'[c]].n = routed'[c]
        /\ routed'[c] = routed[c]
    BY <1>1, <2>3 DEF Blocked
  <2>5. Len(bulk[c]) \in Nat /\ got[c] \in Nat /\ inHand[c] \in Nat
    BY <1>0
  <2>6. ASSUME bulk' = bulk, Taken(c)' = Taken(c),
               inHand'[c] # 0 => inHand'[c] = got'[c] + 1
        PROVE  Numbered(c)'
    <3> HIDE DEF Taken, Blocked
    <3>1. QED BY <2>3, <2>4, <2>6 DEF Numbered
  <2>7. CASE ClientWriterStop(c) \/ ClientWriterFail(c)
    <3>1. cwriter'[c] = "close"
      BY <1>0, <2>7 DEF ClientWriterStop, ClientWriterFail, WriterGoto, BreakOnNone
    <3>2. QED BY <2>1, <3>1 DEF Delivers
  <2>8. CASE ClientWriterSent(c)
    <3>1. /\ got'[c] = IF inHand[c] = 0 THEN got[c] ELSE inHand[c]
          /\ inHand'[c] = 0 /\ bulk' = bulk
      BY <1>0, <2>8 DEF ClientWriterSent
    <3>2. Taken(c)' = Taken(c)
      BY <2>3, <2>5, <3>1 DEF Taken
    <3>3. QED BY <2>6, <3>1, <3>2
  <2>9. CASE ClientWriterTake(c)
    <3>1. cwriter[c] = "idle" /\ got' = got
      BY <2>9 DEF ClientWriterTake, WriterGoto
    <3>2. inHand[c] = 0
      BY <3>1 DEF WriterAt
    <3>3. CASE inHand' = inHand /\ bulk' = bulk
      <4>1. Taken(c)' = Taken(c)
        BY <3>1, <3>3 DEF Taken
      <4>2. QED BY <2>3, <2>6, <3>1, <3>3, <4>1
    <3>4. CASE fast[c] # <<>> /\ inHand' = [inHand EXCEPT ![c] = Head(fast[c])] /\ bulk' = bulk
      <4>1. Head(fast[c]) \in {0}
        BY <1>0, <3>4
      <4>2. inHand'[c] = 0
        BY <1>0, <3>4, <4>1
      <4>3. Taken(c)' = Taken(c)
        BY <3>1, <3>2, <4>2 DEF Taken
      <4>4. QED BY <2>6, <3>4, <4>2, <4>3
    <3>5. CASE /\ bulk[c] # <<>> /\ bulk' = [bulk EXCEPT ![c] = Tail(bulk[c])]
               /\ inHand' = [inHand EXCEPT ![c] = Head(bulk[c])]
      <4>1. /\ bulk[c] \in Seq(1..MaxBulk) /\ bulk'[c] = Tail(bulk[c])
            /\ inHand'[c] = Head(bulk[c])
        BY <1>0, <3>5
      <4>2. /\ Len(bulk'[c]) = Len(bulk[c]) - 1 /\ Len(bulk[c]) \in Nat \ {0}
            /\ \A k \in 1..Len(bulk'[c]) : bulk'[c][k] = bulk[c][k+1]
            /\ inHand'[c] = bulk[c][1]
        <5>1. /\ Len(Tail(bulk[c])) = Len(bulk[c]) - 1
              /\ \A k \in 1..Len(Tail(bulk[c])) : Tail(bulk[c])[k] = bulk[c][k+1]
          BY <3>5, <4>1, HeadTailProperties
        <5>2. Head(bulk[c]) = bulk[c][1] /\ Len(bulk[c]) \in Nat \ {0}
          BY <3>5, <4>1
        <5>3. QED BY <4>1, <5>1, <5>2
      <4>3. Taken(c) = got[c] /\ inHand'[c] = got[c] + 1
        BY <2>3, <2>5, <3>2, <4>2 DEF Taken
      <4>4. Taken(c)' = Taken(c) + 1
        BY <2>5, <3>1, <4>3 DEF Taken
      <4>5. \A k \in 1..Len(bulk'[c]) : bulk'[c][k] = Taken(c)' + k
        <5>1. ASSUME NEW k \in 1..Len(bulk'[c]) PROVE bulk'[c][k] = Taken(c)' + k
          <6>1. k + 1 \in 1..Len(bulk[c]) /\ k \in Nat
            BY <4>2
          <6>2. bulk'[c][k] = Taken(c) + (k + 1)
            BY <2>3, <4>2, <6>1
          <6>3. Taken(c) \in Nat
            BY <2>5, <4>3
          <6> HIDE DEF Taken
          <6>4. QED BY <4>4, <6>1, <6>2, <6>3
        <5>2. QED BY <5>1
      <4>6. routed'[c] = Taken(c)' + Len(bulk'[c]) + (IF Blocked(c)' THEN 1 ELSE 0)
        <5>1. Taken(c) \in Nat
          BY <2>5, <4>3
        <5>2. Taken(c)' + Len(bulk'[c]) = Taken(c) + Len(bulk[c])
          <6> HIDE DEF Taken
          <6>1. QED BY <2>5, <4>2, <4>4, <5>1
        <5> HIDE DEF Taken, Blocked
        <5>3. QED BY <2>3, <2>4, <5>2
      <4>7. inHand'[c] = got'[c] + 1
        BY <3>1, <4>3
      <4> HIDE DEF Taken, Blocked
      <4>8. QED BY <2>4, <4>5, <4>6, <4>7 DEF Numbered
    <3>6. QED BY <2>9, <3>3, <3>4, <3>5 DEF ClientWriterTake
  <2>10. QED BY <2>7, <2>8, <2>9
<1>7. QED BY <1>3, <1>4, <1>5, <1>6 DEF AllNumbered

LEMMA ClientLoopToPhone ==
    ASSUME TypeInv, ToPhoneInv, NEW c \in Clients, ClientReader(c)
    PROVE  ToPhoneInv'
<1> USE DEF ToPhoneInv, ClientGoto
<1>0. /\ cpc \in [Clients -> Attached \cup {"unborn", "lookup", "gone", "refused"}]
      /\ cwriter \in [Clients -> {"unborn", "idle", "pong", "data", "close", "done"}]
      /\ online \in [Hosts -> Instance \cup {None}]
      /\ (cpc[c] = "lookup" => dialled[c] \in Hosts)
  BY DEF TypeInv, TypeOK, LooksUpAHost
<1>1. /\ cpc[c] \in {"unborn", "lookup", "insert", "open", "abort", "hangup", "refused"}
           => cwriter[c] = "unborn"
      /\ cwriter[c] # "data" => inHand[c] = 0
  BY DEF WriterAt
<1>2. CASE ClientLookup(c)
  <2> DEFINE j == online[dialled[c]]
             p == IF j = None THEN "hangup" ELSE "insert"
  <2>1. /\ cpc[c] = "lookup" /\ cpc' = [cpc EXCEPT ![c] = p]
        /\ session' = [session EXCEPT ![c] = j]
        /\ UNCHANGED <<hpc, routing, bulk, cwriter, inHand, routed, got>>
    BY <1>2 DEF ClientLookup, hostVars, registryVars, deliveryVars
  <2>2. /\ j \in Instance \cup {None} /\ p \in {"insert", "hangup"}
        /\ cwriter[c] = "unborn"
    BY <1>0, <1>1, <2>1
  <2> HIDE DEF j, p
  <2>3. QED BY <2>1, <2>2, PhoneWalks
<1>3. ASSUME NEW p, cpc' = [cpc EXCEPT ![c] = p],
             UNCHANGED <<hpc, routing, session, bulk, cwriter, inHand, routed, got>>,
             \/ cpc[c] = "unborn" /\ p = "lookup"
             \/ cpc[c] = "insert" /\ p = "open"
             \/ cpc[c] = "abort" /\ p = "hangup"
             \/ cpc[c] = "serve" /\ p \in {"send", "close"}
             \/ cpc[c] = "send" /\ p \in {"serve", "close"}
             \/ cpc[c] = "close" /\ p = "remove"
             \/ cpc[c] = "remove" /\ p = "join"
             \/ cpc[c] = "join" /\ p = "gone" /\ cwriter[c] = "done"
      PROVE  ToPhoneInv'
  <2>1. /\ p \in {"unborn", "lookup", "insert", "open", "abort", "hangup", "refused"}
             => cwriter[c] = "unborn"
        /\ p = "gone" => cwriter[c] = "done"
        /\ p \in {"unborn", "lookup", "insert"} => cpc[c] \in {"unborn", "lookup", "insert"}
        /\ cpc[c] # "refused"
    BY <1>1, <1>3
  <2>2. QED BY <1>3, <2>1, PhoneWalks
<1>4. ASSUME NEW h \in Hosts, ClientAccept(c, h) PROVE ToPhoneInv'
  BY <1>3, <1>4 DEF ClientAccept, hostVars, registryVars, deliveryVars
<1>5. CASE ClientInsert(c) \/ ClientAbort(c) \/ ClientRemove(c) \/ ClientClose(c)
  BY <1>3, <1>5 DEF ClientInsert, ClientAbort, ClientRemove, ClientClose, registryVars,
                    phoneVars, attachVars, deliveryVars
<1>6. CASE ClientRecv(c) \/ ClientEof(c) \/ ClientJoin(c)
  BY <1>3, <1>6 DEF ClientRecv, ClientEof, ClientJoin, hostVars,
                    registryVars, phoneVars, attachVars, deliveryVars
<1>7. CASE ClientSent(c)
  <2>1. AfterSend(c) \in {"serve", "close"}
    BY DEF AfterSend
  <2>2. /\ cpc' = [cpc EXCEPT ![c] = AfterSend(c)] /\ cpc[c] = "send"
        /\ UNCHANGED <<hpc, routing, session, bulk, cwriter, inHand, routed, got>>
    BY <1>7 DEF ClientSent, registryVars, phoneVars, attachVars, deliveryVars
  <2>3. QED BY <1>3, <2>1, <2>2
<1>8. CASE ClientPing(c)
  BY <1>8, ReaderMoves DEF ClientPing, hostVars, registryVars, attachVars
<1>9. CASE ClientHangup(c)
  BY <1>9, ClientHangupToPhone
<1>10. CASE ClientOpen(c)
  <2>1. /\ cpc[c] = "open" /\ cwriter[c] = "unborn" /\ inHand[c] = 0
        /\ \/ cpc' = [cpc EXCEPT ![c] = "serve"] /\ cwriter' = [cwriter EXCEPT ![c] = "idle"]
           \/ cpc' = [cpc EXCEPT ![c] = "abort"] /\ cwriter' = cwriter
        /\ UNCHANGED <<hpc, routing, session, bulk, inHand, routed, got>>
    BY <1>1, <1>10 DEF ClientOpen, registryVars, attachVars
  <2>2. WriterAt'
    BY <1>0, <2>1 DEF WriterAt
  <2>3. RoutesOwn'
    <3>1. ASSUME NEW i \in Instance, hpc[i] = "bulk"
          PROVE  cpc'[routing[i].client] \notin {"unborn", "lookup", "insert"}
      <4>1. routing[i].client \in Clients /\ cpc[routing[i].client] \notin {"unborn", "lookup", "insert"}
        BY <3>1 DEF TypeInv, RoutesAFrame, RoutesOwn
      <4>2. QED BY <1>0, <2>1, <4>1
    <3>2. QED BY <2>1, <3>1 DEF RoutesOwn
  <2>4. ASSUME NEW d \in Clients PROVE Delivers(d)' => Numbered(d)'
    <3>1. /\ Blocked(d)' <=> Blocked(d)
          /\ Blocked(d) => routing'[session'[d]].n = routing[session[d]].n
      BY <2>1 DEF Blocked
    <3>2. Delivers(d)' => Delivers(d)
      <4>1. CASE d = c
        BY <2>1, <4>1 DEF Delivers
      <4>2. CASE d # c
        BY <1>0, <2>1, <4>2 DEF Delivers
      <4>3. QED BY <4>1, <4>2
    <3>3. QED BY <2>1, <3>1, <3>2, NumberedKept
  <2>5. QED BY <2>2, <2>3, <2>4 DEF AllNumbered
<1>11. QED
  BY <1>2, <1>4, <1>5, <1>6, <1>7, <1>8, <1>9, <1>10 DEF ClientReader, ClientTask

LEMMA HostLoopToPhone ==
    ASSUME TypeInv, RegistryInv, MappedWhileAttached, ToPhoneInv, NEW i \in Instance,
           \/ HostReader(i) \/ \E h \in Hosts : HostStart(h)
           \/ HostWriter(i) \/ \E l \in HostLinks : HostLinkChange(i, l)
    PROVE  ToPhoneInv'
<1>0. hpc \in [Instance -> Running \cup {"unborn", "swap", "join", "done"}]
  BY DEF TypeInv, TypeOK
<1>1. ASSUME UNCHANGED <<routing, clientVars>>,
             \/ hpc' = hpc
             \/ \E j \in Instance, p \in {"swap", "notify", "drain", "serve", "remove", "join", "done"} :
                    hpc[j] # "bulk" /\ hpc' = [hpc EXCEPT ![j] = p]
      PROVE  ToPhoneInv'
  <2>1. UNCHANGED <<routing, session, cpc, bulk, cwriter, inHand, routed, got>>
    BY <1>1 DEF clientVars, phoneVars, attachVars, deliveryVars
  <2>2. \A j \in Instance : hpc'[j] = "bulk" <=> hpc[j] = "bulk"
    BY <1>0, <1>1
  <2>3. QED BY <2>1, <2>2, ReaderMoves
<1>2. ASSUME NEW h \in Hosts, HostStart(h) PROVE ToPhoneInv'
  <2>1. /\ nextInstance \in Instance /\ hpc' = [hpc EXCEPT ![nextInstance] = "swap"]
        /\ UNCHANGED <<routing, clientVars>>
    BY <1>2 DEF HostStart
  <2>2. hpc[nextInstance] = "unborn"
    BY <2>1 DEF RegistryInv, InstancesInOrder, Instance
  <2>3. QED BY <1>1, <2>1, <2>2
<1>3. CASE \/ HostSwapIn(i) \/ HostNotifyOld(i) \/ HostDrainOld(i) \/ HostCancelled(i)
           \/ HostEof(i) \/ HostRemove(i) \/ HostJoin(i)
  <2>1. /\ UNCHANGED <<routing, clientVars>> /\ hpc[i] # "bulk"
        /\ \E p \in {"swap", "notify", "drain", "serve", "remove", "join", "done"} :
              hpc' = [hpc EXCEPT ![i] = p]
    BY <1>3 DEF HostSwapIn, HostNotifyOld, HostDrainOld, HostCancelled, HostEof,
                HostRemove, HostJoin, HostGoto
  <2>2. QED BY <1>1, <2>1
<1>4. CASE HostWriter(i) \/ \E l \in HostLinks : HostLinkChange(i, l)
  <2>1. UNCHANGED <<routing, clientVars, hpc>>
    BY <1>4 DEF HostWriter, HostWriterSend, HostWriterDrained, HostWriterClose,
                HostLinkChange, registryVars
  <2>2. QED BY <1>1, <2>1
<1>5. ASSUME NEW c \in Clients, HostRouteFast(i, c) PROVE ToPhoneInv'
  BY <1>5, ReaderMoves DEF HostRouteFast, hostVars, registryVars, attachVars
<1>6. QED
  BY <1>2, <1>3, <1>4, <1>5, BulkRouted, BulkQueued DEF HostReader, HostTask

LEMMA ToPhoneStep ==
    TypeInv /\ RegistryInv /\ MappedWhileAttached /\ ToPhoneInv /\ [Next]_vars
        => ToPhoneInv'
<1> SUFFICES ASSUME TypeInv, RegistryInv, MappedWhileAttached, ToPhoneInv, [Next]_vars
             PROVE  ToPhoneInv'
  OBVIOUS
<1>1. 1 \in Instance
  BY ConstantsAssumption DEF Instance
<1>2. ASSUME NEW c \in Clients,
             ClientWriter(c) \/ \E l \in PhoneLinks : ClientLinkChange(c, l)
      PROVE  ToPhoneInv'
  <2>1. ASSUME NEW l \in PhoneLinks, ClientLinkChange(c, l) PROVE ToPhoneInv'
    BY <2>1, ReaderMoves
    DEF ClientLinkChange, hostVars, registryVars, attachVars, deliveryVars
  <2>2. QED BY <1>2, <2>1, WriterToPhone, ClientHangupToPhone DEF ClientWriter
<1>3. CASE UNCHANGED vars
  BY <1>3, ReaderMoves
  DEF vars, hostVars, clientVars, registryVars, phoneVars, attachVars, deliveryVars
<1>4. CASE Next
  BY <1>1, <1>2, <1>4, HostLoopToPhone, ClientLoopToPhone DEF Next
<1>5. QED BY <1>3, <1>4

\* Frames in order, element by element, are the interval from got to routed.
LEMMA NumberedIsOrdered ==
    ASSUME TypeInv, RoutesOwn, NEW c \in Clients, Numbered(c)
    PROVE  Pending(c) = [k \in 1..(routed[c] - got[c]) |-> got[c] + k]
<1> DEFINE held    == IF inHand[c] = 0 THEN <<>> ELSE <<inHand[c]>>
           blocked == IF Blocked(c) THEN <<routing[session[c]].n>> ELSE <<>>
           n       == routed[c] - got[c]
           run     == [k \in 1..n |-> got[c] + k]
<1>1. /\ bulk[c] \in Seq(Nat) /\ Len(bulk[c]) \in Nat
      /\ got[c] \in Nat /\ routed[c] \in Nat /\ inHand[c] \in Nat
  <2>1. /\ bulk[c] \in Seq(1..MaxBulk) /\ got[c] \in 0..MaxBulk /\ routed[c] \in 0..MaxBulk
        /\ inHand[c] \in 0..MaxBulk
    BY DEF TypeInv, TypeOK
  <2>2. QED BY <2>1, ConstantsAssumption
<1>2. /\ inHand[c] # 0 => inHand[c] = got[c] + 1
      /\ \A k \in 1..Len(bulk[c]) : bulk[c][k] = Taken(c) + k
      /\ Blocked(c) => routing[session[c]].n = routed[c]
      /\ routed[c] = Taken(c) + Len(bulk[c]) + (IF Blocked(c) THEN 1 ELSE 0)
  BY DEF Numbered
<1> HIDE DEF Blocked
<1>3. /\ held \in Seq(Nat) /\ Len(held) = (IF inHand[c] = 0 THEN 0 ELSE 1)
      /\ inHand[c] # 0 => held[1] = inHand[c]
  BY <1>1
<1>4. /\ blocked \in Seq(Nat) /\ Len(blocked) = (IF Blocked(c) THEN 1 ELSE 0)
      /\ Blocked(c) => blocked[1] = routed[c]
  BY <1>1, <1>2
<1>5. Pending(c) = held \o bulk[c] \o blocked
  BY DEF Pending, Blocked
<1> HIDE DEF held, blocked
<1>6. PICK a \in {0, 1}, b \in Nat, e \in {0, 1} :
           a = Len(held) /\ b = Len(bulk[c]) /\ e = Len(blocked)
  BY <1>1, <1>3, <1>4
<1>7. Taken(c) = got[c] + a
  BY <1>3, <1>6 DEF Taken
<1> HIDE DEF Taken
<1> DEFINE front == held \o bulk[c]
<1>8. /\ front \in Seq(Nat) /\ Len(front) = a + b
      /\ \A k \in 1..(a + b) :
            front[k] = IF k <= a THEN held[k] ELSE bulk[c][k - a]
  BY <1>1, <1>3, <1>6, ConcatProperties
<1>f. front = held \o bulk[c]
  OBVIOUS
<1> HIDE DEF front
<1>9. /\ front \o blocked \in Seq(Nat)
      /\ Len(front \o blocked) = (a + b) + e
      /\ \A k \in 1..((a + b) + e) :
            (front \o blocked)[k] = IF k <= a + b THEN front[k] ELSE blocked[k - (a + b)]
  <2>1. front \in Seq(Nat) /\ blocked \in Seq(Nat) /\ Len(front) = a + b /\ Len(blocked) = e
    BY <1>4, <1>6, <1>8
  <2>2. /\ front \o blocked \in Seq(Nat)
        /\ Len(front \o blocked) = Len(front) + Len(blocked)
        /\ \A k \in 1..(Len(front) + Len(blocked)) :
              (front \o blocked)[k] =
                  IF k <= Len(front) THEN front[k] ELSE blocked[k - Len(front)]
    BY <2>1, ConcatProperties
  <2>3. QED BY <2>1, <2>2
<1> DEFINE all == front \o blocked
<1>a. /\ all \in Seq(Nat) /\ Len(all) = (a + b) + e
      /\ \A k \in 1..((a + b) + e) :
            all[k] = IF k <= a + b THEN front[k] ELSE blocked[k - (a + b)]
  BY <1>9
<1>b. Pending(c) = all
  BY <1>5, <1>f
<1> HIDE DEF all
<1>10. n = (a + b) + e /\ n \in Nat /\ routed[c] = got[c] + ((a + b) + e)
  <2>1. e = IF Blocked(c) THEN 1 ELSE 0
    BY <1>4, <1>6
  <2>2. routed[c] = got[c] + a + b + e
    BY <1>2, <1>6, <1>7, <2>1
  <2>3. got[c] \in Nat /\ routed[c] \in Nat /\ a \in Nat /\ e \in Nat
    BY <1>1
  <2>4. routed[c] = got[c] + ((a + b) + e)
    BY <2>2, <2>3
  <2>5. QED BY <2>3, <2>4
<1>11. run \in Seq(Nat) /\ Len(run) = n /\ \A k \in 1..n : run[k] = got[c] + k
  BY <1>1, <1>10
<1> HIDE DEF n, run
<1>12. ASSUME NEW k \in 1..n PROVE all[k] = got[c] + k
  <2>0. k \in 1..((a + b) + e) /\ k \in Nat
    BY <1>10
  <2>1. CASE k <= a
    <3>1. k = 1 /\ a = 1 /\ k \in 1..(a + b) /\ k <= a + b
      BY <2>0, <2>1
    <3>2. all[k] = front[k]
      BY <1>a, <2>0, <3>1
    <3>5. front[k] = held[k]
      BY <1>8, <2>1, <3>1
    <3>3. inHand[c] # 0
      BY <1>3, <1>6, <3>1
    <3>4. QED BY <1>2, <1>3, <3>1, <3>2, <3>3, <3>5
  <2>2. CASE k > a /\ k <= a + b
    <3>1. k - a \in 1..b /\ k \in 1..(a + b) /\ ~(k <= a)
      BY <2>0, <2>2
    <3>2. all[k] = bulk[c][k - a]
      BY <1>8, <1>a, <2>0, <2>2, <3>1
    <3>3. bulk[c][k - a] = got[c] + a + (k - a)
      BY <1>2, <1>6, <1>7, <3>1
    <3>4. QED BY <1>1, <2>0, <3>2, <3>3
  <2>3. CASE k > a + b
    <3>1. k = (a + b) + e /\ e = 1 /\ k - (a + b) = 1 /\ ~(k <= a + b)
      BY <2>0, <2>3
    <3>2. all[k] = blocked[1]
      BY <1>a, <2>0, <3>1
    <3>3. Blocked(c)
      BY <1>4, <1>6, <3>1
    <3>4. QED BY <1>4, <1>10, <3>1, <3>2, <3>3
  <2>4. QED BY <2>0, <2>1, <2>2, <2>3
<1>13. Pending(c) = run
  BY <1>10, <1>11, <1>12, <1>a, <1>b, SeqEqual
<1>14. QED BY <1>13 DEF n, run

\* The frames a phone must not miss (FILE chunks, text) reach its link in the
\* order in which the PC sent them and without a gap as long as its writer
\* runs, for any queue capacities, sessions and phones (main.rs:652-700 and
\* the biased select of client_loop's writer, 816-855).
THEOREM FramesInOrder == Spec => []BulkInOrder
<1>1. TypeInv /\ ToPhoneInv => BulkInOrder
  BY NumberedIsOrdered DEF ToPhoneInv, AllNumbered, Delivers, BulkInOrder
<1>2. Init => MappedWhileAttached
  BY DEF Init, MappedWhileAttached
<1>3. QED
  BY <1>1, <1>2, MapStep, ToPhoneInit, ToPhoneStep, TypeInit, TypeStep,
     RegistryInvariant, PTL DEF Spec

-----------------------------------------------------------------------------
(***************************************************************************)
(* What the registry's file keeps, for any number of PCs and of            *)
(* registrations at once.                                                  *)
(*                                                                         *)
(* Neither property is inductive.  What makes them true is that a handler  *)
(* that persists alone has the temporary file for itself, and a snapshot   *)
(* of all the memory knows (LoneHandler); that a file two handlers cannot  *)
(* have touched is whole and on the disk (CleanFiles); and that a PC whose *)
(* handler is through is in the memory or known to be unsaved (KnownHosts).*)
(***************************************************************************)

Through == {h \in HostIds : pc[h] \in {"reply", "acked"}}

\* Who writes has the file open; who shares the time with another is known.
Handles ==
    /\ \A h \in HostIds : pc[h] = "write" => handle[h] \in Inode
    /\ \A g, h \in Persisting : g # h => g \in overlapped
    /\ \A h \in Persisting : h \in snapshot[h] /\ snapshot[h] \subseteq hosts

LoneHandler ==
    \A h \in Persisting \ overlapped :
        /\ snapshot[h] = hosts
        /\ pc[h] # "open" => tmp = handle[h] /\ tmp \in Inode
        /\ pc[h] = "write" => file[tmp] = Empty
        /\ pc[h] \in {"sync", "rename"} =>
              file[tmp] = [head |-> snapshot[h], extent |-> snapshot[h]]
        /\ pc[h] = "rename" => tmp \in synced \cup unflushed

\* A file that one handler at a time wrote is whole and on the disk, or its
\* sync failed, and then it is whole until a power loss meets it.
CleanFiles ==
    \A i \in ({target} \cup older) \cap (Inode \ mixed) :
        /\ i \in synced \cup unflushed
        /\ i \notin Torn => Parses(file[i])

KnownHosts ==
    /\ Through \subseteq hosts \cup unsaved
    /\ target \notin mixed => Through \subseteq Load(file, target) \cup unsaved

StoreInv == StoreTypeOK /\ Handles /\ LoneHandler /\ CleanFiles /\ KnownHosts

LEMMA NoInodeIsNone == NoInode \notin Inode
  BY DEF NoInode, Inode

LEMMA StoreStarts == StoreInit => StoreInv
  BY NoInodeIsNone
  DEF StoreInit, StoreInv, StoreTypeOK, Handles, LoneHandler, CleanFiles, KnownHosts,
      Persisting, Through, Empty

-----------------------------------------------------------------------------
LEMMA RegisterStep ==
  ASSUME StoreInv, NEW h \in HostIds, Register(h)
  PROVE  StoreInv'
  <1> USE DEF StoreInv, Register, Goto, InsertFirst
  <1>1. StoreTypeOK'  BY DEF StoreTypeOK, Persisting, diskVars
  <1>2. Handles'  BY <1>1 DEF StoreTypeOK, Handles, Persisting, diskVars
  <1>3. LoneHandler'  BY DEF StoreTypeOK, Handles, LoneHandler, Persisting, diskVars
  <1>4. CleanFiles'  BY DEF CleanFiles, Torn, diskVars
  <1>5. KnownHosts'  BY DEF StoreTypeOK, KnownHosts, Through, diskVars, Load
  <1> QED  BY <1>1, <1>2, <1>3, <1>4, <1>5

LEMMA OpenTmpStep ==
  ASSUME StoreInv, NEW h \in HostIds, OpenTmp(h)
  PROVE  StoreInv'
  <1> USE DEF StoreInv, OpenTmp, Goto, Touch
  <1>0. PICK i \in IF tmp = NoInode THEN FreeInodes ELSE {tmp} :
          /\ handle' = [handle EXCEPT ![h] = i]
          /\ file' = [file EXCEPT ![i] = Empty]
          /\ synced' = synced \ {i}
          /\ tmp' = i
          /\ Touch(h, i)
    OBVIOUS
  <1>a. i \in Inode /\ i # NoInode /\ i \notin {target} \cup older
    BY <1>0, NoInodeIsNone DEF StoreTypeOK, FreeInodes
  <1>1. StoreTypeOK'  BY <1>0, <1>a DEF StoreTypeOK, Empty
  <1>2. Handles'  BY <1>0, <1>a DEF StoreTypeOK, Handles, Persisting
  <1>3. LoneHandler'
    BY <1>0, <1>a DEF StoreTypeOK, Handles, LoneHandler, Persisting
  <1>4. CleanFiles'  BY <1>0, <1>a DEF StoreTypeOK, CleanFiles, Torn
  <1>5. KnownHosts'
    BY <1>0, <1>a DEF StoreTypeOK, KnownHosts, Through, Load
  <1> QED  BY <1>1, <1>2, <1>3, <1>4, <1>5

LEMMA WriteTmpStep ==
  ASSUME StoreInv, NEW h \in HostIds, WriteTmp(h)
  PROVE  StoreInv'
  <1> USE DEF StoreInv, WriteTmp, Goto, Touch
  <1>a. handle[h] \in Inode /\ h \in Persisting  BY DEF Handles, Persisting
  <1>b. h \notin overlapped => handle[h] \notin {target} \cup older
    BY <1>a, NoInodeIsNone DEF StoreTypeOK, LoneHandler
  <1>1. StoreTypeOK'  BY <1>a DEF StoreTypeOK
  <1>2. Handles'  BY <1>a DEF StoreTypeOK, Handles, Persisting
  <1>3. LoneHandler'
    <2> SUFFICES ASSUME h \in (Persisting \ overlapped)'
                 PROVE  /\ snapshot[h] = hosts /\ tmp = handle[h] /\ tmp \in Inode
                        /\ file'[tmp] = [head |-> snapshot[h], extent |-> snapshot[h]]
      BY <1>a DEF StoreTypeOK, Handles, LoneHandler, Persisting
    <2>1. /\ snapshot[h] = hosts /\ tmp = handle[h] /\ tmp \in Inode
          /\ file[tmp] = Empty
      BY <1>a DEF LoneHandler
    <2>2. file[tmp].extent \cup snapshot[h] = snapshot[h]
      BY <2>1 DEF Empty
    <2> QED  BY <2>1, <2>2 DEF StoreTypeOK
  <1>c. \A i \in Inode \ {handle[h]} :
           file'[i] = file[i] /\ (i \in synced' <=> i \in synced)
    BY DEF StoreTypeOK
  <1>4. CleanFiles'
    <2> SUFFICES ASSUME NEW i \in ({target} \cup older) \cap (Inode \ mixed')
                 PROVE  /\ i \in synced' \cup unflushed
                        /\ i \notin Torn' => Parses(file'[i])
      BY DEF CleanFiles
    <2>1. i # handle[h] /\ i \in Inode \ mixed  BY <1>b
    <2>2. i \in synced \cup unflushed /\ (i \notin Torn => Parses(file[i]))
      BY <2>1 DEF CleanFiles
    <2> QED  BY <1>c, <2>1, <2>2 DEF Torn
  <1>5. KnownHosts'
    BY <1>a, <1>b DEF StoreTypeOK, KnownHosts, Through, Load
  <1> QED  BY <1>1, <1>2, <1>3, <1>4, <1>5

LEMMA FsyncStep ==
  ASSUME StoreInv, NEW h \in HostIds, Fsync(h)
  PROVE  StoreInv'
  <1> USE DEF StoreInv, Fsync, Goto, SyncTmp
  <1>1. StoreTypeOK'  BY DEF StoreTypeOK
  <1>2. Handles'  BY DEF StoreTypeOK, Handles, Persisting
  <1>3. LoneHandler'
    BY NoInodeIsNone DEF StoreTypeOK, Handles, LoneHandler, Persisting
  <1>4. CleanFiles'  BY NoInodeIsNone DEF StoreTypeOK, CleanFiles, Torn
  <1>5. KnownHosts'  BY DEF StoreTypeOK, KnownHosts, Through, Load
  <1> QED  BY <1>1, <1>2, <1>3, <1>4, <1>5

\* A sync that fails leaves the disk as it is, and the history names the file.
LEMMA SyncFailsStep ==
  ASSUME StoreInv, NEW h \in HostIds, SyncFails(h)
  PROVE  StoreInv'
  <1> USE DEF StoreInv, SyncFails, Goto, diskVars
  <1>1. StoreTypeOK'  BY DEF StoreTypeOK
  <1>2. Handles'  BY DEF StoreTypeOK, Handles, Persisting
  <1>3. LoneHandler'
    BY NoInodeIsNone DEF StoreTypeOK, Handles, LoneHandler, Persisting
  <1>4. CleanFiles'  BY NoInodeIsNone DEF StoreTypeOK, CleanFiles, Torn
  <1>5. KnownHosts'  BY DEF StoreTypeOK, KnownHosts, Through, Load
  <1> QED  BY <1>1, <1>2, <1>3, <1>4, <1>5

\* A lone handler's rename makes the file all that the memory knows; after
\* any other one the file is mixed.
LEMMA RenameStep ==
  ASSUME StoreInv, NEW h \in HostIds, Rename(h)
  PROVE  StoreInv'
  <1> USE DEF StoreInv, Rename, Goto, MovedAway, Touch
  <1>a. h \in Persisting /\ tmp \in Inode /\ tmp \notin {target} \cup older
    BY DEF StoreTypeOK, Persisting
  <1>b. target' = tmp /\ tmp # NoInode /\ file' = file  OBVIOUS
  <1>1. StoreTypeOK'
    BY <1>a DEF StoreTypeOK
  <1>2. Handles'  BY <1>a DEF StoreTypeOK, Handles, Persisting
  <1>3. LoneHandler'
    BY <1>a DEF StoreTypeOK, Handles, LoneHandler, Persisting
  <1>4. CASE h \in overlapped
    <2>1. CleanFiles'  BY <1>4, <1>a DEF StoreTypeOK, CleanFiles, Torn
    <2>2. KnownHosts'
      BY <1>4, <1>a DEF StoreTypeOK, Handles, KnownHosts, Through
    <2> QED  BY <1>1, <1>2, <1>3, <2>1, <2>2
  <1>5. CASE h \notin overlapped
    <2>1. /\ file[tmp] = [head |-> hosts, extent |-> hosts]
          /\ tmp \in synced \cup unflushed
          /\ h \in hosts /\ snapshot[h] = hosts
      BY <1>5, <1>a DEF LoneHandler, Handles
    <2>2. Parses(file[tmp])  BY <2>1 DEF Parses, Empty
    <2>3. CleanFiles'  BY <1>5, <1>a, <2>1, <2>2 DEF StoreTypeOK, CleanFiles, Torn
    <2>4. Load(file, tmp) = hosts  BY <1>b, <2>1, <2>2 DEF Load
    <2>5. KnownHosts'
      BY <1>a, <1>b, <2>1, <2>4 DEF StoreTypeOK, KnownHosts, Through
    <2> QED  BY <1>1, <1>2, <1>3, <2>3, <2>5
  <1> QED  BY <1>4, <1>5

\* The persist is given up, or its end is told to the PC.
LEMMA PersistEndStep ==
  ASSUME StoreInv, NEW h \in HostIds,
         RenameFails(h) \/ WriteFails(h) \/ Reply(h)
  PROVE  StoreInv'
  <1> USE DEF StoreInv, RenameFails, WriteFails, Reply, AfterPersist, Goto,
              diskVars, history
  <1>1. StoreTypeOK'  BY DEF StoreTypeOK
  <1>2. Handles'  BY DEF StoreTypeOK, Handles, Persisting
  <1>3. LoneHandler'  BY DEF StoreTypeOK, LoneHandler, Persisting
  <1>4. CleanFiles'  BY DEF StoreTypeOK, CleanFiles, Torn
  <1>5. KnownHosts'  BY DEF StoreTypeOK, KnownHosts, Through, Load
  <1> QED  BY <1>1, <1>2, <1>3, <1>4, <1>5

\* No handler is left; what the memory loses is unsaved.
LEMMA BootStep ==
  ASSUME StoreInv, NEW i \in {target} \cup older, Boot(i, file'),
         target' = i, older' \in {older, {}}, tmp' \in {tmp, NoInode},
         file' \in [Inode -> [head : SUBSET HostIds, extent : SUBSET HostIds]],
         \A j \in ({target} \cup older) \cap synced : file'[j] = file[j],
         synced' = Inode \/ (synced' = synced /\ file' = file),
         i = target \/ older' = {}
  PROVE  StoreInv'
  <1> USE DEF StoreInv, Boot, history
  <1>0. Load(file', i) \subseteq HostIds
    BY DEF StoreTypeOK, Load, Parses
  <1>1. StoreTypeOK'
    BY <1>0, NoInodeIsNone DEF StoreTypeOK, Registering, Persisting
  <1>2. Persisting' = {}
    BY DEF StoreTypeOK, Registering, Persisting
  <1>3. Handles' /\ LoneHandler'
    BY <1>2 DEF StoreTypeOK, Handles, LoneHandler, Persisting
  <1>4. CleanFiles'  BY DEF StoreTypeOK, CleanFiles, Torn
  <1>5. Through' \subseteq Through
    BY DEF StoreTypeOK, Through, Registering
  <1>6. i = target /\ i \notin mixed \cup unflushed => Load(file', i) = Load(file, target)
    BY DEF StoreTypeOK, CleanFiles, Load
  <1>7. KnownHosts'  BY <1>5, <1>6 DEF KnownHosts
  <1> QED  BY <1>1, <1>3, <1>4, <1>7

LEMMA CrashStep ==
  ASSUME StoreInv, Restart \/ PowerLoss
  PROVE  StoreInv'
  <1>1. CASE Restart
    <2>1. Boot(target, file') /\ UNCHANGED diskVars
      BY <1>1 DEF Restart, diskVars
    <2> QED  BY <2>1, BootStep DEF StoreInv, StoreTypeOK, diskVars
  <1>2. CASE PowerLoss
    <2>1. PICK gone \in SUBSET (Inode \ synced), t \in {target} \cup older :
            /\ file' = [i \in Inode |-> IF i \in gone THEN Empty ELSE file[i]]
            /\ target' = t
            /\ Boot(t, file')
      BY <1>2 DEF PowerLoss
    <2>2. /\ synced' = Inode /\ older' = {}
          /\ tmp' \in {tmp, NoInode}
      BY <1>2 DEF PowerLoss
    <2>3. file' \in [Inode -> [head : SUBSET HostIds, extent : SUBSET HostIds]]
      BY <2>1 DEF StoreInv, StoreTypeOK, Empty
    <2>4. \A j \in ({target} \cup older) \cap synced : file'[j] = file[j]
      BY <2>1 DEF StoreInv, StoreTypeOK
    <2> QED  BY <2>1, <2>2, <2>3, <2>4, BootStep
  <1> QED  BY <1>1, <1>2

LEMMA StoreInvStep == StoreInv /\ [StoreNext]_storeVars => StoreInv'
  <1> SUFFICES ASSUME StoreInv, [StoreNext]_storeVars  PROVE StoreInv'
    OBVIOUS
  <1>1. CASE UNCHANGED storeVars
    BY <1>1 DEF storeVars, handlerVars, diskVars, history, StoreInv, StoreTypeOK,
       Handles, LoneHandler, CleanFiles, Torn, KnownHosts, Persisting, Through, Load
  <1> QED
    BY <1>1, RegisterStep, OpenTmpStep, WriteTmpStep, FsyncStep, SyncFailsStep,
       RenameStep, PersistEndStep, CrashStep DEF StoreNext

LEMMA StoreInvariant == StoreSpec => []StoreInv
  BY StoreStarts, StoreInvStep, PTL DEF StoreSpec

-----------------------------------------------------------------------------
\* A PC that has its token is registered after every crash, but for the
\* exceptions AcknowledgedSurvive names: persist_hosts_to_disk of a handler
\* that runs alone leaves the file with all that was known.
THEOREM TokensSurvive == StoreSpec => []AcknowledgedSurvive
  <1>1. StoreInv => AcknowledgedSurvive
    BY DEF StoreInv, KnownHosts, AcknowledgedSurvive, Through
  <1> QED  BY <1>1, StoreInvariant, PTL

\* hosts_file is one whole snapshot, whatever fails and whenever the relay or
\* the machine stops, unless two handlers had the temporary file at once.
THEOREM FileIsWhole == StoreSpec => []NeverHalfWritten
  <1>1. StoreInv => NeverHalfWritten
    BY DEF StoreInv, CleanFiles, NeverHalfWritten
  <1> QED  BY <1>1, StoreInvariant, PTL
=============================================================================
