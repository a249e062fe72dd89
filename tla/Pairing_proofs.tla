--------------------------- MODULE Pairing_proofs ---------------------------
(***************************************************************************)
(* Four safety properties of Pairing, for any number of PCs, dials, codes  *)
(* and crashes and any set of faults.  They rest on one inductive          *)
(* invariant, PairingInv, whose conjuncts are proved in turn, each with    *)
(* the help of those before it.                                            *)
(***************************************************************************)
EXTENDS Pairing, TLAPS

\* What pendingHello, the socket and the fallback name was dialled, and a
\* number that was not yet dialled has left no trace.
Numbered ==
    /\ pending = dials
    /\ webSocket <= dials /\ fallback <= dials /\ newly.device <= dials
    /\ \A n \in Servers : entries[n].device <= dials
    /\ \A d \in Dial : retryOf[d] <= dials
    /\ \A d \in Dial : d > dials =>
          /\ ws[d] = "none" /\ logic[d] = "none" /\ reply[d] = "none"
          /\ signed[d] = None /\ token[d] = FALSE /\ retryOf[d] = None

\* Only a code has the PC sign, and nobody hears of a handshake, or keeps what
\* came of it, before it is over.
Over(d) == logic[d] \in {"auth", "back"}
Ordered ==
    \A d \in Dial :
        /\ logic[d] \in {"key", "mint"} \/ signed[d] # None => hello[d].kind = "qr"
        /\ reply[d] # "none" \/ session = d \/ newly.device = d => Over(d)
        /\ \A n \in Servers : entries[n].device = d => Over(d)
        /\ ws[d] = "dialing" => logic[d] = "none"

\* The code of a connection that got past verify_and_consume is used up.
Used ==
    \A d \in Dial : logic[d] = "key" \/ signed[d] # None =>
        \/ hello[d].value < code[server[d]]
        \/ hello[d].value = code[server[d]] /\ usable[server[d]] = "consumed"

\* What the file holds the memory holds, and so does a device on its way to the
\* file; what the phone is about to keep is in the file.
Kept ==
    /\ \A s \in Servers : disk[s] \subseteq trusted[s] \cup lost
    /\ \A d \in Dial :
          logic[d] = "save" /\ hello[d].kind = "qr" => d \in trusted[server[d]]
    /\ newly # NoNews => newly.device \in disk[server[newly.device]] \cup lost

\* A number that was not dialled says nothing.
Undialled == \A d \in Dial : d > dials => hello[d].kind = "none"

PairingInv ==
    /\ TypeOK /\ Numbered /\ Ordered
    /\ Used /\ CodePairsOnce
    /\ Kept /\ TokenIsOnDisk
    /\ Undialled /\ WrongKeyTakesNothing
    /\ FallbackOnce

-----------------------------------------------------------------------------
LEMMA NoneIsNoDial ==
    None \notin Dial /\ Dial \subseteq Nat /\ None \notin Code /\ 1 \in Code
  BY PairingAssumption DEF None, Dial, Code

LEMMA InitTypes == Init => TypeOK /\ Numbered
<1> SUFFICES ASSUME Init PROVE TypeOK /\ Numbered
  OBVIOUS
<1> USE PairingAssumption, NoneIsNoDial DEF Init, NoHello, NoNews, NoEntry, None
<1>1. TypeOK
  BY DEF TypeOK, Dial, Code
<1>2. Numbered
  BY DEF Numbered
<1> QED BY <1>1, <1>2

LEMMA DevicesAreNumbers ==
    TypeOK => newly.device \in Nat /\ \A n \in Servers : entries[n].device \in Nat
<1> SUFFICES ASSUME TypeOK
             PROVE  newly.device \in Nat /\ \A n \in Servers : entries[n].device \in Nat
  OBVIOUS
<1> USE NoneIsNoDial DEF NoNews, NoEntry, None
<1>1. newly \in {NoNews} \cup [device : Dial, url : Dial, name : Servers]
  BY DEF TypeOK
<1>2. newly.device \in Nat
  <2>1. CASE newly = NoNews
    BY <2>1
  <2>2. CASE newly \in [device : Dial, url : Dial, name : Servers]
    BY <2>2
  <2> QED BY <1>1, <2>1, <2>2
<1>3. ASSUME NEW n \in Servers PROVE entries[n].device \in Nat
  <2>1. entries[n] \in {NoEntry} \cup [device : Dial, url : Dial]
    BY DEF TypeOK
  <2>2. CASE entries[n] = NoEntry
    BY <2>2
  <2>3. CASE entries[n] \in [device : Dial, url : Dial]
    BY <2>3
  <2> QED BY <2>1, <2>2, <2>3
<1> QED BY <1>2, <1>3

\* A new dial is numbered next and starts from nothing.
LEMMA Dialling ==
    ASSUME TypeOK, Numbered,
           NEW s \in Servers, NEW v \in {"lan", "relay"},
           NEW h \in {NoHello} \cup [kind : {"qr"}, value : Code]
                               \cup [kind : {"trusted"}, value : Dial],
           NEW primary \in 0..dials,
           NewDial(s, v, h, primary)
    PROVE  /\ dials' = dials + 1 /\ dials' \in 1..MaxDial /\ dials' \in Dial
           /\ webSocket' = dials' /\ pending' = dials'
           /\ server' \in [Dial -> Servers] /\ via' \in [Dial -> {"lan", "relay"}]
           /\ hello' \in [Dial -> {NoHello} \cup [kind : {"qr"}, value : Code]
                                   \cup [kind : {"trusted"}, value : Dial]]
           /\ ws' \in [Dial -> {"none", "dialing", "open", "closing", "closed"}]
           /\ retryOf' \in [Dial -> Dial \cup {None}]
           /\ state' = "Connecting"
           /\ \A d \in Dial : retryOf'[d] <= dials'
           /\ \A d \in Dial : d > dials' => ws'[d] = "none" /\ retryOf'[d] = None
           /\ \A d \in Dial : d # dials' /\ ws'[d] = "dialing" => ws[d] = "dialing"
           /\ \A d \in Dial : d # dials' =>
                 server'[d] = server[d] /\ hello'[d] = hello[d] /\ retryOf'[d] = retryOf[d]
           /\ hello'[dials'] = h /\ server'[dials'] = s /\ retryOf'[dials'] = primary
<1> USE PairingAssumption, NoneIsNoDial
<1>1. /\ dials \in 0..MaxDial /\ dials + 1 \in Dial /\ dials + 1 \in 1..MaxDial
      /\ dials' = dials + 1 /\ primary \in Dial \cup {None} /\ primary <= dials
  BY DEF NewDial, TypeOK, Dial, None
<1>2. ws' \in [Dial -> {"none", "dialing", "open", "closing", "closed"}]
  BY <1>1 DEF NewDial, TypeOK, Closing
<1>3. \A d \in Dial : d > dials' => ws'[d] = "none" /\ retryOf'[d] = None
  BY <1>1 DEF NewDial, TypeOK, Closing, Numbered, Dial
<1>4. \A d \in Dial : retryOf'[d] <= dials'
  BY <1>1 DEF NewDial, TypeOK, Numbered, Dial, None
<1>5. \A d \in Dial : d # dials' /\ ws'[d] = "dialing" => ws[d] = "dialing"
  BY <1>1 DEF NewDial, TypeOK, Closing
<1> QED BY <1>1, <1>2, <1>3, <1>4, <1>5 DEF NewDial, TypeOK

LEMMA TypesStep == TypeOK /\ Numbered /\ [Next]_vars => TypeOK' /\ Numbered'
<1> SUFFICES ASSUME TypeOK, Numbered, [Next]_vars PROVE TypeOK' /\ Numbered'
  OBVIOUS
<1> USE PairingAssumption, NoneIsNoDial
<1>1. ASSUME NEW s \in Servers, NEW v \in Vias, NEW both \in BOOLEAN, Scan(s, v, both)
      PROVE  TypeOK' /\ Numbered'
  <2>1. [kind |-> "qr", value |-> code[s]] \in [kind : {"qr"}, value : Code]
    BY DEF TypeOK
  <2>2. None \in 0..dials /\ v \in {"lan", "relay"}
    <3>1. dials \in 0..MaxDial
      BY DEF TypeOK
    <3> QED BY <3>1 DEF None
  <2>3. NewDial(s, v, [kind |-> "qr", value |-> code[s]], None)
    BY <1>1 DEF Scan
  <2> HIDE DEF NoHello
  <2>4. fallback' \in Dial \cup {None} /\ fallback' <= dials'
    BY <1>1, <2>1, <2>2, <2>3, Dialling DEF Scan, None, Dial
  <2>5. TypeOK'
    BY <1>1, <2>1, <2>2, <2>3, <2>4, Dialling DEF Scan, TypeOK, pcVars, connVars
  <2>6. Numbered'
    <3>1. UNCHANGED <<connVars, reply, newly, entries>>
      BY <1>1 DEF Scan
    <3>2. dials \in Nat /\ dials' = dials + 1 /\ webSocket' = dials' /\ pending' = dials'
      BY <2>1, <2>2, <2>3, <2>4, <3>1, Dialling DEF TypeOK
    <3>3. fallback' <= dials'
      BY <2>1, <2>2, <2>3, <2>4, <3>1, <3>2, Dialling DEF TypeOK, Numbered, None
    <3>4. newly'.device <= dials' /\ \A n \in Servers : entries'[n].device <= dials'
      BY <3>1, <3>2, DevicesAreNumbers DEF Numbered
    <3>5. ASSUME NEW d \in Dial, d > dials'
          PROVE  /\ ws'[d] = "none" /\ logic'[d] = "none" /\ reply'[d] = "none"
                 /\ signed'[d] = None /\ token'[d] = FALSE /\ retryOf'[d] = None
      <4>1. d > dials /\ d \in Nat
        BY <3>2, <3>5
      <4>2. ws'[d] = "none" /\ retryOf'[d] = None
        BY <2>1, <2>2, <2>3, <2>4, <3>5, Dialling
      <4> QED BY <3>1, <4>1, <4>2 DEF Numbered, connVars
    <3>6. \A d \in Dial : retryOf'[d] <= dials'
      BY <2>1, <2>2, <2>3, <2>4, Dialling
    <3>7. pending' = dials' /\ webSocket' <= dials'
      BY <3>2
    <3>8. fallback' <= dials' /\ newly'.device <= dials'
      BY <3>3, <3>4
    <3>9. \A d \in Dial : d > dials' =>
          /\ ws'[d] = "none" /\ logic'[d] = "none" /\ reply'[d] = "none"
          /\ signed'[d] = None /\ token'[d] = FALSE /\ retryOf'[d] = None
      BY <3>5
    <3> QED BY <3>4, <3>6, <3>7, <3>8, <3>9 DEF Numbered
  <2> QED BY <2>5, <2>6
<1>2. ASSUME NEW n \in Servers, Reconnect(n) PROVE TypeOK' /\ Numbered'
  <2> DEFINE url == entries[n].url
             h   == [kind |-> "trusted", value |-> entries[n].device]
  <2>1. url \in Dial /\ h \in [kind : {"trusted"}, value : Dial]
    BY <1>2 DEF Reconnect, TypeOK
  <2>2. None \in 0..dials
    <3>1. dials \in 0..MaxDial
      BY DEF TypeOK
    <3> QED BY <3>1 DEF None
  <2>6. via[url] \in {"lan", "relay"} /\ server[url] \in Servers
    BY <2>1 DEF TypeOK
  <2>3. NewDial(server[url], via[url], h, None)
    BY <1>2 DEF Reconnect
  <2> HIDE DEF url, h
  <2>4. TypeOK'
    BY <1>2, <2>1, <2>2, <2>3, <2>6, Dialling DEF Reconnect, TypeOK, pcVars, connVars
  <2>5. Numbered'
    <3>1. UNCHANGED <<connVars, reply, newly, entries, fallback>>
      BY <1>2 DEF Reconnect
    <3>2. dials \in Nat /\ dials' = dials + 1 /\ webSocket' = dials' /\ pending' = dials'
      BY <2>1, <2>2, <2>3, <2>6, <3>1, Dialling DEF TypeOK
    <3>3. fallback' <= dials'
      <4>1. fallback \in Nat
        <5>1. fallback \in Dial \cup {None}
          BY DEF TypeOK
        <5> QED BY <5>1 DEF None
      <4> QED BY <3>1, <3>2, <4>1 DEF Numbered
    <3>4. newly'.device <= dials' /\ \A m \in Servers : entries'[m].device <= dials'
      BY <3>1, <3>2, DevicesAreNumbers DEF Numbered
    <3>5. ASSUME NEW d \in Dial, d > dials'
          PROVE  /\ ws'[d] = "none" /\ logic'[d] = "none" /\ reply'[d] = "none"
                 /\ signed'[d] = None /\ token'[d] = FALSE /\ retryOf'[d] = None
      <4>1. d > dials /\ d \in Nat
        BY <3>2, <3>5
      <4>2. ws'[d] = "none" /\ retryOf'[d] = None
        BY <2>1, <2>2, <2>3, <2>6, <3>5, Dialling
      <4> QED BY <3>1, <4>1, <4>2 DEF Numbered, connVars
    <3>6. \A d \in Dial : retryOf'[d] <= dials'
      BY <2>1, <2>2, <2>3, <2>6, Dialling
    <3>7. pending' = dials' /\ webSocket' <= dials'
      BY <3>2
    <3>8. fallback' <= dials' /\ newly'.device <= dials'
      BY <3>3, <3>4
    <3>9. \A d \in Dial : d > dials' =>
          /\ ws'[d] = "none" /\ logic'[d] = "none" /\ reply'[d] = "none"
          /\ signed'[d] = None /\ token'[d] = FALSE /\ retryOf'[d] = None
      BY <3>5
    <3> QED BY <3>4, <3>6, <3>7, <3>8, <3>9 DEF Numbered
  <2> QED BY <2>4, <2>5
<1>3. CASE Disconnect
  BY <1>3 DEF Disconnect, Closing, TypeOK, Numbered, pcVars, dialVars, connVars, None
<1>4. ASSUME NEW d \in Dial,
             Verify(d) \/ ReadKey(d) \/ Mint(d) \/ Check(d)
      PROVE  TypeOK' /\ Numbered'
  <2> USE DEF TypeOK, Numbered, PhoneSide, pcVars, dialVars, connVars, phoneVars
  <2>1. CASE Verify(d)
    <3>4. logic[d] = "hello"
      BY <2>1 DEF Verify
    <3>1. d <= dials /\ server[d] \in Servers
      BY <3>4
    <3>2. TypeOK'
      BY <2>1, <3>1 DEF Verify, Consume
    <3>3. Numbered'
      BY <2>1, <3>1 DEF Verify
    <3> QED BY <3>2, <3>3
  <2>2. CASE ReadKey(d)
    <3>1. d <= dials /\ code[server[d]] \in Code
      BY <2>2 DEF ReadKey, Dial
    <3>2. TypeOK'
      BY <2>2, <3>1 DEF ReadKey
    <3>3. Numbered'
      BY <2>2, <3>1 DEF ReadKey
    <3> QED BY <3>2, <3>3
  <2>3. CASE Mint(d)
    BY <2>3 DEF Mint
  <2>4. CASE Check(d)
    BY <2>4 DEF Check
  <2> QED BY <1>4, <2>1, <2>2, <2>3, <2>4
<1>5. ASSUME NEW d \in Dial, Save(d) \/ SaveFails(d) \/ PeerGone(d)
      PROVE  TypeOK' /\ Numbered'
  <2> USE DEF TypeOK, Numbered, PhoneSide, pcVars, dialVars, connVars, phoneVars
  <2>1. CASE Save(d)
    <3>1. d <= dials /\ trusted[server[d]] \in SUBSET Dial
      BY <2>1 DEF Save, Dial
    <3>2. TypeOK'
      BY <2>1, <3>1 DEF Save, Welcomes
    <3>3. Numbered'
      BY <2>1, <3>1 DEF Save, Welcomes
    <3> QED BY <3>2, <3>3
  <2>2. CASE SaveFails(d)
    <3>1. d <= dials
      BY <2>2 DEF SaveFails, Dial
    <3>2. TypeOK'
      BY <2>2, <3>1 DEF SaveFails, AnswerStill, Withhold, Welcomes
    <3>3. Numbered'
      BY <2>2, <3>1 DEF SaveFails, AnswerStill, Withhold, Welcomes
    <3> QED BY <3>2, <3>3
  <2>3. CASE PeerGone(d)
    BY <2>3 DEF PeerGone
  <2> QED BY <1>5, <2>1, <2>2, <2>3
<1>6. ASSUME NEW d \in Dial, OnOpen(d) \/ OnError(d) \/ OnClosed(d)
      PROVE  TypeOK' /\ Numbered'
  <2> USE DEF TypeOK, Numbered, pcVars, dialVars, connVars, phoneVars
  <2>1. CASE OnOpen(d)
    BY <2>1 DEF OnOpen
  <2>2. CASE OnError(d)
    <3>1. reply[d] # "none" /\ pending \in Dial
      BY <2>2 DEF OnError, Receives, Dial, None
    <3>2. forget' \in Dial \cup {None}
      BY <2>2, <3>1 DEF OnError, TellStale, NoHello
    <3> QED BY <2>2, <3>1, <3>2 DEF OnError, Receives, Closing
  <2>3. CASE OnClosed(d)
    BY <2>3 DEF OnClosed, None
  <2> QED BY <1>6, <2>1, <2>2, <2>3
<1>7. ASSUME NEW d \in Dial, OnWelcome(d) PROVE TypeOK' /\ Numbered'
  <2>1. reply[d] = "welcome" /\ pending \in Dial /\ d <= dials
    BY <1>7 DEF OnWelcome, Receives, Numbered, TypeOK, Dial, None
  <2>2. newly' \in {NoNews} \cup [device : Dial, url : Dial, name : Servers]
    <3>1. server[d] \in Servers
      BY DEF TypeOK
    <3>2. newly' = newly \/ newly' = [device |-> d, url |-> pending, name |-> server[d]]
      BY <1>7 DEF OnWelcome, LastUrl
    <3> QED BY <2>1, <3>1, <3>2 DEF TypeOK
  <2>3. newly'.device <= dials
    BY <1>7, <2>1 DEF OnWelcome, Numbered
  <2> QED BY <1>7, <2>1, <2>2, <2>3
          DEF OnWelcome, Receives, Closing, TypeOK, Numbered, pcVars, dialVars, connVars
<1>8. ASSUME NEW d \in Dial, OnFailure(d) PROVE TypeOK' /\ Numbered'
  <2>1. CASE fallback' = TakenFallback /\ fallback # None
             /\ NewDial(server[fallback], "relay", hello[fallback], fallback)
    <3>1. fallback \in Dial /\ fallback \in 0..dials
      BY <2>1 DEF TypeOK, Numbered, Dial, None
    <3>2. server[fallback] \in Servers
          /\ hello[fallback] \in {NoHello} \cup [kind : {"qr"}, value : Code]
                                   \cup [kind : {"trusted"}, value : Dial]
      BY <3>1 DEF TypeOK
    <3>5. UNCHANGED <<pcVars, connVars, link, reply, session, newly, forget, entries>>
      BY <1>8 DEF OnFailure
    <3>6. fallback' = None
      BY <2>1 DEF TakenFallback
    <3>3. TypeOK'
      BY <2>1, <3>1, <3>2, <3>5, <3>6, Dialling DEF TypeOK, pcVars, connVars
    <3>4. Numbered'
      <4>1. dials \in Nat /\ dials' = dials + 1 /\ webSocket' = dials'
            /\ pending' = dials' /\ fallback' <= dials'
        <5>1. dials \in Nat /\ dials' = dials + 1 /\ webSocket' = dials' /\ pending' = dials'
          BY <2>1, <3>1, <3>2, Dialling DEF TypeOK
        <5> QED BY <3>6, <5>1 DEF None
      <4>2. newly'.device <= dials' /\ \A n \in Servers : entries'[n].device <= dials'
        BY <3>5, <4>1, DevicesAreNumbers DEF Numbered
      <4>3. ASSUME NEW e \in Dial, e > dials'
            PROVE  /\ ws'[e] = "none" /\ logic'[e] = "none" /\ reply'[e] = "none"
                   /\ signed'[e] = None /\ token'[e] = FALSE /\ retryOf'[e] = None
        <5>1. e > dials /\ e \in Nat
          BY <4>1, <4>3
        <5>2. ws'[e] = "none" /\ retryOf'[e] = None
          BY <2>1, <3>1, <3>2, <4>3, Dialling
        <5> QED BY <3>5, <5>1, <5>2 DEF Numbered, connVars
      <4>4. \A e \in Dial : retryOf'[e] <= dials'
        BY <2>1, <3>1, <3>2, Dialling
      <4>5. \A e \in Dial : e > dials' =>
            /\ ws'[e] = "none" /\ logic'[e] = "none" /\ reply'[e] = "none"
            /\ signed'[e] = None /\ token'[e] = FALSE /\ retryOf'[e] = None
        BY <4>3
      <4>6. pending' = dials' /\ webSocket' <= dials'
        BY <4>1
      <4>7. fallback' <= dials' /\ newly'.device <= dials'
        BY <4>1, <4>2
      <4> QED BY <4>2, <4>4, <4>5, <4>6, <4>7 DEF Numbered
    <3> QED BY <3>3, <3>4
  <2>2. CASE ~(fallback' = TakenFallback /\ fallback # None
               /\ NewDial(server[fallback], "relay", hello[fallback], fallback))
    BY <1>8, <2>2 DEF OnFailure, TypeOK, Numbered, pcVars, dialVars, connVars, None
  <2> QED BY <2>1, <2>2
<1>9. ASSUME NEW d \in Dial, Breaks(d) \/ RelayCloses(d) PROVE TypeOK' /\ Numbered'
  <2>1. /\ link' \in [Dial -> {"up", "cut", "shut"}]
        /\ UNCHANGED <<pcVars, dialVars, connVars, ws, reply, phoneVars>>
    BY <1>9 DEF Breaks, RelayCloses, TypeOK
  <2>2. TypeOK'
    BY <2>1 DEF TypeOK, pcVars, dialVars, connVars, phoneVars
  <2>3. Numbered'
    BY <2>1 DEF Numbered, dialVars, connVars, phoneVars
  <2> QED BY <2>2, <2>3
<1>10. CASE CollectNewlyTrusted
  <2>1. newly \in [device : Dial, url : Dial, name : Servers]
    BY <1>10 DEF CollectNewlyTrusted, TypeOK
  <2>2. entries' \in [Servers -> {NoEntry} \cup [device : Dial, url : Dial]]
    BY <1>10, <2>1 DEF CollectNewlyTrusted, Upsert, TypeOK
  <2>3. newly' = NoNews /\ NoNews.device = None /\ None <= dials
    BY <1>10 DEF CollectNewlyTrusted, NoNews, None, TypeOK
  <2>4. \A n \in Servers : entries'[n].device <= dials
    BY <1>10, <2>1, <2>3 DEF CollectNewlyTrusted, Upsert, TypeOK, Numbered, NoEntry
  <2> QED BY <1>10, <2>2, <2>3, <2>4
          DEF CollectNewlyTrusted, TypeOK, Numbered, pcVars, dialVars, connVars
<1>11. CASE CollectForget
  <2>1. entries' \in [Servers -> {NoEntry} \cup [device : Dial, url : Dial]]
    BY <1>11 DEF CollectForget, TypeOK
  <2>2. \A n \in Servers : entries'[n].device <= dials
    BY <1>11 DEF CollectForget, TypeOK, Numbered, NoEntry, None
  <2> QED BY <1>11, <2>1, <2>2
          DEF CollectForget, TypeOK, Numbered, pcVars, dialVars, connVars
<1>12. ASSUME NEW s \in Servers, Rotate(s) \/ Expire(s) PROVE TypeOK' /\ Numbered'
  <2> USE DEF TypeOK, Numbered, PhoneSide, pcVars, dialVars, connVars, phoneVars
  <2>1. CASE Rotate(s)
    BY <2>1 DEF Rotate, Code
  <2>2. CASE Expire(s)
    BY <2>2 DEF Expire
  <2> QED BY <1>12, <2>1, <2>2
<1>13. ASSUME NEW s \in Servers, Crash(s) PROVE TypeOK' /\ Numbered'
  <2> PICK devices \in Loaded(s) : /\ trusted' = [trusted EXCEPT ![s] = devices]
                                   /\ lost' = lost \cup (disk[s] \ devices)
    BY <1>13 DEF Crash
  <2>1. devices \subseteq Dial
    BY DEF Loaded, TypeOK
  <2>2. code'[s] \in Code /\ crashes' \in 0..MaxCrash
    BY <1>13 DEF Crash, TypeOK, Code
  <2> QED BY <1>13, <2>1, <2>2 DEF Crash, TypeOK, Numbered, dialVars, phoneVars
<1>14. CASE UNCHANGED vars
  BY <1>14 DEF vars, TypeOK, Numbered, pcVars, dialVars, connVars, phoneVars
<1> QED
  BY <1>1, <1>2, <1>3, <1>4, <1>5, <1>6, <1>7, <1>8, <1>9, <1>10, <1>11, <1>12,
     <1>13, <1>14 DEF Next, User, Handshake, Listener, Collectors

-----------------------------------------------------------------------------
(* What a step can change *)

\* Scan, Reconnect and the fallback: one more dial, and nothing that concerns
\* an older one.
Dials ==
    /\ dials' = dials + 1 /\ dials' \in Dial
    /\ \A d \in Dial : d # dials' =>
          server'[d] = server[d] /\ hello'[d] = hello[d] /\ retryOf'[d] = retryOf[d]
    /\ UNCHANGED <<pcVars, connVars, reply, session, newly, entries>>
    /\ \A d \in Dial : d # dials' /\ ws'[d] = "dialing" => ws[d] = "dialing"
    /\ \/ retryOf'[dials'] = None /\ fallback' \in {fallback, None, dials'}
       \/ retryOf'[dials'] = fallback /\ fallback # None /\ fallback' = None

\* Steps of sockets only.
Quiet ==
    /\ UNCHANGED <<pcVars, dialVars, connVars, session, newly, entries, fallback>>
    /\ \A d \in Dial : reply[d] = "none" => reply'[d] = "none"
    /\ \A d \in Dial : ws'[d] = "dialing" => ws[d] = "dialing"

Marked ==
    \/ \E d \in Dial : \/ Verify(d) \/ ReadKey(d) \/ Mint(d) \/ Check(d)
                       \/ Save(d) \/ SaveFails(d) \/ PeerGone(d)
                       \/ OnOpen(d) \/ OnWelcome(d)
    \/ CollectNewlyTrusted \/ CollectForget
    \/ \E s \in Servers : Rotate(s) \/ Expire(s) \/ Crash(s)

LEMMA Steps == TypeOK /\ Numbered /\ [Next]_vars => Dials \/ Quiet \/ Marked
<1> SUFFICES ASSUME TypeOK, Numbered, [Next]_vars PROVE Dials \/ Quiet \/ Marked
  OBVIOUS
<1> USE PairingAssumption, NoneIsNoDial
<1>1. ASSUME NEW s \in Servers, NEW v \in Vias, NEW both \in BOOLEAN, Scan(s, v, both)
      PROVE  Dials
  <2>1. [kind |-> "qr", value |-> code[s]] \in [kind : {"qr"}, value : Code]
    BY DEF TypeOK
  <2>2. None \in 0..dials /\ v \in {"lan", "relay"}
    <3>1. dials \in 0..MaxDial
      BY DEF TypeOK
    <3> QED BY <3>1 DEF None
  <2>3. NewDial(s, v, [kind |-> "qr", value |-> code[s]], None)
    BY <1>1 DEF Scan
  <2>4. /\ fallback' \in {None, dials'}
        /\ UNCHANGED <<pcVars, connVars, reply, session, newly, entries>>
    BY <1>1 DEF Scan
  <2> QED BY <2>1, <2>2, <2>3, <2>4, Dialling DEF Dials
<1>2. ASSUME NEW n \in Servers, Reconnect(n) PROVE Dials
  <2> DEFINE url == entries[n].url
             h   == [kind |-> "trusted", value |-> entries[n].device]
  <2>1. url \in Dial /\ h \in [kind : {"trusted"}, value : Dial]
    BY <1>2 DEF Reconnect, TypeOK
  <2>2. None \in 0..dials
    <3>1. dials \in 0..MaxDial
      BY DEF TypeOK
    <3> QED BY <3>1 DEF None
  <2>3. via[url] \in {"lan", "relay"} /\ server[url] \in Servers
    BY <2>1 DEF TypeOK
  <2>4. NewDial(server[url], via[url], h, None)
    BY <1>2 DEF Reconnect
  <2>5. UNCHANGED <<pcVars, connVars, reply, session, newly, entries, fallback>>
    BY <1>2 DEF Reconnect
  <2> HIDE DEF url, h
  <2> QED BY <2>1, <2>2, <2>3, <2>4, <2>5, Dialling DEF Dials
<1>3. CASE Disconnect
  BY <1>3 DEF Disconnect, Closing, Quiet, TypeOK
<1>4. ASSUME NEW d \in Dial, OnFailure(d) PROVE Dials \/ Quiet
  <2>1. UNCHANGED <<pcVars, connVars, link, reply, session, newly, forget, entries>>
    BY <1>4 DEF OnFailure
  <2>2. CASE fallback' = TakenFallback /\ fallback # None
             /\ NewDial(server[fallback], "relay", hello[fallback], fallback)
    <3>1. fallback \in Dial /\ fallback \in 0..dials
      BY <2>2 DEF TypeOK, Numbered, Dial, None
    <3>2. server[fallback] \in Servers
          /\ hello[fallback] \in {NoHello} \cup [kind : {"qr"}, value : Code]
                                   \cup [kind : {"trusted"}, value : Dial]
      BY <3>1 DEF TypeOK
    <3> QED BY <2>1, <2>2, <3>1, <3>2, Dialling DEF Dials, TakenFallback
  <2>3. CASE ~(fallback' = TakenFallback /\ fallback # None
               /\ NewDial(server[fallback], "relay", hello[fallback], fallback))
    <3>1. UNCHANGED <<dialVars, fallback>> /\ ws' = [ws EXCEPT ![d] = "closed"]
      BY <1>4, <2>3 DEF OnFailure
    <3> QED BY <2>1, <3>1 DEF Quiet, TypeOK
  <2> QED BY <2>2, <2>3
<1>5. ASSUME NEW d \in Dial, OnError(d) \/ OnClosed(d) \/ Breaks(d) \/ RelayCloses(d)
      PROVE  Quiet
  <2>1. CASE OnError(d)
    BY <2>1 DEF OnError, Receives, Closing, Quiet, TypeOK
  <2>2. CASE OnClosed(d)
    BY <2>2 DEF OnClosed, Quiet, TypeOK
  <2>3. CASE Breaks(d) \/ RelayCloses(d)
    BY <2>3 DEF Breaks, RelayCloses, Quiet, phoneVars
  <2> QED BY <1>5, <2>1, <2>2, <2>3
<1>6. CASE UNCHANGED vars
  BY <1>6 DEF vars, phoneVars, Quiet
<1> QED
  BY <1>1, <1>2, <1>3, <1>4, <1>5, <1>6
     DEF Next, User, Handshake, Listener, Collectors, Marked

\* A dial in progress keeps its number's dial, and Dials does not touch it.
LEMMA Fresh ==
    ASSUME TypeOK, Numbered, Dials
    PROVE  /\ ws[dials'] = "none" /\ logic[dials'] = "none" /\ reply[dials'] = "none"
           /\ signed[dials'] = None /\ token[dials'] = FALSE
  BY NoneIsNoDial, PairingAssumption DEF TypeOK, Numbered, Dials

-----------------------------------------------------------------------------
(* Who signs and who has heard *)

LEMMA OrderedInit == Init => Ordered
  BY NoneIsNoDial DEF Init, Ordered, NoNews, NoEntry

LEMMA OrderedStep == TypeOK /\ Numbered /\ Ordered /\ [Next]_vars => Ordered'
<1> SUFFICES ASSUME TypeOK, Numbered, Ordered, [Next]_vars PROVE Ordered'
  OBVIOUS
<1> USE NoneIsNoDial DEF Ordered, Over
<1>1. CASE Dials
  <2> SUFFICES ASSUME NEW d \in Dial
               PROVE  /\ logic'[d] \in {"key", "mint"} \/ signed'[d] # None
                            => hello'[d].kind = "qr"
                      /\ reply'[d] # "none" \/ session' = d \/ newly'.device = d => Over(d)'
                      /\ \A n \in Servers : entries'[n].device = d => Over(d)'
                      /\ ws'[d] = "dialing" => logic'[d] = "none"
    OBVIOUS
  <2>1. CASE d = dials'
    BY <1>1, <2>1, Fresh DEF Dials, connVars
  <2>2. CASE d # dials'
    BY <1>1, <2>2 DEF Dials, connVars
  <2> QED BY <2>1, <2>2
<1>2. CASE Quiet
  BY <1>2 DEF Quiet, connVars, dialVars
<1> USE DEF TypeOK, PhoneSide, pcVars, dialVars, connVars, phoneVars
<1>3. ASSUME NEW d \in Dial, Verify(d) PROVE Ordered'
  BY <1>3 DEF Verify
<1>4. ASSUME NEW d \in Dial, ReadKey(d) PROVE Ordered'
  BY <1>4 DEF ReadKey
<1>5. ASSUME NEW d \in Dial, Mint(d) PROVE Ordered'
  BY <1>5 DEF Mint
<1>6. ASSUME NEW d \in Dial, Check(d) PROVE Ordered'
  BY <1>6 DEF Check
<1>7. ASSUME NEW d \in Dial, Save(d) PROVE Ordered'
  <2>1. hello' = hello /\ signed' = signed /\ entries' = entries /\ ws' = ws
        /\ session' = session /\ newly' = newly /\ logic[d] = "save"
    BY <1>7 DEF Save
  <2>2. logic' = [logic EXCEPT ![d] = "auth"] /\ reply' = [reply EXCEPT ![d] = "welcome"]
    BY <1>7 DEF Save, Welcomes
  <2> QED BY <2>1, <2>2
<1>8. ASSUME NEW d \in Dial, SaveFails(d) PROVE Ordered'
  BY <1>8 DEF SaveFails, AnswerStill, Welcomes
<1>9. ASSUME NEW d \in Dial, PeerGone(d) PROVE Ordered'
  BY <1>9 DEF PeerGone
<1>10. ASSUME NEW d \in Dial, OnOpen(d) PROVE Ordered'
  BY <1>10 DEF OnOpen
<1>11. ASSUME NEW d \in Dial, OnWelcome(d) PROVE Ordered'
  <2>1. Over(d) /\ UNCHANGED <<logic, signed, hello, entries>>
    BY <1>11 DEF OnWelcome, Receives
  <2>2. session' \in {session, d} /\ newly'.device \in {newly.device, d}
    BY <1>11 DEF OnWelcome
  <2>3. \A e \in Dial : /\ ws'[e] = "dialing" => ws[e] = "dialing"
                        /\ reply'[e] # "none" => reply[e] # "none"
    BY <1>11 DEF OnWelcome, Receives, Closing
  <2>4. ASSUME NEW e \in Dial
        PROVE  /\ reply'[e] # "none" \/ session' = e \/ newly'.device = e => Over(e)'
               /\ ws'[e] = "dialing" => logic'[e] = "none"
    <3> HIDE DEF TypeOK, Ordered
    <3>3. /\ reply[e] # "none" \/ session = e \/ newly.device = e => Over(e)
          /\ ws[e] = "dialing" => logic[e] = "none"
      BY DEF Ordered
    <3>4. logic'[e] = logic[e] /\ (ws'[e] = "dialing" => ws[e] = "dialing")
          /\ (reply'[e] # "none" => reply[e] # "none")
      BY <2>1, <2>3
    <3>1. CASE e = d
      BY <2>1, <3>1, <3>3, <3>4
    <3>2. CASE e # d
      BY <2>2, <3>2, <3>3, <3>4
    <3> QED BY <3>1, <3>2
  <2>5. \A e \in Dial : /\ logic'[e] \in {"key", "mint"} \/ signed'[e] # None => hello'[e].kind = "qr"
                        /\ \A n \in Servers : entries'[n].device = e => Over(e)'
    BY <2>1
  <2> QED BY <2>4, <2>5
<1>12. CASE CollectNewlyTrusted
  BY <1>12 DEF CollectNewlyTrusted, Upsert, NoNews, NoEntry
<1>13. CASE CollectForget
  BY <1>13 DEF CollectForget, NoEntry
<1>14. ASSUME NEW s \in Servers, Rotate(s) \/ Expire(s) \/ Crash(s) PROVE Ordered'
  BY <1>14 DEF Rotate, Expire, Crash
<1> QED
  BY <1>1, <1>2, <1>3, <1>4, <1>5, <1>6, <1>7, <1>8, <1>9, <1>10, <1>11, <1>12,
     <1>13, <1>14, Steps DEF Marked
-----------------------------------------------------------------------------
(* Codes *)

LEMMA UsedInit == Init => Used /\ CodePairsOnce
  BY NoneIsNoDial DEF Init, Used, CodePairsOnce, PairedWith, NoHello

\* A rotation and a restart leave the old code behind; a connection that gets
\* through finds the code unused, so that no other had.
LEMMA UsedStep ==
    TypeOK /\ Numbered /\ Ordered /\ Used /\ CodePairsOnce /\ [Next]_vars
        => Used' /\ CodePairsOnce'
<1> SUFFICES ASSUME TypeOK, Numbered, Ordered, Used, CodePairsOnce, [Next]_vars
             PROVE  Used' /\ CodePairsOnce'
  OBVIOUS
<1> DEFINE Past(d) == logic[d] = "key" \/ signed[d] # None
<1> USE NoneIsNoDial DEF TypeOK
\* Both facts are kept by a step after which nobody is past the check who was
\* not before, no code is used anew, and those who are keep their hello.
<1>1. ASSUME \A d \in Dial : Past(d)' => Past(d) /\ UNCHANGED <<hello[d], server[d]>>,
             \A s \in Servers : \/ code'[s] = code[s] /\ usable'[s] = usable[s]
                                \/ code'[s] = code[s] /\ usable[s] # "consumed"
                                \/ code'[s] \in Nat /\ code'[s] > code[s]
      PROVE  Used' /\ CodePairsOnce'
  <2>1. Used'
    <3> SUFFICES ASSUME NEW d \in Dial, Past(d)'
                 PROVE  \/ hello'[d].value < code'[server'[d]]
                        \/ /\ hello'[d].value = code'[server'[d]]
                           /\ usable'[server'[d]] = "consumed"
      BY DEF Used
    <3>1. Past(d) /\ hello'[d] = hello[d] /\ server'[d] = server[d] /\ server[d] \in Servers
      BY <1>1
    <3>2. \/ hello[d].value < code[server[d]]
          \/ hello[d].value = code[server[d]] /\ usable[server[d]] = "consumed"
      BY <3>1 DEF Used
    <3>3. code[server[d]] \in Nat /\ hello[d].value \in Nat
      BY <3>1, PairingAssumption DEF Ordered, Code, NoHello
    <3>4. CASE code'[server[d]] = code[server[d]] /\ usable'[server[d]] = usable[server[d]]
      BY <3>1, <3>2, <3>4
    <3>5. CASE code'[server[d]] = code[server[d]] /\ usable[server[d]] # "consumed"
      BY <3>1, <3>2, <3>5
    <3>6. CASE code'[server[d]] \in Nat /\ code'[server[d]] > code[server[d]]
      <4>1. hello[d].value < code'[server[d]]
        BY <3>2, <3>3, <3>6
      <4> QED BY <3>1, <4>1
    <3> QED BY <1>1, <3>1, <3>4, <3>5, <3>6
  <2>2. CodePairsOnce'
    BY <1>1, NoneIsNoDial DEF CodePairsOnce, PairedWith
  <2> QED BY <2>1, <2>2
<1>2. CASE Dials
  <2>1. ASSUME NEW d \in Dial, Past(d)' PROVE Past(d) /\ UNCHANGED <<hello[d], server[d]>>
    BY <1>2, <2>1, Fresh DEF Dials, connVars
  <2> QED BY <1>1, <1>2, <2>1 DEF Dials, pcVars
<1>3. CASE Quiet
  BY <1>1, <1>3 DEF Quiet, pcVars, connVars, dialVars
<1> USE DEF PhoneSide, pcVars, dialVars, connVars, phoneVars
<1>4. ASSUME NEW d \in Dial, Verify(d), usable[server[d]] = "fresh", code[server[d]] = hello[d].value,
             usable' = Consume(server[d]), logic' = [logic EXCEPT ![d] = "key"]
      PROVE  Used' /\ CodePairsOnce'
  <2>1. /\ UNCHANGED <<hello, server, signed, code>> /\ hello[d].kind = "qr"
        /\ usable' = [usable EXCEPT ![server[d]] = "consumed"] /\ server[d] \in Servers
    BY <1>4 DEF Verify, Consume
  <2>2. Used'
    BY <1>4, <2>1 DEF Used
  <2>3. ASSUME NEW e \in Dial, Past(e), server[e] = server[d], hello[e].value = hello[d].value
        PROVE  FALSE
    <3>1. code[server[d]] \in Nat
      BY PairingAssumption DEF Code
    <3> QED BY <1>4, <2>3, <3>1 DEF Used
  <2>4. \A e \in Dial : e # d => (Past(e)' <=> Past(e))
    BY <1>4, <2>1
  <2>5. ASSUME NEW s \in Servers, NEW c \in Code, NEW x \in Dial, NEW y \in Dial,
               PairedWith(x, s, c)', PairedWith(y, s, c)'
        PROVE  x = y
    <3>1. /\ Past(x)' /\ server[x] = s /\ hello[x].value = c
          /\ Past(y)' /\ server[y] = s /\ hello[y].value = c
      BY <2>1, <2>5 DEF PairedWith
    <3>2. CASE x = d
      BY <2>3, <2>4, <3>1, <3>2
    <3>3. CASE y = d
      BY <2>3, <2>4, <3>1, <3>3
    <3>4. CASE x # d /\ y # d
      BY <2>1, <2>4, <2>5, <3>1, <3>4 DEF CodePairsOnce, PairedWith
    <3> QED BY <3>2, <3>3, <3>4
  <2>6. CodePairsOnce'
    BY <2>5 DEF CodePairsOnce
  <2> QED BY <2>2, <2>6
<1>5. ASSUME NEW d \in Dial, Verify(d), usable' = usable, logic' = [logic EXCEPT ![d] = "back"]
      PROVE  Used' /\ CodePairsOnce'
  BY <1>1, <1>5 DEF Verify
<1>6. ASSUME NEW d \in Dial, ReadKey(d) PROVE Used' /\ CodePairsOnce'
  BY <1>1, <1>6 DEF ReadKey
<1>7. ASSUME NEW d \in Dial, Mint(d) \/ Check(d) \/ PeerGone(d) \/ OnOpen(d)
      PROVE  Used' /\ CodePairsOnce'
  BY <1>1, <1>7 DEF Mint, Check, PeerGone, OnOpen
<1>8. ASSUME NEW d \in Dial, Save(d) \/ SaveFails(d) PROVE Used' /\ CodePairsOnce'
  BY <1>1, <1>8 DEF Save, SaveFails, AnswerStill, Welcomes
<1>9. ASSUME NEW d \in Dial, OnWelcome(d) PROVE Used' /\ CodePairsOnce'
  BY <1>1, <1>9 DEF OnWelcome
<1>10. CASE CollectNewlyTrusted \/ CollectForget
  BY <1>1, <1>10 DEF CollectNewlyTrusted, CollectForget
<1>11. ASSUME NEW s \in Servers, Rotate(s) \/ Expire(s) \/ Crash(s)
       PROVE  Used' /\ CodePairsOnce'
  <2>1. \A t \in Servers : code[t] \in Nat
    BY PairingAssumption DEF Code
  <2>2. CASE Rotate(s)
    BY <1>1, <2>1, <2>2 DEF Rotate
  <2>3. CASE Expire(s)
    BY <1>1, <2>1, <2>3 DEF Expire
  <2>4. CASE Crash(s)
    BY <1>1, <2>1, <2>4 DEF Crash
  <2> QED BY <1>11, <2>2, <2>3, <2>4
<1>12. ASSUME NEW d \in Dial, Verify(d) PROVE Used' /\ CodePairsOnce'
  BY <1>4, <1>5, <1>12 DEF Verify
<1> QED
  BY <1>2, <1>3, <1>6, <1>7, <1>8, <1>9, <1>10, <1>11, <1>12, Steps DEF Marked

-----------------------------------------------------------------------------
(* Tokens *)

LEMMA KeptInit == Init => Kept /\ TokenIsOnDisk
  BY NoneIsNoDial DEF Init, Kept, TokenIsOnDisk

\* What a step adds to the file, to what is handed out and to what the phone
\* keeps.
Grows ==
    /\ lost \subseteq lost' /\ \A s \in Servers : disk[s] \subseteq disk'[s] \cup lost'
    /\ \A d \in Dial : d <= dials => server'[d] = server[d]
    /\ \A d \in Dial : token'[d] => token[d] \/ d \in disk'[server'[d]]
    /\ newly' # NoNews => \/ newly' = newly
                          \/ newly'.device \in Dial /\ token[newly'.device]
    /\ \A n \in Servers : entries'[n] # NoEntry =>
          \/ entries'[n] = entries[n]
          \/ newly # NoNews /\ entries'[n].device = newly.device

LEMMA GrowsStep == TypeOK /\ Numbered /\ Kept /\ [Next]_vars => Grows
<1> SUFFICES ASSUME TypeOK, Numbered, Kept, [Next]_vars PROVE Grows
  OBVIOUS
<1> USE NoneIsNoDial
<1>0. ASSUME UNCHANGED <<disk, lost, server, token, newly, entries>> PROVE Grows
  BY <1>0 DEF Grows
<1>1. CASE Dials
  <2>1. \A d \in Dial : d <= dials => d # dials'
    BY <1>1 DEF Dials, TypeOK
  <2>2. UNCHANGED <<disk, lost, token, newly, entries>>
    BY <1>1 DEF Dials, pcVars, connVars
  <2>3. \A d \in Dial : d <= dials => server'[d] = server[d]
    BY <1>1, <2>1 DEF Dials
  <2> QED BY <2>2, <2>3 DEF Grows
<1>2. CASE Quiet
  BY <1>0, <1>2 DEF Quiet, pcVars, connVars, dialVars
<1> USE DEF PhoneSide, pcVars, dialVars, connVars, phoneVars
<1>3. ASSUME NEW d \in Dial, Verify(d) \/ ReadKey(d) \/ Mint(d) \/ Check(d) \/ PeerGone(d)
                             \/ OnOpen(d)
      PROVE  Grows
  <2>1. UNCHANGED <<disk, lost, server, token, newly, entries>>
    BY <1>3 DEF Verify, ReadKey, Mint, Check, PeerGone, OnOpen
  <2> QED BY <1>0, <2>1
<1>4. ASSUME NEW d \in Dial, Save(d) PROVE Grows
  <2>1. /\ UNCHANGED <<lost, server, newly, entries>>
        /\ disk' = [disk EXCEPT ![server[d]] = trusted[server[d]]]
        /\ token' = [token EXCEPT ![d] = hello[d].kind = "qr"] /\ logic[d] = "save"
    BY <1>4 DEF Save, Welcomes
  <2>2. \A s \in Servers : disk[s] \subseteq disk'[s] \cup lost
    BY <2>1 DEF Kept, TypeOK
  <2>3. ASSUME NEW e \in Dial, token'[e] PROVE token[e] \/ e \in disk'[server[e]]
    <3>1. CASE e = d
      <4>1. hello[d].kind = "qr"
        BY <2>1, <2>3, <3>1 DEF TypeOK
      <4>2. d \in trusted[server[d]] /\ server[d] \in Servers
        BY <2>1, <4>1 DEF Kept, TypeOK
      <4> QED BY <2>1, <3>1, <4>2 DEF TypeOK
    <3>2. CASE e # d
      BY <2>1, <2>3, <3>2 DEF TypeOK
    <3> QED BY <3>1, <3>2
  <2>4. \A e \in Dial : token'[e] => token[e] \/ e \in disk'[server'[e]]
    BY <2>1, <2>3
  <2> QED BY <2>1, <2>2, <2>4 DEF Grows
<1>5. ASSUME NEW d \in Dial, SaveFails(d) PROVE Grows
  <2>1. /\ UNCHANGED <<disk, lost, server, newly, entries>>
        /\ token' = [token EXCEPT ![d] = FALSE]
    BY <1>5 DEF SaveFails, AnswerStill, Withhold, Welcomes
  <2>2. ASSUME NEW e \in Dial, token'[e] PROVE token[e]
    BY <2>1, <2>2 DEF TypeOK
  <2> QED BY <2>1, <2>2 DEF Grows
<1>6. ASSUME NEW d \in Dial, OnWelcome(d) PROVE Grows
  <2>1. UNCHANGED <<disk, lost, server, token, entries>>
    BY <1>6 DEF OnWelcome
  <2>2. CASE newly' = newly
    BY <1>0, <2>1, <2>2
  <2>3. CASE newly' # newly
    <3>1. token[d] /\ newly' = [device |-> d, url |-> LastUrl, name |-> server[d]]
      BY <1>6, <2>3 DEF OnWelcome
    <3>2. newly'.device = d
      BY <3>1
    <3> QED BY <2>1, <3>1, <3>2 DEF Grows
  <2> QED BY <2>2, <2>3
<1>7. CASE CollectNewlyTrusted
  <2>1. UNCHANGED <<disk, lost, server, token>> /\ newly' = NoNews /\ newly # NoNews
    BY <1>7 DEF CollectNewlyTrusted
  <2>2. ASSUME NEW n \in Servers, entries'[n] # NoEntry
        PROVE  entries'[n] = entries[n] \/ entries'[n].device = newly.device
    BY <1>7, <2>2 DEF CollectNewlyTrusted, Upsert
  <2> QED BY <2>1, <2>2 DEF Grows
<1>8. CASE CollectForget
  <2>1. UNCHANGED <<disk, lost, server, token, newly>>
    BY <1>8 DEF CollectForget
  <2>2. \A n \in Servers : entries'[n] # NoEntry => entries'[n] = entries[n]
    BY <1>8 DEF CollectForget
  <2> QED BY <2>1, <2>2 DEF Grows
<1>9. ASSUME NEW s \in Servers, Rotate(s) \/ Expire(s) PROVE Grows
  BY <1>0, <1>9 DEF Rotate, Expire
<1>10. ASSUME NEW s \in Servers, Crash(s) PROVE Grows
  <2>1. UNCHANGED <<disk, server, token, newly, entries>> /\ lost \subseteq lost'
    BY <1>10 DEF Crash
  <2> QED BY <2>1 DEF Grows
<1> QED
  BY <1>1, <1>2, <1>3, <1>4, <1>5, <1>6, <1>7, <1>8, <1>9, <1>10, Steps DEF Marked

\* The memory keeps up with the file, and a device about to be saved is in it.
LEMMA MemoryStep ==
    TypeOK /\ Numbered /\ Kept /\ [Next]_vars
        => /\ \A s \in Servers : disk'[s] \subseteq trusted'[s] \cup lost'
           /\ \A d \in Dial : logic'[d] = "save" /\ hello'[d].kind = "qr"
                                 => d \in trusted'[server'[d]]
<1> DEFINE InMemory == \A s \in Servers : disk[s] \subseteq trusted[s] \cup lost
           Minted   == \A d \in Dial : logic[d] = "save" /\ hello[d].kind = "qr"
                                          => d \in trusted[server[d]]
<1> SUFFICES ASSUME TypeOK, Numbered, Kept, [Next]_vars PROVE InMemory' /\ Minted'
  OBVIOUS
<1>0. InMemory /\ Minted
  BY DEF Kept
<1> USE NoneIsNoDial
<1>1. CASE Dials
  <2>1. ASSUME NEW d \in Dial, logic'[d] = "save"
        PROVE  d # dials'
    BY <1>1, <2>1, Fresh DEF Dials, connVars
  <2>2. Minted'
    BY <1>0, <1>1, <2>1 DEF Dials, pcVars, connVars
  <2> QED BY <1>0, <1>1, <2>2 DEF Dials, pcVars
<1>2. CASE Quiet
  BY <1>0, <1>2 DEF Quiet, pcVars, connVars, dialVars
<1> USE DEF TypeOK, PhoneSide, pcVars, dialVars, connVars, phoneVars
<1>3. ASSUME NEW d \in Dial, Verify(d) \/ ReadKey(d) \/ Check(d) \/ PeerGone(d)
                             \/ OnOpen(d) \/ OnWelcome(d)
      PROVE  InMemory' /\ Minted'
  BY <1>0, <1>3 DEF Verify, ReadKey, Check, PeerGone, OnOpen, OnWelcome
<1>4. ASSUME NEW d \in Dial, Mint(d) PROVE InMemory' /\ Minted'
  BY <1>0, <1>4 DEF Mint
<1>5. ASSUME NEW d \in Dial, Save(d) \/ SaveFails(d) PROVE InMemory' /\ Minted'
  <2>1. /\ UNCHANGED <<trusted, lost, hello, server>>
        /\ logic' = [logic EXCEPT ![d] = "auth"]
        /\ disk' \in {disk, [disk EXCEPT ![server[d]] = trusted[server[d]]]}
    BY <1>5 DEF Save, SaveFails, AnswerStill, Welcomes
  <2> QED BY <1>0, <2>1
<1>6. CASE CollectNewlyTrusted \/ CollectForget
  BY <1>0, <1>6 DEF CollectNewlyTrusted, CollectForget
<1>7. ASSUME NEW s \in Servers, Rotate(s) \/ Expire(s) PROVE InMemory' /\ Minted'
  BY <1>0, <1>7 DEF Rotate, Expire
<1>8. ASSUME NEW s \in Servers, Crash(s) PROVE InMemory' /\ Minted'
  <2>1. PICK devices \in Loaded(s) : /\ trusted' = [trusted EXCEPT ![s] = devices]
                                     /\ lost' = lost \cup (disk[s] \ devices)
    BY <1>8 DEF Crash
  <2>2. /\ UNCHANGED <<disk, server, hello>>
        /\ \A d \in Dial : logic'[d] = "save" => logic[d] = "save" /\ server[d] # s
    BY <1>8 DEF Crash
  <2>3. InMemory'
    BY <1>0, <2>1, <2>2
  <2>4. Minted'
    BY <1>0, <2>1, <2>2
  <2> QED BY <2>3, <2>4
<1> QED
  BY <1>1, <1>2, <1>3, <1>4, <1>5, <1>6, <1>7, <1>8, Steps DEF Marked

LEMMA KeptStep ==
    TypeOK /\ Numbered /\ Kept /\ TokenIsOnDisk /\ [Next]_vars => Kept' /\ TokenIsOnDisk'
<1> SUFFICES ASSUME TypeOK, Numbered, Kept, TokenIsOnDisk, [Next]_vars
             PROVE  Kept' /\ TokenIsOnDisk'
  OBVIOUS
<1> DEFINE OnDisk(d) == d \in disk[server[d]] \cup lost
<1> USE NoneIsNoDial
<1>1. Grows
  BY GrowsStep
<1>2. ASSUME NEW d \in Dial, d <= dials, OnDisk(d) PROVE OnDisk(d)'
  <2>1. server[d] \in Servers /\ server'[d] = server[d]
    BY <1>1, <1>2 DEF Grows, TypeOK
  <2> QED BY <1>1, <1>2, <2>1 DEF Grows
<1>3. ASSUME NEW d \in Dial, token[d] PROVE OnDisk(d)'
  <2>1. d <= dials
    BY <1>3 DEF Numbered, TypeOK
  <2>2. OnDisk(d)
    BY <1>3 DEF TokenIsOnDisk
  <2> QED BY <1>2, <2>1, <2>2
<1>4. ASSUME NEW d \in Dial, token'[d] PROVE OnDisk(d)'
  BY <1>1, <1>3, <1>4 DEF Grows
<1>5. newly # NoNews => /\ newly.device \in Dial
                        /\ newly.device \in disk'[server'[newly.device]] \cup lost'
  <2> SUFFICES ASSUME newly # NoNews
               PROVE  /\ newly.device \in Dial
                      /\ newly.device \in disk'[server'[newly.device]] \cup lost'
    OBVIOUS
  <2>1. newly.device \in Dial /\ newly.device <= dials
    BY DEF TypeOK, Numbered
  <2>2. OnDisk(newly.device)
    BY DEF Kept
  <2>3. \A d \in Dial : d <= dials /\ d \in disk[server[d]] \cup lost
                            => d \in disk'[server'[d]] \cup lost'
    BY <1>2
  <2> QED BY <2>1, <2>2, <2>3
<1>6. newly' # NoNews => newly'.device \in disk'[server'[newly'.device]] \cup lost'
  <2>1. \A d \in Dial : token[d] => d \in disk'[server'[d]] \cup lost'
    BY <1>3
  <2> QED BY <1>1, <1>5, <2>1 DEF Grows
<1>7. ASSUME NEW n \in Servers, entries'[n] # NoEntry
      PROVE  entries'[n].device \in disk'[server'[entries'[n].device]] \cup lost'
  <2>1. CASE entries'[n] = entries[n]
    <3>1. entries[n].device \in Dial /\ entries[n].device <= dials
      BY <1>7, <2>1 DEF TypeOK, Numbered
    <3>2. entries[n].device \in disk[server[entries[n].device]] \cup lost
      BY <1>7, <2>1 DEF TokenIsOnDisk
    <3>3. \A d \in Dial : d <= dials /\ d \in disk[server[d]] \cup lost
                              => d \in disk'[server'[d]] \cup lost'
      BY <1>2
    <3> QED BY <2>1, <3>1, <3>2, <3>3
  <2>2. CASE newly # NoNews /\ entries'[n].device = newly.device
    BY <1>5, <2>2
  <2> QED BY <1>1, <1>7, <2>1, <2>2 DEF Grows
<1>8. Kept'
  BY <1>6, MemoryStep DEF Kept
<1>9. TokenIsOnDisk'
  <2>1. \A d \in Dial : token'[d] => d \in disk'[server'[d]] \cup lost'
    BY <1>4
  <2> QED BY <1>7, <2>1 DEF TokenIsOnDisk
<1> QED BY <1>8, <1>9
-----------------------------------------------------------------------------
(* Welcomes signed with another key *)

LEMMA WrongKeyInit == Init => Undialled /\ WrongKeyTakesNothing
  BY NoneIsNoDial DEF Init, Undialled, WrongKeyTakesNothing, NoHello

\* The phone has taken nothing of the dial.
Untaken(d) == /\ session # d /\ newly.device # d
              /\ \A n \in Servers : entries[n].device # d

\* A key is signed with in one place, and a welcome taken in one place.
LEMMA TakenStep ==
    TypeOK /\ Numbered /\ [Next]_vars
        => \A d \in Dial : /\ signed'[d] = signed[d] \/ ReadKey(d)
                           /\ Untaken(d) => Untaken(d)' \/ OnWelcome(d)
<1> SUFFICES ASSUME TypeOK, Numbered, [Next]_vars, NEW d \in Dial
             PROVE  /\ signed'[d] = signed[d] \/ ReadKey(d)
                    /\ Untaken(d) => Untaken(d)' \/ OnWelcome(d)
  OBVIOUS
<1> USE NoneIsNoDial
<1>1. CASE UNCHANGED <<signed, session, newly, entries>>
  BY <1>1 DEF Untaken
<1>2. CASE Dials \/ Quiet
  BY <1>1, <1>2 DEF Dials, Quiet, connVars
<1> USE DEF PhoneSide, pcVars, dialVars, connVars, phoneVars
<1>3. ASSUME NEW e \in Dial, Verify(e) \/ Mint(e) \/ Check(e) \/ PeerGone(e) \/ OnOpen(e)
                             \/ Save(e) \/ SaveFails(e)
      PROVE  UNCHANGED <<signed, session, newly, entries>>
  BY <1>3 DEF Verify, Mint, Check, PeerGone, OnOpen, Save, SaveFails
<1>4. ASSUME NEW e \in Dial, ReadKey(e)
      PROVE  /\ signed'[d] = signed[d] \/ ReadKey(d)
             /\ Untaken(d) => Untaken(d)'
  <2>1. UNCHANGED <<session, newly, entries>>
    BY <1>4 DEF ReadKey
  <2>2. signed'[d] = signed[d] \/ d = e
    BY <1>4 DEF ReadKey, TypeOK
  <2> QED BY <1>4, <2>1, <2>2 DEF Untaken
<1>5. ASSUME NEW e \in Dial, OnWelcome(e), e # d
      PROVE  signed' = signed /\ (Untaken(d) => Untaken(d)')
  <2>1. UNCHANGED <<signed, entries>>
    BY <1>5 DEF OnWelcome
  <2>2. session' \in {session, e} /\ newly'.device \in {newly.device, e}
    BY <1>5 DEF OnWelcome
  <2> QED BY <1>5, <2>1, <2>2 DEF Untaken
<1>6. ASSUME NEW e \in Dial, OnWelcome(e) PROVE signed' = signed
  BY <1>6 DEF OnWelcome
<1>7. CASE CollectNewlyTrusted
  <2>1. UNCHANGED <<signed, session>> /\ newly'.device = None
    BY <1>7 DEF CollectNewlyTrusted, NoNews
  <2>2. \A n \in Servers : entries'[n].device \in {newly.device, None, entries[n].device}
    BY <1>7 DEF CollectNewlyTrusted, Upsert, NoEntry
  <2>3. d # None
    OBVIOUS
  <2> QED BY <2>1, <2>2, <2>3 DEF Untaken
<1>8. CASE CollectForget
  <2>1. UNCHANGED <<signed, session, newly>>
    BY <1>8 DEF CollectForget
  <2>2. \A n \in Servers : entries'[n].device \in {None, entries[n].device}
    BY <1>8 DEF CollectForget, NoEntry
  <2>3. d # None
    OBVIOUS
  <2> QED BY <2>1, <2>2, <2>3 DEF Untaken
<1>9. ASSUME NEW s \in Servers, Rotate(s) \/ Expire(s) \/ Crash(s)
      PROVE  UNCHANGED <<signed, session, newly, entries>>
  BY <1>9 DEF Rotate, Expire, Crash
<1> QED
  BY <1>1, <1>2, <1>3, <1>4, <1>5, <1>6, <1>7, <1>8, <1>9, Steps DEF Marked

\* What was dialled stays as it was.
LEMMA HelloStays ==
    TypeOK /\ Numbered /\ [Next]_vars
        => /\ dials' >= dials
           /\ \A d \in Dial : d <= dials => hello'[d] = hello[d]
           /\ \A d \in Dial : d > dials' => hello'[d] = hello[d]
<1> SUFFICES ASSUME TypeOK, Numbered, [Next]_vars
             PROVE  /\ dials' >= dials
                    /\ \A d \in Dial : d <= dials => hello'[d] = hello[d]
                    /\ \A d \in Dial : d > dials' => hello'[d] = hello[d]
  OBVIOUS
<1> USE NoneIsNoDial
<1>0. dials \in Nat
  BY DEF TypeOK
<1>1. CASE Dials
  <2>1. \A d \in Dial : d <= dials \/ d > dials' => d # dials'
    BY <1>0, <1>1 DEF Dials
  <2>2. \A d \in Dial : d # dials' => hello'[d] = hello[d]
    BY <1>1 DEF Dials
  <2>3. dials' >= dials
    BY <1>0, <1>1 DEF Dials
  <2> QED BY <2>1, <2>2, <2>3
<1>2. CASE Quiet \/ Marked
  <2>1. UNCHANGED <<dials, hello>>
    <3> USE DEF PhoneSide, pcVars, dialVars, connVars, phoneVars
    <3>1. ASSUME NEW e \in Dial, Verify(e) \/ ReadKey(e) \/ Mint(e) \/ Check(e)
                                 \/ PeerGone(e) \/ OnOpen(e)
          PROVE  UNCHANGED <<dials, hello>>
      BY <3>1 DEF Verify, ReadKey, Mint, Check, PeerGone, OnOpen
    <3>2. ASSUME NEW e \in Dial, Save(e) \/ SaveFails(e) \/ OnWelcome(e)
          PROVE  UNCHANGED <<dials, hello>>
      BY <3>2 DEF Save, SaveFails, OnWelcome
    <3>3. CASE CollectNewlyTrusted \/ CollectForget
      BY <3>3 DEF CollectNewlyTrusted, CollectForget
    <3>4. ASSUME NEW s \in Servers, Rotate(s) \/ Expire(s) \/ Crash(s)
          PROVE  UNCHANGED <<dials, hello>>
      BY <3>4 DEF Rotate, Expire, Crash
    <3>5. CASE Quiet
      BY <3>5 DEF Quiet
    <3> QED BY <1>2, <3>1, <3>2, <3>3, <3>4, <3>5 DEF Marked
  <2> QED BY <1>0, <2>1
<1> QED BY <1>1, <1>2, Steps

\* A welcome that is taken was checked against the last dial's hello: that dial
\* is this one and the key is right, or it is a reconnect, which has no key.
LEMMA WrongKeyStep ==
    TypeOK /\ Numbered /\ Ordered /\ Undialled /\ WrongKeyTakesNothing /\ [Next]_vars
        => Undialled' /\ WrongKeyTakesNothing'
<1> SUFFICES ASSUME TypeOK, Numbered, Ordered, Undialled, WrongKeyTakesNothing, [Next]_vars
             PROVE  Undialled' /\ WrongKeyTakesNothing'
  OBVIOUS
<1> DEFINE Right(d) == signed[d] \in {None, hello[d].value}
           Later(d) == \E e \in Dial : e > d /\ hello[e].kind = "trusted"
<1> USE NoneIsNoDial
<1>0. dials \in Nat /\ dials' \in Nat /\ dials' >= dials /\ pending = dials
  BY TypesStep, HelloStays DEF TypeOK, Numbered
<1>1. Undialled'
  <2>1. ASSUME NEW d \in Dial, d > dials' PROVE hello'[d].kind = "none"
    <3>1. d > dials /\ hello'[d] = hello[d]
      BY <1>0, <2>1, HelloStays
    <3> QED BY <3>1 DEF Undialled
  <2> QED BY <2>1 DEF Undialled
<1>2. ASSUME NEW d \in Dial, Later(d) PROVE Later(d)'
  <2>1. PICK e \in Dial : e > d /\ hello[e].kind = "trusted"
    BY <1>2
  <2>2. e <= dials
    BY <1>0, <2>1 DEF Undialled
  <2>3. hello'[e] = hello[e]
    BY <2>2, HelloStays
  <2> QED BY <2>1, <2>3
<1>3. ASSUME NEW d \in Dial, ReadKey(d) PROVE Untaken(d)'
  <2>1. Untaken(d)
    <3>1. logic[d] = "key"
      BY <1>3 DEF ReadKey
    <3> QED BY <3>1 DEF Untaken, Ordered, Over
  <2> QED BY <1>3, <2>1 DEF Untaken, ReadKey, PhoneSide, phoneVars
<1>4. ASSUME NEW d \in Dial, Right(d) PROVE Right(d)' \/ Untaken(d)'
  <2>1. CASE signed'[d] = signed[d] /\ d <= dials
    <3>1. hello'[d] = hello[d]
      BY <2>1, HelloStays
    <3> QED BY <1>4, <2>1, <3>1
  <2>2. CASE signed'[d] = signed[d] /\ d > dials
    BY <2>2 DEF Numbered
  <2>3. CASE ReadKey(d)
    BY <1>3, <2>3
  <2>4. d <= dials \/ d > dials
    BY <1>0
  <2>5. signed'[d] = signed[d] \/ ReadKey(d)
    BY TakenStep
  <2> QED BY <2>1, <2>2, <2>3, <2>4, <2>5
<1>5. ASSUME NEW d \in Dial, OnWelcome(d) PROVE Right(d)' \/ Later(d)' \/ Untaken(d)'
  <2>1. UNCHANGED <<signed, hello, entries>>
    BY <1>5 DEF OnWelcome, dialVars, connVars
  <2>2. CASE ~Genuine(d)
    <3>1. UNCHANGED <<session, newly>>
      BY <1>5, <2>2 DEF OnWelcome
    <3> QED BY <2>1, <3>1, <1>4, <1>2 DEF WrongKeyTakesNothing, Untaken
  <2>3. CASE pending = d /\ signed[d] = hello[d].value
    BY <2>1, <2>3
  <2>4. CASE hello[pending].kind = "trusted" /\ pending = d
    <3>1. signed[d] = None
      BY <2>4 DEF Ordered
    <3> QED BY <2>1, <3>1
  <2>5. CASE hello[pending].kind = "trusted" /\ pending # d
    <3>1. d <= dials
      BY <1>0, <1>5 DEF OnWelcome, Receives, Numbered
    <3>2. pending \in Dial /\ pending > d
      BY <1>0, <2>5, <3>1, PairingAssumption DEF TypeOK, Dial
    <3> QED BY <2>1, <2>5, <3>2
  <2> QED BY <2>2, <2>3, <2>4, <2>5 DEF Genuine
<1>6. ASSUME NEW d \in Dial PROVE Right(d)' \/ Later(d)' \/ Untaken(d)'
  <2>1. Right(d) \/ Later(d) \/ Untaken(d)
    BY DEF WrongKeyTakesNothing, Untaken
  <2>2. CASE Untaken(d)
    BY <1>5, <2>2, TakenStep
  <2> QED BY <1>2, <1>4, <2>1, <2>2
<1>7. WrongKeyTakesNothing'
  BY <1>6 DEF WrongKeyTakesNothing, Untaken
<1> QED BY <1>1, <1>7
-----------------------------------------------------------------------------
(* The fallback *)

LEMMA FallbackInit == Init => FallbackOnce
  BY DEF Init, FallbackOnce

\* A dial retries the kept fallback and drops it; every other keeps it, drops
\* it, or brings a new one that nobody can have retried.
LEMMA FallbackStep ==
    TypeOK /\ Numbered /\ FallbackOnce /\ [Next]_vars => FallbackOnce'
<1> SUFFICES ASSUME TypeOK, Numbered, FallbackOnce, [Next]_vars PROVE FallbackOnce'
  OBVIOUS
<1> USE NoneIsNoDial
<1>1. CASE Dials
  <2>1. /\ dials \in Nat /\ dials' = dials + 1 /\ fallback # dials'
        /\ \A d \in Dial : retryOf[d] # dials'
    BY <1>1, PairingAssumption DEF Dials, TypeOK, Numbered, Dial, None
  <2>2. \A d \in Dial : d # dials' => retryOf'[d] = retryOf[d]
    BY <1>1 DEF Dials
  <2>3. CASE retryOf'[dials'] = None /\ fallback' \in {fallback, None, dials'}
    BY <2>1, <2>2, <2>3 DEF FallbackOnce
  <2>4. CASE retryOf'[dials'] = fallback /\ fallback # None /\ fallback' = None
    BY <2>1, <2>2, <2>4 DEF FallbackOnce
  <2> QED BY <1>1, <2>3, <2>4 DEF Dials
<1>2. CASE Quiet \/ Marked
  <2>1. UNCHANGED <<retryOf, fallback>>
    <3> USE DEF PhoneSide, pcVars, dialVars, connVars, phoneVars
    <3>1. ASSUME NEW e \in Dial, Verify(e) \/ ReadKey(e) \/ Mint(e) \/ Check(e)
                                 \/ PeerGone(e) \/ OnOpen(e)
          PROVE  UNCHANGED <<retryOf, fallback>>
      BY <3>1 DEF Verify, ReadKey, Mint, Check, PeerGone, OnOpen
    <3>2. ASSUME NEW e \in Dial, Save(e) \/ SaveFails(e) \/ OnWelcome(e)
          PROVE  UNCHANGED <<retryOf, fallback>>
      BY <3>2 DEF Save, SaveFails, OnWelcome
    <3>3. CASE CollectNewlyTrusted \/ CollectForget
      BY <3>3 DEF CollectNewlyTrusted, CollectForget
    <3>4. ASSUME NEW s \in Servers, Rotate(s) \/ Expire(s) \/ Crash(s)
          PROVE  UNCHANGED <<retryOf, fallback>>
      BY <3>4 DEF Rotate, Expire, Crash
    <3>5. CASE Quiet
      BY <3>5 DEF Quiet
    <3> QED BY <1>2, <3>1, <3>2, <3>3, <3>4, <3>5 DEF Marked
  <2> QED BY <2>1 DEF FallbackOnce
<1> QED BY <1>1, <1>2, Steps
-----------------------------------------------------------------------------
(* The results *)

\* PairingInv holds in every state of every behaviour.
THEOREM PairingInvariant == Spec => []PairingInv
<1>1. Init => PairingInv
  BY InitTypes, OrderedInit, UsedInit, KeptInit, WrongKeyInit, FallbackInit DEF PairingInv
<1>2. PairingInv /\ [Next]_vars => PairingInv'
  BY TypesStep, OrderedStep, UsedStep, KeptStep, WrongKeyStep, FallbackStep DEF PairingInv
<1> QED BY <1>1, <1>2, PTL DEF Spec

\* Every variable of the phones and PCs stays in its domain.
THEOREM PairingTypes == Spec => []TypeOK
<1>1. PairingInv => TypeOK
  BY DEF PairingInv
<1> QED BY <1>1, PairingInvariant, PTL

\* pairing.rs, verify_and_consume: one code pairs one connection at most.
THEOREM CodesPairOnce == Spec => []CodePairsOnce
<1>1. PairingInv => CodePairsOnce
  BY DEF PairingInv
<1> QED BY <1>1, PairingInvariant, PTL

\* trusted_devices.rs, mint and save: a token that left the PC, or that the
\* phone keeps, is in the PC's file or was dropped by a start that could not
\* read it.
THEOREM TokensAreOnDisk == Spec => []TokenIsOnDisk
<1>1. PairingInv => TokenIsOnDisk
  BY DEF PairingInv
<1> QED BY <1>1, PairingInvariant, PTL

\* ConnectionClient.kt, handleWelcome: a welcome signed with a key the phone
\* never saw neither connects it nor leaves it a token.
THEOREM WrongKeysTakeNothing == Spec => []WrongKeyTakesNothing
<1>1. PairingInv => WrongKeyTakesNothing
  BY DEF PairingInv
<1> QED BY <1>1, PairingInvariant, PTL

\* ConnectionClient.kt, onFailure: the fallback that came with a QR is dialled
\* once at most.
THEOREM FallbackDialledOnce == Spec => []FallbackOnce
<1>1. PairingInv => FallbackOnce
  BY DEF PairingInv
<1> QED BY <1>1, PairingInvariant, PTL
=============================================================================
