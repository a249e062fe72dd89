------------------------------ MODULE Pairing ------------------------------
(***************************************************************************)
(* How a phone becomes known to a PC, and known again later: the one-shot  *)
(* code and key of the QR (pairing.rs), the store of trusted devices       *)
(* (trusted_devices.rs), the two handshakes of run_connection              *)
(* (connection.rs, Hello and TrustedHello), and the phone's end of them    *)
(* (ConnectionClient.kt, TrustedServers.kt, AppViewModel.kt), which dials, *)
(* falls back from the LAN to the relay, checks the welcome and keeps the  *)
(* token.                                                                  *)
(*                                                                         *)
(* A dial is one WebSocket of the phone, numbered in the order they are    *)
(* made.  A code and its key are one number: the QR shows them together    *)
(* and rotate replaces both.  A device id and its token are the number of  *)
(* the dial they were minted for.  HMACs are compared by what they are     *)
(* made of: the key, and the nonce, which is the dial's own.  Servers have *)
(* distinct names (the phone's store takes a name for a machine).          *)
(***************************************************************************)
EXTENDS Naturals, FiniteSets

CONSTANTS
    Servers,   \* the PCs
    Vias,      \* the ways the phone dials: a subset of {"lan", "relay"}
    MaxDial,   \* bound: dials
    MaxCode,   \* bound: codes a PC shows
    MaxCrash,  \* bound: times PC processes die
    Faults     \* bound: what goes wrong: "save", "file", "expire", "link", "offline"

ASSUME PairingAssumption ==
    /\ Servers # {}
    /\ Vias \subseteq {"lan", "relay"}
    /\ MaxDial \in Nat \ {0}
    /\ MaxCode \in Nat \ {0}
    /\ MaxCrash \in Nat

Dial == 1..MaxDial
None == 0
Code == 1..MaxCode

VARIABLES
    \* a PC
    code,     \* the code and key its QR shows
    usable,   \* "fresh", "consumed" or "expired"
    trusted,  \* the devices it knows
    disk,     \* those in trusted_devices.json
    crashes,
    lost,     \* devices that a start read back no more (history)
    \* a dial
    server,   \* where it goes
    via,
    hello,    \* HelloPayload: [kind, value], a code or a device
    ws,       \* the phone's WebSocket
    link,     \* "up", "cut" (it breaks) or "shut" (the far end sent Close)
    logic,    \* the handshake of its run_connection
    signed,   \* the key its welcome is signed with
    token,    \* its welcome carries a token
    reply,    \* what was sent back
    \* the phone
    dials,    \* how many there were
    webSocket,\* the field: the current dial
    pending,  \* pendingHello, pendingKey, pendingNonce and pendingWsUrl: the last dial
    state,    \* ConnectionState
    session,  \* whose welcome made it Connected
    fallback, \* pendingFallback: the dial of the QR it came with
    retryOf,  \* for a dial made by the fallback, the dial of that QR (history)
    newly,    \* newlyTrustedServer, not yet collected
    forget,   \* forgetDeviceId, not yet collected
    entries   \* TrustedServerStore: by server name, a device and a URL

pcVars    == <<code, usable, trusted, disk, crashes, lost>>
dialVars  == <<server, via, hello, retryOf, dials>>
connVars  == <<logic, signed, token>>
phoneVars == <<webSocket, pending, state, session, fallback, newly, forget, entries>>
vars == <<pcVars, dialVars, connVars, ws, link, reply, phoneVars>>

NoHello == [kind |-> "none", value |-> None]
NoEntry == [device |-> None, url |-> None]
NoNews  == [device |-> None, url |-> None, name |-> None]

Init ==
    /\ code = [s \in Servers |-> 1]
    /\ usable = [s \in Servers |-> "fresh"]
    /\ trusted = [s \in Servers |-> {}]
    /\ disk = [s \in Servers |-> {}]
    /\ crashes = 0 /\ lost = {}
    /\ server = [d \in Dial |-> CHOOSE s \in Servers : TRUE]
    /\ via = [d \in Dial |-> "lan"]
    /\ hello = [d \in Dial |-> NoHello]
    /\ ws = [d \in Dial |-> "none"]
    /\ link = [d \in Dial |-> "up"]
    /\ logic = [d \in Dial |-> "none"]
    /\ signed = [d \in Dial |-> None]
    /\ token = [d \in Dial |-> FALSE]
    /\ reply = [d \in Dial |-> "none"]
    /\ dials = 0
    /\ webSocket = None /\ pending = None
    /\ state = "Idle" /\ session = None
    /\ fallback = None
    /\ retryOf = [d \in Dial |-> None]
    /\ newly = NoNews /\ forget = None
    /\ entries = [s \in Servers |-> NoEntry]

-----------------------------------------------------------------------------
(* The phone dials *)

\* disconnect(): the old socket is closed, its callbacks still come.
Closing(d) == IF d # None /\ ws[d] \in {"dialing", "open"}
              THEN [ws EXCEPT ![d] = "closing"] ELSE ws

\* connect and connectTrusted: disconnect, then a new socket and the fields
\* its Listener will read.
NewDial(s, v, h, primary) ==
    LET d == dials + 1 IN
    /\ d \in Dial
    /\ dials' = d
    /\ server' = [server EXCEPT ![d] = s]
    /\ via' = [via EXCEPT ![d] = v]
    /\ hello' = [hello EXCEPT ![d] = h]
    /\ retryOf' = [retryOf EXCEPT ![d] = primary]
    /\ ws' = [Closing(webSocket) EXCEPT ![d] = "dialing"]
    /\ webSocket' = d /\ pending' = d
    /\ state' = "Connecting"

\* The bound on dials leaves one for the fallback.
Room(fallbackDial) == dials + (IF fallbackDial THEN 2 ELSE 1) <= MaxDial

\* The user scans the QR on the PC's screen; the combined form carries the
\* relay as a fallback.
Scan(s, v, both) ==
    /\ both => v = "lan" /\ "relay" \in Vias
    /\ Room(both)
    /\ NewDial(s, v, [kind |-> "qr", value |-> code[s]], None)
    /\ fallback' = IF both THEN dials' ELSE None
    /\ UNCHANGED <<pcVars, connVars, link, reply, session, newly, forget, entries>>

\* The user reconnects to a server of the list.
Reconnect(n) ==
    /\ entries[n] # NoEntry
    /\ Room(fallback # None)
    /\ LET url == entries[n].url
       IN  NewDial(server[url], via[url],
                   [kind |-> "trusted", value |-> entries[n].device], None)
    /\ UNCHANGED <<pcVars, connVars, link, reply, session, fallback, newly,
                   forget, entries>>

Disconnect ==
    /\ webSocket # None
    /\ ws' = Closing(webSocket)
    /\ webSocket' = None
    /\ state' = "Idle"
    /\ UNCHANGED <<pcVars, dialVars, connVars, link, reply, pending, session,
                   fallback, newly, forget, entries>>

-----------------------------------------------------------------------------
(* The Listener's callbacks *)

OnOpen(d) ==
    /\ ws[d] = "dialing" /\ link[d] = "up"
    /\ ws' = [ws EXCEPT ![d] = "open"]
    /\ logic' = [logic EXCEPT ![d] = "hello"]
    /\ UNCHANGED <<pcVars, dialVars, signed, token, link, reply, phoneVars>>

\* A message comes in, even on a socket the phone is closing.
Receives(d, kinds) ==
    /\ ws[d] \in {"open", "closing"} /\ link[d] # "cut"
    /\ reply[d] \in kinds
    /\ reply' = [reply EXCEPT ![d] = IF @ = "welcome" THEN "read" ELSE "told"]

\* handleWelcome: the HMAC is checked with the pending key and nonce; a
\* trusted reconnect has neither and skips the check.
\* Mutated: only the nonce is.
NonceOnly(d) == hello[pending].kind = "trusted" \/ pending = d
Genuine(d) ==
    \/ hello[pending].kind = "trusted"
    \/ pending = d /\ signed[d] = hello[d].value

\* The wsUrl of the new entry: pendingWsUrl, which no disconnect clears.
\* Mutated: one does.
BlankUrl == IF webSocket = None THEN None ELSE pending
LastUrl  == pending

OnWelcome(d) ==
    /\ Receives(d, {"welcome"})
    /\ IF Genuine(d)
       THEN /\ newly' = IF token[d]
                        THEN [device |-> d, url |-> LastUrl, name |-> server[d]]
                        ELSE newly
            /\ state' = "Connected" /\ session' = d
            /\ UNCHANGED ws
       ELSE /\ state' = "Failed"
            /\ ws' = Closing(d)
            /\ UNCHANGED <<newly, session>>
    /\ UNCHANGED <<pcVars, dialVars, connVars, link, webSocket, pending, fallback,
                   forget, entries>>

\* A PC that does not know the device any more: the entry is stale.
\* Mutated: nobody is told.
SayNothing(d) == forget
TellStale(d)  == IF reply[d] = "unknown" /\ hello[pending].kind = "trusted"
                 THEN hello[pending].value ELSE forget

OnError(d) ==
    /\ Receives(d, {"unknown", "rejected"})
    /\ forget' = TellStale(d)
    /\ state' = "Failed"
    /\ ws' = Closing(d)
    /\ UNCHANGED <<pcVars, dialVars, connVars, link, webSocket, pending, session,
                   fallback, newly, entries>>

\* The field when connect() takes the fallback: the relay's payload has none.
\* Mutated: it is kept.
KeepFallback  == fallback
TakenFallback == None

\* onFailure: ignored for an old socket; else the fallback once, else Failed.
OnFailure(d) ==
    /\ ws[d] \in {"dialing", "open", "closing"} /\ link[d] = "cut"
    /\ \/ /\ webSocket # d
          /\ ws' = [ws EXCEPT ![d] = "closed"]
          /\ UNCHANGED <<dialVars, webSocket, pending, state, fallback>>
       \/ /\ webSocket = d /\ fallback # None /\ dials < MaxDial
          /\ fallback' = TakenFallback
          /\ NewDial(server[fallback], "relay", hello[fallback], fallback)
       \/ /\ webSocket = d /\ fallback = None
          /\ ws' = [ws EXCEPT ![d] = "closed"]
          /\ state' = "Failed"
          /\ webSocket' = None
          /\ UNCHANGED <<dialVars, pending, fallback>>
    /\ UNCHANGED <<pcVars, connVars, link, reply, session, newly, forget, entries>>

\* onClosing answers the far end's Close; onClosed follows, for that and for
\* the phone's own close.  Only a Connected phone becomes Idle.
OnClosed(d) ==
    /\ \/ ws[d] \in {"open", "closing"} /\ link[d] = "shut"
             /\ reply[d] \in {"none", "read", "told"}
       \/ ws[d] = "closing" /\ link[d] = "up"
    /\ ws' = [ws EXCEPT ![d] = "closed"]
    /\ webSocket' = IF webSocket = d THEN None ELSE webSocket
    /\ state' = IF webSocket = d /\ state = "Connected" THEN "Idle" ELSE state
    /\ UNCHANGED <<pcVars, dialVars, connVars, link, reply, pending, session,
                   fallback, newly, forget, entries>>

-----------------------------------------------------------------------------
(* The ViewModel's collectors *)

\* upsert: one entry per server name, one per device.
Upsert(e) == [n \in Servers |->
    IF n = e.name THEN [device |-> e.device, url |-> e.url]
    ELSE IF entries[n].device = e.device THEN NoEntry ELSE entries[n]]

CollectNewlyTrusted ==
    /\ newly # NoNews
    /\ entries' = Upsert(newly)
    /\ newly' = NoNews
    /\ UNCHANGED <<pcVars, dialVars, connVars, ws, link, reply, webSocket, pending,
                   state, session, fallback, forget>>

CollectForget ==
    /\ forget # None
    /\ entries' = [n \in Servers |->
                     IF entries[n].device = forget THEN NoEntry ELSE entries[n]]
    /\ forget' = None
    /\ UNCHANGED <<pcVars, dialVars, connVars, ws, link, reply, webSocket, pending,
                   state, session, fallback, newly>>

-----------------------------------------------------------------------------
(* The PC *)

PhoneSide == <<dialVars, ws, link, phoneVars>>

\* verify_and_consume, in one critical section.  Mutated: the code stays.
LeaveCode(s) == usable
Consume(s)   == [usable EXCEPT ![s] = "consumed"]

Verify(d) ==
    LET s == server[d] IN
    /\ logic[d] = "hello" /\ hello[d].kind = "qr"
    /\ \/ /\ usable[s] = "fresh" /\ code[s] = hello[d].value
          /\ usable' = Consume(s)
          /\ logic' = [logic EXCEPT ![d] = "key"]
          /\ UNCHANGED reply
       \/ /\ usable[s] # "fresh" \/ code[s] # hello[d].value
          /\ reply' = [reply EXCEPT ![d] = "rejected"]
          /\ logic' = [logic EXCEPT ![d] = "back"]
          /\ UNCHANGED usable
    /\ UNCHANGED <<code, trusted, disk, crashes, lost, signed, token, PhoneSide>>

\* pairing.key(): the store is locked a second time.
ReadKey(d) ==
    /\ logic[d] = "key"
    /\ logic' = [logic EXCEPT ![d] = "mint"]
    /\ signed' = [signed EXCEPT ![d] = code[server[d]]]
    /\ UNCHANGED <<pcVars, token, reply, PhoneSide>>

\* mint: the device is pushed under the lock, then save takes it again.
Mint(d) ==
    /\ logic[d] = "mint"
    /\ logic' = [logic EXCEPT ![d] = "save"]
    /\ trusted' = [trusted EXCEPT ![server[d]] = @ \cup {d}]
    /\ UNCHANGED <<code, usable, disk, crashes, lost, signed, token, reply, PhoneSide>>

\* verify: last_seen is updated under the lock, then save takes it again.
Check(d) ==
    /\ logic[d] = "hello" /\ hello[d].kind = "trusted"
    /\ \/ /\ hello[d].value \in trusted[server[d]]
          /\ logic' = [logic EXCEPT ![d] = "save"]
          /\ UNCHANGED reply
       \/ /\ hello[d].value \notin trusted[server[d]]
          /\ reply' = [reply EXCEPT ![d] = "unknown"]
          /\ logic' = [logic EXCEPT ![d] = "back"]
    /\ UNCHANGED <<pcVars, signed, token, PhoneSide>>

Welcomes(d, carries) ==
    /\ token' = [token EXCEPT ![d] = carries]
    /\ reply' = [reply EXCEPT ![d] = "welcome"]
    /\ logic' = [logic EXCEPT ![d] = "auth"]

\* Serialised, written to the sibling and renamed, all under the lock.
Save(d) ==
    /\ logic[d] = "save"
    /\ disk' = [disk EXCEPT ![server[d]] = trusted[server[d]]]
    /\ Welcomes(d, hello[d].kind = "qr")
    /\ UNCHANGED <<code, usable, trusted, crashes, lost, signed, PhoneSide>>

\* mint's `?`: no token is handed out.  Mutated: the error is only logged.
HandOut(d)  == hello[d].kind = "qr"
Withhold(d) == FALSE

\* The welcome is sent all the same.  Mutated: the handshake fails.
NoAnswer(d)   == UNCHANGED <<token, reply>> /\ logic' = [logic EXCEPT ![d] = "back"]
AnswerStill(d) == Welcomes(d, Withhold(d))

SaveFails(d) ==
    /\ "save" \in Faults
    /\ logic[d] = "save"
    /\ AnswerStill(d)
    /\ UNCHANGED <<pcVars, signed, PhoneSide>>

\* run_connection sees that the phone is gone.
PeerGone(d) ==
    /\ logic[d] = "auth"
    /\ ws[d] \in {"closing", "closed"} \/ link[d] # "up"
    /\ logic' = [logic EXCEPT ![d] = "back"]
    /\ UNCHANGED <<pcVars, signed, token, reply, PhoneSide>>

\* The tray's menu or the QR page's button: another thread.
Rotate(s) ==
    /\ code[s] < MaxCode
    /\ code' = [code EXCEPT ![s] = @ + 1]
    /\ usable' = [usable EXCEPT ![s] = "fresh"]
    /\ UNCHANGED <<trusted, disk, crashes, lost, connVars, reply, PhoneSide>>

\* PAIRING_CODE_TTL_SECS pass.
Expire(s) ==
    /\ "expire" \in Faults
    /\ usable[s] = "fresh"
    /\ usable' = [usable EXCEPT ![s] = "expired"]
    /\ UNCHANGED <<code, trusted, disk, crashes, lost, connVars, reply, PhoneSide>>

\* TrustedDevicesStore::open: a file that cannot be read counts as empty.
Loaded(s) == {disk[s]} \cup (IF "file" \in Faults THEN {{}} ELSE {})

\* The server process dies and is started again: the store is read back.
\* (The relay keeps the phone's socket open until RelayCloses.)
Crash(s) ==
    /\ crashes < MaxCrash /\ code[s] < MaxCode
    /\ crashes' = crashes + 1
    /\ code' = [code EXCEPT ![s] = @ + 1]
    /\ usable' = [usable EXCEPT ![s] = "fresh"]
    /\ \E devices \in Loaded(s) :
         /\ trusted' = [trusted EXCEPT ![s] = devices]
         /\ lost' = lost \cup (disk[s] \ devices)
    /\ logic' = [d \in Dial |-> IF server[d] = s /\ logic[d] # "none"
                                THEN "back" ELSE logic[d]]
    /\ link' = [d \in Dial |-> IF server[d] = s /\ via[d] = "lan" /\ logic[d] # "none"
                               THEN "cut" ELSE link[d]]
    /\ UNCHANGED <<disk, signed, token, ws, reply, dialVars, phoneVars>>

-----------------------------------------------------------------------------
(* The network *)

Breaks(d) ==
    /\ "link" \in Faults
    /\ ws[d] \in {"dialing", "open", "closing"} /\ link[d] = "up"
    /\ link' = [link EXCEPT ![d] = "cut"]
    /\ UNCHANGED <<pcVars, dialVars, connVars, ws, reply, phoneVars>>

\* The relay lost the host: it closes the phone's socket with a Close frame,
\* in client_loop's early return or when its writer ends.
RelayCloses(d) ==
    /\ "offline" \in Faults
    /\ via[d] = "relay" /\ ws[d] = "open" /\ link[d] = "up"
    /\ link' = [link EXCEPT ![d] = "shut"]
    /\ UNCHANGED <<pcVars, dialVars, connVars, ws, reply, phoneVars>>

-----------------------------------------------------------------------------
Handshake(d) == Verify(d) \/ ReadKey(d) \/ Mint(d) \/ Check(d) \/ Save(d)
                \/ SaveFails(d) \/ PeerGone(d)

Listener(d) == OnOpen(d) \/ OnWelcome(d) \/ OnError(d) \/ OnFailure(d) \/ OnClosed(d)

Collectors == CollectNewlyTrusted \/ CollectForget

User ==
    \/ \E s \in Servers : \E v \in Vias : \E both \in BOOLEAN : Scan(s, v, both)
    \/ \E n \in Servers : Reconnect(n)
    \/ Disconnect

Next ==
    \/ User
    \/ \E d \in Dial : Handshake(d) \/ Listener(d) \/ Breaks(d) \/ RelayCloses(d)
    \/ Collectors
    \/ \E s \in Servers : Rotate(s) \/ Expire(s) \/ Crash(s)

Spec == Init /\ [][Next]_vars

\* The PC's threads and OkHttp's dispatcher run; the user need not do a thing.
FairSpec ==
    /\ Spec
    /\ \A d \in Dial : WF_vars(Handshake(d)) /\ WF_vars(Listener(d))
    /\ WF_vars(Collectors)

-----------------------------------------------------------------------------
(* Properties *)

\* Every variable stays in its domain.
TypeOK ==
    /\ code \in [Servers -> Code]
    /\ usable \in [Servers -> {"fresh", "consumed", "expired"}]
    /\ trusted \in [Servers -> SUBSET Dial] /\ disk \in [Servers -> SUBSET Dial]
    /\ crashes \in 0..MaxCrash /\ lost \subseteq Dial
    /\ server \in [Dial -> Servers] /\ via \in [Dial -> {"lan", "relay"}]
    /\ hello \in [Dial -> {NoHello} \cup [kind : {"qr"}, value : Code]
                                   \cup [kind : {"trusted"}, value : Dial]]
    /\ ws \in [Dial -> {"none", "dialing", "open", "closing", "closed"}]
    /\ link \in [Dial -> {"up", "cut", "shut"}]
    /\ logic \in [Dial -> {"none", "hello", "key", "mint", "save", "auth", "back"}]
    /\ signed \in [Dial -> Code \cup {None}] /\ token \in [Dial -> BOOLEAN]
    /\ reply \in [Dial -> {"none", "welcome", "unknown", "rejected", "read", "told"}]
    /\ dials \in 0..MaxDial
    /\ {webSocket, pending, session, fallback, forget} \subseteq Dial \cup {None}
    /\ retryOf \in [Dial -> Dial \cup {None}]
    /\ state \in {"Idle", "Connecting", "Connected", "Failed"}
    /\ newly \in {NoNews} \cup [device : Dial, url : Dial, name : Servers]
    /\ entries \in [Servers -> {NoEntry} \cup [device : Dial, url : Dial]]

\* The connection got past verify_and_consume with this code.
PairedWith(d, s, c) ==
    /\ server[d] = s /\ hello[d] = [kind |-> "qr", value |-> c]
    /\ logic[d] = "key" \/ signed[d] # None

\* A code pairs one connection, whatever connections try it at once, expiries,
\* rotations and restarts (pairing.rs:61: "only the first valid attempt
\* succeeds").
CodePairsOnce ==
    \A s \in Servers : \A c \in Code : \A d, e \in Dial :
        PairedWith(d, s, c) /\ PairedWith(e, s, c) => d = e

\* A token the phone was given, or keeps, is one the PC will still know after
\* it dies: it was saved before it was handed out (trusted_devices.rs:133-137).
\* No save of another connection loses it.  Left aside: a start that cannot
\* read the file, which counts as empty (trusted_devices.rs:68-70).
TokenIsOnDisk ==
    /\ \A d \in Dial : token[d] => d \in disk[server[d]] \cup lost
    /\ \A n \in Servers : entries[n] # NoEntry =>
           entries[n].device \in disk[server[entries[n].device]] \cup lost

\* A rotate between verify_and_consume and key() (connection.rs:456-459) has
\* the PC sign with a key the phone never saw.  The phone takes that for a man
\* in the middle (ConnectionClient.kt:932-948): whatever it dials meanwhile,
\* such a welcome neither connects it nor leaves a token.  Left aside: one that
\* comes after the user reconnected to a known PC, which checks no HMAC.
WrongKeyTakesNothing ==
    \A d \in Dial :
        \/ signed[d] \in {None, hello[d].value}
        \/ \E e \in Dial : e > d /\ hello[e].kind = "trusted"
        \/ /\ session # d /\ newly.device # d
           /\ \A n \in Servers : entries[n].device # d

\* The fallback of a QR is dialled once at most, whatever fails, connects or
\* is left in between (ConnectionClient.kt:185-190: "we retry here exactly
\* once"): no two dials retry the same one, and none that was tried is still
\* kept for the next failure.
FallbackOnce ==
    \A d \in Dial : retryOf[d] # None =>
        /\ retryOf[d] # fallback
        /\ \A e \in Dial \ {d} : retryOf[e] # retryOf[d]

\* The user is not left with a spinner: a dial that has begun ends in
\* Connected, Failed or Idle (ConnectionClient.kt:247-251, 871-928).  Left
\* aside, since onClosed makes only a Connected phone Idle
\* (ConnectionClient.kt:922): the relay closes the socket cleanly because
\* the PC is offline (main.rs:771-774), or the PC dies behind the relay,
\* which tells the phone nothing.
Abandoned ==
    /\ pending # None
    /\ \/ link[pending] = "shut"
       \/ via[pending] = "relay" /\ logic[pending] = "back" /\ reply[pending] = "none"
DialEnds == (state = "Connecting") ~> (state # "Connecting" \/ Abandoned)

\* A phone that was told the PC does not know it drops the entry, so that the
\* user is sent back to the QR (ConnectionClient.kt:798-808,
\* AppViewModel.kt:127-135).
RejectedIsForgotten ==
    \A d \in Dial :
        (hello[d].kind = "trusted" /\ reply[d] = "told" /\ webSocket = d)
            ~> (\A n \in Servers : entries[n].device # hello[d].value)

-----------------------------------------------------------------------------
(* What the comments say, and the code does not do *)

\* ConnectionClient.kt:873-877: a callback that belongs to the previous socket
\* "must NOT touch any shared state": what makes the phone Connected is the
\* welcome of the socket it uses.
ConnectedByThisSocket == state = "Connected" => session = webSocket

\* TrustedServers.kt:21: "Last ws://host:port we successfully connected on":
\* the URL kept with a PC's token leads to that PC.
EntryNamesItsServer ==
    \A n \in Servers : entries[n] # NoEntry => server[entries[n].url] = n

\* ConnectionClient.kt:186-188: "On the FIRST onFailure from the primary dial
\* we retry here": what fails is the dial the fallback came with.
FallbackOfTheFailedDial ==
    [][\A d \in Dial : retryOf'[d] # retryOf[d] => webSocket = retryOf'[d]]_vars

\* pairing.rs:12: "server signs client's nonce with HMAC-SHA256" under the key
\* delivered by the QR: the welcome to a code is signed with the key shown
\* with it, or an honest server is taken for a man in the middle.
SignedWithTheCodesKey ==
    \A d \in Dial : signed[d] # None => signed[d] = hello[d].value
=============================================================================
