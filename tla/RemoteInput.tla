---------------------------- MODULE RemoteInput ----------------------------
(***************************************************************************)
(* Touch gestures and shortcut macros of the phone as mouse and keyboard   *)
(* of the PC.  On the phone's main thread run the gesture loop of the      *)
(* stream's surface (StreamSurface.kt) and a coroutine per macro           *)
(* (AppViewModel.kt); the PC's dispatch applies what they send to Windows, *)
(* which remembers the keys that are down (connection.rs, input.rs).       *)
(*                                                                         *)
(* A position is one of Spots; two taps are near each other when they hit  *)
(* the same.  Touch slop and the times of a tap are choices of the user;   *)
(* that the time for a double tap is over is a step.  A macro is its       *)
(* modifier: press it, tap the macro's letter, release it.                 *)
(***************************************************************************)
EXTENDS Naturals, Sequences

CONSTANTS
    Spots,       \* bound: positions on the screen
    Macros,      \* bound: macros that may run at the same time
    MaxGesture,  \* bound: gestures
    MaxRun,      \* bound: starts of macros
    WireCap,     \* bound: messages under way when the user acts
    Acts,        \* bound: what fingers do: "drag", "scroll", "long"
    Faults       \* bound: "link" goes down, the "surface" leaves

ASSUME InputAssumption ==
    /\ Spots # {} /\ MaxGesture \in Nat /\ MaxRun \in Nat /\ WireCap \in Nat

Nowhere == "nowhere"

Left  == <<"button", "left">>
Right == <<"button", "right">>
Modifier(m) == <<"modifier", m>>
Letter(m)   == <<"letter", m>>
Button == {Left, Right} \union {Modifier(m) : m \in Macros}
              \union {Letter(m) : m \in Macros}

VARIABLES
    finger,    \* the gesture: "none", "one" finger, "drag" or "two" fingers
    downPos,   \* where it began
    leftSent,  \* leftDownSent
    lastTap,   \* where the last tap was, while a double tap is possible
    gestures,  \* gestures begun
    strayed,   \* a drag has moved the cursor since the last tap (history)
    cutOff,    \* a drag was cut off by the surface's end (history)
    step,      \* a macro: steps done of 0..2 (0: it does not run)
    runs,      \* macros started
    link,      \* "up" or "down"
    wire,      \* phone -> PC
    cursor,    \* the PC's cursor
    pressed,   \* the buttons and keys that are down on the PC
    clicks     \* the left clicks: where, and where they were meant (history)

touchVars == <<finger, downPos, leftSent, lastTap, gestures, strayed, cutOff>>
macroVars == <<step, runs>>
hostVars  == <<cursor, pressed, clicks>>
vars == <<touchVars, macroVars, link, wire, hostVars>>

Init ==
    /\ finger = "none" /\ downPos = Nowhere /\ leftSent = FALSE
    /\ lastTap = Nowhere /\ gestures = 0
    /\ strayed = FALSE /\ cutOff = FALSE
    /\ step = [m \in Macros |-> 0] /\ runs = 0
    /\ link = "up" /\ wire = <<>>
    /\ cursor = Nowhere /\ pressed = {} /\ clicks = {}

-----------------------------------------------------------------------------
(* What is sent *)

Move(p)    == [op |-> "move", at |-> p]
\* Of a press the position meant is kept for the history, if it is known.
Down(k, p) == [op |-> "down", key |-> k, at |-> p]
Up(k)      == [op |-> "up", key |-> k]
Click(k, p) == <<Down(k, p), Up(k)>>

\* sendMouseMove, sendMouseButton, sendKeyEvent: without a socket, nothing.
Send(s) == wire' = IF link = "up" THEN wire \o s ELSE wire

Ready == Len(wire) < WireCap

-----------------------------------------------------------------------------
(* gestureLoop *)

touchUnchanged == <<macroVars, link, hostVars>>

Touch(p) ==
    /\ finger = "none" /\ gestures < MaxGesture /\ Ready
    /\ finger' = "one" /\ downPos' = p /\ leftSent' = FALSE
    /\ gestures' = gestures + 1
    /\ UNCHANGED <<lastTap, strayed, cutOff, wire, touchUnchanged>>

\* One finger moves beyond the slop, or moves on.  Mutated: the button goes
\* down with every move.
Each(p)  == <<Move(p), Down(Left, p)>>
Start(p) == <<Move(p)>> \o (IF leftSent THEN <<>> ELSE <<Down(Left, p)>>)

Drag(p) ==
    /\ "drag" \in Acts
    /\ finger \in {"one", "drag"} /\ Ready
    /\ finger' = "drag"
    /\ Send(Start(p))
    /\ leftSent' = TRUE /\ strayed' = TRUE
    /\ UNCHANGED <<downPos, lastTap, gestures, cutOff, touchUnchanged>>

\* A second finger: from here on the gesture scrolls.  The notches change
\* nothing that is modelled.
SecondFinger ==
    /\ "scroll" \in Acts
    /\ finger \in {"one", "drag"}
    /\ finger' = "two"
    /\ UNCHANGED <<downPos, leftSent, lastTap, gestures, strayed, cutOff, wire,
                   touchUnchanged>>

\* The end of a gesture with leftDownSent.  Mutated: of a one-finger gesture.
OneFinger == leftSent /\ finger = "drag"
Dragged   == leftSent

\* Whether a tap is the second of a double tap.  Mutated: wherever it is.
Soon      == lastTap # Nowhere
DoubleTap == lastTap = downPos

EndDrag ==
    /\ Dragged
    /\ Send(<<Up(Left)>>)
    /\ UNCHANGED <<lastTap, strayed>>

\* By then the time for a double tap is over.
LongPress ==
    /\ "long" \in Acts
    /\ finger = "one"
    /\ Send(<<Move(downPos)>> \o Click(Right, downPos))
    /\ lastTap' = Nowhere /\ strayed' = FALSE

\* The second tap of a double tap sends no move.
Tap ==
    /\ finger = "one"
    /\ strayed' = FALSE
    /\ \/ /\ DoubleTap
          /\ Send(Click(Left, IF strayed THEN Nowhere ELSE downPos))
          /\ lastTap' = Nowhere
       \/ /\ ~DoubleTap
          /\ Send(<<Move(downPos)>> \o Click(Left, downPos))
          /\ lastTap' = downPos

\* A scroll, or a press too long for a tap and too short for a long press.
Discard ==
    /\ ~Dragged /\ ("scroll" \in Acts \/ "long" \in Acts)
    /\ UNCHANGED <<wire, lastTap, strayed>>

Lift ==
    /\ finger # "none"
    /\ EndDrag \/ LongPress \/ Tap \/ Discard
    /\ finger' = "none" /\ leftSent' = FALSE
    /\ UNCHANGED <<downPos, gestures, cutOff, touchUnchanged>>

\* doubleTapTimeoutMs have passed since the last tap.
TapExpires ==
    /\ lastTap # Nowhere
    /\ lastTap' = Nowhere
    /\ UNCHANGED <<finger, downPos, leftSent, gestures, strayed, cutOff, wire,
                   touchUnchanged>>

\* The surface leaves, or comes for another stream: its coroutine is cancelled.
Dispose ==
    /\ "surface" \in Faults
    /\ finger # "none"
    /\ finger' = "none" /\ leftSent' = FALSE /\ lastTap' = Nowhere
    /\ cutOff' = (cutOff \/ leftSent)
    /\ UNCHANGED <<downPos, gestures, strayed, wire, touchUnchanged>>

-----------------------------------------------------------------------------
(* runMacro *)

\* The first step runs at once, up to its delay.
RunMacro(m) ==
    /\ step[m] = 0 /\ runs < MaxRun /\ Ready
    /\ step' = [step EXCEPT ![m] = 1]
    /\ runs' = runs + 1
    /\ Send(<<Down(Modifier(m), Nowhere)>>)
    /\ UNCHANGED <<touchVars, link, hostVars>>

\* The steps after the delays.  Mutated: they are swapped.
Swapped(m) == IF step[m] = 2 THEN Click(Letter(m), Nowhere) ELSE <<Up(Modifier(m))>>
Keys(m)    == IF step[m] = 1 THEN Click(Letter(m), Nowhere) ELSE <<Up(Modifier(m))>>

\* After the last step it is over.  Mutated: it is not.
OneTooMany(m) == step[m] + 1
NextStep(m)   == (step[m] + 1) % 3

MacroStep(m) ==
    /\ step[m] > 0
    /\ step' = [step EXCEPT ![m] = NextStep(m)]
    /\ Send(Keys(m))
    /\ UNCHANGED <<touchVars, runs, link, hostVars>>

-----------------------------------------------------------------------------
(* The PC *)

\* dispatch of one message: SendInput.
Apply ==
    /\ wire # <<>>
    /\ wire' = Tail(wire)
    /\ LET msg == Head(wire)
       IN  \/ /\ msg.op = "move"
              /\ cursor' = msg.at
              /\ UNCHANGED <<pressed, clicks>>
           \/ /\ msg.op = "down"
              /\ pressed' = pressed \union {msg.key}
              /\ clicks' = IF msg.key \in {Left, Right}
                           THEN clicks \union {<<cursor, msg.at>>} ELSE clicks
              /\ UNCHANGED cursor
           \/ /\ msg.op = "up"
              /\ pressed' = pressed \ {msg.key}
              /\ UNCHANGED <<cursor, clicks>>
    /\ UNCHANGED <<touchVars, macroVars, link>>

\* The socket breaks: what is under way is lost, and run_connection returns.
LinkDown ==
    /\ "link" \in Faults
    /\ link = "up"
    /\ link' = "down" /\ wire' = <<>>
    /\ UNCHANGED <<touchVars, macroVars, hostVars>>

-----------------------------------------------------------------------------
Next ==
    \/ \E p \in Spots : Touch(p) \/ Drag(p)
    \/ SecondFinger \/ Lift \/ TapExpires \/ Dispose
    \/ \E m \in Macros : RunMacro(m) \/ MacroStep(m)
    \/ Apply \/ LinkDown

Spec == Init /\ [][Next]_vars

\* Fingers are lifted in the end, delays end, and the PC reads its socket.
FairSpec ==
    /\ Spec
    /\ WF_vars(Lift) /\ WF_vars(Apply)
    /\ \A m \in Macros : WF_vars(MacroStep(m))

-----------------------------------------------------------------------------
(* Properties *)

Place == Spots \union {Nowhere}
Message ==
    [op : {"move"}, at : Spots] \union [op : {"down"}, key : Button, at : Place]
        \union [op : {"up"}, key : Button]

\* Type correctness; the wire holds at most what the acts of a moment add.
TypeOK ==
    /\ finger \in {"none", "one", "drag", "two"}
    /\ downPos \in Place /\ lastTap \in Place
    /\ {leftSent, strayed, cutOff} \subseteq BOOLEAN /\ gestures \in 0..MaxGesture
    /\ step \in [Macros -> 0..2] /\ runs \in 0..MaxRun
    /\ link \in {"up", "down"}
    /\ wire \in Seq(Message)
    /\ cursor \in Place /\ pressed \subseteq Button
    /\ clicks \subseteq Place \X Place

\* A message that presses or releases k.
About(k, msg) == msg.op # "move" /\ msg.key = k

\* What is down on the PC once all that is under way has arrived: a key that
\* the last message about it presses, or that is down and has no such message.
Finally(keys, s) ==
    {k \in Button :
        \/ k \in keys /\ \A i \in 1..Len(s) : ~About(k, s[i])
        \/ \E i \in 1..Len(s) :
              /\ About(k, s[i]) /\ s[i].op = "down"
              /\ \A j \in i + 1..Len(s) : ~About(k, s[j])}

\* As long as the link holds the PC's keys follow the phone: when all is
\* applied the left button is down exactly while a drag lasts, and a modifier
\* exactly while its macro runs, in whatever way the gesture ended and the
\* coroutines took turns.  Left aside: the button of a drag whose coroutine
\* the surface's end cancelled (StreamSurface.kt:137).
KeysFollow ==
    link = "up" =>
        LET left == IF cutOff THEN {Left} ELSE {}
        IN  Finally(pressed, wire) \ left =
               ((IF leftSent THEN {Left} ELSE {})
                   \union {Modifier(m) : m \in {n \in Macros : step[n] > 0}}) \ left

\* PROTOCOL.md, mouse_button: a click is a press and its release, a drag a
\* press, moves and their release: no button is pressed that is already down,
\* but for the left one after a drag was cut off.
PressedOnce ==
    wire # <<>> /\ Head(wire).op = "down" =>
        \/ Head(wire).key \notin pressed
        \/ cutOff /\ Head(wire).key = Left

\* A macro's letter comes while the macro's own modifier is down, with
\* another macro running or not.
LetterWithModifier == \A m \in Macros : Letter(m) \in pressed => Modifier(m) \in pressed

\* A click is where the finger was.  Of a double tap "the two SendInput clicks
\* land at the same Win32 cursor position" though the second sends no move
\* (StreamSurface.kt:317-318).  Left aside: a drag between the two taps,
\* which moves the cursor and does not end the double tap.
ClicksLand == \A c \in clicks : c[1] = c[2] \/ c[2] = Nowhere

\* PROTOCOL.md: a drag ends with its release, a key's press must be followed
\* by its release.  Nothing stays pressed on the PC while the link holds, but
\* the button of a drag that was cut off.
NothingStaysDown ==
    \A k \in Button :
        k \in pressed ~> k \notin pressed \/ link = "down" \/ (cutOff /\ k = Left)
=============================================================================
