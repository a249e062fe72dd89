-------------------------- MODULE RemoteInput_proofs --------------------------
(***************************************************************************)
(* The PC's keys follow the phone (KeysFollow) and clicks land where the   *)
(* finger was (ClicksLand), for any number of macros, positions and        *)
(* gestures and a wire of any length.                                      *)
(*                                                                         *)
(* KeysFollow is inductive once it is known that the left button is down   *)
(* only while a drag or a scroll lasts: a tap or a long press then presses *)
(* a button that is up.  ClicksLand speaks of a history; it rests on where *)
(* the cursor will be when a click under way arrives, and on where it is   *)
(* after all of them, as long as a second tap may come.                    *)
(***************************************************************************)
EXTENDS RemoteInput, SequenceTheorems, TLAPS

Stages == {"none", "one", "drag", "two"}

\* The left button was pressed by a drag, which may have become a scroll.
DragHoldsLeft == leftSent => finger \in {"drag", "two"}

\* A finger that is down went down somewhere.
FingerIsSomewhere == finger # "none" => downPos \in Spots

InputTypeInv == TypeOK /\ DragHoldsLeft /\ FingerIsSomewhere

-----------------------------------------------------------------------------
(* What is sent *)

\* The buttons and keys are distinct.
LEMMA ButtonsDiffer ==
    /\ Left # Right
    /\ \A m \in Macros : /\ Modifier(m) \notin {Left, Right}
                         /\ Letter(m) \notin {Left, Right}
                         /\ \A n \in Macros : /\ Modifier(m) # Letter(n)
                                              /\ (Modifier(m) = Modifier(n) => m = n)
  BY DEF Left, Right, Modifier, Letter

\* What is sent are messages.
LEMMA AllAreMessages ==
    /\ \A p \in Spots : Move(p) \in Message
    /\ \A k \in Button : Up(k) \in Message
    /\ \A k \in Button, p \in Place : Down(k, p) \in Message
  BY DEF Move, Up, Down, Message

LEMMA AllAreButtons ==
    /\ {Left, Right} \subseteq Button
    /\ \A m \in Macros : {Modifier(m), Letter(m)} \subseteq Button
  BY DEF Button

\* A queue that grows by one, two or three messages is one that grows one by
\* one.
LEMMA OneByOne ==
    ASSUME NEW S, NEW q \in Seq(S), NEW a \in S, NEW b \in S, NEW c \in S
    PROVE  /\ q \o <<>> = q
           /\ q \o <<a>> = Append(q, a)
           /\ q \o <<a, b>> = Append(Append(q, a), b)
           /\ q \o <<a, b, c>> = Append(Append(Append(q, a), b), c)
  OBVIOUS

\* A queue that grows.
LEMMA Appended ==
    ASSUME NEW S, NEW q \in Seq(S), NEW m \in S
    PROVE  /\ Append(q, m) \in Seq(S)
           /\ Len(Append(q, m)) = Len(q) + 1
           /\ Append(q, m)[Len(q) + 1] = m
           /\ \A i \in 1..Len(q) : Append(q, m)[i] = q[i]
  BY AppendProperties

\* A queue whose head is taken.
LEMMA Shortened ==
    ASSUME NEW S, NEW q \in Seq(S), q # <<>>
    PROVE  /\ Tail(q) \in Seq(S) /\ Len(Tail(q)) = Len(q) - 1
           /\ Head(q) = q[1] /\ Head(q) \in S /\ Len(q) \in Nat /\ Len(q) > 0
           /\ \A i \in 1..Len(q) - 1 : Tail(q)[i] = q[i + 1]
  BY HeadTailProperties

-----------------------------------------------------------------------------
(* What is down in the end *)

\* What one message does to the keys that are down.
After(keys, msg) ==
    IF msg.op = "down" THEN keys \union {msg.key}
    ELSE IF msg.op = "up" THEN keys \ {msg.key} ELSE keys

\* Nothing is under way: what is down stays.
LEMMA FinallyNow ==
    ASSUME NEW keys \in SUBSET Button
    PROVE  Finally(keys, <<>>) = keys
  BY DEF Finally

\* The message at the head is the next to be applied.
LEMMA FinallyFirst ==
    ASSUME NEW keys \in SUBSET Button, NEW s \in Seq(Message), s # <<>>
    PROVE  Finally(keys, s) = Finally(After(keys, Head(s)), Tail(s))
<1> DEFINE h == Head(s)
           t == Tail(s)
<1>1. /\ h \in Message /\ Len(s) \in Nat /\ Len(t) = Len(s) - 1
      /\ h = s[1] /\ \A i \in 1..Len(t) : t[i] = s[i + 1]
  BY Shortened
<1>2. \A i \in 1..Len(s) : s[i] \in Message
  OBVIOUS
<1>3. ASSUME NEW k \in Button
      PROVE  k \in Finally(keys, s) <=> k \in Finally(After(keys, h), t)
  <2> DEFINE Later == \E i \in 1..Len(s) : i > 1 /\ About(k, s[i])
  <2>1. Later <=> \E i \in 1..Len(t) : About(k, t[i])
    <3>1. ASSUME NEW i \in 1..Len(s), i > 1, About(k, s[i])
          PROVE  \E j \in 1..Len(t) : About(k, t[j])
      <4>1. i - 1 \in 1..Len(t) /\ t[i - 1] = s[i]
        BY <1>1, <3>1
      <4>. QED  BY <4>1, <3>1
    <3>2. ASSUME NEW i \in 1..Len(t), About(k, t[i])
          PROVE  Later
      <4>1. i + 1 \in 1..Len(s) /\ i + 1 > 1 /\ t[i] = s[i + 1]
        BY <1>1
      <4>. QED  BY <4>1, <3>2
    <3>. QED  BY <3>1, <3>2
  <2> DEFINE Pressed(q, i) == /\ About(k, q[i]) /\ q[i].op = "down"
                              /\ \A j \in i + 1..Len(q) : ~About(k, q[j])
  <2>2. (\E i \in 1..Len(s) : i > 1 /\ Pressed(s, i)) <=> \E i \in 1..Len(t) : Pressed(t, i)
    <3>1. ASSUME NEW i \in 1..Len(s), i > 1, Pressed(s, i)
          PROVE  \E j \in 1..Len(t) : Pressed(t, j)
      <4>1. i - 1 \in 1..Len(t) /\ t[i - 1] = s[i]
        BY <1>1, <3>1
      <4>2. ASSUME NEW j \in (i - 1) + 1..Len(t)
            PROVE  ~About(k, t[j])
        <5>1. j + 1 \in i + 1..Len(s) /\ j \in 1..Len(t)
          BY <1>1
        <5>. QED  BY <5>1, <1>1, <3>1
      <4>. QED  BY <4>1, <4>2, <3>1
    <3>2. ASSUME NEW i \in 1..Len(t), Pressed(t, i)
          PROVE  \E j \in 1..Len(s) : j > 1 /\ Pressed(s, j)
      <4>1. i + 1 \in 1..Len(s) /\ i + 1 > 1 /\ t[i] = s[i + 1]
        BY <1>1
      <4>2. ASSUME NEW j \in (i + 1) + 1..Len(s)
            PROVE  ~About(k, s[j])
        <5>1. j - 1 \in i + 1..Len(t) /\ j - 1 \in 1..Len(t) /\ (j - 1) + 1 = j
          BY <1>1
        <5>2. t[j - 1] = s[j]
          BY <5>1, <1>1
        <5>. QED  BY <5>1, <5>2, <3>2
      <4>. QED  BY <4>1, <4>2, <3>2
    <3>. QED  BY <3>1, <3>2
  <2>3. k \in Finally(keys, s) <=>
          \/ k \in keys /\ ~About(k, h) /\ ~Later
          \/ \E i \in 1..Len(s) : i > 1 /\ Pressed(s, i)
          \/ About(k, h) /\ h.op = "down" /\ ~Later
    <3>1. 1 \in 1..Len(s) /\ (Pressed(s, 1) <=> About(k, h) /\ h.op = "down" /\ ~Later)
      BY <1>1
    <3>2. (\A i \in 1..Len(s) : ~About(k, s[i])) <=> ~About(k, h) /\ ~Later
      BY <1>1, <3>1
    <3>3. (\E i \in 1..Len(s) : Pressed(s, i)) <=>
            Pressed(s, 1) \/ \E i \in 1..Len(s) : i > 1 /\ Pressed(s, i)
      BY <3>1
    <3>4. k \in Finally(keys, s) <=>
            \/ k \in keys /\ \A i \in 1..Len(s) : ~About(k, s[i])
            \/ \E i \in 1..Len(s) : Pressed(s, i)
      BY DEF Finally
    <3>. QED  BY <3>1, <3>2, <3>3, <3>4
  <2>4. k \in Finally(After(keys, h), t) <=>
          \/ k \in After(keys, h) /\ ~\E i \in 1..Len(t) : About(k, t[i])
          \/ \E i \in 1..Len(t) : Pressed(t, i)
    BY DEF Finally
  <2>5. k \in After(keys, h) <=>
          \/ k \in keys /\ ~About(k, h)
          \/ About(k, h) /\ h.op = "down"
    BY <1>1 DEF After, About, Message
  <2>. QED  BY <2>1, <2>2, <2>3, <2>4, <2>5
<1>. QED
  <2>1. Finally(keys, s) \subseteq Button /\ Finally(After(keys, h), t) \subseteq Button
    BY DEF Finally
  <2>. QED  BY <1>3, <2>1

\* A message that is queued is applied last.
LEMMA FinallyLast ==
    ASSUME NEW keys \in SUBSET Button, NEW s \in Seq(Message), NEW m \in Message
    PROVE  Finally(keys, Append(s, m)) = After(Finally(keys, s), m)
<1> DEFINE q == Append(s, m)
           n == Len(s)
<1>1. /\ q \in Seq(Message) /\ Len(q) = n + 1 /\ n \in Nat /\ q[n + 1] = m
      /\ \A i \in 1..n : q[i] = s[i]
  BY Appended
<1>2. ASSUME NEW k \in Button
      PROVE  k \in Finally(keys, q) <=> k \in After(Finally(keys, s), m)
  <2> DEFINE Pressed(r, i) == /\ About(k, r[i]) /\ r[i].op = "down"
                              /\ \A j \in i + 1..Len(r) : ~About(k, r[j])
  <2>1. k \in Finally(keys, q) <=>
          \/ k \in keys /\ \A i \in 1..Len(q) : ~About(k, q[i])
          \/ \E i \in 1..Len(q) : Pressed(q, i)
    BY DEF Finally
  <2>2. k \in Finally(keys, s) <=>
          \/ k \in keys /\ \A i \in 1..n : ~About(k, s[i])
          \/ \E i \in 1..n : Pressed(s, i)
    BY DEF Finally
  <2>3. Pressed(q, n + 1) <=> About(k, m) /\ m.op = "down"
    BY <1>1
  <2>4. \A i \in 1..n : Pressed(q, i) <=> Pressed(s, i) /\ ~About(k, m)
    <3> SUFFICES ASSUME NEW i \in 1..n
                 PROVE  Pressed(q, i) <=> Pressed(s, i) /\ ~About(k, m)
      OBVIOUS
    <3>1. q[i] = s[i]
      BY <1>1
    <3>2. (\A j \in i + 1..Len(q) : ~About(k, q[j])) <=>
            (\A j \in i + 1..n : ~About(k, s[j])) /\ ~About(k, m)
      BY <1>1
    <3>. QED  BY <3>1, <3>2
  <2>5. (\A i \in 1..Len(q) : ~About(k, q[i])) <=>
          (\A i \in 1..n : ~About(k, s[i])) /\ ~About(k, m)
    BY <1>1
  <2>6. (\E i \in 1..Len(q) : Pressed(q, i)) <=>
          Pressed(q, n + 1) \/ \E i \in 1..n : Pressed(q, i)
    BY <1>1
  <2>7. k \in After(Finally(keys, s), m) <=>
          \/ k \in Finally(keys, s) /\ ~About(k, m)
          \/ About(k, m) /\ m.op = "down"
    BY DEF After, About, Message
  <2>. QED  BY <2>1, <2>2, <2>3, <2>4, <2>5, <2>6, <2>7
<1>3. Finally(keys, q) \subseteq Button /\ After(Finally(keys, s), m) \subseteq Button
  BY DEF Finally, After, Message
<1>. QED  BY <1>2, <1>3

-----------------------------------------------------------------------------
(* Types *)

\* In the initial state nothing is under way.
LEMMA InputInit == Init => InputTypeInv
<1> SUFFICES ASSUME Init
             PROVE  InputTypeInv
  OBVIOUS
<1>1. /\ finger = "none" /\ leftSent = FALSE /\ strayed = FALSE /\ cutOff = FALSE
      /\ downPos = Nowhere /\ lastTap = Nowhere /\ cursor = Nowhere
      /\ gestures = 0 /\ runs = 0 /\ link = "up" /\ wire = <<>> /\ pressed = {} /\ clicks = {}
      /\ step = [m \in Macros |-> 0]
  BY DEF Init
<1>2. gestures \in 0..MaxGesture /\ runs \in 0..MaxRun /\ step \in [Macros -> 0..2]
  BY <1>1, InputAssumption
<1>3. {leftSent, strayed, cutOff} \subseteq BOOLEAN
  BY <1>1
<1>4. wire \in Seq(Message)
  BY <1>1
<1>5. /\ downPos \in Place /\ lastTap \in Place /\ cursor \in Place /\ pressed \subseteq Button
      /\ clicks \subseteq Place \X Place
  BY <1>1 DEF Place
<1>6. finger \in {"none", "one", "drag", "two"} /\ link \in {"up", "down"}
  BY <1>1
<1>. QED
  BY <1>1, <1>2, <1>3, <1>4, <1>5, <1>6
  DEF InputTypeInv, TypeOK, DragHoldsLeft, FingerIsSomewhere

\* Sequences of two or three elements are equal if those are.
LEMMA SameTwo ==
    ASSUME NEW S, NEW s \in Seq(S), NEW t \in Seq(S), Len(s) = 2, Len(t) = 2,
           s[1] = t[1], s[2] = t[2]
    PROVE  s = t
<1>1. \A i \in 1..Len(s) : s[i] = t[i]
  OBVIOUS
<1>. QED  BY <1>1, SeqEqual

LEMMA SameThree ==
    ASSUME NEW S, NEW s \in Seq(S), NEW t \in Seq(S), Len(s) = 3, Len(t) = 3,
           s[1] = t[1], s[2] = t[2], s[3] = t[3]
    PROVE  s = t
<1>1. \A i \in 1..Len(s) : s[i] = t[i]
  OBVIOUS
<1>. QED  BY <1>1, SeqEqual

\* Sequences of up to three messages.
LEMMA ShortSequences ==
    ASSUME NEW S, NEW a \in S, NEW b \in S, NEW c \in S
    PROVE  /\ <<a>> \in Seq(S) /\ <<a, b>> \in Seq(S) /\ <<a, b, c>> \in Seq(S)
           /\ <<a>> \o <<>> = <<a>>
           /\ <<a>> \o <<b>> = <<a, b>>
           /\ <<a>> \o <<b, c>> = <<a, b, c>>
<1>1. <<a>> \in Seq(S) /\ <<a, b>> \in Seq(S) /\ <<a, b, c>> \in Seq(S)
  OBVIOUS
<1>2. <<a>> \o <<>> = <<a>>
  BY <1>1, ConcatEmptySeq
<1>3. <<a>> \o <<b>> = <<a, b>>
  <2>1. (<<a>> \o <<b>>) \in Seq(S) /\ Len(<<a>> \o <<b>>) = 2 /\ Len(<<a, b>>) = 2
    OBVIOUS
  <2>2. (<<a>> \o <<b>>)[1] = a /\ (<<a>> \o <<b>>)[2] = b
    OBVIOUS
  <2>3. <<a, b>>[1] = a /\ <<a, b>>[2] = b
    OBVIOUS
  <2>. QED  BY <1>1, <2>1, <2>2, <2>3, SameTwo
<1>4. <<a>> \o <<b, c>> = <<a, b, c>>
  <2>1. /\ (<<a>> \o <<b, c>>) \in Seq(S)
        /\ Len(<<a>> \o <<b, c>>) = 3 /\ Len(<<a, b, c>>) = 3
    OBVIOUS
  <2>2. /\ (<<a>> \o <<b, c>>)[1] = a /\ (<<a>> \o <<b, c>>)[2] = b
        /\ (<<a>> \o <<b, c>>)[3] = c
    OBVIOUS
  <2>3. <<a, b, c>>[1] = a /\ <<a, b, c>>[2] = b /\ <<a, b, c>>[3] = c
    OBVIOUS
  <2>. QED  BY <1>1, <2>1, <2>2, <2>3, SameThree
<1>. QED  BY <1>1, <1>2, <1>3, <1>4

\* A send of messages keeps the wire's type.
LEMMA SendKeepsType ==
    ASSUME wire \in Seq(Message), NEW s \in Seq(Message), Send(s)
    PROVE  wire' \in Seq(Message)
  BY ConcatProperties DEF Send

\* What the phone sends are sequences of messages.
LEMMA SentAreMessages ==
    ASSUME TypeOK
    PROVE  /\ \A p \in Spots : <<Move(p)>> \in Seq(Message) /\ Start(p) \in Seq(Message)
           /\ \A k \in Button : <<Up(k)>> \in Seq(Message)
           /\ \A k \in Button, p \in Place :
                 <<Down(k, p)>> \in Seq(Message) /\ Click(k, p) \in Seq(Message)
           /\ \A p \in Spots, k \in Button, r \in Place :
                 <<Move(p)>> \o Click(k, r) = <<Move(p), Down(k, r), Up(k)>>
           /\ \A p \in Spots, k \in Button, r \in Place :
                 <<Move(p)>> \o Click(k, r) \in Seq(Message)
<1>1. \A p \in Spots : Move(p) \in Message /\ Down(Left, p) \in Message
  BY AllAreMessages, AllAreButtons DEF Place
<1>2. \A k \in Button, p \in Place : Down(k, p) \in Message /\ Up(k) \in Message
  BY AllAreMessages
<1>3. ASSUME NEW p \in Spots
      PROVE  <<Move(p)>> \in Seq(Message) /\ Start(p) \in Seq(Message)
  <2>1. CASE leftSent
    BY <1>1, <2>1, ShortSequences DEF Start
  <2>2. CASE ~leftSent
    BY <1>1, <2>2, ShortSequences DEF Start
  <2>. QED  BY <2>1, <2>2, <1>1
<1>4. \A k \in Button : <<Up(k)>> \in Seq(Message)
  BY AllAreMessages, ShortSequences
<1>5. ASSUME NEW k \in Button, NEW p \in Place
      PROVE  <<Down(k, p)>> \in Seq(Message) /\ Click(k, p) \in Seq(Message)
  BY <1>2, ShortSequences DEF Click
<1>6. ASSUME NEW p \in Spots, NEW k \in Button, NEW r \in Place
      PROVE  /\ <<Move(p)>> \o Click(k, r) = <<Move(p), Down(k, r), Up(k)>>
             /\ <<Move(p)>> \o Click(k, r) \in Seq(Message)
  <2>1. Move(p) \in Message /\ Down(k, r) \in Message /\ Up(k) \in Message
    BY <1>1, <1>2
  <2>. QED  BY <2>1, ShortSequences DEF Click
<1>. QED  BY <1>3, <1>4, <1>5, <1>6

\* The alternatives of a lift, one by one.
LEMMA LiftCases ==
    ASSUME Lift
    PROVE  /\ finger # "none" /\ finger' = "none" /\ leftSent' = FALSE
           /\ UNCHANGED <<downPos, gestures, cutOff, touchUnchanged>>
           /\ \/ EndDrag
              \/ LongPress
              \/ Discard
              \/ /\ finger = "one" /\ strayed' = FALSE
                 /\ DoubleTap /\ lastTap' = Nowhere
                 /\ Send(Click(Left, IF strayed THEN Nowhere ELSE downPos))
              \/ /\ finger = "one" /\ strayed' = FALSE
                 /\ ~DoubleTap /\ lastTap' = downPos
                 /\ Send(<<Move(downPos)>> \o Click(Left, downPos))
  BY DEF Lift, Tap

LEMMA InputTypeStep == InputTypeInv /\ [Next]_vars => InputTypeInv'
<1> SUFFICES ASSUME InputTypeInv, [Next]_vars
             PROVE  InputTypeInv'
  OBVIOUS
<1> USE InputAssumption
<1>0. TypeOK /\ DragHoldsLeft /\ FingerIsSomewhere /\ wire \in Seq(Message)
      /\ step \in [Macros -> 0..2]
  BY DEF InputTypeInv, TypeOK
<1>1. CASE UNCHANGED vars
  BY <1>0, <1>1
  DEF InputTypeInv, TypeOK, DragHoldsLeft, FingerIsSomewhere, vars, touchVars, macroVars,
      hostVars
<1>2. ASSUME NEW p \in Spots, Touch(p)
      PROVE  InputTypeInv'
  <2>1. /\ finger' = "one" /\ downPos' = p /\ leftSent' = FALSE
        /\ UNCHANGED <<lastTap, strayed, cutOff, wire, step, runs, link, hostVars>>
        /\ downPos' \in Place
    BY <1>2 DEF Touch, touchUnchanged, macroVars, Place
  <2>2. gestures' \in 0..MaxGesture
    BY <1>0, <1>2 DEF Touch, TypeOK
  <2>. QED
    BY <1>0, <2>1, <2>2
    DEF InputTypeInv, TypeOK, DragHoldsLeft, FingerIsSomewhere, hostVars
<1>3. ASSUME NEW p \in Spots, Drag(p)
      PROVE  InputTypeInv'
  <2>1. wire' \in Seq(Message)
    BY <1>0, <1>3, SendKeepsType, SentAreMessages DEF Drag
  <2>. QED
    BY <1>0, <1>3, <2>1
    DEF InputTypeInv, TypeOK, DragHoldsLeft, FingerIsSomewhere, Drag, touchUnchanged,
        macroVars, hostVars
<1>4. CASE SecondFinger
  BY <1>0, <1>4
  DEF InputTypeInv, TypeOK, DragHoldsLeft, FingerIsSomewhere, SecondFinger,
      touchUnchanged, macroVars, hostVars
<1>5. CASE Lift
  <2>1. /\ finger # "none" /\ finger' = "none" /\ leftSent' = FALSE
        /\ UNCHANGED <<downPos, gestures, cutOff, macroVars, link, hostVars>>
    BY <1>5, LiftCases DEF touchUnchanged
  <2>2. downPos \in Spots /\ downPos \in Place
    BY <1>0, <2>1 DEF FingerIsSomewhere, Place
  <2>3. lastTap' \in Place /\ strayed' \in BOOLEAN /\ wire' \in Seq(Message)
    <3>1. CASE EndDrag
      BY <1>0, <3>1, SendKeepsType, SentAreMessages, AllAreButtons DEF EndDrag, TypeOK
    <3>2. CASE LongPress
      BY <1>0, <2>2, <3>2, SendKeepsType, SentAreMessages, AllAreButtons
      DEF LongPress, Place
    <3>3. CASE Discard
      BY <1>0, <3>3 DEF Discard, TypeOK
    <3>4. CASE /\ finger = "one" /\ strayed' = FALSE
               /\ DoubleTap /\ lastTap' = Nowhere
               /\ Send(Click(Left, IF strayed THEN Nowhere ELSE downPos))
      <4>1. PICK r : r = IF strayed THEN Nowhere ELSE downPos
        OBVIOUS
      <4>2. r \in Place
        BY <4>1, <2>2 DEF Place
      <4>3. Send(Click(Left, r))
        BY <3>4, <4>1
      <4>. QED
        BY <1>0, <3>4, <4>2, <4>3, SendKeepsType, SentAreMessages, AllAreButtons DEF Place
    <3>5. CASE /\ finger = "one" /\ strayed' = FALSE
               /\ ~DoubleTap /\ lastTap' = downPos
               /\ Send(<<Move(downPos)>> \o Click(Left, downPos))
      BY <1>0, <2>2, <3>5, SendKeepsType, SentAreMessages, AllAreButtons
    <3>. QED  BY <1>5, LiftCases, <3>1, <3>2, <3>3, <3>4, <3>5
  <2>. QED
    BY <1>0, <2>1, <2>3
    DEF InputTypeInv, TypeOK, DragHoldsLeft, FingerIsSomewhere, macroVars, hostVars
<1>6. CASE TapExpires
  BY <1>0, <1>6
  DEF InputTypeInv, TypeOK, DragHoldsLeft, FingerIsSomewhere, TapExpires, Place,
      touchUnchanged, macroVars, hostVars
<1>7. CASE Dispose
  BY <1>0, <1>7
  DEF InputTypeInv, TypeOK, DragHoldsLeft, FingerIsSomewhere, Dispose, Place,
      touchUnchanged, macroVars, hostVars
<1>8. ASSUME NEW m \in Macros, RunMacro(m)
      PROVE  InputTypeInv'
  <2>1. Nowhere \in Place /\ Modifier(m) \in Button
    BY AllAreButtons DEF Place
  <2>2. wire' \in Seq(Message)
    BY <1>0, <1>8, <2>1, SendKeepsType, SentAreMessages DEF RunMacro
  <2>. QED
    BY <1>0, <1>8, <2>2
    DEF InputTypeInv, TypeOK, DragHoldsLeft, FingerIsSomewhere, RunMacro, touchVars,
        hostVars
<1>9. ASSUME NEW m \in Macros, MacroStep(m)
      PROVE  InputTypeInv'
  <2>1. Nowhere \in Place /\ Modifier(m) \in Button /\ Letter(m) \in Button
    BY AllAreButtons DEF Place
  <2>2. Keys(m) \in Seq(Message)
    BY <1>0, <2>1, SentAreMessages DEF Keys
  <2>3. wire' \in Seq(Message)
    BY <1>0, <1>9, <2>2, SendKeepsType DEF MacroStep
  <2>4. NextStep(m) \in 0..2
    BY <1>0, <1>9 DEF NextStep, MacroStep
  <2>. QED
    BY <1>0, <1>9, <2>3, <2>4
    DEF InputTypeInv, TypeOK, DragHoldsLeft, FingerIsSomewhere, MacroStep, touchVars,
        hostVars
<1>10. CASE Apply
  <2>1. Head(wire) \in Message /\ wire' \in Seq(Message)
    BY <1>0, <1>10, Shortened DEF Apply
  <2>2. cursor' \in Place /\ pressed' \subseteq Button /\ clicks' \subseteq Place \X Place
    BY <1>0, <1>10, <2>1 DEF Apply, TypeOK, Message, Place
  <2>. QED
    BY <1>0, <1>10, <2>1, <2>2
    DEF InputTypeInv, TypeOK, DragHoldsLeft, FingerIsSomewhere, Apply, touchVars, macroVars
<1>11. CASE LinkDown
  BY <1>0, <1>11
  DEF InputTypeInv, TypeOK, DragHoldsLeft, FingerIsSomewhere, LinkDown, touchVars,
      macroVars, hostVars
<1>. QED
  BY <1>1, <1>2, <1>3, <1>4, <1>5, <1>6, <1>7, <1>8, <1>9, <1>10, <1>11 DEF Next

\* Type correctness of the phone's gestures, its macros and the PC's keyboard,
\* for any number of spots, macros and gestures.
THEOREM InputTypes == Spec => []TypeOK
<1>1. InputTypeInv => TypeOK
  BY DEF InputTypeInv
<1>. QED  BY <1>1, InputInit, InputTypeStep, PTL DEF Spec

-----------------------------------------------------------------------------
(* The keys *)

\* What the phone means to be down, and what it does not answer for.
Held  == (IF leftSent THEN {Left} ELSE {})
             \union {Modifier(m) : m \in {n \in Macros : step[n] > 0}}
Stray == IF cutOff THEN {Left} ELSE {}

\* What each send does to the keys that are down in the end.
LEMMA SendsPress ==
    ASSUME TypeOK, link = "up", NEW k \in Button, NEW r \in Place, NEW p \in Spots
    PROVE  /\ Send(<<Up(k)>>) => Finally(pressed, wire') = Finally(pressed, wire) \ {k}
           /\ Send(<<Down(k, r)>>) =>
                 Finally(pressed, wire') = Finally(pressed, wire) \union {k}
           /\ Send(Click(k, r)) => Finally(pressed, wire') = Finally(pressed, wire) \ {k}
           /\ Send(<<Move(p)>> \o Click(k, r)) =>
                 Finally(pressed, wire') = Finally(pressed, wire) \ {k}
           /\ Send(Start(p)) =>
                 Finally(pressed, wire') =
                     Finally(pressed, wire) \union (IF leftSent THEN {} ELSE {Left})
<1> DEFINE F == Finally(pressed, wire)
           M == Move(p)
           D == Down(k, r)
           U == Up(k)
<1>1. /\ M \in Message /\ D \in Message /\ U \in Message /\ Down(Left, p) \in Message
      /\ pressed \in SUBSET Button /\ wire \in Seq(Message)
  BY AllAreMessages, AllAreButtons DEF TypeOK, Place
<1>2. /\ \A keys : After(keys, M) = keys
      /\ \A keys : After(keys, D) = keys \union {k}
      /\ \A keys : After(keys, U) = keys \ {k}
      /\ \A keys : After(keys, Down(Left, p)) = keys \union {Left}
  BY DEF After, Move, Down, Up
<1>3. ASSUME NEW a \in Message
      PROVE  /\ wire \o <<a>> \in Seq(Message)
             /\ Finally(pressed, wire \o <<a>>) = After(F, a)
  <2>1. wire \o <<a>> = Append(wire, a)
    BY <1>1, OneByOne
  <2>2. Append(wire, a) \in Seq(Message)
    BY <1>1, Appended
  <2>3. Finally(pressed, Append(wire, a)) = After(F, a)
    BY <1>1, FinallyLast
  <2>. QED  BY <2>1, <2>2, <2>3
<1>4. ASSUME NEW a \in Message, NEW b \in Message
      PROVE  /\ wire \o <<a, b>> \in Seq(Message)
             /\ Finally(pressed, wire \o <<a, b>>) = After(After(F, a), b)
  <2>1. wire \o <<a, b>> = Append(Append(wire, a), b)
    BY <1>1, OneByOne
  <2>2. Append(wire, a) \in Seq(Message) /\ Finally(pressed, Append(wire, a)) = After(F, a)
    BY <1>1, FinallyLast, Appended
  <2>. QED  BY <1>1, <2>1, <2>2, FinallyLast, Appended
<1>5. ASSUME NEW a \in Message, NEW b \in Message, NEW c \in Message
      PROVE  Finally(pressed, wire \o <<a, b, c>>) = After(After(After(F, a), b), c)
  <2>1. wire \o <<a, b, c>> = Append(Append(Append(wire, a), b), c)
    BY <1>1, OneByOne
  <2>2. PICK w : w = wire \o <<a, b>>
    OBVIOUS
  <2>3. w = Append(Append(wire, a), b)
    BY <1>1, <2>2, OneByOne
  <2>4. w \in Seq(Message) /\ Finally(pressed, w) = After(After(F, a), b)
    BY <1>4, <2>2
  <2>5. Finally(pressed, Append(w, c)) = After(Finally(pressed, w), c)
    BY <1>1, <2>4, FinallyLast
  <2>. QED  BY <2>1, <2>3, <2>4, <2>5
<1>6. ASSUME Send(<<U>>)
      PROVE  Finally(pressed, wire') = F \ {k}
  BY <1>1, <1>2, <1>3, <1>6 DEF Send
<1>7. ASSUME Send(<<D>>)
      PROVE  Finally(pressed, wire') = F \union {k}
  BY <1>1, <1>2, <1>3, <1>7 DEF Send
<1>8. ASSUME Send(Click(k, r))
      PROVE  Finally(pressed, wire') = F \ {k}
  <2>1. wire' = wire \o <<D, U>>
    BY <1>8 DEF Send, Click
  <2>2. After(After(F, D), U) = F \ {k}
    BY <1>2
  <2>. QED  BY <1>1, <1>4, <2>1, <2>2
<1>9. ASSUME Send(<<M>> \o Click(k, r))
      PROVE  Finally(pressed, wire') = F \ {k}
  <2>1. wire' = wire \o <<M, D, U>>
    BY <1>9, SentAreMessages DEF Send
  <2>2. After(After(After(F, M), D), U) = F \ {k}
    BY <1>2
  <2>. QED  BY <1>1, <1>5, <2>1, <2>2
<1>10. ASSUME Send(Start(p))
       PROVE  Finally(pressed, wire') = F \union (IF leftSent THEN {} ELSE {Left})
  <2>1. CASE leftSent
    <3>1. wire' = wire \o <<M>>
      BY <1>1, <1>10, <2>1, ShortSequences DEF Send, Start
    <3>. QED  BY <1>1, <1>2, <1>3, <2>1, <3>1
  <2>2. CASE ~leftSent
    <3>1. wire' = wire \o <<M, Down(Left, p)>>
      BY <1>1, <1>10, <2>2, ShortSequences DEF Send, Start
    <3>2. After(After(F, M), Down(Left, p)) = F \union {Left}
      BY <1>2
    <3>. QED  BY <1>1, <1>4, <2>2, <3>1, <3>2
  <2>. QED  BY <2>1, <2>2
<1>. QED  BY <1>6, <1>7, <1>8, <1>9, <1>10

\* A message that is applied changes nothing of what is down in the end.
LEMMA ApplyFollows ==
    ASSUME TypeOK, Apply
    PROVE  Finally(pressed, wire)' = Finally(pressed, wire)
<1>1. wire # <<>> /\ wire' = Tail(wire) /\ wire \in Seq(Message) /\ pressed \in SUBSET Button
  BY DEF Apply, TypeOK
<1>2. Head(wire) \in Message
  BY <1>1, Shortened
<1>3. pressed' = After(pressed, Head(wire))
  BY <1>2 DEF Apply, After
<1>4. Finally(pressed', wire') = Finally(After(pressed, Head(wire)), Tail(wire))
  BY <1>1, <1>3
<1>. QED  BY <1>1, <1>4, FinallyFirst

\* The buttons the phone means to be down: which they are.
LEMMA HeldAre ==
    ASSUME TypeOK
    PROVE  /\ Left \in Held <=> leftSent
           /\ Right \notin Held
           /\ \A m \in Macros : Letter(m) \notin Held
           /\ \A m \in Macros : Modifier(m) \in Held <=> step[m] > 0
           /\ Held \subseteq {Left} \union {Modifier(m) : m \in Macros}
  BY ButtonsDiffer DEF Held

LEMMA KeysInit == Init => KeysFollow
<1> SUFFICES ASSUME Init
             PROVE  KeysFollow
  OBVIOUS
<1>1. Finally(pressed, wire) = {}
  BY FinallyNow DEF Init
<1>2. leftSent = FALSE /\ {n \in Macros : step[n] > 0} = {}
  BY DEF Init
<1>. QED  BY <1>1, <1>2 DEF KeysFollow

LEMMA KeysStep == InputTypeInv /\ KeysFollow /\ [Next]_vars => KeysFollow'
<1> SUFFICES ASSUME InputTypeInv, KeysFollow, [Next]_vars, link' = "up"
             PROVE  Finally(pressed, wire)' \ Stray' = Held' \ Stray'
  BY DEF KeysFollow, Held, Stray
<1> DEFINE F == Finally(pressed, wire)
<1>0. /\ TypeOK /\ DragHoldsLeft /\ FingerIsSomewhere
      /\ step \in [Macros -> 0..2] /\ wire \in Seq(Message)
  BY DEF InputTypeInv, TypeOK
<1>a. ASSUME link = "up"
      PROVE  F \ Stray = Held \ Stray
  BY <1>a DEF KeysFollow, Held, Stray
<1>b. Spots \subseteq Place /\ Nowhere \in Place /\ Left \in Button /\ Right \in Button
  BY AllAreButtons DEF Place
<1>1. CASE UNCHANGED vars
  <2>1. UNCHANGED <<link, pressed, wire, leftSent, step, cutOff>>
    BY <1>1 DEF vars, touchVars, macroVars, hostVars
  <2>. QED  BY <1>a, <2>1 DEF Held, Stray
<1>2. ASSUME NEW p \in Spots, Touch(p)
      PROVE  Finally(pressed, wire)' \ Stray' = Held' \ Stray'
  <2>1. UNCHANGED <<link, pressed, wire, step, cutOff>> /\ leftSent' = FALSE
    BY <1>2 DEF Touch, touchUnchanged, macroVars, hostVars
  <2>2. ~leftSent
    BY <1>0, <1>2 DEF Touch, DragHoldsLeft
  <2>. QED  BY <1>a, <2>1, <2>2 DEF Held, Stray
<1>3. ASSUME NEW p \in Spots, Drag(p)
      PROVE  Finally(pressed, wire)' \ Stray' = Held' \ Stray'
  <2>1. UNCHANGED <<link, pressed, step, cutOff>> /\ leftSent' = TRUE /\ Send(Start(p))
    BY <1>3 DEF Drag, touchUnchanged, macroVars, hostVars
  <2>2. Finally(pressed, wire') = F \union (IF leftSent THEN {} ELSE {Left})
    BY <1>0, <1>b, <2>1, SendsPress
  <2>3. Held' = Held \union (IF leftSent THEN {} ELSE {Left})
    BY <2>1 DEF Held
  <2>. QED  BY <1>a, <2>1, <2>2, <2>3 DEF Stray
<1>4. CASE SecondFinger
  <2>1. UNCHANGED <<link, pressed, wire, leftSent, step, cutOff>>
    BY <1>4 DEF SecondFinger, touchUnchanged, macroVars, hostVars
  <2>. QED  BY <1>a, <2>1 DEF Held, Stray
<1>5. CASE Lift
  <2>1. /\ finger # "none" /\ leftSent' = FALSE
        /\ UNCHANGED <<cutOff, step, link, pressed>>
    BY <1>5, LiftCases DEF touchUnchanged, macroVars, hostVars
  <2>2. downPos \in Spots
    BY <1>0, <2>1 DEF FingerIsSomewhere
  <2>3. Held' = Held \ {Left} /\ Stray' = Stray /\ link = "up"
    BY <2>1, ButtonsDiffer DEF Held, Stray
  <2>4. ASSUME NEW k \in Button, Finally(pressed, wire') = F \ {k},
               k \notin Held \/ k = Left, leftSent => k = Left
        PROVE  Finally(pressed, wire') \ Stray = (Held \ {Left}) \ Stray
    <3>1. k # Left => Left \notin Held /\ k \notin Held
      BY <1>0, <2>4, HeldAre
    <3>. QED  BY <1>a, <2>3, <2>4, <3>1
  <2>5. Finally(pressed, wire') \ Stray = (Held \ {Left}) \ Stray
    <3>1. CASE EndDrag
      BY <1>0, <1>b, <2>2, <2>3, <2>4, <3>1, SendsPress DEF EndDrag
    <3>2. CASE LongPress
      <4>1. ~leftSent
        BY <1>0, <3>2 DEF LongPress, DragHoldsLeft
      <4>2. Finally(pressed, wire') = F \ {Right}
        BY <1>0, <1>b, <2>2, <2>3, <3>2, SendsPress DEF LongPress
      <4>. QED  BY <1>0, <1>b, <2>4, <4>1, <4>2, HeldAre
    <3>3. CASE Discard
      <4>1. ~leftSent /\ wire' = wire
        BY <3>3 DEF Discard, Dragged
      <4>2. Held \ {Left} = Held
        BY <1>0, <4>1, HeldAre
      <4>. QED  BY <1>a, <2>3, <4>1, <4>2
    <3>4. CASE /\ finger = "one" /\ strayed' = FALSE
               /\ DoubleTap /\ lastTap' = Nowhere
               /\ Send(Click(Left, IF strayed THEN Nowhere ELSE downPos))
      <4>1. PICK r : r = IF strayed THEN Nowhere ELSE downPos
        OBVIOUS
      <4>2. r \in Place /\ Send(Click(Left, r))
        BY <1>b, <2>2, <3>4, <4>1
      <4>3. Finally(pressed, wire') = F \ {Left}
        BY <1>0, <1>b, <2>2, <2>3, <4>2, SendsPress
      <4>. QED  BY <1>b, <2>4, <4>3
    <3>5. CASE /\ finger = "one" /\ strayed' = FALSE
               /\ ~DoubleTap /\ lastTap' = downPos
               /\ Send(<<Move(downPos)>> \o Click(Left, downPos))
      <4>1. Finally(pressed, wire') = F \ {Left}
        BY <1>0, <1>b, <2>2, <2>3, <3>5, SendsPress
      <4>. QED  BY <1>b, <2>4, <4>1
    <3>. QED  BY <1>5, LiftCases, <3>1, <3>2, <3>3, <3>4, <3>5
  <2>. QED  BY <2>1, <2>3, <2>5
<1>6. CASE TapExpires
  <2>1. UNCHANGED <<link, pressed, wire, leftSent, step, cutOff>>
    BY <1>6 DEF TapExpires, touchUnchanged, macroVars, hostVars
  <2>. QED  BY <1>a, <2>1 DEF Held, Stray
<1>7. CASE Dispose
  <2>1. /\ UNCHANGED <<link, pressed, wire, step>> /\ leftSent' = FALSE
        /\ cutOff' = (cutOff \/ leftSent)
    BY <1>7 DEF Dispose, touchUnchanged, macroVars, hostVars
  <2>2. leftSent \in BOOLEAN /\ cutOff \in BOOLEAN
    BY <1>0 DEF TypeOK
  <2>. QED  BY <1>a, <2>1, <2>2 DEF Held, Stray
<1>8. ASSUME NEW m \in Macros, RunMacro(m)
      PROVE  Finally(pressed, wire)' \ Stray' = Held' \ Stray'
  <2>1. /\ UNCHANGED <<link, pressed, cutOff, leftSent>> /\ Send(<<Down(Modifier(m), Nowhere)>>)
        /\ step[m] = 0 /\ step' = [step EXCEPT ![m] = 1]
    BY <1>8 DEF RunMacro, touchVars, hostVars
  <2>2. Modifier(m) \in Button
    BY AllAreButtons
  <2>3. PICK p \in Place : p = Nowhere
    BY <1>b
  <2>4. Finally(pressed, wire') = F \union {Modifier(m)}
    <3>1. CASE Spots = {}
      BY <3>1, InputAssumption
    <3>2. ASSUME NEW q \in Spots
          PROVE  Finally(pressed, wire') = F \union {Modifier(m)}
      BY <1>0, <1>b, <2>1, <2>2, SendsPress
    <3>. QED  BY <3>1, <3>2
  <2>5. Held' = Held \union {Modifier(m)}
    <3>1. \A n \in Macros : step'[n] > 0 <=> step[n] > 0 \/ n = m
      BY <1>0, <2>1
    <3>. QED  BY <2>1, <3>1 DEF Held
  <2>. QED  BY <1>a, <1>b, <2>1, <2>4, <2>5 DEF Stray
<1>9. ASSUME NEW m \in Macros, MacroStep(m)
      PROVE  Finally(pressed, wire)' \ Stray' = Held' \ Stray'
  <2>1. /\ UNCHANGED <<link, pressed, cutOff, leftSent>> /\ Send(Keys(m))
        /\ step[m] \in 1..2 /\ step' = [step EXCEPT ![m] = NextStep(m)]
    BY <1>0, <1>9 DEF MacroStep, touchVars, hostVars
  <2>2. Modifier(m) \in Button /\ Letter(m) \in Button
    BY AllAreButtons
  <2>3. PICK q \in Spots : TRUE
    BY InputAssumption
  <2>4. CASE step[m] = 1
    <3>1. Finally(pressed, wire') = F \ {Letter(m)}
      BY <1>0, <1>b, <2>1, <2>2, <2>3, <2>4, SendsPress DEF Keys
    <3>2. \A n \in Macros : step'[n] > 0 <=> step[n] > 0
      BY <1>0, <2>1, <2>4 DEF NextStep
    <3>3. Held' = Held
      BY <2>1, <3>2 DEF Held
    <3>4. Letter(m) \notin Held
      BY <1>0, HeldAre
    <3>. QED  BY <1>a, <2>1, <3>1, <3>3, <3>4 DEF Stray
  <2>5. CASE step[m] = 2
    <3>a. Send(<<Up(Modifier(m))>>) /\ link = "up"
      BY <2>1, <2>5 DEF Keys
    <3>1. Finally(pressed, wire') = F \ {Modifier(m)}
      BY <1>0, <1>b, <2>2, <2>3, <3>a, SendsPress
    <3>2. \A n \in Macros : step'[n] > 0 <=> step[n] > 0 /\ n # m
      BY <1>0, <2>1, <2>5 DEF NextStep
    <3>3. Held' = Held \ {Modifier(m)}
      BY <2>1, <3>2, ButtonsDiffer DEF Held
    <3>. QED  BY <1>a, <2>1, <3>1, <3>3 DEF Stray
  <2>. QED  BY <2>1, <2>4, <2>5
<1>10. CASE Apply
  <2>1. UNCHANGED <<link, leftSent, step, cutOff>>
    BY <1>10 DEF Apply, touchVars, macroVars
  <2>2. Held' = Held /\ Stray' = Stray
    BY <2>1 DEF Held, Stray
  <2>. QED  BY <1>0, <1>10, <1>a, <2>1, <2>2, ApplyFollows
<1>11. CASE LinkDown
  BY <1>11 DEF LinkDown
<1>. QED
  BY <1>1, <1>2, <1>3, <1>4, <1>5, <1>6, <1>7, <1>8, <1>9, <1>10, <1>11 DEF Next

\* As long as the link holds the PC's keys follow the phone: what is down when
\* all under way has arrived is the left button of a drag that lasts and the
\* modifiers of the macros that run.
THEOREM KeysFollowThePhone == Spec => []KeysFollow
  BY InputInit, InputTypeStep, KeysInit, KeysStep, PTL DEF Spec

-----------------------------------------------------------------------------
(* The clicks *)

\* When the i-th message of s is applied the cursor is at p: the last move
\* before it goes there, or there is none and it is there now.
IsAt(c, s, i, p) ==
    \/ /\ c = p
       /\ \A j \in 1..i - 1 : s[j].op # "move"
    \/ \E j \in 1..i - 1 :
         /\ s[j].op = "move" /\ s[j].at = p
         /\ \A l \in j + 1..i - 1 : s[l].op # "move"

\* After all of s it is at p.
EndsAt(c, s, p) == IsAt(c, s, Len(s) + 1, p)

\* A press that is meant for a position.
Aimed(msg) == msg.op = "down" /\ msg.key \in {Left, Right} /\ msg.at # Nowhere

\* Each press under way will find the cursor where it is meant.
AllAimed(c, s) == \A i \in 1..Len(s) : Aimed(s[i]) => IsAt(c, s, i, s[i].at)

\* As long as a second tap may come the cursor ends where the first was.
SecondTapAimed ==
    link = "up" /\ lastTap # Nowhere /\ ~strayed => EndsAt(cursor, wire, lastTap)

ClickInv == AllAimed(cursor, wire) /\ SecondTapAimed /\ ClicksLand

\* A message queued behind s: the presses of s stay aimed, and it moves the
\* cursor's end if it is a move.
LEMMA QueueOne ==
    ASSUME NEW c, NEW s \in Seq(Message), NEW m \in Message, AllAimed(c, s),
           Aimed(m) => EndsAt(c, s, m.at)
    PROVE  /\ Append(s, m) \in Seq(Message)
           /\ AllAimed(c, Append(s, m))
           /\ m.op = "move" => EndsAt(c, Append(s, m), m.at)
           /\ m.op # "move" => \A p : EndsAt(c, s, p) => EndsAt(c, Append(s, m), p)
<1> DEFINE q == Append(s, m)
           n == Len(s)
<1>1. /\ q \in Seq(Message) /\ Len(q) = n + 1 /\ n \in Nat /\ q[n + 1] = m
      /\ \A i \in 1..n : q[i] = s[i]
  BY Appended
<1> HIDE DEF q
<1>2. ASSUME NEW i \in 1..n + 1, NEW p, IsAt(c, s, i, p)
      PROVE  IsAt(c, q, i, p)
  <2>1. \A j \in 1..i - 1 : j \in 1..n /\ q[j] = s[j]
    BY <1>1
  <2>2. CASE c = p /\ \A j \in 1..i - 1 : s[j].op # "move"
    BY <2>1, <2>2 DEF IsAt
  <2>3. ASSUME NEW j \in 1..i - 1, s[j].op = "move", s[j].at = p,
               \A l \in j + 1..i - 1 : s[l].op # "move"
        PROVE  IsAt(c, q, i, p)
    <3>1. \A l \in j + 1..i - 1 : l \in 1..i - 1
      BY <1>1
    <3>. QED  BY <2>1, <2>3, <3>1 DEF IsAt
  <2>. QED  BY <1>2, <2>2, <2>3 DEF IsAt
<1>3. AllAimed(c, q)
  <2> SUFFICES ASSUME NEW i \in 1..n + 1, Aimed(q[i])
               PROVE  IsAt(c, q, i, q[i].at)
    BY <1>1 DEF AllAimed
  <2>1. CASE i = n + 1
    BY <1>1, <1>2, <2>1 DEF EndsAt
  <2>2. CASE i \in 1..n
    BY <1>1, <1>2, <2>2 DEF AllAimed
  <2>. QED  BY <1>1, <2>1, <2>2
<1>4. ASSUME m.op = "move"
      PROVE  EndsAt(c, q, m.at)
  <2>1. n + 1 \in 1..(Len(q) + 1) - 1 /\ \A l \in (n + 1) + 1..(Len(q) + 1) - 1 : FALSE
    BY <1>1
  <2>. QED  BY <1>1, <1>4, <2>1 DEF EndsAt, IsAt
<1>5. ASSUME m.op # "move", NEW p, EndsAt(c, s, p)
      PROVE  EndsAt(c, q, p)
  <2>1. (Len(q) + 1) - 1 = n + 1 /\ (Len(s) + 1) - 1 = n
    BY <1>1
  <2>2. \A j \in 1..n + 1 : j \in 1..n \/ j = n + 1
    BY <1>1
  <2>3. CASE c = p /\ \A j \in 1..n : s[j].op # "move"
    BY <1>1, <1>5, <2>1, <2>2, <2>3 DEF EndsAt, IsAt
  <2>4. ASSUME NEW j \in 1..n, s[j].op = "move", s[j].at = p,
               \A l \in j + 1..n : s[l].op # "move"
        PROVE  EndsAt(c, q, p)
    <3>1. j \in 1..n + 1 /\ q[j] = s[j]
      BY <1>1
    <3>2. ASSUME NEW l \in j + 1..n + 1
          PROVE  q[l].op # "move"
      BY <1>1, <1>5, <2>4
    <3>. QED  BY <2>1, <2>4, <3>1, <3>2 DEF EndsAt, IsAt
  <2>5. \/ c = p /\ \A j \in 1..n : s[j].op # "move"
        \/ \E j \in 1..n : /\ s[j].op = "move" /\ s[j].at = p
                           /\ \A l \in j + 1..n : s[l].op # "move"
    BY <1>5, <2>1 DEF EndsAt, IsAt
  <2>. QED  BY <2>3, <2>4, <2>5
<1>. QED  BY <1>1, <1>3, <1>4, <1>5 DEF q

\* The head is applied: the cursor goes where it says, and all else stays.
LEMMA ApplyOne ==
    ASSUME NEW c, NEW d, NEW s \in Seq(Message), s # <<>>,
           d = IF Head(s).op = "move" THEN Head(s).at ELSE c,
           NEW i \in 1..Len(Tail(s)) + 1, NEW p, IsAt(c, s, i + 1, p)
    PROVE  IsAt(d, Tail(s), i, p)
<1> DEFINE t == Tail(s)
           n == Len(t)
<1>1. /\ t \in Seq(Message) /\ n \in Nat /\ Len(s) = n + 1 /\ Head(s) = s[1]
      /\ \A j \in 1..n : t[j] = s[j + 1]
  BY Shortened
<1> HIDE DEF t
<1>2. (i + 1) - 1 = i /\ i \in Nat /\ i > 0 /\ 1 \in 1..i
  BY <1>1
<1>3. ASSUME NEW j \in 1..i - 1
      PROVE  j \in 1..n /\ t[j] = s[j + 1] /\ j + 1 \in 1..i /\ j + 1 > 1
  BY <1>1
<1>4. CASE c = p /\ \A j \in 1..i : s[j].op # "move"
  <2>1. d = p
    BY <1>1, <1>2, <1>4
  <2>2. \A j \in 1..i - 1 : t[j].op # "move"
    BY <1>3, <1>4
  <2>. QED  BY <2>1, <2>2 DEF IsAt, t
<1>5. ASSUME NEW j \in 1..i, s[j].op = "move", s[j].at = p,
             \A l \in j + 1..i : s[l].op # "move"
      PROVE  IsAt(d, t, i, p)
  <2>1. CASE j = 1
    <3>1. d = p
      BY <1>1, <1>5, <2>1
    <3>2. ASSUME NEW l \in 1..i - 1
          PROVE  t[l].op # "move"
      <4>1. l + 1 \in j + 1..i
        BY <1>3, <2>1
      <4>. QED  BY <4>1, <1>3, <1>5
    <3>. QED  BY <3>1, <3>2 DEF IsAt
  <2>2. CASE j > 1
    <3>1. j - 1 \in 1..i - 1 /\ (j - 1) + 1 = j
      BY <1>2, <2>2
    <3>2. t[j - 1] = s[j]
      BY <3>1, <1>3
    <3>3. ASSUME NEW l \in (j - 1) + 1..i - 1
          PROVE  t[l].op # "move"
      <4>1. l \in 1..i - 1 /\ l + 1 \in j + 1..i
        BY <1>2, <3>1
      <4>. QED  BY <4>1, <1>3, <1>5
    <3>. QED  BY <1>5, <3>1, <3>2, <3>3 DEF IsAt
  <2>. QED  BY <1>5, <2>1, <2>2
<1>6. \/ c = p /\ \A j \in 1..i : s[j].op # "move"
      \/ \E j \in 1..i : /\ s[j].op = "move" /\ s[j].at = p
                         /\ \A l \in j + 1..i : s[l].op # "move"
  BY <1>2 DEF IsAt
<1>. QED  BY <1>4, <1>5, <1>6 DEF t

\* What each send does to where presses land and where the cursor ends.
LEMMA SendsAim ==
    ASSUME TypeOK, link = "up", AllAimed(cursor, wire),
           NEW k \in Button, NEW r \in Place, NEW p \in Spots
    PROVE  /\ Send(<<Up(k)>>) \/ Send(<<Down(k, Nowhere)>>)
                 \/ (Send(Click(k, r)) /\ (r = Nowhere \/ EndsAt(cursor, wire, r))) =>
                 /\ AllAimed(cursor, wire')
                 /\ \A x : EndsAt(cursor, wire, x) => EndsAt(cursor, wire', x)
           /\ Send(<<Move(p)>> \o Click(k, p)) =>
                 AllAimed(cursor, wire') /\ EndsAt(cursor, wire', p)
           /\ Send(Start(p)) => AllAimed(cursor, wire')
<1>1. /\ Up(k) \in Message /\ Up(k).op = "up"
      /\ \A x \in Place : /\ Down(k, x) \in Message /\ Down(k, x).op = "down"
                          /\ Down(k, x).at = x /\ Down(k, x).key = k
      /\ Down(Left, p) \in Message
      /\ Move(p) \in Message /\ Move(p).op = "move" /\ Move(p).at = p
      /\ Nowhere \in Place /\ p \in Place /\ wire \in Seq(Message)
  BY AllAreMessages, AllAreButtons DEF TypeOK, Place, Up, Down, Move
<1>2. /\ ~Aimed(Up(k)) /\ ~Aimed(Move(p)) /\ ~Aimed(Down(k, Nowhere))
      /\ \A x \in Place : Aimed(Down(k, x)) => x # Nowhere
      /\ Down(Left, p).op = "down" /\ Down(Left, p).at = p
  BY <1>1 DEF Aimed, Down
\* A press where the cursor ends, and its release.
<1>3. ASSUME NEW q \in Seq(Message), AllAimed(cursor, q), NEW x \in Place,
             x = Nowhere \/ EndsAt(cursor, q, x)
      PROVE  /\ q \o <<Down(k, x), Up(k)>> \in Seq(Message)
             /\ AllAimed(cursor, q \o <<Down(k, x), Up(k)>>)
             /\ \A y : EndsAt(cursor, q, y) => EndsAt(cursor, q \o <<Down(k, x), Up(k)>>, y)
  <2>1. PICK a : a = Append(q, Down(k, x))
    OBVIOUS
  <2>2. /\ a \in Seq(Message) /\ AllAimed(cursor, a)
        /\ \A y : EndsAt(cursor, q, y) => EndsAt(cursor, a, y)
    BY <1>1, <1>2, <1>3, <2>1, QueueOne
  <2>3. PICK b : b = Append(a, Up(k))
    OBVIOUS
  <2>4. /\ b \in Seq(Message) /\ AllAimed(cursor, b)
        /\ \A y : EndsAt(cursor, a, y) => EndsAt(cursor, b, y)
    BY <1>1, <1>2, <2>2, <2>3, QueueOne
  <2>5. q \o <<Down(k, x), Up(k)>> = b
    BY <1>1, <2>1, <2>3, OneByOne
  <2>. QED  BY <2>2, <2>4, <2>5
\* A move.
<1>4. PICK w : w = Append(wire, Move(p))
  OBVIOUS
<1>5. w \in Seq(Message) /\ AllAimed(cursor, w) /\ EndsAt(cursor, w, p)
  BY <1>1, <1>2, <1>4, QueueOne
<1>6. ASSUME Send(<<Up(k)>>)
      PROVE  /\ AllAimed(cursor, wire')
             /\ \A x : EndsAt(cursor, wire, x) => EndsAt(cursor, wire', x)
  <2>1. wire' = Append(wire, Up(k))
    BY <1>1, <1>6, OneByOne DEF Send
  <2>. QED  BY <1>1, <1>2, <2>1, QueueOne
<1>7. ASSUME Send(<<Down(k, Nowhere)>>)
      PROVE  /\ AllAimed(cursor, wire')
             /\ \A x : EndsAt(cursor, wire, x) => EndsAt(cursor, wire', x)
  <2>1. wire' = Append(wire, Down(k, Nowhere))
    BY <1>1, <1>7, OneByOne DEF Send
  <2>. QED  BY <1>1, <1>2, <2>1, QueueOne
<1>8. ASSUME Send(Click(k, r)), r = Nowhere \/ EndsAt(cursor, wire, r)
      PROVE  /\ AllAimed(cursor, wire')
             /\ \A x : EndsAt(cursor, wire, x) => EndsAt(cursor, wire', x)
  <2>1. wire' = wire \o <<Down(k, r), Up(k)>>
    BY <1>8 DEF Send, Click
  <2>. QED  BY <1>1, <1>3, <1>8, <2>1
<1>9. ASSUME Send(<<Move(p)>> \o Click(k, p))
      PROVE  AllAimed(cursor, wire') /\ EndsAt(cursor, wire', p)
  <2>1. wire' = wire \o <<Move(p), Down(k, p), Up(k)>>
    BY <1>1, <1>9, SentAreMessages DEF Send
  <2>2. wire' = Append(Append(Append(wire, Move(p)), Down(k, p)), Up(k))
    BY <1>1, <2>1, OneByOne
  <2>3. w \o <<Down(k, p), Up(k)>> = Append(Append(w, Down(k, p)), Up(k))
    BY <1>1, <1>5, OneByOne
  <2>4. wire' = w \o <<Down(k, p), Up(k)>>
    BY <1>4, <2>2, <2>3
  <2>. QED  BY <1>1, <1>3, <1>5, <2>4
<1>10. ASSUME Send(Start(p))
       PROVE  AllAimed(cursor, wire')
  <2>1. CASE leftSent
    <3>1. wire' = wire \o <<Move(p)>>
      BY <1>1, <1>10, <2>1, ShortSequences DEF Send, Start
    <3>2. wire' = w
      BY <1>1, <1>4, <3>1, OneByOne
    <3>. QED  BY <1>5, <3>2
  <2>2. CASE ~leftSent
    <3>1. wire' = wire \o <<Move(p), Down(Left, p)>>
      BY <1>1, <1>10, <2>2, ShortSequences DEF Send, Start
    <3>2. wire' = Append(w, Down(Left, p))
      BY <1>1, <1>4, <3>1, OneByOne
    <3>. QED  BY <1>1, <1>2, <1>5, <3>2, QueueOne
  <2>. QED  BY <2>1, <2>2
<1>. QED  BY <1>6, <1>7, <1>8, <1>9, <1>10

LEMMA ClicksInit == Init => ClickInv
  BY DEF Init, ClickInv, AllAimed, SecondTapAimed, ClicksLand

LEMMA ClicksStep == InputTypeInv /\ ClickInv /\ [Next]_vars => ClickInv'
<1> SUFFICES ASSUME InputTypeInv, ClickInv, [Next]_vars
             PROVE  ClickInv'
  OBVIOUS
<1>0. /\ TypeOK /\ DragHoldsLeft /\ FingerIsSomewhere
      /\ wire \in Seq(Message) /\ link \in {"up", "down"}
      /\ AllAimed(cursor, wire) /\ SecondTapAimed /\ ClicksLand
  BY DEF InputTypeInv, TypeOK, ClickInv
<1>a. Spots \subseteq Place /\ Nowhere \in Place /\ Left \in Button /\ Right \in Button
  BY AllAreButtons DEF Place
\* All but Apply and LinkDown leave the PC's part and the link alone.
<1>b. ASSUME UNCHANGED <<cursor, clicks, link>>, AllAimed(cursor, wire'),
             link = "up" /\ lastTap' # Nowhere /\ ~strayed' => EndsAt(cursor, wire', lastTap')
      PROVE  ClickInv'
  BY <1>0, <1>b DEF ClickInv, SecondTapAimed, ClicksLand
<1>1. CASE UNCHANGED vars
  BY <1>0, <1>1, <1>b DEF vars, touchVars, macroVars, hostVars, SecondTapAimed
<1>2. ASSUME NEW p \in Spots, Touch(p)
      PROVE  ClickInv'
  BY <1>0, <1>2, <1>b DEF Touch, touchUnchanged, macroVars, hostVars, SecondTapAimed
<1>3. ASSUME NEW p \in Spots, Drag(p)
      PROVE  ClickInv'
  <2>1. UNCHANGED <<cursor, clicks, link>> /\ strayed' = TRUE /\ Send(Start(p))
    BY <1>3 DEF Drag, touchUnchanged, hostVars
  <2>2. AllAimed(cursor, wire')
    <3>1. CASE link = "up"
      BY <1>0, <1>a, <2>1, <3>1, SendsAim
    <3>2. CASE link = "down"
      BY <1>0, <2>1, <3>2 DEF Send
    <3>. QED  BY <1>0, <3>1, <3>2
  <2>. QED  BY <1>b, <2>1, <2>2
<1>4. CASE SecondFinger
  BY <1>0, <1>4, <1>b DEF SecondFinger, touchUnchanged, macroVars, hostVars, SecondTapAimed
<1>5. CASE Lift
  <2>1. finger # "none" /\ UNCHANGED <<cursor, clicks, link>>
    BY <1>5, LiftCases DEF touchUnchanged, hostVars
  <2>2. downPos \in Spots /\ downPos \in Place
    BY <1>0, <1>a, <2>1 DEF FingerIsSomewhere
  <2>3. CASE link = "down"
    <3>1. \A s : Send(s) => wire' = wire
      BY <2>3 DEF Send
    <3>2. wire' = wire
      BY <1>5, <3>1, LiftCases DEF EndDrag, LongPress, Discard
    <3>. QED  BY <1>0, <1>b, <2>1, <2>3, <3>2
  <2>4. CASE link = "up"
    <3>1. CASE EndDrag
      BY <1>0, <1>a, <1>b, <2>1, <2>2, <2>4, <3>1, SendsAim DEF EndDrag, SecondTapAimed
    <3>2. CASE LongPress
      BY <1>0, <1>a, <1>b, <2>1, <2>2, <2>4, <3>2, SendsAim DEF LongPress
    <3>3. CASE Discard
      BY <1>0, <1>b, <2>1, <2>4, <3>3 DEF Discard, SecondTapAimed
    <3>4. CASE /\ finger = "one" /\ strayed' = FALSE
               /\ DoubleTap /\ lastTap' = Nowhere
               /\ Send(Click(Left, IF strayed THEN Nowhere ELSE downPos))
      <4>1. PICK r : r = IF strayed THEN Nowhere ELSE downPos
        OBVIOUS
      <4>2. r \in Place /\ Send(Click(Left, r))
        BY <1>a, <2>2, <3>4, <4>1
      <4>3. r = Nowhere \/ EndsAt(cursor, wire, r)
        BY <1>0, <2>4, <3>4, <4>1 DEF DoubleTap, SecondTapAimed
      <4>4. AllAimed(cursor, wire')
        BY <1>0, <1>a, <2>2, <2>4, <4>2, <4>3, SendsAim
      <4>. QED  BY <1>b, <2>1, <3>4, <4>4
    <3>5. CASE /\ finger = "one" /\ strayed' = FALSE
               /\ ~DoubleTap /\ lastTap' = downPos
               /\ Send(<<Move(downPos)>> \o Click(Left, downPos))
      BY <1>0, <1>a, <1>b, <2>1, <2>2, <2>4, <3>5, SendsAim
    <3>. QED  BY <1>5, LiftCases, <3>1, <3>2, <3>3, <3>4, <3>5
  <2>. QED  BY <1>0, <2>3, <2>4
<1>6. CASE TapExpires
  BY <1>0, <1>6, <1>b DEF TapExpires, touchUnchanged, hostVars
<1>7. CASE Dispose
  BY <1>0, <1>7, <1>b DEF Dispose, touchUnchanged, hostVars
<1>8. ASSUME NEW m \in Macros, RunMacro(m) \/ MacroStep(m)
      PROVE  ClickInv'
  <2>1. UNCHANGED <<cursor, clicks, link, lastTap, strayed>>
    BY <1>8 DEF RunMacro, MacroStep, touchVars, hostVars
  <2>2. PICK q \in Spots : TRUE
    BY InputAssumption
  <2>3. /\ Modifier(m) \in Button /\ Letter(m) \in Button
        /\ \/ Send(<<Down(Modifier(m), Nowhere)>>)
           \/ Send(Click(Letter(m), Nowhere))
           \/ Send(<<Up(Modifier(m))>>)
    BY <1>8, AllAreButtons DEF RunMacro, MacroStep, Keys
  <2>4. CASE link = "up"
    <3>1. /\ AllAimed(cursor, wire')
          /\ \A x : EndsAt(cursor, wire, x) => EndsAt(cursor, wire', x)
      BY <1>0, <1>a, <2>2, <2>3, <2>4, SendsAim
    <3>. QED  BY <1>0, <1>b, <2>1, <3>1 DEF SecondTapAimed
  <2>5. CASE link = "down"
    <3>1. wire' = wire
      BY <2>3, <2>5 DEF Send
    <3>. QED  BY <1>0, <1>b, <2>1, <2>5, <3>1
  <2>. QED  BY <1>0, <2>4, <2>5
<1>9. CASE Apply
  <2> DEFINE h == Head(wire)
  <2>1. /\ wire # <<>> /\ wire' = Tail(wire) /\ h \in Message /\ h = wire[1]
        /\ Len(wire) \in Nat /\ Len(wire) > 0 /\ Len(Tail(wire)) = Len(wire) - 1
        /\ \A i \in 1..Len(wire) - 1 : Tail(wire)[i] = wire[i + 1]
        /\ UNCHANGED <<link, lastTap, strayed>>
    BY <1>0, <1>9, Shortened DEF Apply, touchVars
  <2>2. cursor' = IF h.op = "move" THEN h.at ELSE cursor
    BY <1>9 DEF Apply
  <2>3. AllAimed(cursor', wire')
    <3> SUFFICES ASSUME NEW i \in 1..Len(Tail(wire)), Aimed(Tail(wire)[i])
                 PROVE  IsAt(cursor', Tail(wire), i, Tail(wire)[i].at)
      BY <2>1 DEF AllAimed
    <3>1. /\ i + 1 \in 1..Len(wire) /\ Tail(wire)[i] = wire[i + 1]
          /\ i \in 1..Len(Tail(wire)) + 1
      BY <2>1
    <3>2. IsAt(cursor, wire, i + 1, wire[i + 1].at)
      BY <1>0, <3>1 DEF AllAimed
    <3>. QED  BY <1>0, <2>1, <2>2, <3>1, <3>2, ApplyOne
  <2>4. SecondTapAimed'
    <3> SUFFICES ASSUME link = "up", lastTap # Nowhere, ~strayed
                 PROVE  EndsAt(cursor', Tail(wire), lastTap)
      BY <2>1 DEF SecondTapAimed
    <3>1. IsAt(cursor, wire, (Len(Tail(wire)) + 1) + 1, lastTap)
      BY <1>0, <2>1 DEF SecondTapAimed, EndsAt
    <3>2. Len(Tail(wire)) + 1 \in 1..Len(Tail(wire)) + 1
      BY <2>1
    <3>. QED  BY <1>0, <2>1, <2>2, <3>1, <3>2, ApplyOne DEF EndsAt
  <2>5. ClicksLand'
    <3>1. CASE h.op = "down" /\ h.key \in {Left, Right}
      <4>1. clicks' = clicks \union {<<cursor, h.at>>}
        BY <1>9, <3>1 DEF Apply
      <4>2. cursor = h.at \/ h.at = Nowhere
        <5>1. ASSUME h.at # Nowhere
              PROVE  cursor = h.at
          <6>1. Aimed(wire[1]) /\ 1 \in 1..Len(wire) /\ h = wire[1]
            BY <2>1, <3>1, <5>1 DEF Aimed
          <6>2. IsAt(cursor, wire, 1, h.at)
            BY <1>0, <6>1 DEF AllAimed
          <6>. QED  BY <6>2 DEF IsAt
        <5>. QED  BY <5>1
      <4>. QED  BY <1>0, <4>1, <4>2 DEF ClicksLand
    <3>2. CASE ~(h.op = "down" /\ h.key \in {Left, Right})
      <4>1. clicks' = clicks
        BY <1>9, <3>2 DEF Apply
      <4>. QED  BY <1>0, <4>1 DEF ClicksLand
    <3>. QED  BY <3>1, <3>2
  <2>. QED  BY <2>3, <2>4, <2>5 DEF ClickInv
<1>10. CASE LinkDown
  <2>1. link' = "down" /\ wire' = <<>> /\ clicks' = clicks
    BY <1>10 DEF LinkDown, hostVars
  <2>. QED  BY <1>0, <2>1 DEF ClickInv, AllAimed, SecondTapAimed, ClicksLand
<1>. QED
  BY <1>1, <1>2, <1>3, <1>4, <1>5, <1>6, <1>7, <1>8, <1>9, <1>10 DEF Next

\* A left or right click lands where the finger was: of a long press and a
\* single tap, whose move goes before it, and of the second tap of a double
\* tap, which sends none, unless a drag came between.
THEOREM ClicksLandThere == Spec => []ClicksLand
<1>1. ClickInv => ClicksLand
  BY DEF ClickInv
<1>. QED  BY <1>1, InputInit, InputTypeStep, ClicksInit, ClicksStep, PTL DEF Spec
=============================================================================
