----------------------------- MODULE Wire_proofs -----------------------------
(***************************************************************************)
(* Theorems about the messages of a session and what speaks them: the      *)
(* asynchronous transform (MftEncoder), the binary formats (Framing), the  *)
(* JSON messages (Protocol) and what carries both (Wire).                  *)
(***************************************************************************)
EXTENDS Wire, SequenceTheorems, FiniteSetTheorems, TLAPS

-----------------------------------------------------------------------------
(***************************************************************************)
(* The asynchronous transform a video thread may encode with, for any      *)
(* number of frames and any depth: it never gets a frame it did not ask    *)
(* for (NeverOverfed), and between two calls it does not wait for a frame  *)
(* that waits for it (NeverStarved), until a request that it made while    *)
(* encode polled was forgotten by that very call.                          *)
(*                                                                         *)
(* A request that finds no frame is forgotten.  Of those made before the   *)
(* call the first that is read takes the frame, so the transform has room  *)
(* for one more, or has asked for it, and that one was made while encode   *)
(* polled: as long as none of these is forgotten, one is left to be read.  *)
(***************************************************************************)

\* The places of the requests in a queue of events.
Needs(q) == {i \in 1..Len(q) : q[i] = "need"}

EncoderTypes ==
    /\ frames \in Nat /\ key \in BOOLEAN /\ polling \in BOOLEAN
    /\ waiting \in Seq(Nat) /\ events \in Seq({"need", "have"})
    /\ owed \in Nat /\ IsFiniteSet(inside)
    /\ early \in Nat /\ hasty \in BOOLEAN
    /\ forced \subseteq 1..frames + 1

\* A transform that has asked for all it may holds no frame, and one of its
\* requests is still to be read; when encode polls and has no frame left, one
\* was answered, or one was made since that is still to be read.  Until one of
\* those made since is read in vain.
RequestIsLeft ==
    /\ early <= Count("need")
    /\ hasty \/ (/\ owed = Depth => Count("need") > 0
                 /\ polling /\ waiting = <<>> =>
                       owed + early < Depth + Count("need"))

\* force_keyframe is remembered for the next frame.
MarkIsDue ==
    /\ key <=> frames + 1 \in forced
    /\ MarkedAsAsked

EncoderInv == EncoderTypes /\ NeverOverfed /\ RequestIsLeft /\ MarkIsDue

\* What an event that comes and one that is read leave to be counted.
LEMMA EventComes ==
    ASSUME NEW q \in Seq({"need", "have"}), NEW e \in {"need", "have"}
    PROVE  /\ Append(q, e) \in Seq({"need", "have"})
           /\ Cardinality(Needs(q)) \in Nat
           /\ Cardinality(Needs(Append(q, e))) =
                  Cardinality(Needs(q))
                      + (IF e = "need" THEN 1 ELSE 0)
<1>1. /\ Append(q, e) \in Seq({"need", "have"})
      /\ Len(Append(q, e)) = Len(q) + 1 /\ Len(q) \in Nat
      /\ Append(q, e)[Len(q) + 1] = e
      /\ \A i \in 1..Len(q) : Append(q, e)[i] = q[i]
  BY AppendProperties
<1>2. 1..Len(q) + 1 = (1..Len(q)) \union {Len(q) + 1} /\ Len(q) + 1 \notin 1..Len(q)
  BY <1>1
<1>3. IsFiniteSet(Needs(q))
  <2>1. IsFiniteSet(1..Len(q)) /\ Needs(q) \in SUBSET (1..Len(q))
    BY <1>1, FS_Interval DEF Needs
  <2>. QED  BY <2>1, FS_Subset
<1>4. /\ Needs(Append(q, e)) =
             IF e = "need" THEN Needs(q) \union {Len(q) + 1} ELSE Needs(q)
      /\ Len(q) + 1 \notin Needs(q)
  BY <1>1, <1>2 DEF Needs
<1>5. /\ Cardinality(Needs(q)) \in Nat
      /\ Cardinality(Needs(q) \union {Len(q) + 1}) = Cardinality(Needs(q)) + 1
  BY <1>3, <1>4, FS_CardinalityType, FS_AddElement
<1>. QED  BY <1>1, <1>4, <1>5

\* And what the event that is read leaves.
LEMMA EventIsRead ==
    ASSUME NEW q \in Seq({"need", "have"}), q # <<>>
    PROVE  /\ Tail(q) \in Seq({"need", "have"})
           /\ Cardinality(Needs(q)) \in Nat
           /\ Cardinality(Needs(Tail(q))) \in Nat
           /\ Cardinality(Needs(q)) =
                  Cardinality(Needs(Tail(q)))
                      + (IF Head(q) = "need" THEN 1 ELSE 0)
<1> DEFINE B == Needs(q) \ {1}
           f == [i \in Needs(Tail(q)) |-> i + 1]
<1>1. /\ Tail(q) \in Seq({"need", "have"})
      /\ Len(Tail(q)) = Len(q) - 1 /\ Len(q) \in Nat /\ Len(q) > 0
      /\ Head(q) = q[1]
      /\ \A i \in 1..Len(q) - 1 : Tail(q)[i] = q[i + 1]
  BY HeadTailProperties
<1>2. \A i \in 1..Len(q) - 1 : i + 1 \in 1..Len(q) /\ i + 1 # 1 /\ i \in Int
  BY <1>1
<1>3. IsFiniteSet(Needs(Tail(q))) /\ IsFiniteSet(Needs(q))
  <2>1. /\ IsFiniteSet(1..Len(q) - 1) /\ Needs(Tail(q)) \in SUBSET (1..Len(q) - 1)
        /\ IsFiniteSet(1..Len(q)) /\ Needs(q) \in SUBSET (1..Len(q))
    BY <1>1, FS_Interval DEF Needs
  <2>. QED  BY <2>1, FS_Subset
<1>4. Needs(Tail(q)) = {i \in 1..Len(q) - 1 : q[i + 1] = "need"}
  BY <1>1 DEF Needs
<1>5. f \in [Needs(Tail(q)) -> B]
  BY <1>2, <1>4 DEF Needs
<1>6. \A i, j \in Needs(Tail(q)) : f[i] = f[j] => i = j
  BY <1>2, <1>4
<1>7. \A k \in B : \E i \in Needs(Tail(q)) : f[i] = k
  <2> SUFFICES ASSUME NEW k \in B
               PROVE  k - 1 \in Needs(Tail(q)) /\ f[k - 1] = k
    OBVIOUS
  <2>1. k \in 2..Len(q) /\ q[k] = "need"
    BY <1>1 DEF Needs
  <2>2. k - 1 \in 1..Len(q) - 1 /\ k - 1 + 1 = k
    BY <1>1, <2>1
  <2>. QED  BY <1>4, <2>1, <2>2
<1>8. ExistsBijection(Needs(Tail(q)), B)
  BY <1>5, <1>6, <1>7 DEF ExistsBijection, Bijection, Injection, Surjection, IsInjective
<1>9. Cardinality(B) = Cardinality(Needs(Tail(q)))
  BY <1>3, <1>8, FS_Bijection
<1>10. /\ Cardinality(Needs(q)) \in Nat /\ Cardinality(Needs(Tail(q))) \in Nat
       /\ Cardinality(B) = IF 1 \in Needs(q) THEN Cardinality(Needs(q)) - 1
                                             ELSE Cardinality(Needs(q))
  BY <1>3, FS_CardinalityType, FS_RemoveElement
<1>11. 1 \in Needs(q) <=> Head(q) = "need"
  BY <1>1 DEF Needs
<1>. QED  BY <1>1, <1>9, <1>10, <1>11

\* Count says how many requests are among the events.
LEMMA RequestsCounted == Count("need") = Cardinality(Needs(events))
  BY DEF Count, Needs

\* A new encoder.
LEMMA TransformInit == Init => EncoderInv
<1> SUFFICES ASSUME Init
             PROVE  EncoderInv
  OBVIOUS
<1> USE DEF Init
<1>1. EncoderTypes
  <2>1. frames \in Nat /\ owed \in Nat /\ early \in Nat /\ 1..frames + 1 = {1}
    OBVIOUS
  <2>4. hasty \in BOOLEAN
    BY Zenon
  <2>2. IsFiniteSet(inside)
    BY FS_EmptySet
  <2>3. waiting \in Seq(Nat) /\ events \in Seq({"need", "have"})
    OBVIOUS
  <2>. QED  BY <2>1, <2>2, <2>3, <2>4 DEF EncoderTypes
<1>2. Count("need") = 0 /\ Cardinality(inside) = 0
  <2>1. Needs(events) = {} /\ inside = {}
    BY DEF Needs
  <2>. QED  BY <2>1, FS_EmptySet, RequestsCounted
<1>3. NeverOverfed /\ RequestIsLeft
  BY <1>2, EncoderAssumption DEF NeverOverfed, RequestIsLeft
<1>4. MarkIsDue
  <2>1. {1} \intersect (1..0) = {}
    OBVIOUS
  <2>. QED  BY <2>1 DEF MarkIsDue, MarkedAsAsked
<1>. QED  BY <1>1, <1>3, <1>4 DEF EncoderInv

\* What the counts are, for one state: RequestIsLeft and NeverOverfed by number.
LEMMA Counts ==
    ASSUME EncoderTypes
    PROVE  /\ Cardinality(Needs(events)) \in Nat /\ Cardinality(inside) \in Nat
           /\ NeverOverfed <=> /\ owed + Cardinality(inside) <= Depth
                                       /\ Cardinality(Needs(events)) <= owed
           /\ RequestIsLeft <=>
                 /\ early <= Cardinality(Needs(events))
                 /\ hasty \/
                      (/\ owed = Depth => Cardinality(Needs(events)) > 0
                       /\ polling /\ waiting = <<>> =>
                             owed + early < Depth + Cardinality(Needs(events)))
<1>1. IsFiniteSet(Needs(events)) /\ IsFiniteSet(inside)
  <2>1. events \in Seq({"need", "have"}) /\ IsFiniteSet(inside)
    BY DEF EncoderTypes
  <2>2. IsFiniteSet(1..Len(events)) /\ Needs(events) \in SUBSET (1..Len(events))
    BY <2>1, LenProperties, FS_Interval DEF Needs
  <2>. QED  BY <2>1, <2>2, FS_Subset
<1>2. Cardinality(Needs(events)) \in Nat /\ Cardinality(inside) \in Nat
  BY <1>1, FS_CardinalityType
<1>. QED  BY <1>2, RequestsCounted DEF NeverOverfed, RequestIsLeft

\* What NeedInput takes: the oldest frame, if there is one.
LEMMA OneIsFed ==
    ASSUME NEW q \in Seq(Nat)
    PROVE  LET fed == IF q = <<>> THEN <<>> ELSE SubSeq(q, 1, 1)
           IN  /\ q # <<>> => Len(fed) = 1 /\ Range(fed) = {q[1]}
               /\ q = <<>> => Len(fed) = 0 /\ Range(fed) = {}
               /\ SubSeq(q, Len(fed) + 1, Len(q)) \in Seq(Nat)
               /\ q = <<>> => SubSeq(q, Len(fed) + 1, Len(q)) = <<>>
<1>1. ASSUME q # <<>>
      PROVE  /\ Len(SubSeq(q, 1, 1)) = 1 /\ Range(SubSeq(q, 1, 1)) = {q[1]}
             /\ SubSeq(q, 2, Len(q)) \in Seq(Nat)
  <2>1. Len(q) \in Nat /\ Len(q) > 0 /\ \A i \in 1..Len(q) : q[i] \in Nat
    BY <1>1, LenProperties, ElementOfSeq, EmptySeq
  <2>2. SubSeq(q, 1, 1) \in Seq(Nat) /\ Len(SubSeq(q, 1, 1)) = 1 /\ SubSeq(q, 1, 1)[1] = q[1]
    <3>1. \A i \in 1..1 : q[i] \in Nat
      BY <2>1
    <3>2. /\ SubSeq(q, 1, 1) \in Seq(Nat)
          /\ Len(SubSeq(q, 1, 1)) = IF 1 <= 1 THEN 1 - 1 + 1 ELSE 0
          /\ \A i \in 1..1 - 1 + 1 : SubSeq(q, 1, 1)[i] = q[1 + i - 1]
      BY <3>1, SubSeqProperties
    <3>3. 1 - 1 + 1 = 1 /\ 1 \in 1..1 - 1 + 1 /\ 1 + 1 - 1 = 1
      OBVIOUS
    <3>. QED  BY <3>2, <3>3
  <2>3. DOMAIN SubSeq(q, 1, 1) = {1}
    BY <2>2, LenProperties
  <2>4. Range(SubSeq(q, 1, 1)) = {q[1]}
    BY <2>2, <2>3 DEF Range
  <2>5. SubSeq(q, 2, Len(q)) \in Seq(Nat)
    <3>1. \A i \in 2..Len(q) : q[i] \in Nat
      BY <2>1
    <3>. QED  BY <2>1, <3>1, SubSeqProperties
  <2>. QED  BY <2>2, <2>4, <2>5
<1>2. ASSUME q = <<>>
      PROVE  /\ Len(<<>>) = 0 /\ Range(<<>>) = {}
             /\ SubSeq(q, 1, Len(q)) = <<>>
  <2>1. Len(<<>>) = 0 /\ DOMAIN <<>> = {}
    OBVIOUS
  <2>2. SubSeq(q, 1, Len(q)) = <<>>
    BY <1>2, <2>1
  <2>. QED  BY <2>1, <2>2 DEF Range
<1>. QED  BY <1>1, <1>2

\* One element more, or less.
LEMMA Fills ==
    ASSUME NEW S, IsFiniteSet(S), NEW x
    PROVE  /\ IsFiniteSet(S \union {x}) /\ IsFiniteSet(S \ {x})
           /\ Cardinality(S) \in Nat
           /\ Cardinality(S \union {x}) \in Nat
           /\ Cardinality(S \union {x}) <= Cardinality(S) + 1
           /\ Cardinality(S \ {x}) \in Nat
           /\ Cardinality(S \ {x}) <= Cardinality(S)
           /\ x \in S => Cardinality(S \ {x}) = Cardinality(S) - 1
  BY FS_CardinalityType, FS_AddElement, FS_RemoveElement

\* Each of the transform's steps and of the encoder's calls.
LEMMA TransformStep ==
    EncoderInv /\ [Next]_vars => EncoderInv'
<1> SUFFICES ASSUME EncoderInv, [Next]_vars
             PROVE  EncoderInv'
  OBVIOUS
<1> DEFINE n == Cardinality(Needs(events))
           c == Cardinality(inside)
<1>0. /\ EncoderTypes /\ NeverOverfed /\ RequestIsLeft /\ MarkIsDue
      /\ Depth \in Nat \ {0} /\ n \in Nat /\ c \in Nat
      /\ owed + c <= Depth /\ n <= owed
      /\ early <= n
      /\ hasty \/ (/\ owed = Depth => n > 0
                   /\ polling /\ waiting = <<>> => owed + early < Depth + n)
  BY Counts, EncoderAssumption DEF EncoderInv
<1>a. /\ frames \in Nat /\ key \in BOOLEAN /\ polling \in BOOLEAN
      /\ waiting \in Seq(Nat) /\ events \in Seq({"need", "have"})
      /\ owed \in Nat /\ IsFiniteSet(inside)
      /\ early \in Nat /\ hasty \in BOOLEAN
      /\ forced \subseteq 1..frames + 1
  BY <1>0 DEF EncoderTypes
\* The numbers, and the two halves of RequestIsLeft.
<1>e. /\ Depth \in Nat \ {0} /\ n \in Nat /\ c \in Nat /\ owed \in Nat /\ early \in Nat
      /\ owed + c <= Depth /\ n <= owed /\ early <= n
  BY <1>0, <1>a
<1>f. ~hasty => (owed = Depth => n > 0)
  BY <1>0
<1>g. ~hasty => (polling /\ waiting = <<>> => owed + early < Depth + n)
  BY <1>0
<1>b. /\ key <=> frames + 1 \in forced
      /\ clean = forced \intersect (1..frames)
  BY <1>0 DEF MarkIsDue, MarkedAsAsked
<1>d. ASSUME UNCHANGED <<frames, forced>>, key' \in BOOLEAN, polling' \in BOOLEAN,
             waiting' \in Seq(Nat), events' \in Seq({"need", "have"}), owed' \in Nat,
             IsFiniteSet(inside)', early' \in Nat, hasty' \in BOOLEAN
      PROVE  EncoderTypes'
  <2>1. frames' \in Nat /\ forced' \subseteq 1..frames' + 1
    BY <1>a, <1>d
  <2>. QED  BY <1>d, <2>1 DEF EncoderTypes
\* It is enough to have the types, the numbers and the marks afterwards.
<1>c. ASSUME EncoderTypes',
             owed' + Cardinality(inside)' <= Depth, Cardinality(Needs(events))' <= owed',
             early' <= Cardinality(Needs(events))',
             hasty' \/
                (/\ owed' = Depth => Cardinality(Needs(events))' > 0
                 /\ polling' /\ waiting' = <<>> =>
                       owed' + early' < Depth + Cardinality(Needs(events))'),
             key' <=> frames' + 1 \in forced',
             clean' = forced' \intersect (1..frames')
      PROVE  EncoderInv'
  <2>1. /\ Count("need")' = Cardinality(Needs(events))'
        /\ Cardinality(inside)' = Cardinality(inside)'
    BY DEF Count, Needs
  <2>3. NeverOverfed' /\ RequestIsLeft'
    BY <1>c, <2>1 DEF NeverOverfed, RequestIsLeft
  <2>2. MarkIsDue'
    BY <1>c DEF MarkIsDue, MarkedAsAsked
  <2>. QED  BY <1>c, <2>2, <2>3 DEF EncoderInv
<1>1. CASE Ask
  <2>1. /\ owed + c < Depth /\ owed' = owed + 1 /\ events' = Append(events, "need")
        /\ UNCHANGED <<frames, key, clean, forced, waiting, polling, inside>>
        /\ UNCHANGED <<early, hasty>>
    BY <1>1 DEF Ask, callVars, requestVars
  <2>2. events' \in Seq({"need", "have"}) /\ Cardinality(Needs(events')) = n + 1
    BY <1>a, <2>1, EventComes
  <2>3. EncoderTypes'
    BY <1>a, <1>d, <2>1, <2>2
  <2>4. /\ owed' + Cardinality(inside)' <= Depth /\ Cardinality(Needs(events))' <= owed'
        /\ early' <= Cardinality(Needs(events))'
        /\ hasty' \/
              (/\ owed' = Depth => Cardinality(Needs(events))' > 0
               /\ polling' /\ waiting' = <<>> =>
                     owed' + early' < Depth + Cardinality(Needs(events))')
    <3>1. owed' = owed + 1 /\ Cardinality(inside)' = c /\ early' = early
      BY <2>1
    <3>0. owed + c < Depth
      BY <2>1
    <3>2. /\ owed' + Cardinality(inside)' <= Depth
          /\ n + 1 <= owed' /\ early' <= n + 1
      BY <1>e, <3>0, <3>1
    <3>3. n + 1 > 0
      BY <1>e
    <3>4. ~hasty => (polling' /\ waiting' = <<>> => owed' + early' < Depth + (n + 1))
      <4> SUFFICES ASSUME ~hasty, polling', waiting' = <<>>
                   PROVE  owed' + early' < Depth + (n + 1)
        OBVIOUS
      <4>1. polling /\ waiting = <<>>
        BY <2>1
      <4>2. owed + early < Depth + n
        BY <1>g, <4>1
      <4>. QED  BY <1>e, <3>1, <4>2
    <3>5. hasty' = hasty
      BY <2>1
    <3>. QED  BY <2>2, <3>2, <3>3, <3>4, <3>5
  <2>. QED  BY <1>b, <1>c, <2>1, <2>3, <2>4
<1>2. CASE Produce
  <2>1. PICK x \in inside : inside' = inside \ {x}
    BY <1>2 DEF Produce
  <2>2. /\ events' = Append(events, "have")
        /\ UNCHANGED <<frames, key, clean, forced, waiting, polling, owed>>
        /\ UNCHANGED <<early, hasty>>
    BY <1>2 DEF Produce, callVars, requestVars
  <2>3. events' \in Seq({"need", "have"}) /\ Cardinality(Needs(events')) = n
    BY <1>0, <1>a, <2>2, EventComes
  <2>4. /\ IsFiniteSet(inside') /\ Cardinality(inside') \in Nat
        /\ Cardinality(inside') <= c
    BY <1>a, <2>1, Fills
  <2>5. EncoderTypes'
    BY <1>a, <1>d, <2>2, <2>3, <2>4
  <2>6. /\ owed' + Cardinality(inside)' <= Depth /\ Cardinality(Needs(events))' <= owed'
        /\ early' <= Cardinality(Needs(events))'
        /\ hasty' \/
              (/\ owed' = Depth => Cardinality(Needs(events))' > 0
               /\ polling' /\ waiting' = <<>> =>
                     owed' + early' < Depth + Cardinality(Needs(events))')
    BY <1>0, <1>a, <2>2, <2>3, <2>4
  <2>. QED  BY <1>b, <1>c, <2>2, <2>5, <2>6
<1>3. CASE Encode
  <2>1. /\ frames' = frames + 1 /\ key' = FALSE
        /\ clean' = IF key THEN clean \union {frames + 1} ELSE clean
        /\ waiting' = Append(waiting, frames + 1) /\ polling' = TRUE
        /\ early' = n
        /\ UNCHANGED <<forced, events, owed, inside, hasty>>
    BY <1>3, RequestsCounted DEF Encode, Used, transformVars
  <2>2. waiting' \in Seq(Nat) /\ waiting' # <<>>
    BY <1>a, <2>1, AppendProperties, EmptySeq
  <2>3. forced' \subseteq 1..frames' + 1 /\ ~(frames' + 1 \in forced')
    BY <1>a, <2>1
  <2>4. clean' = forced' \intersect (1..frames')
    <3>1. 1..frames + 1 = (1..frames) \union {frames + 1} /\ frames + 1 \notin 1..frames
      BY <1>a
    <3>. QED  BY <1>b, <2>1, <3>1
  <2>5. EncoderTypes'
    <3>1. frames' \in Nat /\ forced' \subseteq 1..frames' + 1
      BY <1>a, <2>1, <2>3
    <3>. QED  BY <1>0, <1>a, <2>1, <2>2, <3>1 DEF EncoderTypes
  <2>6. /\ owed' + Cardinality(inside)' <= Depth /\ Cardinality(Needs(events))' <= owed'
        /\ early' <= Cardinality(Needs(events))'
        /\ hasty' \/
              (/\ owed' = Depth => Cardinality(Needs(events))' > 0
               /\ polling' /\ waiting' = <<>> =>
                     owed' + early' < Depth + Cardinality(Needs(events))')
    BY <1>0, <2>1, <2>2
  <2>. QED  BY <1>c, <2>1, <2>3, <2>4, <2>5, <2>6
<1>4. CASE ForceKeyframe
  <2>1. /\ key' = TRUE /\ forced' = forced \union {frames + 1}
        /\ UNCHANGED <<frames, clean, waiting, polling, events, owed, inside>>
        /\ UNCHANGED <<early, hasty>>
    BY <1>4 DEF ForceKeyframe, transformVars, requestVars
  <2>2. frames + 1 \in 1..frames + 1 /\ frames + 1 \notin 1..frames
    BY <1>a
  <2>3. EncoderTypes'
    BY <1>a, <2>1, <2>2 DEF EncoderTypes
  <2>4. /\ owed' + Cardinality(inside)' <= Depth /\ Cardinality(Needs(events))' <= owed'
        /\ early' <= Cardinality(Needs(events))'
        /\ hasty' \/
              (/\ owed' = Depth => Cardinality(Needs(events))' > 0
               /\ polling' /\ waiting' = <<>> =>
                     owed' + early' < Depth + Cardinality(Needs(events))')
    BY <1>0, <2>1
  <2>. QED  BY <1>b, <1>c, <2>1, <2>2, <2>3, <2>4
<1>5. CASE NeedInput
  <2>1. PICK fed : fed = IF waiting = <<>> THEN <<>> ELSE SubSeq(waiting, 1, 1)
    OBVIOUS
  <2>2. /\ polling /\ events # <<>> /\ Head(events) = "need" /\ events' = Tail(events)
        /\ waiting' = SubSeq(waiting, Len(fed) + 1, Len(waiting))
        /\ inside' = inside \union Range(fed)
        /\ owed' = IF Len(fed) > owed THEN 0 ELSE owed - Len(fed)
        /\ early' = IF early > 0 THEN early - 1 ELSE 0
        /\ hasty' = (hasty \/ (early = 0 /\ waiting = <<>>))
        /\ UNCHANGED <<frames, key, clean, forced, polling>>
    BY <1>5, <2>1 DEF NeedInput, Fed, callVars
  <2>3. /\ waiting # <<>> => Len(fed) = 1 /\ Range(fed) = {waiting[1]}
        /\ waiting = <<>> => /\ Len(fed) = 0 /\ Range(fed) = {}
                             /\ waiting' = <<>>
        /\ waiting' \in Seq(Nat)
    BY <1>a, <2>1, <2>2, OneIsFed
  <2>4. /\ events' \in Seq({"need", "have"})
        /\ Cardinality(Needs(events')) \in Nat /\ n = Cardinality(Needs(events')) + 1
    BY <1>a, <2>2, EventIsRead
  <2>7. early' \in Nat
    BY <1>a, <2>2
  <2>8. hasty' \in BOOLEAN /\ (hasty' <=> hasty \/ (early = 0 /\ waiting = <<>>))
    BY <2>2
  <2>5. CASE waiting = <<>>
    <3>1. inside' = inside /\ owed' = owed /\ waiting' = <<>>
      BY <1>a, <2>2, <2>3, <2>5
    <3>4. Cardinality(inside') = c
      BY <3>1
    <3>5. PICK m \in Nat : m = Cardinality(Needs(events'))
      BY <2>4
    <3>2. EncoderTypes'
      BY <1>a, <1>d, <2>2, <2>3, <2>4, <2>7, <2>8, <3>1
    <3>3. /\ owed' + Cardinality(inside)' <= Depth /\ Cardinality(Needs(events))' <= owed'
          /\ early' <= Cardinality(Needs(events))'
          /\ hasty' \/
                (/\ owed' = Depth => Cardinality(Needs(events))' > 0
                 /\ polling' /\ waiting' = <<>> =>
                       owed' + early' < Depth + Cardinality(Needs(events))')
      <4>0. n = m + 1 /\ early' = IF early > 0 THEN early - 1 ELSE 0
        BY <2>2, <2>4, <3>5
      <4>1. /\ owed' + Cardinality(inside)' <= Depth /\ m <= owed' /\ early' <= m
        BY <1>e, <3>1, <3>4, <3>5, <4>0
      <4>2. ~hasty' => /\ owed' = Depth => m > 0
                       /\ owed' + early' < Depth + m
        <5> SUFFICES ASSUME ~hasty'
                     PROVE  /\ owed' = Depth => m > 0
                            /\ owed' + early' < Depth + m
          OBVIOUS
        <5>1. ~hasty /\ early # 0
          BY <2>5, <2>8
        <5>2. polling /\ waiting = <<>>
          BY <2>2, <2>5
        <5>3. owed + early < Depth + n
          BY <1>g, <5>1, <5>2
        <5>4. early > 0 /\ early' = early - 1
          BY <1>e, <4>0, <5>1
        <5>5. owed' = owed /\ n = m + 1
          BY <3>1, <4>0
        <5>6. PICK k \in Nat : k = n /\ owed + early < Depth + k /\ k = m + 1
          BY <1>e, <5>3, <5>5
        <5>7. owed' + early' < Depth + m
          BY <1>e, <5>4, <5>5, <5>6
        <5>8. owed' = Depth => m > 0
          BY <1>e, <3>5, <5>4, <5>5, <5>6, <5>7
        <5>. QED  BY <5>7, <5>8
      <4>. QED  BY <3>5, <4>1, <4>2
    <3>. QED  BY <1>b, <1>c, <2>2, <3>2, <3>3
  <2>6. CASE waiting # <<>>
    <3>0. PICK m \in Nat : m = Cardinality(Needs(events'))
      BY <2>4
    <3>6. owed \in Nat /\ owed > 0
      <4>1. n = m + 1 /\ n <= owed
        BY <1>0, <2>4, <3>0
      <4>. QED  BY <1>a, <3>0, <4>1
    <3>7. Len(fed) = 1 /\ Range(fed) = {waiting[1]}
      BY <2>3, <2>6
    <3>1. inside' = inside \union {waiting[1]} /\ owed' = owed - 1
      BY <2>2, <3>6, <3>7
    <3>2. /\ IsFiniteSet(inside') /\ Cardinality(inside') \in Nat
          /\ Cardinality(inside') <= c + 1
      BY <1>a, <3>1, Fills
    <3>3. EncoderTypes'
      BY <1>a, <1>d, <2>2, <2>3, <2>4, <2>7, <2>8, <3>1, <3>2
    <3>4. /\ owed' + Cardinality(inside)' <= Depth /\ Cardinality(Needs(events))' <= owed'
          /\ early' <= Cardinality(Needs(events))'
          /\ hasty' \/
                (/\ owed' = Depth => Cardinality(Needs(events))' > 0
                 /\ polling' /\ waiting' = <<>> =>
                       owed' + early' < Depth + Cardinality(Needs(events))')
      <4>1. PICK k \in Nat : k = Cardinality(inside')
        BY <3>2
      <4>2. k <= c + 1 /\ n = m + 1
        BY <2>4, <3>0, <3>2, <4>1
      <4>3. /\ owed' + k <= Depth /\ m <= owed' /\ early' \in Nat /\ early' <= m
            /\ owed' \in Nat /\ owed' < Depth
        <5>1. early' = IF early > 0 THEN early - 1 ELSE 0
          BY <2>2
        <5>. QED  BY <1>e, <3>0, <3>1, <3>6, <4>1, <4>2, <5>1
      <4>4. owed' # Depth /\ owed' + early' < Depth + m
        BY <1>e, <3>0, <4>3
      <4>. QED  BY <3>0, <4>1, <4>3, <4>4
    <3>. QED  BY <1>b, <1>c, <2>2, <3>3, <3>4
  <2>. QED  BY <2>5, <2>6
<1>6. CASE HaveOutput
  <2>1. /\ polling /\ events # <<>> /\ Head(events) = "have" /\ events' = Tail(events)
        /\ UNCHANGED <<frames, key, clean, forced, waiting, polling, owed, inside>>
        /\ UNCHANGED <<early, hasty>>
    BY <1>6 DEF HaveOutput, callVars, requestVars
  <2>2. events' \in Seq({"need", "have"}) /\ n = Cardinality(Needs(events'))
    BY <1>0, <1>a, <2>1, EventIsRead
  <2>3. EncoderTypes'
    BY <1>a, <1>d, <2>1, <2>2
  <2>4. /\ owed' + Cardinality(inside)' <= Depth /\ Cardinality(Needs(events))' <= owed'
        /\ early' <= Cardinality(Needs(events))'
        /\ hasty' \/
              (/\ owed' = Depth => Cardinality(Needs(events))' > 0
               /\ polling' /\ waiting' = <<>> =>
                     owed' + early' < Depth + Cardinality(Needs(events))')
    BY <1>0, <2>1, <2>2
  <2>. QED  BY <1>b, <1>c, <2>1, <2>3, <2>4
<1>7. CASE NoEvents \/ UNCHANGED vars
  <2>1. /\ polling' \in BOOLEAN
        /\ polling' => polling
        /\ UNCHANGED <<frames, key, clean, forced, waiting, events, owed, inside>>
        /\ UNCHANGED <<early, hasty>>
    <3>1. /\ polling' = FALSE \/ polling' = polling
          /\ UNCHANGED <<frames, key, clean, forced, waiting, events, owed, inside>>
          /\ UNCHANGED <<early, hasty>>
      BY <1>7
      DEF NoEvents, vars, callVars, transformVars, requestVars
    <3>2. polling \in BOOLEAN
      BY <1>a
    <3>3. polling' \in BOOLEAN /\ (polling' => polling)
      <4>1. CASE polling' = FALSE
        BY <4>1
      <4>2. CASE polling' = polling
        BY <3>2, <4>2
      <4>. QED  BY <3>1, <4>1, <4>2
    <3>. QED  BY <3>1, <3>3
  <2>2. EncoderTypes'
    <3>1. /\ key' \in BOOLEAN /\ owed' \in Nat /\ IsFiniteSet(inside')
          /\ early' \in Nat /\ hasty' \in BOOLEAN
      BY <1>a, <2>1
    <3>2. waiting' \in Seq(Nat) /\ events' \in Seq({"need", "have"})
      BY <1>a, <2>1
    <3>3. UNCHANGED <<frames, forced>>
      BY <2>1
    <3>4. polling' \in BOOLEAN
      BY <2>1
    <3>. QED  BY <1>d, <3>1, <3>2, <3>3, <3>4, Zenon
  <2>3. /\ owed' + Cardinality(inside)' <= Depth /\ Cardinality(Needs(events))' <= owed'
        /\ early' <= Cardinality(Needs(events))'
        /\ hasty' \/
              (/\ owed' = Depth => Cardinality(Needs(events))' > 0
               /\ polling' /\ waiting' = <<>> =>
                     owed' + early' < Depth + Cardinality(Needs(events))')
    BY <1>0, <2>1
  <2>. QED  BY <1>b, <1>c, <2>1, <2>2, <2>3
<1>. QED  BY <1>1, <1>2, <1>3, <1>4, <1>5, <1>6, <1>7 DEF Next

\* What is promised follows.
LEMMA TransformHolds ==
    EncoderInv => NeverOverfed /\ MarkedAsAsked /\ NeverStarved
<1> SUFFICES ASSUME EncoderInv
             PROVE  NeverStarved
  BY DEF EncoderInv, MarkIsDue
<1>. QED  BY DEF EncoderInv, RequestIsLeft, NeverStarved

\* What the transform, its thread and the requests of the phone do in a session
\* are steps of the transform and its thread.
LEMMA WireEncodes == [WireNext]_allVars => [Next]_vars
<1> SUFFICES ASSUME [WireNext]_allVars PROVE [Next]_vars
  OBVIOUS
<1>1. CASE EncoderStep \/ TakeAsked \/ PictureOut
  BY <1>1 DEF EncoderStep, TakeAsked, PictureOut, Next
<1>2. CASE \/ SoundOut \/ RequestKeyframe \/ AnnounceFile \/ PushChunk \/ Upload
           \/ FieldChanges \/ PcTalks \/ PhoneTalks
  BY <1>2 DEF SoundOut, RequestKeyframe, AnnounceFile, PushChunk, Upload,
              FieldChanges, PcTalks, PhoneTalks, encoderIdle
<1>3. CASE \/ LanWriter \/ Pump \/ RelayRoutes \/ RelayWriter \/ PhoneHears
           \/ RelayReader \/ PcTakesMessage
  BY <1>3 DEF LanWriter, Pump, RelayRoutes, RelayWriter, PhoneHears,
              RelayReader, PcTakesMessage, encoderIdle
<1>4. CASE UNCHANGED allVars
  BY <1>4 DEF allVars
<1>. QED  BY <1>1, <1>2, <1>3, <1>4 DEF WireNext

\* So the encoder of a session does.
LEMMA SessionEncodes == WireSpec => []EncoderInv
<1>1. WireInit => EncoderInv
  BY TransformInit DEF WireInit
<1>2. EncoderInv /\ [WireNext]_allVars => EncoderInv'
  BY WireEncodes, TransformStep
<1>. QED  BY <1>1, <1>2, PTL DEF WireSpec

\* However captures, requests and packets interleave, the transform gets a
\* frame only for a request (ProcessInput, nvenc_mft.rs), and the frames marked
\* as clean points are the first one and those after a force_keyframe.
THEOREM TransformNotOverfed == WireSpec => [](NeverOverfed /\ MarkedAsAsked)
<1>. QED  BY SessionEncodes, TransformHolds, PTL

\* A frame that stays in pending_inputs between two calls has a request coming,
\* or the transform still works: drain_events forgets the requests that find no
\* frame (nvenc_mft.rs:221), but the first that it reads takes the frame of the
\* call.  Whatever the transform asks and whenever, it starves only once a
\* request that it made while encode polled was forgotten in that very call.
THEOREM TransformNotStarved == WireSpec => []NeverStarved
<1>1. EncoderInv => NeverStarved
  BY TransformHolds
<1>. QED  BY <1>1, SessionEncodes, PTL

-----------------------------------------------------------------------------
(***************************************************************************)
(* Framing: what one end builds, the other reads, for every base, length   *)
(* of an id, payload and number that has its bytes.                        *)
(***************************************************************************)

\* Where the parts of a whole are found again.
LEMMA Whole ==
    ASSUME NEW S, NEW h \in Seq(S), NEW p \in Seq(S)
    PROVE  /\ h \o p \in Seq(S) /\ Len(h \o p) = Len(h) + Len(p)
           /\ \A i \in 1..Len(h) : (h \o p)[i] = h[i]
           /\ \A i \in 1..Len(p) : (h \o p)[Len(h) + i] = p[i]
           /\ SubSeq(h \o p, Len(h) + 1, Len(h \o p)) = p
<1>1. /\ h \o p \in Seq(S) /\ Len(h \o p) = Len(h) + Len(p)
      /\ \A i \in 1..Len(h) + Len(p) :
            (h \o p)[i] = IF i <= Len(h) THEN h[i] ELSE p[i - Len(h)]
  BY ConcatProperties
<1>2. PICK w : w = h \o p
  OBVIOUS
<1>3. PICK m, n \in Nat : m = Len(h) /\ n = Len(p)
  BY LenProperties
<1>4. \A i \in 1..m : w[i] = h[i]
  BY <1>1, <1>2, <1>3
<1>5. \A i \in 1..n : w[m + i] = p[i]
  <2> SUFFICES ASSUME NEW i \in 1..n PROVE w[m + i] = p[i]
    OBVIOUS
  <2>1. m + i \in 1..m + n /\ ~(m + i <= m) /\ m + i - m = i
    BY <1>3
  <2>. QED  BY <1>1, <1>2, <1>3, <2>1
<1>6. SubSeq(w, m + 1, m + n) = p
  <2>1. PICK lo, hi \in Int : lo = m + 1 /\ hi = m + n
    BY <1>3
  <2>2. \A i \in lo..hi : w[i] \in S
    <3>1. \A i \in lo..hi : i \in 1..Len(w)
      BY <1>1, <1>2, <1>3, <2>1
    <3>. QED  BY <1>1, <1>2, <3>1, ElementOfSeq
  <2>3. PICK q : q = SubSeq(w, lo, hi)
    OBVIOUS
  <2>4. /\ q \in Seq(S) /\ Len(q) = IF lo <= hi THEN hi - lo + 1 ELSE 0
        /\ \A i \in 1..hi - lo + 1 : q[i] = w[lo + i - 1]
    BY <2>2, <2>3, SubSeqProperties
  <2>5. hi - lo + 1 = n /\ (lo <= hi <=> n > 0)
    BY <1>3, <2>1
  <2>6. Len(q) = n
    BY <1>3, <2>4, <2>5
  <2>7. \A i \in 1..n : q[i] = w[m + i]
    <3>1. \A i \in 1..n : lo + i - 1 = m + i
      BY <1>3, <2>1
    <3>. QED  BY <2>4, <2>5, <3>1
  <2>8. Len(q) = Len(p) /\ \A i \in 1..Len(q) : q[i] = p[i]
    BY <1>3, <1>5, <2>6, <2>7
  <2>. QED  BY <2>1, <2>3, <2>4, <2>8, SeqEqual
<1>. QED  BY <1>1, <1>2, <1>3, <1>4, <1>5, <1>6

\* A packet's four parts.
LEMMA PacketParts ==
    ASSUME NEW S, NEW type \in S, NEW id \in Seq(S), NEW flag \in S, NEW payload \in Seq(S)
    PROVE  LET packet == <<type>> \o id \o <<flag>> \o payload
               n == Len(id)
           IN  /\ Len(packet) = n + 2 + Len(payload)
               /\ packet[1] = type
               /\ SubSeq(packet, 2, n + 1) = id
               /\ packet[n + 2] = flag
               /\ SubSeq(packet, n + 3, Len(packet)) = payload
<1> DEFINE n == Len(id)
           h == <<type>> \o id
           k == h \o <<flag>>
           w == k \o payload
<1>1. /\ <<type>> \in Seq(S) /\ Len(<<type>>) = 1 /\ <<type>>[1] = type
      /\ <<flag>> \in Seq(S) /\ Len(<<flag>>) = 1 /\ <<flag>>[1] = flag
      /\ n \in Nat /\ Len(payload) \in Nat
  BY LenProperties
<1>2. /\ h \in Seq(S) /\ Len(h) = 1 + n /\ h[1] = type
      /\ \A i \in 1..n : h[1 + i] = id[i]
  <2>1. /\ h \in Seq(S) /\ Len(h) = Len(<<type>>) + n
        /\ \A i \in 1..Len(<<type>>) : h[i] = <<type>>[i]
        /\ \A i \in 1..n : h[Len(<<type>>) + i] = id[i]
    BY <1>1, Whole
  <2>. QED  BY <1>1, <2>1
<1>3. /\ k \in Seq(S) /\ Len(k) = n + 2 /\ k[n + 2] = flag
      /\ \A i \in 1..n + 1 : k[i] = h[i]
  <2> HIDE DEF h
  <2>1. /\ k \in Seq(S) /\ Len(k) = Len(h) + Len(<<flag>>)
        /\ \A i \in 1..Len(h) : k[i] = h[i]
        /\ \A i \in 1..Len(<<flag>>) : k[Len(h) + i] = <<flag>>[i]
    BY <1>1, <1>2, Whole
  <2>2. Len(h) = n + 1 /\ Len(h) + 1 = n + 2 /\ Len(h) + Len(<<flag>>) = n + 2
    BY <1>1, <1>2
  <2>. QED  BY <1>1, <2>1, <2>2
<1>4. /\ w \in Seq(S) /\ Len(w) = n + 2 + Len(payload)
      /\ \A i \in 1..n + 2 : w[i] = k[i]
      /\ SubSeq(w, n + 3, Len(w)) = payload
  <2> HIDE DEF k
  <2>1. /\ w \in Seq(S) /\ Len(w) = Len(k) + Len(payload)
        /\ \A i \in 1..Len(k) : w[i] = k[i]
        /\ SubSeq(w, Len(k) + 1, Len(w)) = payload
    BY <1>3, Whole
  <2>2. Len(k) = n + 2 /\ Len(k) + 1 = n + 3
    BY <1>1, <1>3
  <2>. QED  BY <2>1, <2>2
<1> HIDE DEF h, k, w, n
<1>5. w[1] = type /\ w[n + 2] = flag
  <2>1. 1 \in 1..n + 2 /\ 1 \in 1..n + 1 /\ n + 2 \in 1..n + 2
    BY <1>1
  <2>. QED  BY <1>2, <1>3, <1>4, <2>1
<1>6. SubSeq(w, 2, n + 1) = id
  <2>1. \A i \in 1..n : w[1 + i] = id[i] /\ 1 + i \in 1..Len(w)
    <3>1. \A i \in 1..n : 1 + i \in 1..n + 1 /\ 1 + i \in 1..n + 2
      BY <1>1
    <3>2. \A i \in 1..n : w[1 + i] = id[i]
      BY <1>2, <1>3, <1>4, <3>1
    <3>3. \A i \in 1..n : 1 + i \in 1..Len(w)
      BY <1>1, <1>4, <3>1
    <3>. QED  BY <3>2, <3>3
  <2>2. \A i \in 2..n + 1 : w[i] \in S
    <3> SUFFICES ASSUME NEW i \in 2..n + 1 PROVE w[i] \in S
      OBVIOUS
    <3>1. i \in 1..Len(w)
      BY <1>1, <1>4
    <3>. QED  BY <1>4, <3>1, ElementOfSeq
  <2>0. PICK m \in Int : m = n + 1
    BY <1>1
  <2>3. PICK q : q = SubSeq(w, 2, m)
    OBVIOUS
  <2>4. /\ q \in Seq(S) /\ Len(q) = IF 2 <= m THEN m - 2 + 1 ELSE 0
        /\ \A i \in 1..m - 2 + 1 : q[i] = w[2 + i - 1]
    BY <2>0, <2>2, <2>3, SubSeqProperties
  <2>5. Len(q) = n /\ \A i \in 1..n : q[i] = w[1 + i]
    <3>1. m - 2 + 1 = n /\ \A i \in 1..n : 2 + i - 1 = 1 + i
      BY <1>1, <2>0
    <3>. QED  BY <1>1, <2>0, <2>4, <3>1
  <2>6. Len(q) = Len(id) /\ \A i \in 1..Len(q) : q[i] = id[i]
    BY <2>1, <2>5 DEF n
  <2>. QED  BY <2>0, <2>3, <2>4, <2>6, SeqEqual
<1>. QED  BY <1>4, <1>5, <1>6 DEF n, w, k, h

\* A number and its last digit.
LEMMA Divided ==
    ASSUME NEW b \in Nat \ {0}, NEW n \in Nat
    PROVE  n % b \in 0..b - 1 /\ n \div b \in Nat /\ (n % b) + b * (n \div b) = n
  OBVIOUS

\* Which of two numbers has the smaller digits before its last.
LEMMA Smaller ==
    ASSUME NEW b \in Nat \ {0}, NEW q \in Nat, NEW r \in Nat, NEW m \in Nat, r + b * q < b * m
    PROVE  q < m
<1> SUFFICES ASSUME q >= m PROVE FALSE
  OBVIOUS
<1>1. PICK d \in Nat : q = m + d
  <2>1. q - m \in Nat /\ q = m + (q - m)
    OBVIOUS
  <2>. QED  BY <2>1
<1>2. b * q = b * m + b * d
  BY <1>1
<1>3. b * d \in Nat /\ b * m \in Nat
  OBVIOUS
<1>. QED  BY <1>2, <1>3

\* The four bytes of a number say which it is.
LEMMA FourBytes ==
    ASSUME NEW n \in Word
    PROVE  /\ Le4(n) \in Seq(Byte) /\ Len(Le4(n)) = 4
           /\ Le4(n)[1] + Base * (Le4(n)[2] + Base * (Le4(n)[3] + Base * Le4(n)[4])) = n
<1>0. Base \in Nat \ {0} /\ Base > 1
  BY FramingAssumption
<1>1. PICK b2, b3, b4 \in Nat : b2 = Base * Base /\ b3 = Base * b2 /\ b4 = Base * b3
  <2>1. \A x \in Nat : Base * x \in Nat
    BY <1>0
  <2>. QED  BY <1>0, <2>1
<1>2. n \in Nat /\ n < b4
  <2>1. Base * Base * Base * Base = b4
    BY <1>0, <1>1
  <2>. QED  BY <1>1, <2>1 DEF Word
<1>3. PICK q1 \in Nat, d1 \in 0..Base - 1 : q1 = n \div Base /\ d1 = n % Base /\ d1 + Base * q1 = n
  BY <1>0, <1>2, Divided
<1>4. PICK q2 \in Nat, d2 \in 0..Base - 1 : q2 = q1 \div Base /\ d2 = q1 % Base /\ d2 + Base * q2 = q1
  BY <1>0, <1>3, Divided
<1>5. PICK q3 \in Nat, d3 \in 0..Base - 1 : q3 = q2 \div Base /\ d3 = q2 % Base /\ d3 + Base * q3 = q2
  BY <1>0, <1>4, Divided
<1>6. PICK q4 \in Nat, d4 \in 0..Base - 1 : q4 = q3 \div Base /\ d4 = q3 % Base /\ d4 + Base * q4 = q3
  BY <1>0, <1>5, Divided
<1>7. q4 = 0
  <2>1. q1 < b3
    BY <1>0, <1>1, <1>2, <1>3, Smaller
  <2>2. q2 < b2
    BY <1>0, <1>1, <1>4, <2>1, Smaller
  <2>3. q3 < Base
    BY <1>0, <1>1, <1>5, <2>2, Smaller
  <2>4. d4 + Base * q4 < Base * 1
    BY <1>0, <1>6, <2>3
  <2>5. q4 < 1
    BY <1>0, <1>6, <2>4, Smaller
  <2>. QED  BY <1>6, <2>5
<1>8. d4 = q3
  BY <1>0, <1>6, <1>7
<1>9. Le4(n) = <<d1, d2, d3, d4>>
  BY <1>3, <1>4, <1>5, <1>6 DEF Le4
<1>10. d1 + Base * (d2 + Base * (d3 + Base * d4)) = n
  BY <1>3, <1>4, <1>5, <1>8
<1>11. <<d1, d2, d3, d4>> \in Seq(Byte)
  BY DEF Byte
<1>. QED  BY <1>9, <1>10, <1>11

\* And the eight bytes of one: two words, the lower one first.
LEMMA TwoWords ==
    ASSUME NEW n \in 0..(WordSize * WordSize - 1)
    PROVE  /\ n % WordSize \in Word /\ n \div WordSize \in Word
           /\ (n % WordSize) + WordSize * (n \div WordSize) = n
<1>1. WordSize \in Nat \ {0} /\ Word = 0..WordSize - 1
  <2>1. PICK b2, b3 \in Nat : b2 = Base * Base /\ b3 = b2 * Base /\ b2 > 0 /\ b3 > 0
    <3>1. Base \in Nat /\ Base > 0
      BY FramingAssumption
    <3>2. \A x, y \in Nat : x > 0 /\ y > 0 => x * y \in Nat /\ x * y > 0
      OBVIOUS
    <3>3. Base * Base \in Nat /\ Base * Base > 0
      BY <3>1, <3>2
    <3>4. Base * Base * Base \in Nat /\ Base * Base * Base > 0
      BY <3>1, <3>2, <3>3
    <3>. QED  BY <3>3, <3>4
  <2>2. \A x, y \in Nat : x > 0 /\ y > 0 => x * y \in Nat /\ x * y > 0
    OBVIOUS
  <2>3. b3 * Base \in Nat /\ b3 * Base > 0
    BY <2>1, <2>2, FramingAssumption
  <2>. QED  BY <2>1, <2>3 DEF WordSize, Word
<1>2. PICK w \in Nat \ {0} : w = WordSize
  BY <1>1
<1>3. n \in Nat /\ n < w * w
  <2>1. w * w \in Nat
    BY <1>2
  <2>. QED  BY <1>2, <2>1
<1>4. n % w \in 0..w - 1 /\ n \div w \in Nat /\ (n % w) + w * (n \div w) = n
  BY <1>2, <1>3, Divided
<1>5. n \div w < w
  BY <1>2, <1>3, <1>4, Smaller
<1>. QED  BY <1>1, <1>2, <1>4, <1>5

\* A frame: a header, two numbers, a payload.
LEMMA FrameParts ==
    ASSUME NEW S, NEW h \in Seq(S), NEW x \in Seq(S), NEW y \in Seq(S), NEW payload \in Seq(S)
    PROVE  LET f == h \o x \o y \o payload
               n == Len(h) + Len(x)
           IN  /\ f \in Seq(S) /\ Len(f) = n + Len(y) + Len(payload)
               /\ \A i \in 1..Len(h) : f[i] = h[i]
               /\ \A i \in 1..Len(y) : f[n + i] = y[i]
               /\ SubSeq(f, n + Len(y) + 1, Len(f)) = payload
<1>0. PICK k : k = h \o x
  OBVIOUS
<1>1. k \in Seq(S) /\ Len(k) = Len(h) + Len(x)
  BY <1>0, Whole
<1>2. \A i \in 1..Len(h) : k[i] = h[i]
  BY <1>0, Whole
<1>4. PICK l : l = k \o y
  OBVIOUS
<1>5. l \in Seq(S) /\ Len(l) = Len(k) + Len(y)
  BY <1>1, <1>4, Whole
<1>6. \A i \in 1..Len(k) : l[i] = k[i]
  BY <1>1, <1>4, Whole
<1>7. \A i \in 1..Len(y) : l[Len(k) + i] = y[i]
  BY <1>1, <1>4, Whole
<1>8. PICK f : f = l \o payload
  OBVIOUS
<1>9. f \in Seq(S) /\ Len(f) = Len(l) + Len(payload)
  BY <1>5, <1>8, Whole
<1>10. \A i \in 1..Len(l) : f[i] = l[i]
  BY <1>5, <1>8, Whole
<1>11. SubSeq(f, Len(l) + 1, Len(f)) = payload
  BY <1>5, <1>8, Whole
<1>13. Len(h) \in Nat /\ Len(x) \in Nat /\ Len(y) \in Nat
  BY LenProperties
<1>14. \A i \in 1..Len(h) : f[i] = h[i]
  BY <1>1, <1>2, <1>5, <1>6, <1>10, <1>13
<1>16. \A i \in 1..Len(y) : f[Len(k) + i] = y[i]
  <2> SUFFICES ASSUME NEW i \in 1..Len(y) PROVE f[Len(k) + i] = y[i]
    OBVIOUS
  <2>1. Len(k) + i \in 1..Len(l)
    BY <1>1, <1>5, <1>13
  <2>. QED  BY <1>7, <1>10, <2>1
<1>. QED
  BY <1>0, <1>1, <1>4, <1>5, <1>8, <1>9, <1>11, <1>14, <1>16, Zenon

\* Where the two words of a frame are.
LEMMA FrameMiddle ==
    ASSUME NEW S, NEW h \in Seq(S), NEW x \in Seq(S), NEW y \in Seq(S), NEW payload \in Seq(S),
           NEW i \in 1..Len(x)
    PROVE  (h \o x \o y \o payload)[Len(h) + i] = x[i]
<1>0. PICK k : k = h \o x
  OBVIOUS
<1>1. k \in Seq(S) /\ Len(k) = Len(h) + Len(x)
  BY <1>0, Whole
<1>2. k[Len(h) + i] = x[i]
  BY <1>0, Whole
<1>3. Len(h) \in Nat /\ Len(x) \in Nat /\ Len(y) \in Nat
  BY LenProperties
<1>4. PICK m \in 1..Len(k) : m = Len(h) + i
  BY <1>1, <1>3
<1>5. k \o y \in Seq(S) /\ Len(k \o y) = Len(k) + Len(y)
  BY <1>1, Whole
<1>8. (k \o y)[m] = k[m]
  BY <1>1, Whole
<1>6. m \in 1..Len(k \o y)
  BY <1>1, <1>3, <1>5
<1>7. ((k \o y) \o payload)[m] = (k \o y)[m]
  BY <1>5, <1>6, Whole
<1>. QED  BY <1>0, <1>2, <1>4, <1>7, <1>8

\* A frame of two numbers, and what those that read it need to find.
FrameOf(type, flags, m, n, payload) ==
    <<type, flags, 0, 0>> \o Le4(m) \o Le4(n) \o payload

ReadsAs(f, type, flags, m, n, payload) ==
    /\ f = <<type, flags, 0, 0>> \o (Le4(m) \o Le4(n)) \o payload
    /\ Len(f) >= HeaderLen /\ f[1] = type /\ f[2] = flags
    /\ FromLe4(f, 5) = m /\ FromLe4(f, 9) = n
    /\ Payload(f) = payload

\* What is read of a frame is what it was built of.
LEMMA FrameReads ==
    ASSUME NEW S, Nat \subseteq S, NEW type \in Nat, NEW flags \in Nat,
           NEW m \in Word, NEW n \in Word, NEW payload \in Seq(S)
    PROVE  /\ FrameOf(type, flags, m, n, payload) \in Seq(S)
           /\ ReadsAs(FrameOf(type, flags, m, n, payload), type, flags, m, n, payload)
<1>1. PICK x, y \in Seq(Byte) : x = Le4(m) /\ y = Le4(n)
  BY FourBytes
<1>2. /\ Len(x) = 4 /\ x[1] + Base * (x[2] + Base * (x[3] + Base * x[4])) = m
      /\ Len(y) = 4 /\ y[1] + Base * (y[2] + Base * (y[3] + Base * y[4])) = n
  BY <1>1, FourBytes
<1>3. x \in Seq(S) /\ y \in Seq(S) /\ Len(payload) \in Nat
  <2>1. Byte \subseteq S
    BY FramingAssumption DEF Byte
  <2>. QED  BY <2>1, SeqMonotonic, LenProperties
<1>a. PICK h : h = <<type, flags, 0, 0>>
  OBVIOUS
<1>b. h \in Seq(S) /\ Len(h) = 4 /\ h[1] = type /\ h[2] = flags
  <2>1. type \in S /\ flags \in S /\ 0 \in S
    OBVIOUS
  <2>. QED  BY <1>a, <2>1
<1>4. PICK f : f = h \o x \o y \o payload
  OBVIOUS
<1>5. /\ f \in Seq(S) /\ f = h \o (x \o y) \o payload
      /\ Len(f) = 12 + Len(payload)
      /\ \A i \in 1..4 : f[i] = h[i] /\ f[4 + i] = x[i] /\ f[8 + i] = y[i]
      /\ SubSeq(f, 13, Len(f)) = payload
  <2>a. h \in Seq(S) /\ x \in Seq(S) /\ y \in Seq(S)
    BY <1>3, <1>b
  <2>1. f \in Seq(S)
    BY <1>4, <2>a, FrameParts
  <2>b. f = h \o (x \o y) \o payload
    <3>1. (h \o x) \o y = h \o (x \o y)
      BY <2>a, ConcatAssociative
    <3>. QED  BY <1>4, <3>1
  <2>c. Len(f) = Len(h) + Len(x) + Len(y) + Len(payload)
    BY <1>4, <2>a, FrameParts
  <2>d. \A i \in 1..Len(h) : f[i] = h[i]
    BY <1>4, <2>a, FrameParts
  <2>e. \A i \in 1..Len(x) : f[Len(h) + i] = x[i]
    <3>1. \A i \in 1..Len(x) : (h \o x \o y \o payload)[Len(h) + i] = x[i]
      BY <2>a, FrameMiddle
    <3>. QED  BY <1>4, <3>1
  <2>f. \A i \in 1..Len(y) : f[Len(h) + Len(x) + i] = y[i]
    BY <1>4, <2>a, FrameParts
  <2>g. SubSeq(f, Len(h) + Len(x) + Len(y) + 1, Len(f)) = payload
    BY <1>4, <2>a, FrameParts
  <2>3. Len(h) + Len(x) = 8 /\ Len(h) + Len(x) + Len(y) = 12 /\ 12 + 1 = 13
    BY <1>2, <1>b
  <2>. QED  BY <1>2, <1>b, <2>1, <2>b, <2>c, <2>d, <2>e, <2>f, <2>g, <2>3, Zenon
<1>6. /\ f[1] = type /\ f[2] = flags
      /\ f[5] = x[1] /\ f[6] = x[2] /\ f[7] = x[3] /\ f[8] = x[4]
      /\ f[9] = y[1] /\ f[10] = y[2] /\ f[11] = y[3] /\ f[12] = y[4]
  <2>1. \A i \in 1..4 : f[i] = h[i] /\ f[4 + i] = x[i] /\ f[8 + i] = y[i]
    BY <1>5
  <2>2. /\ f[1] = h[1] /\ f[2] = h[2]
        /\ f[4 + 1] = x[1] /\ f[4 + 2] = x[2] /\ f[4 + 3] = x[3] /\ f[4 + 4] = x[4]
        /\ f[8 + 1] = y[1] /\ f[8 + 2] = y[2] /\ f[8 + 3] = y[3] /\ f[8 + 4] = y[4]
    BY <2>1
  <2>. QED  BY <1>b, <2>2
<1>7. FromLe4(f, 5) = m /\ FromLe4(f, 9) = n
  <2>1. /\ 5 + 1 = 6 /\ 5 + 2 = 7 /\ 5 + 3 = 8
        /\ 9 + 1 = 10 /\ 9 + 2 = 11 /\ 9 + 3 = 12
    OBVIOUS
  <2>. QED  BY <1>2, <1>6, <2>1, Zenon DEF FromLe4
<1>8. Len(f) >= HeaderLen /\ Payload(f) = payload
  <2>1. Payload(f) = SubSeq(f, 13, Len(f))
    <3>1. 12 + 1 = 13
      OBVIOUS
    <3>. QED  BY <3>1, Zenon DEF Payload, HeaderLen
  <2>2. Len(f) >= 12
    BY <1>3, <1>5
  <2>. QED  BY <1>5, <2>1, <2>2 DEF HeaderLen
<1>9. f = FrameOf(type, flags, m, n, payload)
  BY <1>1, <1>a, <1>4 DEF FrameOf
<1>10. f = <<type, flags, 0, 0>> \o (Le4(m) \o Le4(n)) \o payload
  BY <1>1, <1>a, <1>5
<1>. QED  BY <1>5, <1>6, <1>7, <1>8, <1>9, <1>10 DEF ReadsAs

\* A flag is one bit of the second byte.
LEMMA Flags ==
    ASSUME NEW one \in BOOLEAN, NEW two \in BOOLEAN, NEW f,
           f[2] = Flag(one, Keyframe) + Flag(two, Config)
    PROVE  HasFlag(f, Keyframe) = one /\ HasFlag(f, Config) = two
<1>1. PICK k : k = f[2]
  OBVIOUS
<1>2. k \in 0..3 /\ (one <=> k \in {1, 3}) /\ (two <=> k \in {2, 3})
  BY <1>1 DEF Flag, Keyframe, Config
<1>3. /\ (k \div 1) % 2 = 1 <=> k \in {1, 3}
      /\ (k \div 2) % 2 = 1 <=> k \in {2, 3}
  BY <1>2
<1>4. (HasFlag(f, Keyframe) <=> one) /\ (HasFlag(f, Config) <=> two)
  BY <1>1, <1>2, <1>3 DEF HasFlag, Keyframe, Config
<1>5. HasFlag(f, Keyframe) \in BOOLEAN /\ HasFlag(f, Config) \in BOOLEAN
  BY DEF HasFlag
<1>. QED  BY <1>4, <1>5, Zenon

\* A number of two digits is read digit by digit.
LEMMA Digits ==
    ASSUME NEW w \in Nat \ {0}, NEW m \in 0..w - 1, NEW n \in Nat
    PROVE  (m + w * n) % w = m /\ (m + w * n) \div w = n
<1>1. PICK k \in Nat : k = m + w * n
  <2>1. w * n \in Nat
    OBVIOUS
  <2>. QED  BY <2>1
<1>2. PICK r \in 0..w - 1, q \in Nat : r = k % w /\ q = k \div w /\ r + w * q = k
  BY Divided
<1>3. q < n + 1
  <2>1. w * (n + 1) = w * n + w
    OBVIOUS
  <2>2. w * n \in Nat /\ w * q \in Nat
    OBVIOUS
  <2>3. r + w * q < w * (n + 1)
    BY <1>1, <1>2, <2>1, <2>2
  <2>. QED  BY <2>3, Smaller
<1>4. n < q + 1
  <2>1. w * (q + 1) = w * q + w
    OBVIOUS
  <2>2. w * n \in Nat /\ w * q \in Nat
    OBVIOUS
  <2>3. m + w * n < w * (q + 1)
    BY <1>1, <1>2, <2>1, <2>2
  <2>. QED  BY <2>3, Smaller
<1>5. q = n
  BY <1>3, <1>4
<1>6. r = m
  <2>1. PICK p \in Nat : p = w * n
    OBVIOUS
  <2>. QED  BY <1>1, <1>2, <1>5, <2>1
<1>. QED  BY <1>1, <1>2, <1>5, <1>6

\* How many numbers four bytes hold.
LEMMA Words == WordSize \in Nat \ {0} /\ Word = 0..WordSize - 1 /\ WordSize % 2 = 0
<1>1. PICK half \in Nat \ {0} : Base = 2 * half
  <2>1. Base \in Nat \ {0} /\ Base % 2 = 0 /\ (Base % 2) + 2 * (Base \div 2) = Base /\ Base \div 2 \in Nat
    BY FramingAssumption, Divided
  <2>2. Base \div 2 # 0 /\ Base = 2 * (Base \div 2)
    BY <2>1
  <2>. QED  BY <2>1, <2>2
<1>2. \A x, y \in Nat \ {0} : x * y \in Nat \ {0}
  OBVIOUS
<1>3. PICK cube \in Nat \ {0} : cube = Base * Base * Base
  <2>1. Base \in Nat \ {0}
    BY <1>1
  <2>2. Base * Base \in Nat \ {0}
    BY <1>2, <2>1
  <2>. QED  BY <1>2, <2>1, <2>2
<1>4. PICK m \in Nat \ {0} : m = cube * half
  BY <1>2
<1>5. WordSize = 2 * m
  BY <1>1, <1>3, <1>4 DEF WordSize
<1>6. (2 * m) % 2 = 0 /\ 2 * m \in Nat \ {0}
  OBVIOUS
<1>. QED  BY <1>5, <1>6 DEF Word, WordSize

\* Kotlin's Int has the bits of the number.
LEMMA SameBits ==
    ASSUME NEW n \in Word
    PROVE  ToInt(n) \in Int /\ Bits(ToInt(n)) = n
<1>1. PICK w \in Nat \ {0} : w = WordSize /\ n \in 0..w - 1
  BY Words
<1>. QED  BY <1>1 DEF ToInt, Bits

\* TunnelFrame::decode gives back what TunnelFrame::encode was given, whatever
\* the client_id of IdLen bytes, the kind and the payload of the message.
THEOREM TunnelGivesBack ==
    ASSUME NEW S, NEW id \in [1..IdLen -> Nat], NEW text \in BOOLEAN,
           NEW payload \in Seq(S)
    PROVE  /\ ~Malformed(EncodeData(id, text, payload))
           /\ Decode(EncodeData(id, text, payload)) =
                 [type |-> Data, id |-> id, text |-> text, payload |-> payload]
<1>1. PICK T : T = S \union Nat
  OBVIOUS
<1>0. id \in Seq(Nat) /\ Len(id) = IdLen
  BY FramingAssumption
<1>2. id \in Seq(T) /\ payload \in Seq(T) /\ Len(payload) \in Nat
  BY <1>0, <1>1, SeqMonotonic, LenProperties
<1>3. PICK flag \in T : flag = Flag(text, 1) /\ (flag # 0 <=> text)
  <2>1. Flag(text, 1) \in T /\ (Flag(text, 1) # 0 <=> text)
    BY <1>1 DEF Flag
  <2>. QED  BY <2>1
<1>4. Data \in T
  BY <1>1 DEF Data
<1>5. Padded(id) = id
  <2>1. Padded(id) = [i \in 1..IdLen |-> id[i]]
    BY <1>0, FramingAssumption DEF Padded
  <2>. QED  BY <2>1
<1>6. PICK packet : packet = <<Data>> \o id \o <<flag>> \o payload
  OBVIOUS
<1>7. EncodeData(id, text, payload) = packet
  BY <1>3, <1>5, <1>6 DEF EncodeData
<1>8. /\ Len(packet) = Len(id) + 2 + Len(payload)
      /\ packet[1] = Data
      /\ SubSeq(packet, 2, Len(id) + 1) = id
      /\ packet[Len(id) + 2] = flag
      /\ SubSeq(packet, Len(id) + 3, Len(packet)) = payload
  <2>1. Len(packet) = Len(id) + 2 + Len(payload)
    BY <1>2, <1>4, <1>6, PacketParts
  <2>2. packet[1] = Data
    BY <1>2, <1>4, <1>6, PacketParts
  <2>3. SubSeq(packet, 2, Len(id) + 1) = id
    BY <1>2, <1>4, <1>6, PacketParts
  <2>4. packet[Len(id) + 2] = flag
    BY <1>2, <1>4, <1>6, PacketParts
  <2>5. SubSeq(packet, Len(id) + 3, Len(packet)) = payload
    BY <1>2, <1>4, <1>6, PacketParts
  <2>. QED  BY <2>1, <2>2, <2>3, <2>4, <2>5
<1>9. IdLen \in Nat /\ TunnelHeaderLen = IdLen + 2 /\ TunnelHeaderLen + 1 = IdLen + 3
  BY FramingAssumption DEF TunnelHeaderLen
<1>10. ~Malformed(packet)
  <2>1. Len(packet) >= TunnelHeaderLen
    BY <1>0, <1>2, <1>8, <1>9
  <2>2. packet[1] \in {Open, Close, Data}
    BY <1>8
  <2>. QED  BY <1>2, <1>8, <1>9, <2>1, <2>2 DEF Malformed
<1>11. (packet[IdLen + 2] # 0) = text
  <2>1. (packet[IdLen + 2] # 0) <=> text
    BY <1>0, <1>3, <1>8
  <2>. QED  BY <2>1, Zenon
<1>12. Decode(packet) = [type |-> Data, id |-> id, text |-> text, payload |-> payload]
  BY <1>0, <1>8, <1>9, <1>11, Zenon DEF Decode
<1>. QED  BY <1>7, <1>10, <1>12

\* The phone reads a picture as the PC built it, whatever the payload, its flags
\* and a pts of eight bytes (build_video_frame, FrameParser.parse).
THEOREM PictureGivesBack ==
    ASSUME NEW S, NEW payload \in Seq(S), NEW pts \in 0..(WordSize * WordSize - 1),
           NEW idr \in BOOLEAN, NEW config \in BOOLEAN
    PROVE  /\ Len(BuildVideoFrame(payload, pts, idr, config)) >= HeaderLen
           /\ Parse(BuildVideoFrame(payload, pts, idr, config)) =
                 [type |-> Video, keyframe |-> idr, config |-> config, pts |-> pts,
                  payload |-> payload]
<1>1. PICK m, n \in Word : m = pts % WordSize /\ n = pts \div WordSize /\ m + WordSize * n = pts
  BY TwoWords
<1>2. PICK flags \in Nat : flags = Flag(idr, Keyframe) + Flag(config, Config)
  BY DEF Flag, Keyframe, Config
<1>3. PICK T : T = S \union Nat
  OBVIOUS
<1>a. payload \in Seq(T) /\ Nat \subseteq T /\ Video \in Nat
  BY <1>3, SeqMonotonic DEF Video
<1>b. PICK f : f = FrameOf(Video, flags, m, n, payload)
  OBVIOUS
<1>c. ReadsAs(f, Video, flags, m, n, payload)
  BY <1>a, <1>b, FrameReads
<1>4. BuildVideoFrame(payload, pts, idr, config) = f
  <2>1. f = <<Video, flags, 0, 0>> \o (Le4(m) \o Le4(n)) \o payload
    BY <1>c DEF ReadsAs
  <2>. QED  BY <1>1, <1>2, <2>1 DEF BuildVideoFrame, Le8
<1>5. /\ Len(f) >= HeaderLen /\ f[1] = Video /\ f[2] = flags
      /\ FromLe4(f, 5) = m /\ FromLe4(f, 9) = n /\ Payload(f) = payload
  BY <1>c DEF ReadsAs
<1>6. HasFlag(f, Keyframe) = idr /\ HasFlag(f, Config) = config
  BY <1>2, <1>5, Flags
<1>7. ReadLongLe(f, 5) = pts
  <2>1. 5 + 4 = 9
    OBVIOUS
  <2>. QED  BY <1>1, <1>5, <2>1, Zenon DEF ReadLongLe
<1>8. Parse(f) = [type |-> Video, keyframe |-> idr, config |-> config, pts |-> pts,
                  payload |-> payload]
  BY <1>5, <1>6, <1>7, Zenon DEF Parse
<1>. QED  BY <1>4, <1>5, <1>8

\* What the phone and the PC read in a chunk's bytes.
LEMMA ChunkReads ==
    ASSUME NEW S, NEW payload \in Seq(S), NEW id \in Word, NEW seq \in Word,
           NEW last \in BOOLEAN
    PROVE  /\ Len(BuildChunkFrame(id, seq, last, payload)) >= HeaderLen
           /\ BuildChunkFrame(id, seq, last, payload)[1] = File
           /\ HasFlag(BuildChunkFrame(id, seq, last, payload), Keyframe) = last
           /\ FromLe4(BuildChunkFrame(id, seq, last, payload), 5) = id
           /\ FromLe4(BuildChunkFrame(id, seq, last, payload), 9) = seq
           /\ Payload(BuildChunkFrame(id, seq, last, payload)) = payload
<1>1. PICK T : T = S \union Nat
  OBVIOUS
<1>2. payload \in Seq(T) /\ Nat \subseteq T
  BY <1>1, SeqMonotonic
<1>3. PICK flags \in Nat : flags = Flag(last, Keyframe)
  BY DEF Flag, Keyframe
<1>4. File \in Nat
  BY DEF File
<1>5. PICK f : f = FrameOf(File, flags, id, seq, payload)
  OBVIOUS
<1>6. BuildChunkFrame(id, seq, last, payload) = f
  BY <1>3, <1>5 DEF BuildChunkFrame, FrameOf
<1>a. ReadsAs(f, File, flags, id, seq, payload)
  BY <1>2, <1>4, <1>5, FrameReads
<1>7. Len(f) >= HeaderLen /\ f[1] = File /\ f[2] = flags
  BY <1>a DEF ReadsAs
<1>8. FromLe4(f, 5) = id /\ FromLe4(f, 9) = seq /\ Payload(f) = payload
  BY <1>a DEF ReadsAs
<1>9. HasFlag(f, Keyframe) = last
  <2>1. f[2] = Flag(last, Keyframe) + Flag(FALSE, Config)
    BY <1>3, <1>7 DEF Flag
  <2>. QED  BY <2>1, Flags
<1>. QED  BY <1>6, <1>7, <1>8, <1>9

\* A chunk of a download is to the phone what it was to the PC, its numbers as
\* Kotlin's Int has their bits; and one of an upload is to the PC what it was to
\* the phone, whatever Ints it counts with (build_file_chunk_frame and
\* handleIncomingFileChunk, buildFileChunkFrame and parse_file_chunk).
THEOREM ChunksGiveBack ==
    ASSUME NEW S, NEW payload \in Seq(S), NEW id \in Word, NEW seq \in Word,
           NEW last \in BOOLEAN
    PROVE  /\ Parse(BuildChunkFrame(id, seq, last, payload)).type = File
           /\ IncomingChunk(Parse(BuildChunkFrame(id, seq, last, payload))) =
                 [id |-> ToInt(id), seq |-> ToInt(seq), last |-> last, payload |-> payload]
           /\ IsChunk(PhoneChunkFrame(ToInt(id), ToInt(seq), last, payload))
           /\ ParseFileChunk(PhoneChunkFrame(ToInt(id), ToInt(seq), last, payload)) =
                 [id |-> id, seq |-> seq, last |-> last, payload |-> payload]
<1>1. PICK f : f = BuildChunkFrame(id, seq, last, payload)
  OBVIOUS
<1>2. /\ Len(f) >= HeaderLen /\ f[1] = File /\ HasFlag(f, Keyframe) = last
      /\ FromLe4(f, 5) = id /\ FromLe4(f, 9) = seq /\ Payload(f) = payload
  BY <1>1, ChunkReads
<1>3. PhoneChunkFrame(ToInt(id), ToInt(seq), last, payload) = f
  BY <1>1, SameBits DEF PhoneChunkFrame
<1>4. IsChunk(f) /\ ParseFileChunk(f) = [id |-> id, seq |-> seq, last |-> last, payload |-> payload]
  BY <1>2, Zenon DEF IsChunk, ParseFileChunk
<1>5. Parse(f).type = File /\ Parse(f).keyframe = last /\ Parse(f).payload = payload
  BY <1>2 DEF Parse
<1>6. Parse(f).pts = id + WordSize * seq
  <2>1. 5 + 4 = 9
    OBVIOUS
  <2>2. ReadLongLe(f, 5) = id + WordSize * seq
    BY <1>2, <2>1, Zenon DEF ReadLongLe
  <2>. QED  BY <2>2 DEF Parse
<1>7. (id + WordSize * seq) % WordSize = id /\ (id + WordSize * seq) \div WordSize = seq
  BY Words, Digits
<1>8. IncomingChunk(Parse(f)) =
         [id |-> ToInt(id), seq |-> ToInt(seq), last |-> last, payload |-> payload]
  BY <1>5, <1>6, <1>7, Zenon DEF IncomingChunk
<1>. QED  BY <1>1, <1>3, <1>4, <1>5, <1>8

-----------------------------------------------------------------------------
(***************************************************************************)
(* The protocol: what one end writes, with whichever of its optional       *)
(* fields, the other reads.                                                *)
(***************************************************************************)

\* Every field that may be null may be lacking too.
Lenient(fields) == \A f \in DOMAIN fields : fields[f].null => fields[f].lack

\* The three kinds of fields.
LEMMA FieldKinds ==
    ASSUME NEW type
    PROVE  /\ Need(type).null = FALSE
           /\ Given(type).null = FALSE
           /\ Maybe(type).lack = TRUE
  BY DEF Need, Given, Maybe, Field

\* A table is sound if all its fields are, and so are two put together.
LEMMA LenientTables ==
    /\ Lenient(NoField)
    /\ \A names : Lenient(Described(names)) /\ Lenient(Counted(names))
    /\ \A name : Lenient(IdAnd(name))
    /\ \A f, g : Lenient(f) /\ Lenient(g) => Lenient(Both(f, g))
<1>1. Lenient(NoField)
  BY DEF Lenient, NoField
<1>2. \A names : Lenient(Described(names)) /\ Lenient(Counted(names))
  BY FieldKinds DEF Lenient, Described, Counted
<1>3. \A f, g : Lenient(f) /\ Lenient(g) => Lenient(Both(f, g))
  BY DEF Lenient, Both
<1>4. \A name : Lenient(IdAnd(name))
  <2> TAKE name
  <2>1. Lenient([id |-> Need("number")])
    BY DEF Lenient, Need, Field
  <2>2. Lenient([f \in {name} |-> Need("text")])
    BY DEF Lenient, Need, Field
  <2>. QED  BY <1>3, <2>1, <2>2 DEF IdAnd
<1>. QED  BY <1>1, <1>2, <1>3, <1>4

\* The PC's messages of a sound table are read with the same table.
LEMMA SameTableDown ==
    ASSUME NEW fields, Lenient(fields), NEW body \in PcWrites(fields)
    PROVE  Reads(fields, body)
<1>1. PICK N \in SUBSET Optional(fields) :
          body = [f \in DOMAIN fields \ N |-> fields[f].type]
  BY DEF PcWrites
<1>2. \A f \in DOMAIN fields :
         IF f \in DOMAIN body THEN body[f] = fields[f].type ELSE fields[f].null
  BY <1>1 DEF Optional
<1>. QED  BY <1>2 DEF Reads, Lenient

\* The phone's messages are read with a table that has its fields, of their
\* types, and takes null where the phone may write it.
LEMMA AgreeingTableUp ==
    ASSUME NEW says, NEW takes, NEW body \in PhoneWrites(says),
           DOMAIN takes \subseteq DOMAIN says,
           \A f \in DOMAIN takes : /\ says[f].type = takes[f].type
                                   /\ says[f].null => takes[f].null
    PROVE  Reads(takes, body)
<1>1. PICK N \in SUBSET Optional(says) :
          body = [f \in DOMAIN says |-> IF f \in N THEN "null" ELSE says[f].type]
  BY DEF PhoneWrites
<1>2. \A f \in DOMAIN takes :
         /\ f \in DOMAIN body
         /\ body[f] = takes[f].type \/ (body[f] = "null" /\ takes[f].null)
  BY <1>1 DEF Optional
<1>. QED  BY <1>2 DEF Reads

\* Each table of what the PC says is the phone's, but for StreamStopped's msg.
LEMMA DownTables ==
    ASSUME NEW name \in DOMAIN PcSays, NEW body \in PcWrites(PcSays[name])
    PROVE  Reads(PhoneTakes[name], body)
<1>1. CASE name = "stream_stopped"
  <2>1. PcSays[name] = Described({"stream_id", "reason", "msg"})
    BY <1>1 DEF PcSays
  <2>2. PhoneTakes[name] = Both(Described({"stream_id", "reason"}), [msg |-> Given("text")])
    BY <1>1 DEF PhoneTakes
  <2>3. /\ DOMAIN body = {"stream_id", "reason", "msg"}
        /\ \A f \in DOMAIN body : body[f] = "text"
    <3>1. Optional(PcSays[name]) = {}
      BY <2>1, FieldKinds DEF Optional, Described
    <3>2. PICK N \in SUBSET Optional(PcSays[name]) :
             body = [f \in DOMAIN PcSays[name] \ N |-> PcSays[name][f].type]
      BY DEF PcWrites
    <3>3. DOMAIN body = {"stream_id", "reason", "msg"}
      BY <2>1, <3>1, <3>2 DEF Described
    <3>4. \A f \in DOMAIN body : body[f] = Need("text").type
      BY <2>1, <3>1, <3>2 DEF Described
    <3>. QED  BY <3>3, <3>4 DEF Need, Field
  <2>4. /\ DOMAIN PhoneTakes[name] = {"stream_id", "reason", "msg"}
        /\ \A f \in {"stream_id", "reason", "msg"} : PhoneTakes[name][f].type = "text"
    BY <2>2 DEF Both, Described, Need, Given, Field
  <2>. QED  BY <2>3, <2>4 DEF Reads
<1>2. CASE name # "stream_stopped"
  <2>1. PhoneTakes[name] = PcSays[name]
    BY <1>2 DEF PcSays, PhoneTakes
  <2>2. Lenient(PcSays[name])
    <3>1. CASE name = "welcome"
      <4>1. Lenient([server |-> Need("server"),
                   trust_token |-> Maybe("text"), device_id |-> Maybe("text")])
        BY DEF Lenient, Need, Maybe, Field
      <4>. QED  BY <3>1, <4>1, LenientTables DEF PcSays
    <3>2. CASE name = "stream_started"
      <4>1. Lenient([audio |-> Maybe("audio")])
        BY DEF Lenient, Maybe, Field
      <4>. QED  BY <3>2, <4>1, LenientTables DEF PcSays
    <3>3. CASE name \in {"error", "pong", "clipboard_text"}
      BY <3>3, LenientTables DEF PcSays
    <3>4. CASE name \in {"file_transfer_accepted", "file_transfer_complete",
                         "file_transfer_failed", "file_send_begin"}
      BY <3>4, LenientTables DEF PcSays
    <3>. QED  BY <1>2, <3>1, <3>2, <3>3, <3>4 DEF PcSays
  <2>. QED  BY <2>1, <2>2, SameTableDown
<1>. QED  BY <1>1, <1>2

\* And each of what the phone says is the PC's, but for what may be lacking.
LEMMA UpTables ==
    ASSUME NEW name \in DOMAIN PhoneSays, NEW body \in PhoneWrites(PhoneSays[name])
    PROVE  Reads(PcTakes[name], body)
<1>1. CASE name \in {"hello", "trusted_hello", "ping"}
  <2>1. /\ DOMAIN PcTakes[name] = DOMAIN PhoneSays[name]
        /\ \A f \in DOMAIN PcTakes[name] :
              /\ PhoneSays[name][f].type = PcTakes[name][f].type
              /\ PhoneSays[name][f].null => PcTakes[name][f].null
    <3>1. CASE name = "hello"
      BY <3>1 DEF PhoneSays, PcTakes, Need, Given, Field
    <3>2. CASE name = "trusted_hello"
      BY <3>2 DEF PhoneSays, PcTakes, Need, Given, Field
    <3>3. CASE name = "ping"
      BY <3>3 DEF PhoneSays, PcTakes, Need, Given, Field
    <3>. QED  BY <1>1, <3>1, <3>2, <3>3
  <2>. QED  BY <2>1, AgreeingTableUp
<1>2. CASE name \notin {"hello", "trusted_hello", "ping"}
  <2>1. PcTakes[name] = PhoneSays[name]
    BY <1>2 DEF PhoneSays, PcTakes
  <2>. QED  BY <2>1, AgreeingTableUp
<1>. QED  BY <1>1, <1>2

-----------------------------------------------------------------------------
(***************************************************************************)
(* Nothing is refused: whatever is on its way to an end is a text that end *)
(* can read, or bytes.                                                     *)
(***************************************************************************)

\* A message of the socket, for an end that takes these tables.
ReadableBy(takes, m) ==
    \/ m.text = TRUE /\ \E t : m.bytes = <<t>> /\ Reads(takes[t.name], t.body)
    \/ m.text = FALSE /\ \E S : m.bytes \in Seq(S)

\* A packet of the tunnel that holds one.
Holds(takes, p) == \E m : ReadableBy(takes, m) /\ p = EncodeData(Phone, m.text, m.bytes)

\* Queues of messages and of packets.
Queued(takes, q)  == \E Q : q \in Seq(Q) /\ \A m \in Q : ReadableBy(takes, m)
Carried(takes, q) == \E Q : q \in Seq(Q) /\ \A p \in Q : Holds(takes, p)

DownReadable ==
    /\ Queued(PhoneTakes, outbox)
    /\ Queued(PhoneTakes, outboxVideo) /\ Queued(PhoneTakes, outboxBulk)
    /\ Carried(PhoneTakes, tunnel)
    /\ Queued(PhoneTakes, fast) /\ Queued(PhoneTakes, bulk)
    /\ Queued(PhoneTakes, socket)
UpReadable == Queued(PcTakes, upSocket) /\ Carried(PcTakes, toHost)

WireInv ==
    /\ DownReadable /\ UpReadable /\ NothingRefused
    /\ committed \in Seq(Chars)

\* An empty queue.
LEMMA NoneQueued ==
    ASSUME NEW takes PROVE Queued(takes, <<>>) /\ Carried(takes, <<>>)
<1>1. <<>> \in Seq({})
  OBVIOUS
<1>2. PICK Q : Q = {}
  OBVIOUS
<1>3. <<>> \in Seq(Q) /\ \A x \in Q : ReadableBy(takes, x) /\ Holds(takes, x)
  BY <1>1, <1>2
<1>. QED  BY <1>3 DEF Queued, Carried

\* A queue with one more message.
LEMMA OneMoreQueued ==
    ASSUME NEW takes, NEW q, Queued(takes, q), NEW m, ReadableBy(takes, m)
    PROVE  Queued(takes, Append(q, m))
<1>1. PICK Q : q \in Seq(Q) /\ \A x \in Q : ReadableBy(takes, x)
  BY DEF Queued
<1>2. PICK T : T = Q \union {m}
  OBVIOUS
<1>3. q \in Seq(T) /\ m \in T
  BY <1>1, <1>2, SeqMonotonic
<1>4. Append(q, m) \in Seq(T)
  BY <1>3, AppendProperties
<1>5. \A x \in T : ReadableBy(takes, x)
  BY <1>1, <1>2
<1>. QED  BY <1>4, <1>5 DEF Queued

\* And packets.
LEMMA OneMoreCarried ==
    ASSUME NEW takes, NEW q, Carried(takes, q), NEW p, Holds(takes, p)
    PROVE  Carried(takes, Append(q, p))
<1>1. PICK Q : q \in Seq(Q) /\ \A x \in Q : Holds(takes, x)
  BY DEF Carried
<1>2. PICK T : T = Q \union {p}
  OBVIOUS
<1>3. q \in Seq(T) /\ p \in T
  BY <1>1, <1>2, SeqMonotonic
<1>4. Append(q, p) \in Seq(T)
  BY <1>3, AppendProperties
<1>5. \A x \in T : Holds(takes, x)
  BY <1>1, <1>2
<1>. QED  BY <1>4, <1>5 DEF Carried

\* The next one is readable, and so are those behind it.
LEMMA FirstQueued ==
    ASSUME NEW takes, NEW q, Queued(takes, q), q # <<>>
    PROVE  ReadableBy(takes, Head(q)) /\ Queued(takes, Tail(q))
<1>1. PICK Q : q \in Seq(Q) /\ \A x \in Q : ReadableBy(takes, x)
  BY DEF Queued
<1>2. Head(q) \in Q /\ Tail(q) \in Seq(Q)
  BY <1>1, HeadTailProperties
<1>. QED  BY <1>1, <1>2 DEF Queued

\* And so with packets.
LEMMA FirstCarried ==
    ASSUME NEW takes, NEW q, Carried(takes, q), q # <<>>
    PROVE  Holds(takes, Head(q)) /\ Carried(takes, Tail(q))
<1>1. PICK Q : q \in Seq(Q) /\ \A x \in Q : Holds(takes, x)
  BY DEF Carried
<1>2. Head(q) \in Q /\ Tail(q) \in Seq(Q)
  BY <1>1, HeadTailProperties
<1>. QED  BY <1>1, <1>2 DEF Carried

\* Two queues, one behind the other.
LEMMA QueuesJoin ==
    ASSUME NEW takes, NEW q, Queued(takes, q), NEW r, Queued(takes, r)
    PROVE  Queued(takes, q \o r)
<1>1. PICK Q : q \in Seq(Q) /\ \A x \in Q : ReadableBy(takes, x)
  BY DEF Queued
<1>2. PICK R : r \in Seq(R) /\ \A x \in R : ReadableBy(takes, x)
  BY DEF Queued
<1>3. PICK T : T = Q \union R
  OBVIOUS
<1>4. q \in Seq(T) /\ r \in Seq(T)
  BY <1>1, <1>2, <1>3, SeqMonotonic
<1>5. q \o r \in Seq(T)
  BY <1>4, ConcatProperties
<1>6. \A x \in T : ReadableBy(takes, x)
  BY <1>1, <1>2, <1>3
<1>. QED  BY <1>5, <1>6 DEF Queued

\* What is unwrapped from a packet is what was wrapped in it.
LEMMA Unwrapped ==
    ASSUME NEW takes, NEW p, Holds(takes, p)
    PROVE  ReadableBy(takes, [text |-> Decode(p).text, bytes |-> Decode(p).payload])
<1>1. PICK m : ReadableBy(takes, m) /\ p = EncodeData(Phone, m.text, m.bytes)
  BY DEF Holds
<1>2. PICK S : m.bytes \in Seq(S)
  <2>1. CASE m.text = FALSE
    BY <1>1, <2>1 DEF ReadableBy
  <2>2. CASE \E t : m.bytes = <<t>>
    <3>1. PICK t : m.bytes = <<t>>
      BY <2>2
    <3>2. <<t>> \in Seq({t})
      OBVIOUS
    <3>. QED  BY <3>1, <3>2
  <2>. QED  BY <1>1, <2>1, <2>2 DEF ReadableBy
<1>3. m.text \in BOOLEAN
  BY <1>1 DEF ReadableBy
<1>4. Phone \in [1..IdLen -> Nat]
  <2>1. \A i \in 1..IdLen : 1 + (i % 2) \in Nat
    BY FramingAssumption
  <2>. QED  BY <2>1 DEF Phone
<1>5. Decode(p) = [type |-> Data, id |-> Phone, text |-> m.text, payload |-> m.bytes]
  BY <1>1, <1>2, <1>3, <1>4, TunnelGivesBack
<1>6. Decode(p).text = m.text /\ Decode(p).payload = m.bytes
  BY <1>5
<1>. QED  BY <1>1, <1>6 DEF ReadableBy

\* A text is readable if the table of its name reads its body, whatever it is of.
LEMMA TextReadable ==
    ASSUME NEW takes, NEW name, NEW body, Reads(takes[name], body), NEW arg
    PROVE  ReadableBy(takes, AsText(TextMsg(name, body, arg)))
<1>1. PICK t : t = TextMsg(name, body, arg)
  OBVIOUS
<1>2. t.name = name /\ t.body = body
  BY <1>1 DEF TextMsg
<1>. QED  BY <1>1, <1>2 DEF ReadableBy, AsText

\* So what the PC says is readable.
LEMMA PcIsRead ==
    ASSUME NEW name \in DOMAIN PcSays, NEW body \in PcWrites(PcSays[name]), NEW arg
    PROVE  ReadableBy(PhoneTakes, AsText(TextMsg(name, body, arg)))
  BY DownTables, TextReadable

\* And what the phone says.
LEMMA PhoneIsRead ==
    ASSUME NEW name \in DOMAIN PhoneSays, NEW body \in PhoneWrites(PhoneSays[name]), NEW arg
    PROVE  ReadableBy(PcTakes, AsText(TextMsg(name, body, arg)))
  BY UpTables, TextReadable

\* Bytes are readable.
LEMMA BytesReadable ==
    ASSUME NEW takes, NEW S, NEW b \in Seq(S)
    PROVE  ReadableBy(takes, AsBinary(b))
  BY DEF ReadableBy, AsBinary

\* So are pictures and sounds.
LEMMA FramesReadable ==
    ASSUME NEW takes, NEW S, NEW payload \in Seq(S), NEW h1, NEW h2, NEW n, NEW m
    PROVE  ReadableBy(takes,
              AsBinary(<<h1, h2, 0, 0>> \o (Le4(n) \o Le4(m)) \o payload))
<1>1. PICK T : T = S \union {h1, h2, 0} \union
                   {Le4(n)[1], Le4(n)[2], Le4(n)[3], Le4(n)[4],
                    Le4(m)[1], Le4(m)[2], Le4(m)[3], Le4(m)[4]}
  OBVIOUS
<1>2. <<h1, h2, 0, 0>> \in Seq(T)
  BY <1>1
<1>3. Le4(n) \in Seq(T)
  BY <1>1 DEF Le4
<1>4. Le4(m) \in Seq(T)
  BY <1>1 DEF Le4
<1>5. payload \in Seq(T)
  BY <1>1, SeqMonotonic
<1>6. Le4(n) \o Le4(m) \in Seq(T)
  BY <1>3, <1>4, ConcatProperties
<1>7. <<h1, h2, 0, 0>> \o (Le4(n) \o Le4(m)) \in Seq(T)
  BY <1>2, <1>6, ConcatProperties
<1>8. <<h1, h2, 0, 0>> \o (Le4(n) \o Le4(m)) \o payload \in Seq(T)
  BY <1>5, <1>7, ConcatProperties
<1>. QED  BY <1>8, BytesReadable

\* And chunks, in either direction.
LEMMA ChunkReadable ==
    ASSUME NEW takes, NEW S, NEW payload \in Seq(S), NEW id, NEW seq, NEW end
    PROVE  ReadableBy(takes, AsBinary(BuildChunkFrame(id, seq, end, payload)))
<1>1. PICK T : T = S \union {File, Flag(end, Keyframe), 0} \union
                   {Le4(id)[1], Le4(id)[2], Le4(id)[3], Le4(id)[4],
                    Le4(seq)[1], Le4(seq)[2], Le4(seq)[3], Le4(seq)[4]}
  OBVIOUS
<1>2. <<File, Flag(end, Keyframe), 0, 0>> \in Seq(T)
  BY <1>1
<1>3. Le4(id) \in Seq(T)
  BY <1>1 DEF Le4
<1>4. Le4(seq) \in Seq(T)
  BY <1>1 DEF Le4
<1>5. payload \in Seq(T)
  BY <1>1, SeqMonotonic
<1>6. <<File, Flag(end, Keyframe), 0, 0>> \o Le4(id) \in Seq(T)
  BY <1>2, <1>3, ConcatProperties
<1>7. <<File, Flag(end, Keyframe), 0, 0>> \o Le4(id) \o Le4(seq) \in Seq(T)
  BY <1>4, <1>6, ConcatProperties
<1>8. BuildChunkFrame(id, seq, end, payload) \in Seq(T)
  BY <1>5, <1>7, ConcatProperties DEF BuildChunkFrame
<1>. QED  BY <1>8, BytesReadable

\* Any key is.
LEMMA KeyReadable ==
    ASSUME NEW k
    PROVE  ReadableBy(PcTakes, AsText(KeyMsg(k)))
<1>1. CASE k.op = "text"
  <2>1. Reads(PcTakes["key_text"], [text |-> "text"])
    BY DEF Reads, PcTakes, Need, Field
  <2>2. KeyMsg(k) = TextMsg("key_text", [text |-> "text"], k)
    BY <1>1 DEF KeyMsg, KeyBody
  <2>. QED  BY <2>1, <2>2, TextReadable
<1>2. CASE k.op # "text"
  <2>1. Reads(PcTakes["key_event"], [vk |-> "number", down |-> "flag"])
    BY DEF Reads, PcTakes, Need, Field
  <2>2. KeyMsg(k) = TextMsg("key_event", [vk |-> "number", down |-> "flag"], k)
    BY <1>2 DEF KeyMsg, KeyBody
  <2>. QED  BY <2>1, <2>2, TextReadable
<1>. QED  BY <1>1, <1>2

\* A sequence of keys, as sendKeyText and sendKeyEvent send it.
LEMMA KeysReadable ==
    ASSUME NEW keys, Len(keys) \in Nat
    PROVE  LET said == [i \in 1..Len(keys) |-> KeyMsg(keys[i])]
           IN  Queued(PcTakes, [i \in 1..Len(keys) |-> AsText(said[i])])
<1> DEFINE said == [i \in 1..Len(keys) |-> KeyMsg(keys[i])]
           q == [i \in 1..Len(keys) |-> AsText(said[i])]
<1>1. PICK n \in Nat : n = Len(keys)
  OBVIOUS
<1>2. PICK Q : Q = {AsText(said[i]) : i \in 1..n}
  OBVIOUS
<1>3. q \in Seq(Q)
  <2>1. q = [i \in 1..n |-> AsText(said[i])]
    BY <1>1
  <2>2. q \in [1..n -> Q]
    BY <2>1, <1>2
  <2>. QED  BY <2>2, <1>1
<1>4. \A m \in Q : ReadableBy(PcTakes, m)
  <2> SUFFICES ASSUME NEW i \in 1..n PROVE ReadableBy(PcTakes, AsText(said[i]))
    BY <1>2
  <2>1. said[i] = KeyMsg(keys[i])
    BY <1>1
  <2>. QED  BY <2>1, KeyReadable
<1>. QED  BY <1>3, <1>4 DEF Queued

\* A beginning of a text is a text, and two texts have a longest one in common.
LEMMA Beginnings ==
    ASSUME NEW s \in Seq(Chars)
    PROVE  /\ <<>> \in Prefixes(s)
           /\ \A p \in Prefixes(s) : p \in Seq(Chars)
<1>1. Len(s) \in Nat /\ 0 \in 0..Len(s)
  BY LenProperties
<1>2. SubSeq(s, 1, 0) = <<>>
  OBVIOUS
<1>3. \A l \in 0..Len(s) : SubSeq(s, 1, l) \in Seq(Chars)
  <2> SUFFICES ASSUME NEW l \in 0..Len(s) PROVE SubSeq(s, 1, l) \in Seq(Chars)
    OBVIOUS
  <2>1. \A i \in 1..l : s[i] \in Chars
    BY <1>1, ElementOfSeq
  <2>. QED  BY <1>1, <2>1, SubSeqProperties
<1>. QED  BY <1>1, <1>2, <1>3 DEF Prefixes

\* So what two texts agree in is a text, and a beginning of both.
LEMMA AgreeIsText ==
    ASSUME NEW old \in Seq(Chars), NEW new \in Seq(Chars)
    PROVE  /\ Agree(old, new) \in Seq(Chars)
           /\ Agree(old, new) \in Prefixes(old) \intersect Prefixes(new)
<1>1. PICK C : C = Prefixes(old) \intersect Prefixes(new)
  OBVIOUS
<1>2. <<>> \in C /\ \A p \in C : p \in Seq(Chars) /\ Len(p) \in Nat
  BY <1>1, Beginnings, LenProperties
<1>3. PICK L : L = {l \in Nat : \E p \in C : l + Len(p) = Len(old)}
  OBVIOUS
<1>4. \A p \in C : Len(p) <= Len(old)
  <2> SUFFICES ASSUME NEW l \in 0..Len(old) PROVE Len(SubSeq(old, 1, l)) <= Len(old)
    BY <1>1 DEF Prefixes
  <2>1. Len(old) \in Nat /\ \A i \in 1..l : old[i] \in Chars
    BY ElementOfSeq, LenProperties
  <2>2. Len(SubSeq(old, 1, l)) = IF 1 <= l THEN l - 1 + 1 ELSE 0
    BY <2>1, SubSeqProperties
  <2>. QED  BY <2>1, <2>2
<1>5. \A p \in C : Len(old) - Len(p) \in L
  BY <1>2, <1>3, <1>4, LenProperties
<1>6. PICK least \in L : \A l \in L : least <= l
  <2>1. L # {} /\ L \subseteq Nat
    BY <1>2, <1>3, <1>5
  <2>2. \E l \in L : \A k \in L : ~(<<k, l>> \in OpToRel(<, Nat))
    BY <2>1, NatLessThanWellFounded, WFMin, Zenon
  <2>3. PICK l \in L : \A k \in L : ~(<<k, l>> \in OpToRel(<, Nat))
    BY <2>2
  <2>4. \A k \in L : ~(k < l)
    BY <2>1, <2>3, Zenon DEF OpToRel
  <2>. QED  BY <2>1, <2>4
<1>7. PICK p \in C : least + Len(p) = Len(old)
  BY <1>3, <1>6
<1>8. \A q \in C : Len(q) <= Len(p)
  <2> SUFFICES ASSUME NEW q \in C PROVE Len(q) <= Len(p)
    OBVIOUS
  <2>1. least <= Len(old) - Len(q)
    BY <1>5, <1>6
  <2>2. least \in Nat /\ Len(q) \in Nat /\ Len(p) \in Nat /\ Len(old) \in Nat
    BY <1>2, <1>3, LenProperties
  <2>. QED  BY <1>7, <2>1, <2>2
<1>9. Agree(old, new) = CHOOSE x \in C : \A q \in C : Len(q) <= Len(x)
  BY <1>1 DEF Agree
<1>10. Agree(old, new) \in C
  BY <1>8, <1>9
<1>. QED  BY <1>1, <1>2, <1>10

\* String.length of a text.
LEMMA LengthCounts ==
    ASSUME NEW s \in Seq(Chars)
    PROVE  Length(s) \in Nat
<1>1. Len(s) \in Nat
  BY LenProperties
<1>2. IsFiniteSet({i \in 1..Len(s) : s[i] \in Wide})
  <2>1. IsFiniteSet(1..Len(s))
    BY <1>1, FS_Interval
  <2>2. {i \in 1..Len(s) : s[i] \in Wide} \subseteq 1..Len(s)
    OBVIOUS
  <2>. QED  BY <2>1, <2>2, FS_Subset
<1>. QED  BY <1>1, <1>2, FS_CardinalityType DEF Length

\* A difference is a sequence of keys, and what is committed is a text.
LEMMA DiffCounts ==
    ASSUME NEW old \in Seq(Chars), NEW new \in Seq(Chars)
    PROVE  Len(Diff(old, new)) \in Nat
<1>1. PICK p \in Seq(Chars) : p = Agree(old, new)
  BY AgreeIsText
<1>2. PICK n \in Int : n = Length(old) - Length(p)
  BY <1>1, LengthCounts
<1>3. PICK tail : tail = SubSeq(new, Len(p) + 1, Len(new))
  OBVIOUS
<1>4. PICK K : K = {Press, Release, Types(tail)}
  OBVIOUS
<1>5. Taps(n) \in Seq(K)
  <2>1. \A i \in 1..(2 * n) : (IF i % 2 = 1 THEN Press ELSE Release) \in K
    BY <1>4
  <2>2. Taps(n) \in [1..(2 * n) -> K]
    BY <2>1 DEF Taps
  <2>3. CASE n >= 0
    BY <2>2, <2>3
  <2>4. CASE ~(n >= 0)
    <3>1. 1..(2 * n) = 1..0
      BY <2>4
    <3>. QED  BY <2>2, <3>1
  <2>. QED  BY <2>3, <2>4
<1>6. PICK rest : rest = IF tail = <<>> THEN <<>> ELSE <<Types(tail)>>
  OBVIOUS
<1>7. rest \in Seq(K)
  <2>1. <<>> \in Seq(K)
    OBVIOUS
  <2>2. PICK t \in K : t = Types(tail)
    BY <1>4
  <2>3. <<t>> \in Seq(K)
    OBVIOUS
  <2>. QED  BY <1>6, <2>1, <2>2, <2>3
<1>8. Taps(n) \o rest \in Seq(K)
  BY <1>5, <1>7, ConcatProperties
<1>9. Diff(old, new) = Taps(n) \o rest
  BY <1>1, <1>2, <1>3, <1>6 DEF Diff
<1>. QED  BY <1>8, <1>9, LenProperties

\* What is left of a text without its composition.
LEMMA StableIsText ==
    ASSUME NEW new \in Text, NEW i \in 0..Len(new), NEW j \in i..Len(new)
    PROVE  Stable(new, i, j) \in Seq(Chars)
<1>1. new \in Seq(Chars) /\ Len(new) \in Nat
  <2>1. PICK n \in Nat : new \in [1..n -> Chars]
    BY TextAssumption DEF Text
  <2>. QED  BY <2>1
<1>2. SubSeq(new, 1, i) \in Seq(Chars)
  <2>1. \A k \in 1..i : new[k] \in Chars
    BY <1>1, ElementOfSeq
  <2>. QED  BY <1>1, <2>1, SubSeqProperties
<1>3. SubSeq(new, j + 1, Len(new)) \in Seq(Chars)
  <2>1. \A k \in j + 1..Len(new) : new[k] \in Chars
    BY <1>1, ElementOfSeq
  <2>2. j + 1 \in Int /\ Len(new) \in Int
    BY <1>1
  <2>. QED  BY <2>1, <2>2, SubSeqProperties
<1>. QED  BY <1>2, <1>3, ConcatProperties DEF Stable

-----------------------------------------------------------------------------
\* At the start nothing is on its way.
LEMMA WireStarts == WireInit => WireInv
<1> SUFFICES ASSUME WireInit PROVE WireInv
  OBVIOUS
<1>1. DownReadable
  BY NoneQueued DEF WireInit, DownReadable
<1>2. UpReadable
  BY NoneQueued DEF WireInit, UpReadable
<1>3. NothingRefused
  BY DEF WireInit, NothingRefused
<1>4. committed \in Seq(Chars)
  BY DEF WireInit, TextInit
<1>. QED  BY <1>1, <1>2, <1>3, <1>4 DEF WireInv

\* What the PC says: a text, a picture or a sound, a chunk.
LEMMA PcTextQueued ==
    ASSUME DownReadable, NEW m, ReadableBy(PhoneTakes, AsText(m)), PcSendsText(m)
    PROVE  Queued(PhoneTakes, outbox')
  BY OneMoreQueued DEF PcSendsText, DownReadable

\* A picture or a sound, unless it is dropped.
LEMMA PcFastQueued ==
    ASSUME DownReadable, NEW m, NEW bytes, ReadableBy(PhoneTakes, AsBinary(bytes)),
           PcSendsFast(m, bytes)
    PROVE  Queued(PhoneTakes, outboxVideo')
  BY OneMoreQueued DEF PcSendsFast, DownReadable

\* A chunk.
LEMMA PcBulkQueued ==
    ASSUME DownReadable, NEW m, NEW bytes, ReadableBy(PhoneTakes, AsBinary(bytes)),
           PcSendsBulk(m, bytes)
    PROVE  Queued(PhoneTakes, outboxBulk')
  BY OneMoreQueued DEF PcSendsBulk, DownReadable

\* What the phone says.
LEMMA PhoneSaysReadable ==
    ASSUME UpReadable, NEW m, NEW message, ReadableBy(PcTakes, message),
           PhoneSends(m, message)
    PROVE  Queued(PcTakes, upSocket')
  BY OneMoreQueued DEF PhoneSends, UpReadable

\* What a step leaves alone of what is on its way.
LEMMA DownKept ==
    ASSUME DownReadable,
           UNCHANGED <<outbox, outboxVideo, outboxBulk, tunnel, fast, bulk, socket>>
    PROVE  DownReadable'
  BY DEF DownReadable

\* The same in the other direction.
LEMMA UpKept ==
    ASSUME UpReadable, UNCHANGED <<upSocket, toHost>>
    PROVE  UpReadable'
  BY DEF UpReadable

\* The speakers.
LEMMA SpeakersSayReadable ==
    ASSUME WireInv,
           \/ EncoderStep \/ TakeAsked \/ PictureOut \/ SoundOut \/ RequestKeyframe
           \/ AnnounceFile \/ PushChunk \/ Upload \/ PcTalks \/ PhoneTalks
    PROVE  WireInv'
<1>. USE DEF WireInv
<1>1. CASE EncoderStep
  <2>1. UNCHANGED <<downVars, upVars, refused, committed>>
    BY <1>1 DEF EncoderStep, wireVars, textIdle, textVars
  <2>. QED  BY <2>1, DownKept, UpKept DEF downVars, pcQueues, relayVars, upVars, NothingRefused
<1>2. CASE TakeAsked
  <2>1. UNCHANGED <<downVars, upVars, refused, committed>>
    BY <1>2 DEF TakeAsked, textIdle, textVars
  <2>. QED  BY <2>1, DownKept, UpKept DEF downVars, pcQueues, relayVars, upVars, NothingRefused
<1>3. CASE PictureOut
  <2>1. UNCHANGED <<outbox, outboxBulk, relayVars, socket, upVars, refused, committed>>
    BY <1>3 DEF PictureOut, textIdle, textVars
  <2>2. PICK n, m, pts, idr : PcSendsFast(m, BuildVideoFrame(<<n>>, pts, idr, idr))
    BY <1>3 DEF PictureOut
  <2>3. ReadableBy(PhoneTakes, AsBinary(BuildVideoFrame(<<n>>, pts, idr, idr)))
    <3>1. <<n>> \in Seq({n})
      OBVIOUS
    <3>. QED  BY <3>1, FramesReadable DEF BuildVideoFrame, Le8
  <2>4. Queued(PhoneTakes, outboxVideo')
    BY <2>2, <2>3, PcFastQueued
  <2>5. DownReadable'
    BY <2>1, <2>4 DEF DownReadable, relayVars
  <2>. QED  BY <2>1, <2>5, UpKept DEF upVars, NothingRefused
<1>4. CASE SoundOut
  <2>1. UNCHANGED <<outbox, outboxBulk, relayVars, socket, upVars, refused, committed>>
    BY <1>4 DEF SoundOut, textIdle, textVars
  <2>2. PICK n, m, pts : PcSendsFast(m, BuildAudioFrame(<<n>>, pts))
    BY <1>4 DEF SoundOut
  <2>3. ReadableBy(PhoneTakes, AsBinary(BuildAudioFrame(<<n>>, pts)))
    <3>1. <<n>> \in Seq({n})
      OBVIOUS
    <3>. QED  BY <3>1, FramesReadable DEF BuildAudioFrame, Le8
  <2>4. Queued(PhoneTakes, outboxVideo')
    BY <2>2, <2>3, PcFastQueued
  <2>5. DownReadable'
    BY <2>1, <2>4 DEF DownReadable, relayVars
  <2>. QED  BY <2>1, <2>5, UpKept DEF upVars, NothingRefused
<1>5. CASE RequestKeyframe
  <2>1. UNCHANGED <<downVars, toHost, refused, committed>>
    BY <1>5 DEF RequestKeyframe, textIdle, textVars
  <2>2. PICK body \in PhoneWrites(PhoneSays["keyframe_request"]) :
           LET m == TextMsg("keyframe_request", body, 0) IN PhoneSends(m, AsText(m))
    BY <1>5 DEF RequestKeyframe
  <2>3. "keyframe_request" \in DOMAIN PhoneSays
    BY DEF PhoneSays
  <2>4. Queued(PcTakes, upSocket')
    BY <2>2, <2>3, PhoneIsRead, PhoneSaysReadable
  <2>5. UpReadable'
    BY <2>1, <2>4 DEF UpReadable
  <2>. QED  BY <2>1, <2>5, DownKept DEF downVars, pcQueues, relayVars, NothingRefused
<1>6. CASE AnnounceFile
  <2>1. UNCHANGED <<outboxVideo, outboxBulk, relayVars, socket, upVars, refused, committed>>
    BY <1>6 DEF AnnounceFile, textIdle, textVars
  <2>2. PICK body \in PcWrites(PcSays["file_send_begin"]) :
           PcSendsText(TextMsg("file_send_begin", body, DownId))
    BY <1>6 DEF AnnounceFile
  <2>3. "file_send_begin" \in DOMAIN PcSays
    BY DEF PcSays
  <2>4. Queued(PhoneTakes, outbox')
    BY <2>2, <2>3, PcIsRead, PcTextQueued
  <2>5. DownReadable'
    BY <2>1, <2>4 DEF DownReadable, relayVars
  <2>. QED  BY <2>1, <2>5, UpKept DEF upVars, NothingRefused
<1>7. CASE PushChunk
  <2>1. UNCHANGED <<outbox, outboxVideo, relayVars, socket, upVars, refused, committed>>
    BY <1>7 DEF PushChunk, textIdle, textVars
  <2>2. PICK m, seq, last : PcSendsBulk(m, BuildChunkFrame(DownId, seq, last, <<seq>>))
    BY <1>7 DEF PushChunk
  <2>3. ReadableBy(PhoneTakes, AsBinary(BuildChunkFrame(DownId, seq, last, <<seq>>)))
    <3>1. <<seq>> \in Seq({seq})
      OBVIOUS
    <3>. QED  BY <3>1, ChunkReadable
  <2>4. Queued(PhoneTakes, outboxBulk')
    BY <2>2, <2>3, PcBulkQueued
  <2>5. DownReadable'
    BY <2>1, <2>4 DEF DownReadable, relayVars
  <2>. QED  BY <2>1, <2>5, UpKept DEF upVars, NothingRefused
<1>8. CASE Upload
  <2>1. UNCHANGED <<downVars, toHost, refused, committed>>
    BY <1>8 DEF Upload, textIdle, textVars
  <2>2. Queued(PcTakes, upSocket')
    <3>1. CASE \E body \in PhoneWrites(PhoneSays["file_transfer_begin"]) :
                  LET m == TextMsg("file_transfer_begin", body, UpId)
                  IN  PhoneSends(m, AsText(m))
      <4>1. "file_transfer_begin" \in DOMAIN PhoneSays
        BY DEF PhoneSays
      <4>. QED  BY <3>1, <4>1, PhoneIsRead, PhoneSaysReadable
    <3>2. CASE \E m, seq, last, data :
                  /\ data \in {<<>>, <<seq>>}
                  /\ PhoneSends(m, AsBinary(PhoneChunkFrame(UpId, seq, last, data)))
      <4>1. PICK m, seq, last, data :
                  /\ data \in {<<>>, <<seq>>}
                  /\ PhoneSends(m, AsBinary(PhoneChunkFrame(UpId, seq, last, data)))
        BY <3>2
      <4>2. data \in Seq({seq})
        <5>1. <<>> \in Seq({seq}) /\ <<seq>> \in Seq({seq})
          OBVIOUS
        <5>. QED  BY <4>1, <5>1
      <4>3. ReadableBy(PcTakes, AsBinary(PhoneChunkFrame(UpId, seq, last, data)))
        BY <4>2, ChunkReadable DEF PhoneChunkFrame
      <4>. QED  BY <4>1, <4>3, PhoneSaysReadable
    <3>. QED  BY <1>8, <3>1, <3>2 DEF Upload
  <2>3. UpReadable'
    BY <2>1, <2>2 DEF UpReadable
  <2>. QED  BY <2>1, <2>3, DownKept DEF downVars, pcQueues, relayVars, NothingRefused
<1>9. CASE PcTalks
  <2>1. UNCHANGED <<outboxVideo, outboxBulk, relayVars, socket, upVars, refused, committed>>
    BY <1>9 DEF PcTalks, textIdle, textVars
  <2>2. PICK name \in DOMAIN PcSays : \E body \in PcWrites(PcSays[name]) :
           PcSendsText(TextMsg(name, body, 0))
    BY <1>9 DEF PcTalks
  <2>3. Queued(PhoneTakes, outbox')
    BY <2>2, PcIsRead, PcTextQueued
  <2>4. DownReadable'
    BY <2>1, <2>3 DEF DownReadable, relayVars
  <2>. QED  BY <2>1, <2>4, UpKept DEF upVars, NothingRefused
<1>10. CASE PhoneTalks
  <2>1. UNCHANGED <<downVars, toHost, refused, committed>>
    BY <1>10 DEF PhoneTalks, textIdle, textVars
  <2>2. PICK name \in DOMAIN PhoneSays : \E body \in PhoneWrites(PhoneSays[name]) :
           LET m == TextMsg(name, body, 0) IN PhoneSends(m, AsText(m))
    BY <1>10 DEF PhoneTalks
  <2>3. Queued(PcTakes, upSocket')
    BY <2>2, PhoneIsRead, PhoneSaysReadable
  <2>4. UpReadable'
    BY <2>1, <2>3 DEF UpReadable
  <2>. QED  BY <2>1, <2>4, DownKept DEF downVars, pcQueues, relayVars, NothingRefused
<1>. QED  BY <1>1, <1>2, <1>3, <1>4, <1>5, <1>6, <1>7, <1>8, <1>9, <1>10

\* The phone's text field.
LEMMA FieldSaysReadable ==
    ASSUME WireInv, FieldChanges
    PROVE  WireInv'
<1>1. UNCHANGED <<downVars, toHost, refused>>
  BY DEF FieldChanges
<1>2. Change(SendKeys)
  BY DEF FieldChanges
<1>3. committed' \in Seq(Chars)
  <2>1. PICK new \in Text : \E i \in 0..Len(new) : \E j \in i..Len(new) :
           committed' = Stable(new, i, j)
    BY <1>2 DEF Change
  <2>. QED  BY <2>1, StableIsText
<1>4. PICK keys : keys = Diff(committed, committed') /\ SendKeys(keys)
  BY <1>2 DEF Change
<1>5. Len(keys) \in Nat
  BY <1>3, <1>4, DiffCounts DEF WireInv
<1>6. PICK r : Queued(PcTakes, r) /\ upSocket' = upSocket \o r
  BY <1>4, <1>5, KeysReadable DEF SendKeys
<1>7. Queued(PcTakes, upSocket')
  BY <1>6, QueuesJoin DEF WireInv, UpReadable
<1>8. UpReadable'
  BY <1>1, <1>7 DEF WireInv, UpReadable
<1>9. DownReadable'
  BY <1>1, DownKept DEF WireInv, downVars, pcQueues, relayVars
<1>. QED  BY <1>1, <1>3, <1>8, <1>9 DEF WireInv, NothingRefused

\* The writers hand on what they take.
LEMMA MessageWrapped ==
    ASSUME NEW takes, NEW m, ReadableBy(takes, m)
    PROVE  Holds(takes, EncodeData(Phone, m.text, m.bytes))
  BY DEF Holds

\* The writer of a LAN session, and the pump of a relayed one.
LEMMA PcWritersKeep ==
    ASSUME WireInv, LanWriter \/ Pump
    PROVE  WireInv'
<1>1. PICK message : /\ ReadableBy(PhoneTakes, message)
                     /\ \/ LanWriter /\ ToSocket(message)
                        \/ Pump /\ ToTunnel(message)
                     /\ Queued(PhoneTakes, outbox') /\ Queued(PhoneTakes, outboxVideo')
                     /\ Queued(PhoneTakes, outboxBulk')
  <2>1. /\ Queued(PhoneTakes, outbox) /\ Queued(PhoneTakes, outboxVideo)
        /\ Queued(PhoneTakes, outboxBulk)
    BY DEF WireInv, DownReadable
  <2>2. CASE LanWriter
    <3>1. CASE /\ outbox # <<>> /\ ToSocket(Head(outbox)) /\ outbox' = Tail(outbox)
               /\ UNCHANGED <<outboxVideo, outboxBulk>>
      BY <2>1, <2>2, <3>1, FirstQueued
    <3>2. CASE /\ outboxVideo # <<>> /\ ToSocket(Head(outboxVideo))
               /\ outboxVideo' = Tail(outboxVideo) /\ UNCHANGED <<outbox, outboxBulk>>
      BY <2>1, <2>2, <3>2, FirstQueued
    <3>3. CASE /\ outboxBulk # <<>> /\ ToSocket(Head(outboxBulk))
               /\ outboxBulk' = Tail(outboxBulk) /\ UNCHANGED <<outbox, outboxVideo>>
      BY <2>1, <2>2, <3>3, FirstQueued
    <3>. QED  BY <2>2, <3>1, <3>2, <3>3 DEF LanWriter, Drain
  <2>3. CASE Pump
    <3>1. CASE /\ outbox # <<>> /\ ToTunnel(Head(outbox)) /\ outbox' = Tail(outbox)
               /\ UNCHANGED <<outboxVideo, outboxBulk>>
      BY <2>1, <2>3, <3>1, FirstQueued
    <3>2. CASE /\ outboxVideo # <<>> /\ ToTunnel(Head(outboxVideo))
               /\ outboxVideo' = Tail(outboxVideo) /\ UNCHANGED <<outbox, outboxBulk>>
      BY <2>1, <2>3, <3>2, FirstQueued
    <3>3. CASE /\ outboxBulk # <<>> /\ ToTunnel(Head(outboxBulk))
               /\ outboxBulk' = Tail(outboxBulk) /\ UNCHANGED <<outbox, outboxVideo>>
      BY <2>1, <2>3, <3>3, FirstQueued
    <3>. QED  BY <2>3, <3>1, <3>2, <3>3 DEF Pump, Drain
  <2>. QED  BY <2>2, <2>3
<1>2. UNCHANGED <<fast, bulk, upVars, refused, committed>>
  BY DEF LanWriter, Pump, relayVars, textIdle, textVars
<1>3. DownReadable'
  <2>1. CASE LanWriter /\ ToSocket(message)
    <3>1. Queued(PhoneTakes, socket')
      BY <1>1, <2>1, OneMoreQueued DEF ToSocket, WireInv, DownReadable
    <3>2. UNCHANGED tunnel
      BY <2>1 DEF LanWriter, relayVars
    <3>. QED  BY <1>1, <1>2, <3>1, <3>2 DEF WireInv, DownReadable
  <2>2. CASE Pump /\ ToTunnel(message)
    <3>1. Carried(PhoneTakes, tunnel')
      BY <1>1, <2>2, MessageWrapped, OneMoreCarried DEF ToTunnel, WireInv, DownReadable
    <3>2. UNCHANGED socket
      BY <2>2 DEF Pump
    <3>. QED  BY <1>1, <1>2, <3>1, <3>2 DEF WireInv, DownReadable
  <2>. QED  BY <1>1, <2>1, <2>2
<1>. QED  BY <1>2, <1>3, UpKept DEF WireInv, upVars, NothingRefused

\* What the relay passes on is what it got.
LEMMA RelayKeeps ==
    ASSUME WireInv, RelayRoutes \/ RelayWriter \/ RelayReader
    PROVE  WireInv'
<1>1. CASE RelayRoutes
  <2>1. PICK m : /\ m = [text |-> Decode(Head(tunnel)).text,
                         bytes |-> Decode(Head(tunnel)).payload]
                 /\ \/ bulk' = Append(bulk, m) /\ UNCHANGED fast
                    \/ fast' = Append(fast, m) /\ UNCHANGED bulk
                    \/ UNCHANGED <<fast, bulk>>
    BY <1>1 DEF RelayRoutes
  <2>2. tunnel # <<>> /\ tunnel' = Tail(tunnel)
    BY <1>1 DEF RelayRoutes
  <2>3. Holds(PhoneTakes, Head(tunnel)) /\ Carried(PhoneTakes, tunnel')
    BY <2>2, FirstCarried DEF WireInv, DownReadable
  <2>4. ReadableBy(PhoneTakes, m)
    BY <2>1, <2>3, Unwrapped
  <2>5. Queued(PhoneTakes, fast') /\ Queued(PhoneTakes, bulk')
    BY <2>1, <2>4, OneMoreQueued DEF WireInv, DownReadable
  <2>6. UNCHANGED <<pcQueues, socket, upVars, refused, committed>>
    BY <1>1 DEF RelayRoutes, textIdle, textVars
  <2>7. DownReadable'
    BY <2>3, <2>5, <2>6 DEF WireInv, DownReadable, pcQueues
  <2>. QED  BY <2>6, <2>7, UpKept DEF WireInv, upVars, NothingRefused
<1>2. CASE RelayWriter
  <2>1. UNCHANGED <<pcQueues, tunnel, upVars, refused, committed>>
    BY <1>2 DEF RelayWriter, textIdle, textVars
  <2>2. /\ Queued(PhoneTakes, fast') /\ Queued(PhoneTakes, bulk')
        /\ Queued(PhoneTakes, socket')
    <3>1. CASE fast # <<>> /\ ToSocket(Head(fast)) /\ fast' = Tail(fast) /\ UNCHANGED bulk
      BY <3>1, FirstQueued, OneMoreQueued DEF ToSocket, WireInv, DownReadable
    <3>2. CASE bulk # <<>> /\ ToSocket(Head(bulk)) /\ bulk' = Tail(bulk) /\ UNCHANGED fast
      BY <3>2, FirstQueued, OneMoreQueued DEF ToSocket, WireInv, DownReadable
    <3>. QED  BY <1>2, <3>1, <3>2 DEF RelayWriter
  <2>3. DownReadable'
    BY <2>1, <2>2 DEF WireInv, DownReadable, pcQueues
  <2>. QED  BY <2>1, <2>3, UpKept DEF WireInv, upVars, NothingRefused
<1>3. CASE RelayReader
  <2>1. UNCHANGED <<downVars, refused, committed>>
    BY <1>3 DEF RelayReader, textIdle, textVars
  <2>2. PICK m : /\ m = Head(upSocket) /\ upSocket # <<>> /\ upSocket' = Tail(upSocket)
                 /\ toHost' = Append(toHost, EncodeData(Phone, m.text, m.bytes))
    BY <1>3 DEF RelayReader
  <2>3. ReadableBy(PcTakes, m) /\ Queued(PcTakes, upSocket')
    BY <2>2, FirstQueued DEF WireInv, UpReadable
  <2>4. Carried(PcTakes, toHost')
    BY <2>2, <2>3, MessageWrapped, OneMoreCarried DEF WireInv, UpReadable
  <2>. QED  BY <2>1, <2>3, <2>4, DownKept
            DEF WireInv, UpReadable, downVars, pcQueues, relayVars, NothingRefused
<1>. QED  BY <1>1, <1>2, <1>3

\* The phone reads what it gets, and what it answers is readable.
LEMMA AnswerReadable ==
    ASSUME UpReadable, NEW name \in DOMAIN PhoneSays, NEW id, Answer(name, id)
    PROVE  Queued(PcTakes, upSocket')
<1>1. PICK body \in PhoneWrites(PhoneSays[name]) :
         LET m == TextMsg(name, body, id) IN PhoneSends(m, AsText(m))
  BY DEF Answer
<1>. QED  BY <1>1, PhoneIsRead, PhoneSaysReadable

\* The phone's onMessage.
LEMMA PhoneHearsReadable ==
    ASSUME WireInv, PhoneHears
    PROVE  WireInv'
<1>0. DownReadable /\ UpReadable
  BY DEF WireInv
<1>1. UNCHANGED <<pcQueues, relayVars, toHost, committed>>
  BY DEF PhoneHears, textIdle, textVars
<1>2. PICK m : /\ m = Head(socket) /\ socket # <<>> /\ socket' = Tail(socket)
               /\ IF m.text THEN HearText(m.bytes[1]) ELSE HearBytes(m.bytes)
  BY DEF PhoneHears
<1>3. ReadableBy(PhoneTakes, m) /\ Queued(PhoneTakes, socket')
  BY <1>0, <1>2, FirstQueued DEF DownReadable
<1>4. {"file_send_accepted", "file_send_complete"} \subseteq DOMAIN PhoneSays
  BY DEF PhoneSays
<1>5. refused' = refused /\ Queued(PcTakes, upSocket')
  <2>0. ASSUME NoAnswer PROVE Queued(PcTakes, upSocket')
    BY <1>0, <2>0 DEF NoAnswer, UpReadable
  <2>1. CASE m.text = TRUE
    <3>1. PICK t : m.bytes = <<t>> /\ Reads(PhoneTakes[t.name], t.body)
      BY <1>3, <2>1 DEF ReadableBy
    <3>2. HearText(t)
      BY <1>2, <2>1, <3>1
    <3>3. /\ refused' = refused
          /\ Answer("file_send_accepted", t.arg) \/ NoAnswer
      BY <3>1, <3>2 DEF HearText
    <3>. QED  BY <1>0, <1>4, <2>0, <3>3, AnswerReadable
  <2>2. CASE m.text = FALSE
    <3>1. HearBytes(m.bytes)
      BY <1>2, <2>2
    <3>2. refused' = refused
      BY <3>1 DEF HearBytes
    <3>3. NoAnswer \/ \E id : Answer("file_send_complete", id)
      BY <3>1 DEF HearBytes, HearChunk
    <3>. QED  BY <1>0, <1>4, <2>0, <3>2, <3>3, AnswerReadable
  <2>. QED  BY <1>3, <2>1, <2>2 DEF ReadableBy
<1>6. DownReadable'
  BY <1>0, <1>1, <1>3 DEF DownReadable, pcQueues, relayVars
<1>7. UpReadable'
  BY <1>0, <1>1, <1>5 DEF UpReadable
<1>. QED  BY <1>1, <1>5, <1>6, <1>7 DEF WireInv, NothingRefused

\* The PC reads what it gets, and what it answers is readable.
LEMMA PcAnswerReadable ==
    ASSUME DownReadable, NEW name \in DOMAIN PcSays, NEW id, PcAnswers(name, id)
    PROVE  Queued(PhoneTakes, outbox')
<1>1. PICK body \in PcWrites(PcSays[name]) : PcSendsText(TextMsg(name, body, id))
  BY DEF PcAnswers
<1>. QED  BY <1>1, PcIsRead, PcTextQueued

\* The PC's run_connection.
LEMMA PcTakesReadable ==
    ASSUME WireInv, PcTakesMessage
    PROVE  WireInv'
<1>0. DownReadable /\ UpReadable
  BY DEF WireInv
<1>1. UNCHANGED <<outboxVideo, outboxBulk, relayVars, socket>>
  BY DEF PcTakesMessage
<1>2. PICK m : /\ ReadableBy(PcTakes, m)
               /\ IF m.text THEN TakeText(m.bytes[1]) ELSE TakeBytes(m.bytes)
               /\ Queued(PcTakes, upSocket') /\ Carried(PcTakes, toHost')
  <2>1. CASE /\ upSocket # <<>> /\ upSocket' = Tail(upSocket) /\ UNCHANGED toHost
             /\ LET m == Head(upSocket)
                IN  IF m.text THEN TakeText(m.bytes[1]) ELSE TakeBytes(m.bytes)
    BY <1>0, <2>1, FirstQueued DEF UpReadable
  <2>2. CASE /\ toHost # <<>> /\ toHost' = Tail(toHost) /\ UNCHANGED upSocket
             /\ LET d == Decode(Head(toHost))
                IN  IF d.text THEN TakeText(d.payload[1]) ELSE TakeBytes(d.payload)
    <3>1. PICK d : d = Decode(Head(toHost))
      OBVIOUS
    <3>2. PICK m : m = [text |-> d.text, bytes |-> d.payload]
      OBVIOUS
    <3>3. Holds(PcTakes, Head(toHost)) /\ Carried(PcTakes, toHost')
      BY <1>0, <2>2, FirstCarried DEF UpReadable
    <3>4. ReadableBy(PcTakes, m)
      BY <3>1, <3>2, <3>3, Unwrapped
    <3>5. IF m.text THEN TakeText(m.bytes[1]) ELSE TakeBytes(m.bytes)
      BY <2>2, <3>1, <3>2
    <3>. QED  BY <1>0, <2>2, <3>3, <3>4, <3>5 DEF UpReadable
  <2>. QED  BY <2>1, <2>2 DEF PcTakesMessage
<1>3. {"file_transfer_accepted", "file_transfer_complete"} \subseteq DOMAIN PcSays
  BY DEF PcSays
<1>4. UNCHANGED <<refused, committed>> /\ Queued(PhoneTakes, outbox')
  <2>0. ASSUME PcSilent PROVE Queued(PhoneTakes, outbox')
    BY <1>0, <2>0 DEF PcSilent, DownReadable
  <2>1. CASE m.text = TRUE
    <3>1. PICK t : m.bytes = <<t>> /\ Reads(PcTakes[t.name], t.body)
      BY <1>2, <2>1 DEF ReadableBy
    <3>2. TakeText(t)
      BY <1>2, <2>1, <3>1
    <3>3. /\ refused' = refused
          /\ PcAnswers("file_transfer_accepted", t.arg) \/ PcSilent
      BY <3>1, <3>2 DEF TakeText
    <3>4. committed' = committed
      BY <3>1, <3>2 DEF TakeText, Inject, textIdle, textVars
    <3>. QED  BY <1>0, <1>3, <2>0, <3>3, <3>4, PcAnswerReadable
  <2>2. CASE m.text = FALSE
    <3>1. TakeBytes(m.bytes)
      BY <1>2, <2>2
    <3>2. UNCHANGED <<refused, committed>>
      BY <3>1 DEF TakeBytes, textIdle, textVars
    <3>3. PcSilent \/ \E id : PcAnswers("file_transfer_complete", id)
      BY <3>1 DEF TakeBytes
    <3>. QED  BY <1>0, <1>3, <2>0, <3>2, <3>3, PcAnswerReadable
  <2>. QED  BY <1>2, <2>1, <2>2 DEF ReadableBy
<1>5. DownReadable'
  BY <1>0, <1>1, <1>4 DEF DownReadable, relayVars
<1>6. UpReadable'
  BY <1>2 DEF UpReadable
<1>. QED  BY <1>4, <1>5, <1>6 DEF WireInv, NothingRefused

\* Every step of the session.
LEMMA WireInvStep ==
    ASSUME WireInv, [WireNext]_allVars
    PROVE  WireInv'
<1>1. CASE \/ EncoderStep \/ TakeAsked \/ PictureOut \/ SoundOut \/ RequestKeyframe
           \/ AnnounceFile \/ PushChunk \/ Upload \/ PcTalks \/ PhoneTalks
  BY <1>1, SpeakersSayReadable
<1>2. CASE FieldChanges
  BY <1>2, FieldSaysReadable
<1>3. CASE LanWriter \/ Pump
  BY <1>3, PcWritersKeep
<1>4. CASE RelayRoutes \/ RelayWriter \/ RelayReader
  BY <1>4, RelayKeeps
<1>5. CASE PhoneHears
  BY <1>5, PhoneHearsReadable
<1>6. CASE PcTakesMessage
  BY <1>6, PcTakesReadable
<1>7. CASE UNCHANGED allVars
  <2>1. UNCHANGED <<downVars, upVars, refused, committed>>
    BY <1>7 DEF allVars, wireVars, textVars
  <2>. QED  BY <2>1, DownKept, UpKept
            DEF WireInv, downVars, pcQueues, relayVars, upVars, NothingRefused
<1>. QED  BY <1>1, <1>2, <1>3, <1>4, <1>5, <1>6, <1>7 DEF WireNext

\* No text that one end writes is refused by the other, whatever the route, the
\* number of messages on the way and the length of the queues: the four tables
\* of protocol.rs and Protocol.kt agree, and the tunnel and the relay's queues
\* keep a text a text (run_connection, PcClient.onMessage).
THEOREM NothingIsRefused == WireSpec => []NothingRefused
<1>1. WireInv => NothingRefused
  BY DEF WireInv
<1>. QED  BY <1>1, WireStarts, WireInvStep, PTL DEF WireSpec

-----------------------------------------------------------------------------
(***************************************************************************)
(* The lanes: whatever the route, what the phone takes is in each lane     *)
(* what the PC said, in its order (LanesKept).                             *)
(*                                                                         *)
(* The messages said are numbered.  A number is in one of eight places of  *)
(* the way: what was heard, the socket, the relay's two queues, the tunnel *)
(* and the PC's three queues, in this order.  Numbers that must keep their *)
(* order stand in it, all along the way; and a step puts a new number      *)
(* behind its lane, passes one on, or leaves out a picture or a sound.     *)
(***************************************************************************)
Place == 1..8

\* Of two messages with these lanes, n has to come behind m.
Follows(lanes, n, m) ==
    m < n /\ (lanes[m] = lanes[n] \/ (lanes[m] = "text" /\ lanes[n] = "bulk"))

\* What may be in a place.
MayHold(a, lane) ==
    /\ a \in {3, 7} => lane = "fast"
    /\ a = 4 => lane # "fast"
    /\ a = 6 => lane = "text"
    /\ a = 8 => lane = "bulk"

Ahead(a, i, b, j) == a < b \/ (a = b /\ i < j)

LaneOrder(N, lanes) ==
    /\ N \in [Place -> Seq(Nat)]
    /\ \A a \in Place : \A i \in 1..Len(N[a]) :
          N[a][i] \in 1..Len(lanes) /\ MayHold(a, lanes[N[a][i]])
    /\ \A a, b \in Place : \A i \in 1..Len(N[a]) : \A j \in 1..Len(N[b]) :
          Ahead(a, i, b, j) => N[a][i] # N[b][j] /\ ~Follows(lanes, N[a][i], N[b][j])
    /\ \A n \in 1..Len(lanes) :
          lanes[n] # "fast" => \E a \in Place : \E i \in 1..Len(N[a]) : N[a][i] = n

\* A number passed on from b to a.
PassedOn(N, a, b) ==
    [N EXCEPT ![a] = Append(N[a], Head(N[b])), ![b] = Tail(N[b])]

\* Nothing between the two has to stay ahead of it.
Passable(N, lanes, a, b) ==
    /\ a < b /\ N[b] # <<>> /\ MayHold(a, lanes[Head(N[b])])
    /\ \A c \in Place : \A k \in 1..Len(N[c]) :
          a < c /\ c < b => lanes[Head(N[b])] = "fast" /\ lanes[N[c][k]] # "fast"

LEMMA PassKeepsOrder ==
    ASSUME NEW lanes, NEW N, LaneOrder(N, lanes), NEW a \in Place, NEW b \in Place,
           Passable(N, lanes, a, b)
    PROVE  LaneOrder(PassedOn(N, a, b), lanes)
<1>1. PICK M : M = PassedOn(N, a, b)
  OBVIOUS
<1>2. a # b /\ N[b] # <<>> /\ \A c \in Place : c \in Nat
  BY DEF Passable, Place
<1>3. N \in [Place -> Seq(Nat)] /\ N[a] \in Seq(Nat) /\ N[b] \in Seq(Nat)
  BY DEF LaneOrder
<1>4. PICK x, low : x = Head(N[b]) /\ low = Tail(N[b])
  OBVIOUS
<1>5. PICK lb \in Nat : lb = Len(N[b])
  BY <1>3, LenProperties
<1>6. /\ lb > 0 /\ x = N[b][1] /\ x \in Nat
      /\ low \in Seq(Nat) /\ Len(low) = lb - 1
      /\ \A i \in 1..lb - 1 : low[i] = N[b][i + 1]
  BY <1>2, <1>3, <1>4, <1>5, HeadTailProperties, EmptySeq
<1>7. PICK high : high = Append(N[a], x)
  OBVIOUS
<1>8. PICK la \in Nat : la = Len(N[a])
  BY <1>3, LenProperties
<1>9. /\ high \in Seq(Nat) /\ Len(high) = la + 1 /\ high[la + 1] = x
      /\ \A i \in 1..la : high[i] = N[a][i]
  BY <1>3, <1>6, <1>7, <1>8, AppendProperties
<1>10. /\ M \in [Place -> Seq(Nat)] /\ M[a] = high /\ M[b] = low
       /\ \A c \in Place : c # a /\ c # b => M[c] = N[c]
  <2>1. M = [N EXCEPT ![a] = high, ![b] = low]
    BY <1>1, <1>4, <1>7 DEF PassedOn
  <2>2. PICK S : S = Seq(Nat)
    OBVIOUS
  <2>3. N \in [Place -> S] /\ high \in S /\ low \in S
    BY <1>3, <1>6, <1>9, <2>2
  <2>. QED  BY <1>2, <2>1, <2>2, <2>3
\* Where the number that is now at a place was.
<1> DEFINE Was(c, i, d, j) ==
              \/ c = a /\ i = la + 1 /\ d = b /\ j = 1
              \/ c = a /\ i # la + 1 /\ d = c /\ j = i
              \/ c = b /\ d = b /\ j = i + 1
              \/ c # a /\ c # b /\ d = c /\ j = i
<1>11. \A c \in Place : \A i \in 1..Len(M[c]) : i \in Nat /\ i > 0
  BY <1>10, LenProperties
<1>12. \A c \in Place : \A i \in 1..Len(M[c]) : \E d \in Place : \E j \in 1..Len(N[d]) :
          Was(c, i, d, j) /\ M[c][i] = N[d][j]
  <2> SUFFICES ASSUME NEW c \in Place, NEW i \in 1..Len(M[c])
               PROVE  \E d \in Place : \E j \in 1..Len(N[d]) :
                         Was(c, i, d, j) /\ M[c][i] = N[d][j]
    OBVIOUS
  <2>0. i \in Nat /\ i > 0
    BY <1>11
  <2>1. CASE c = a /\ i = la + 1
    <3>1. 1 \in 1..Len(N[b]) /\ M[c][i] = N[b][1]
      BY <1>5, <1>6, <1>9, <1>10, <2>1
    <3>2. Was(c, i, b, 1)
      BY <2>1
    <3>. QED  BY <3>1, <3>2
  <2>2. CASE c = a /\ i # la + 1
    <3>1. i \in 1..la + 1
      BY <1>9, <1>10, <2>2
    <3>2. i \in 1..la
      BY <2>2, <3>1
    <3>3. Was(c, i, c, i) /\ M[c][i] = N[c][i] /\ i \in 1..Len(N[c])
      BY <1>8, <1>9, <1>10, <2>2, <3>2
    <3>. QED  BY <3>3
  <2>3. CASE c = b
    <3>1. i \in 1..lb - 1
      BY <1>6, <1>10, <2>3
    <3>2. i + 1 \in 1..lb
      BY <3>1
    <3>3. Was(c, i, b, i + 1)
      BY <2>3
    <3>4. M[c][i] = N[b][i + 1]
      BY <1>6, <1>10, <2>3, <3>1
    <3>. QED  BY <1>5, <3>2, <3>3, <3>4
  <2>4. CASE c # a /\ c # b
    <3>1. Was(c, i, c, i) /\ M[c] = N[c]
      BY <1>10, <2>4
    <3>. QED  BY <3>1
  <2>. QED  BY <2>1, <2>2, <2>3, <2>4
<1>13. \A c \in Place : \A i \in 1..Len(M[c]) :
          M[c][i] \in 1..Len(lanes) /\ MayHold(c, lanes[M[c][i]])
  <2> SUFFICES ASSUME NEW c \in Place, NEW i \in 1..Len(M[c])
               PROVE  M[c][i] \in 1..Len(lanes) /\ MayHold(c, lanes[M[c][i]])
    OBVIOUS
  <2>1. PICK d \in Place : \E j \in 1..Len(N[d]) : Was(c, i, d, j) /\ M[c][i] = N[d][j]
    BY <1>12
  <2>2. PICK j \in 1..Len(N[d]) : Was(c, i, d, j) /\ M[c][i] = N[d][j]
    BY <2>1
  <2>3. N[d][j] \in 1..Len(lanes) /\ MayHold(d, lanes[N[d][j]])
    BY DEF LaneOrder
  <2>4. CASE d = c
    BY <2>2, <2>3, <2>4
  <2>5. CASE d # c
    <3>1. c = a /\ i = la + 1
      BY <2>2, <2>5
    <3>2. M[c][i] = x
      BY <1>9, <1>10, <3>1
    <3>3. MayHold(a, lanes[x])
      BY <1>4 DEF Passable
    <3>. QED  BY <2>2, <2>3, <3>1, <3>2, <3>3
  <2>. QED  BY <2>4, <2>5
<1>14. \A c, d \in Place : \A i \in 1..Len(M[c]) : \A j \in 1..Len(M[d]) :
          Ahead(c, i, d, j) => M[c][i] # M[d][j] /\ ~Follows(lanes, M[c][i], M[d][j])
  <2> SUFFICES ASSUME NEW c \in Place, NEW d \in Place, NEW i \in 1..Len(M[c]),
                      NEW j \in 1..Len(M[d]), Ahead(c, i, d, j)
               PROVE  M[c][i] # M[d][j] /\ ~Follows(lanes, M[c][i], M[d][j])
    OBVIOUS
  <2>0. i \in Nat /\ j \in Nat /\ c \in Nat /\ d \in Nat /\ a \in Nat /\ b \in Nat
    BY <1>2, <1>11
  <2>1. PICK c1 \in Place : \E i1 \in 1..Len(N[c1]) : Was(c, i, c1, i1) /\ M[c][i] = N[c1][i1]
    BY <1>12
  <2>2. PICK i1 \in 1..Len(N[c1]) : Was(c, i, c1, i1) /\ M[c][i] = N[c1][i1]
    BY <2>1
  <2>3. PICK d1 \in Place : \E j1 \in 1..Len(N[d1]) : Was(d, j, d1, j1) /\ M[d][j] = N[d1][j1]
    BY <1>12
  <2>4. PICK j1 \in 1..Len(N[d1]) : Was(d, j, d1, j1) /\ M[d][j] = N[d1][j1]
    BY <2>3
  <2>5. CASE Ahead(c1, i1, d1, j1)
    <3>1. N[c1][i1] # N[d1][j1] /\ ~Follows(lanes, N[c1][i1], N[d1][j1])
      BY <2>5 DEF LaneOrder
    <3>. QED  BY <2>2, <2>4, <3>1
  <2>6. CASE ~Ahead(c1, i1, d1, j1)
    \* Only the number passed on is ahead of more than it was.
    <3>1. CASE c = a /\ i = la + 1
      <4>1. j <= la + 1 \/ d # a
        <5>1. CASE d = a
          <6>1. j \in 1..la + 1
            BY <1>9, <1>10, <5>1
          <6>. QED  BY <6>1
        <5>. QED  BY <5>1
      <4>2. d # a /\ a < d
        BY <2>0, <3>1, <4>1 DEF Ahead
      <4>3. c1 = b /\ i1 = 1
        BY <1>2, <2>2, <3>1
      <4>4. d # b
        <5>1. CASE d = b
          <6>1. d1 = b /\ j1 = j + 1
            BY <1>2, <2>4, <5>1
          <6>2. j >= 1
            BY <1>11
          <6>3. Ahead(b, 1, b, j + 1)
            BY <2>0, <6>2 DEF Ahead
          <6>. QED  BY <2>6, <4>3, <6>1, <6>3
        <5>. QED  BY <5>1
      <4>5. d1 = d /\ j1 = j
        BY <2>4, <4>2, <4>4
      <4>6. d < b
        BY <2>0, <2>6, <4>3, <4>4, <4>5 DEF Ahead
      <4>7. M[c][i] = x /\ M[d] = N[d]
        BY <1>9, <1>10, <3>1, <4>2, <4>4
      <4>8. lanes[x] = "fast" /\ lanes[M[d][j]] # "fast"
        <5>1. lanes[Head(N[b])] = "fast" /\ lanes[N[d][j]] # "fast"
          BY <4>2, <4>6, <4>7 DEF Passable
        <5>. QED  BY <1>4, <4>7, <5>1
      <4>9. M[c][i] # M[d][j]
        BY <4>7, <4>8
      <4>10. ~Follows(lanes, M[c][i], M[d][j])
        BY <4>7, <4>8 DEF Follows
      <4>. QED  BY <4>9, <4>10
    <3>2. CASE ~(c = a /\ i = la + 1)
      <4>1. c1 = c /\ (i1 = i \/ (c = b /\ i1 = i + 1))
        BY <2>2, <3>2
      <4>2. CASE d = a /\ j = la + 1
        <5>1. d1 = b /\ j1 = 1
          BY <1>2, <2>4, <4>2
        <5>2. a < b
          BY DEF Passable
        <5>3. c = a \/ c < a
          BY <2>0, <4>2 DEF Ahead
        <5>4. Ahead(c1, i1, d1, j1)
          BY <2>0, <4>1, <5>1, <5>2, <5>3 DEF Ahead
        <5>. QED  BY <2>6, <5>4
      <4>3. CASE ~(d = a /\ j = la + 1)
        <5>1. d1 = d /\ (j1 = j \/ (d = b /\ j1 = j + 1))
          BY <2>4, <4>3
        <5>2. c = d => (i1 = i /\ j1 = j) \/ (i1 = i + 1 /\ j1 = j + 1)
          BY <1>2, <2>2, <2>4, <3>2, <4>3
        <5>3. Ahead(c1, i1, d1, j1)
          BY <2>0, <4>1, <5>1, <5>2 DEF Ahead
        <5>. QED  BY <2>6, <5>3
      <4>. QED  BY <4>2, <4>3
    <3>. QED  BY <3>1, <3>2
  <2>. QED  BY <2>5, <2>6
<1>15. \A n \in 1..Len(lanes) :
          lanes[n] # "fast" => \E c \in Place : \E i \in 1..Len(M[c]) : M[c][i] = n
  <2> SUFFICES ASSUME NEW n \in 1..Len(lanes), lanes[n] # "fast"
               PROVE  \E c \in Place : \E i \in 1..Len(M[c]) : M[c][i] = n
    OBVIOUS
  <2>1. PICK c \in Place : \E i \in 1..Len(N[c]) : N[c][i] = n
    BY DEF LaneOrder
  <2>2. PICK i \in 1..Len(N[c]) : N[c][i] = n
    BY <2>1
  <2>3. i \in Nat /\ i > 0
    <3>1. Len(N[c]) \in Nat
      BY <1>3, LenProperties
    <3>. QED  BY <3>1
  <2>4. CASE c = b /\ i = 1
    <3>1. la + 1 \in 1..Len(M[a]) /\ M[a][la + 1] = n
      BY <1>6, <1>9, <1>10, <2>2, <2>4
    <3>. QED  BY <3>1
  <2>5. CASE c = b /\ i # 1
    <3>1. PICK k \in Nat : k = i - 1 /\ i = k + 1
      BY <2>3
    <3>2. i \in 1..lb
      BY <1>5, <2>5
    <3>3. k \in 1..lb - 1
      BY <2>3, <2>5, <3>1, <3>2
    <3>4. k \in 1..Len(M[b]) /\ M[b][k] = n
      BY <1>6, <1>10, <2>2, <2>5, <3>1, <3>3
    <3>. QED  BY <3>4
  <2>6. CASE c = a
    <3>1. i \in 1..la
      BY <1>8, <2>6
    <3>2. i \in 1..la + 1
      BY <3>1
    <3>3. i \in 1..Len(M[a]) /\ M[a][i] = n
      BY <1>9, <1>10, <2>2, <2>6, <3>1, <3>2
    <3>. QED  BY <3>3
  <2>7. CASE c # a /\ c # b
    BY <1>10, <2>2, <2>7
  <2>. QED  BY <2>4, <2>5, <2>6, <2>7
<1>. QED  BY <1>1, <1>10, <1>13, <1>14, <1>15 DEF LaneOrder

\* A number put behind those of a place, with what is sent.
PutIn(N, a, n) == [N EXCEPT ![a] = Append(N[a], n)]

\* What is said last goes to one of the PC's queues, or is dropped.
LEMMA PutKeepsOrder ==
    ASSUME NEW L, NEW lanes \in Seq(L), NEW lane \in L, NEW N, LaneOrder(N, lanes),
           NEW a \in {6, 7, 8}, MayHold(a, lane)
    PROVE  LaneOrder(PutIn(N, a, Len(lanes) + 1), Append(lanes, lane))
<1>1. PICK M : M = PutIn(N, a, Len(lanes) + 1)
  OBVIOUS
<1>2. a \in Place /\ \A c \in Place : c \in Nat
  BY DEF Place
<1>3. N \in [Place -> Seq(Nat)] /\ N[a] \in Seq(Nat)
  BY <1>2 DEF LaneOrder
<1>4. PICK n, more : n \in Nat /\ n = Len(lanes) /\ more = Append(lanes, lane)
  BY LenProperties
<1>5. /\ Len(more) = n + 1 /\ more[n + 1] = lane
      /\ \A m \in 1..n : more[m] = lanes[m]
  BY <1>4, AppendProperties
<1>6. PICK all : all = Append(N[a], n + 1)
  OBVIOUS
<1>7. PICK la \in Nat : la = Len(N[a])
  BY <1>3, LenProperties
<1>8. /\ all \in Seq(Nat) /\ Len(all) = la + 1 /\ all[la + 1] = n + 1
      /\ \A i \in 1..la : all[i] = N[a][i]
  BY <1>3, <1>4, <1>6, <1>7, AppendProperties
<1>9. /\ M \in [Place -> Seq(Nat)] /\ M[a] = all
      /\ \A c \in Place : c # a => M[c] = N[c]
  <2>1. M = [N EXCEPT ![a] = all]
    BY <1>1, <1>4, <1>6 DEF PutIn
  <2>2. PICK S : S = Seq(Nat)
    OBVIOUS
  <2>3. N \in [Place -> S] /\ all \in S
    BY <1>3, <1>8, <2>2
  <2>. QED  BY <1>2, <2>1, <2>2, <2>3
<1>10. \A c \in Place : \A i \in 1..Len(M[c]) : i \in Nat /\ i > 0
  BY <1>9, LenProperties
\* A number that was there, or the new one.
<1> DEFINE Old(c, i) == i \in 1..Len(N[c]) /\ M[c][i] = N[c][i]
           New(c, i) == c = a /\ i = la + 1 /\ M[c][i] = n + 1
<1>11. \A c \in Place : \A i \in 1..Len(M[c]) : Old(c, i) \/ New(c, i)
  <2> SUFFICES ASSUME NEW c \in Place, NEW i \in 1..Len(M[c]) PROVE Old(c, i) \/ New(c, i)
    OBVIOUS
  <2>1. CASE c = a
    <3>1. i \in 1..la + 1
      BY <1>8, <1>9, <2>1
    <3>2. CASE i \in 1..la
      BY <1>7, <1>8, <1>9, <2>1, <3>2
    <3>3. CASE i = la + 1
      BY <1>8, <1>9, <2>1, <3>3
    <3>. QED  BY <3>1, <3>2, <3>3
  <2>2. CASE c # a
    BY <1>9, <2>2
  <2>. QED  BY <2>1, <2>2
<1>12. \A c \in Place : \A i \in 1..Len(N[c]) :
          /\ N[c][i] \in 1..n /\ more[N[c][i]] = lanes[N[c][i]]
          /\ MayHold(c, more[N[c][i]])
  BY <1>4, <1>5 DEF LaneOrder
<1>13. \A c \in Place : \A i \in 1..Len(M[c]) :
          M[c][i] \in 1..Len(more) /\ MayHold(c, more[M[c][i]])
  <2> SUFFICES ASSUME NEW c \in Place, NEW i \in 1..Len(M[c])
               PROVE  M[c][i] \in 1..Len(more) /\ MayHold(c, more[M[c][i]])
    OBVIOUS
  <2>1. CASE Old(c, i)
    <3>1. M[c][i] \in 1..n /\ MayHold(c, more[M[c][i]])
      BY <1>12, <2>1
    <3>. QED  BY <1>4, <1>5, <3>1
  <2>2. CASE New(c, i)
    BY <1>4, <1>5, <2>2
  <2>. QED  BY <1>11, <2>1, <2>2
<1>14. \A c, d \in Place : \A i \in 1..Len(M[c]) : \A j \in 1..Len(M[d]) :
          Ahead(c, i, d, j) => M[c][i] # M[d][j] /\ ~Follows(more, M[c][i], M[d][j])
  <2> SUFFICES ASSUME NEW c \in Place, NEW d \in Place, NEW i \in 1..Len(M[c]),
                      NEW j \in 1..Len(M[d]), Ahead(c, i, d, j)
               PROVE  M[c][i] # M[d][j] /\ ~Follows(more, M[c][i], M[d][j])
    OBVIOUS
  <2>0. i \in Nat /\ j \in Nat /\ c \in Nat /\ d \in Nat
    BY <1>2, <1>10
  <2>1. CASE Old(c, i) /\ Old(d, j)
    <3>1. /\ N[c][i] # N[d][j] /\ ~Follows(lanes, N[c][i], N[d][j])
      BY <2>1 DEF LaneOrder
    <3>2. more[N[c][i]] = lanes[N[c][i]] /\ more[N[d][j]] = lanes[N[d][j]]
      BY <1>12, <2>1
    <3>. QED  BY <2>1, <3>1, <3>2 DEF Follows
  <2>2. CASE Old(c, i) /\ New(d, j)
    <3>1. M[c][i] \in 1..n /\ M[d][j] = n + 1
      BY <1>12, <2>2
    <3>. QED  BY <1>4, <3>1 DEF Follows
  <2>3. CASE New(c, i) /\ Old(d, j)
    <3>1. M[d][j] \in 1..n /\ M[c][i] = n + 1 /\ more[n + 1] = lane
      BY <1>5, <1>12, <2>3
    <3>2. a < d
      <4>1. CASE d = a
        <5>1. j \in 1..la
          BY <1>7, <2>3, <4>1
        <5>. QED  BY <2>0, <2>3, <4>1, <5>1 DEF Ahead
      <4>2. CASE d # a
        BY <2>0, <2>3, <4>2 DEF Ahead
      <4>. QED  BY <4>1, <4>2
    <3>3. MayHold(d, more[M[d][j]])
      BY <1>12, <2>3
    <3>4. \/ a = 6 /\ lane = "text" /\ d = 7 /\ more[M[d][j]] = "fast"
          \/ a = 6 /\ lane = "text" /\ d = 8 /\ more[M[d][j]] = "bulk"
          \/ a = 7 /\ lane = "fast" /\ d = 8 /\ more[M[d][j]] = "bulk"
      BY <3>2, <3>3 DEF MayHold, Place
    <3>. QED  BY <3>1, <3>4 DEF Follows
  <2>4. CASE New(c, i) /\ New(d, j)
    BY <2>0, <2>4 DEF Ahead
  <2>. QED  BY <1>11, <2>1, <2>2, <2>3, <2>4
<1>15. \A m \in 1..Len(more) :
          more[m] # "fast" => \E c \in Place : \E i \in 1..Len(M[c]) : M[c][i] = m
  <2> SUFFICES ASSUME NEW m \in 1..Len(more), more[m] # "fast"
               PROVE  \E c \in Place : \E i \in 1..Len(M[c]) : M[c][i] = m
    OBVIOUS
  <2>1. CASE m = n + 1
    <3>1. la + 1 \in 1..Len(M[a]) /\ M[a][la + 1] = m
      BY <1>8, <1>9, <2>1
    <3>. QED  BY <1>2, <3>1
  <2>2. CASE m # n + 1
    <3>1. m \in 1..n /\ lanes[m] # "fast"
      BY <1>4, <1>5, <2>2
    <3>2. PICK c \in Place : \E i \in 1..Len(N[c]) : N[c][i] = m
      BY <1>4, <3>1 DEF LaneOrder
    <3>3. PICK i \in 1..Len(N[c]) : N[c][i] = m
      BY <3>2
    <3>4. CASE c = a
      <4>1. i \in 1..la
        BY <1>7, <3>4
      <4>2. i \in 1..la + 1 /\ all[i] = m
        BY <1>8, <3>3, <3>4, <4>1
      <4>. QED  BY <1>8, <1>9, <3>4, <4>2
    <3>5. CASE c # a
      BY <1>9, <3>3, <3>5
    <3>. QED  BY <3>4, <3>5
  <2>. QED  BY <2>1, <2>2
<1>16. LaneOrder(M, more)
  BY <1>9, <1>13, <1>14, <1>15, Zenon DEF LaneOrder
<1>. QED  BY <1>1, <1>4, <1>16

\* A picture or a sound that is said and dropped.
LEMMA DroppedKeepsOrder ==
    ASSUME NEW L, NEW lanes \in Seq(L), "fast" \in L, NEW N, LaneOrder(N, lanes)
    PROVE  LaneOrder(N, Append(lanes, "fast"))
<1>1. PICK n, more : n \in Nat /\ n = Len(lanes) /\ more = Append(lanes, "fast")
  BY LenProperties
<1>2. /\ Len(more) = n + 1 /\ more[n + 1] = "fast"
      /\ \A m \in 1..n : more[m] = lanes[m]
  BY <1>1, AppendProperties
<1>3. N \in [Place -> Seq(Nat)]
  BY DEF LaneOrder
<1>4. \A c \in Place : \A i \in 1..Len(N[c]) :
         /\ N[c][i] \in 1..n /\ more[N[c][i]] = lanes[N[c][i]]
         /\ MayHold(c, more[N[c][i]])
  BY <1>1, <1>2 DEF LaneOrder
<1>5. \A c \in Place : \A i \in 1..Len(N[c]) : N[c][i] \in 1..Len(more)
  <2>1. 1..n \subseteq 1..n + 1
    BY <1>1
  <2>. QED  BY <1>2, <1>4, <2>1
<1>6. \A c, d \in Place : \A i \in 1..Len(N[c]) : \A j \in 1..Len(N[d]) :
         Ahead(c, i, d, j) => N[c][i] # N[d][j] /\ ~Follows(more, N[c][i], N[d][j])
  <2> SUFFICES ASSUME NEW c \in Place, NEW d \in Place, NEW i \in 1..Len(N[c]),
                      NEW j \in 1..Len(N[d]), Ahead(c, i, d, j)
               PROVE  N[c][i] # N[d][j] /\ ~Follows(more, N[c][i], N[d][j])
    OBVIOUS
  <2>1. N[c][i] # N[d][j] /\ ~Follows(lanes, N[c][i], N[d][j])
    BY DEF LaneOrder
  <2>. QED  BY <1>4, <2>1 DEF Follows
<1>7. \A m \in 1..Len(more) :
         more[m] # "fast" => \E c \in Place : \E i \in 1..Len(N[c]) : N[c][i] = m
  <2> SUFFICES ASSUME NEW m \in 1..Len(more), more[m] # "fast"
               PROVE  \E c \in Place : \E i \in 1..Len(N[c]) : N[c][i] = m
    OBVIOUS
  <2>1. m \in 1..n /\ lanes[m] # "fast"
    BY <1>1, <1>2
  <2>. QED  BY <1>1, <2>1 DEF LaneOrder
<1>. QED  BY <1>1, <1>3, <1>4, <1>5, <1>6, <1>7 DEF LaneOrder

\* A picture or a sound that the relay drops.
LeftOut(N, b) == [N EXCEPT ![b] = Tail(N[b])]

LEMMA LeftOutKeepsOrder ==
    ASSUME NEW lanes, NEW N, LaneOrder(N, lanes), NEW b \in Place, N[b] # <<>>,
           lanes[Head(N[b])] = "fast"
    PROVE  LaneOrder(LeftOut(N, b), lanes)
<1>1. PICK M : M = LeftOut(N, b)
  OBVIOUS
<1>2. \A c \in Place : c \in Nat
  BY DEF Place
<1>3. N \in [Place -> Seq(Nat)] /\ N[b] \in Seq(Nat)
  BY DEF LaneOrder
<1>4. PICK low : low = Tail(N[b])
  OBVIOUS
<1>5. PICK lb \in Nat : lb = Len(N[b])
  BY <1>3, LenProperties
<1>6. /\ lb > 0 /\ lanes[N[b][1]] = "fast"
      /\ low \in Seq(Nat) /\ Len(low) = lb - 1
      /\ \A i \in 1..lb - 1 : low[i] = N[b][i + 1]
  BY <1>3, <1>4, <1>5, HeadTailProperties, EmptySeq
<1>7. /\ M \in [Place -> Seq(Nat)] /\ M[b] = low
      /\ \A c \in Place : c # b => M[c] = N[c]
  <2>1. M = [N EXCEPT ![b] = low]
    BY <1>1, <1>4 DEF LeftOut
  <2>2. PICK S : S = Seq(Nat)
    OBVIOUS
  <2>3. N \in [Place -> S] /\ low \in S
    BY <1>3, <1>6, <2>2
  <2>. QED  BY <2>1, <2>2, <2>3
<1>8. \A c \in Place : \A i \in 1..Len(M[c]) : i \in Nat /\ i > 0
  BY <1>7, LenProperties
<1> DEFINE Was(c, i, j) == \/ c = b /\ j = i + 1
                           \/ c # b /\ j = i
<1>9. \A c \in Place : \A i \in 1..Len(M[c]) : \E j \in 1..Len(N[c]) :
         Was(c, i, j) /\ M[c][i] = N[c][j]
  <2> SUFFICES ASSUME NEW c \in Place, NEW i \in 1..Len(M[c])
               PROVE  \E j \in 1..Len(N[c]) : Was(c, i, j) /\ M[c][i] = N[c][j]
    OBVIOUS
  <2>1. CASE c = b
    <3>1. i \in 1..lb - 1
      BY <1>6, <1>7, <2>1
    <3>2. i + 1 \in 1..lb
      BY <3>1
    <3>3. M[c][i] = N[b][i + 1] /\ Was(c, i, i + 1)
      BY <1>6, <1>7, <2>1, <3>1
    <3>. QED  BY <1>5, <2>1, <3>2, <3>3
  <2>2. CASE c # b
    BY <1>7, <2>2
  <2>. QED  BY <2>1, <2>2
<1>10. \A c \in Place : \A i \in 1..Len(M[c]) :
          M[c][i] \in 1..Len(lanes) /\ MayHold(c, lanes[M[c][i]])
  BY <1>9 DEF LaneOrder
<1>11. \A c, d \in Place : \A i \in 1..Len(M[c]) : \A j \in 1..Len(M[d]) :
          Ahead(c, i, d, j) => M[c][i] # M[d][j] /\ ~Follows(lanes, M[c][i], M[d][j])
  <2> SUFFICES ASSUME NEW c \in Place, NEW d \in Place, NEW i \in 1..Len(M[c]),
                      NEW j \in 1..Len(M[d]), Ahead(c, i, d, j)
               PROVE  M[c][i] # M[d][j] /\ ~Follows(lanes, M[c][i], M[d][j])
    OBVIOUS
  <2>0. i \in Nat /\ j \in Nat /\ c \in Nat /\ d \in Nat
    BY <1>2, <1>8
  <2>1. PICK i1 \in 1..Len(N[c]) : Was(c, i, i1) /\ M[c][i] = N[c][i1]
    BY <1>9
  <2>2. PICK j1 \in 1..Len(N[d]) : Was(d, j, j1) /\ M[d][j] = N[d][j1]
    BY <1>9
  <2>3. Ahead(c, i1, d, j1)
    BY <2>0, <2>1, <2>2 DEF Ahead
  <2>. QED  BY <2>1, <2>2, <2>3 DEF LaneOrder
<1>12. \A n \in 1..Len(lanes) :
          lanes[n] # "fast" => \E c \in Place : \E i \in 1..Len(M[c]) : M[c][i] = n
  <2> SUFFICES ASSUME NEW n \in 1..Len(lanes), lanes[n] # "fast"
               PROVE  \E c \in Place : \E i \in 1..Len(M[c]) : M[c][i] = n
    OBVIOUS
  <2>1. PICK c \in Place : \E i \in 1..Len(N[c]) : N[c][i] = n
    BY DEF LaneOrder
  <2>2. PICK i \in 1..Len(N[c]) : N[c][i] = n
    BY <2>1
  <2>3. CASE c = b
    <3>0. i \in 1..lb
      BY <1>5, <2>3
    <3>1. i # 1
      BY <1>6, <2>2, <2>3
    <3>2. PICK k \in Nat : k = i - 1 /\ i = k + 1
      BY <3>0
    <3>3. k \in 1..lb - 1
      BY <3>0, <3>1, <3>2
    <3>4. k \in 1..Len(M[b]) /\ M[b][k] = n
      BY <1>6, <1>7, <2>2, <2>3, <3>2, <3>3
    <3>. QED  BY <3>4
  <2>4. CASE c # b
    BY <1>7, <2>2, <2>4
  <2>. QED  BY <2>3, <2>4
<1>. QED  BY <1>1, <1>7, <1>10, <1>11, <1>12 DEF LaneOrder

-----------------------------------------------------------------------------
(* What the places hold *)

\* A message as it is queued, and in the tunnel.
AsSent(m) ==
    IF m.kind = "text" THEN AsText(m)
    ELSE IF m.kind = "picture" THEN AsBinary(BuildVideoFrame(m.data, m.pts, m.idr, m.idr))
    ELSE IF m.kind = "sound" THEN AsBinary(BuildAudioFrame(m.data, m.pts))
    ELSE AsBinary(BuildChunkFrame(m.id, m.seq, m.last, m.data))
Wrapped(m) == EncodeData(Phone, AsSent(m).text, AsSent(m).bytes)

\* A message as a place holds it, and those with the numbers S.
Look(a, m) == IF a = 1 THEN m ELSE IF a = 5 THEN Wrapped(m) ELSE AsSent(m)
Looks(a, S, said) == [k \in 1..Len(S) |-> Look(a, said[S[k]])]

\* One more number, one more message.
LEMMA LooksMore ==
    ASSUME NEW a, NEW S \in Seq(Nat), NEW n \in Nat, NEW said
    PROVE  Looks(a, Append(S, n), said) = Append(Looks(a, S, said), Look(a, said[n]))
<1>1. PICK l \in Nat : l = Len(S)
  BY LenProperties
<1>2. PICK T : T = Append(S, n)
  OBVIOUS
<1>3. /\ Len(T) = l + 1 /\ T[l + 1] = n
      /\ \A i \in 1..l : T[i] = S[i]
  BY <1>1, <1>2, AppendProperties
<1>4. PICK q, r, e : q = Looks(a, S, said) /\ r = Looks(a, T, said) /\ e = Look(a, said[n])
  OBVIOUS
<1>5. q = [k \in 1..l |-> Look(a, said[S[k]])]
  BY <1>1, <1>4 DEF Looks
<1>6. r = [k \in 1..l + 1 |-> Look(a, said[T[k]])]
  BY <1>3, <1>4 DEF Looks
<1>7. PICK X : X = {q[k] : k \in 1..l} \union {e}
  OBVIOUS
<1>8. q \in Seq(X) /\ Len(q) = l /\ e \in X
  BY <1>5, <1>7
<1>9. PICK p : p = Append(q, e)
  OBVIOUS
<1>10. /\ p \in Seq(X) /\ Len(p) = l + 1 /\ p[l + 1] = e
       /\ \A i \in 1..l : p[i] = q[i]
  BY <1>8, <1>9, AppendProperties
<1>11. \A i \in 1..l + 1 : r[i] = p[i]
  <2> SUFFICES ASSUME NEW i \in 1..l + 1 PROVE r[i] = p[i]
    OBVIOUS
  <2>1. CASE i \in 1..l
    <3>1. r[i] = Look(a, said[S[i]]) /\ q[i] = Look(a, said[S[i]])
      BY <1>3, <1>5, <1>6, <2>1
    <3>. QED  BY <1>10, <2>1, <3>1
  <2>2. CASE i = l + 1
    <3>1. r[i] = Look(a, said[n])
      BY <1>3, <1>6, <2>2
    <3>. QED  BY <1>4, <1>10, <2>2, <3>1
  <2>. QED  BY <2>1, <2>2
<1>12. r = p
  <2>1. r = [k \in 1..l + 1 |-> r[k]]
    BY <1>6
  <2>2. p = [k \in 1..l + 1 |-> p[k]]
    BY <1>10
  <2>. QED  BY <1>11, <2>1, <2>2
<1>. QED  BY <1>2, <1>4, <1>9, <1>12

\* One number less, one message less.
LEMMA LooksFirst ==
    ASSUME NEW a, NEW S \in Seq(Nat), NEW said, S # <<>>
    PROVE  /\ Looks(a, S, said) # <<>>
           /\ Head(Looks(a, S, said)) = Look(a, said[Head(S)])
           /\ Tail(Looks(a, S, said)) = Looks(a, Tail(S), said)
<1>1. PICK l \in Nat : l = Len(S)
  BY LenProperties
<1>2. PICK T : T = Tail(S)
  OBVIOUS
<1>3. /\ l > 0 /\ Head(S) = S[1] /\ Len(T) = l - 1
      /\ \A i \in 1..l - 1 : T[i] = S[i + 1]
  BY <1>1, <1>2, HeadTailProperties, EmptySeq
<1>4. PICK q, r : q = Looks(a, S, said) /\ r = Looks(a, T, said)
  OBVIOUS
<1>5. q = [k \in 1..l |-> Look(a, said[S[k]])]
  BY <1>1, <1>4 DEF Looks
<1>6. r = [k \in 1..l - 1 |-> Look(a, said[T[k]])]
  BY <1>3, <1>4 DEF Looks
<1>7. PICK X : X = {q[k] : k \in 1..l}
  OBVIOUS
<1>8. q \in Seq(X) /\ Len(q) = l
  BY <1>5, <1>7
<1>9. q # <<>>
  BY <1>3, <1>8, EmptySeq
<1>10. PICK p : p = Tail(q)
  OBVIOUS
<1>11. /\ Head(q) = q[1] /\ p \in Seq(X) /\ Len(p) = l - 1
       /\ \A i \in 1..l - 1 : p[i] = q[i + 1]
  BY <1>8, <1>9, <1>10, HeadTailProperties
<1>12. Head(q) = Look(a, said[Head(S)])
  BY <1>3, <1>5, <1>11
<1>13. \A i \in 1..l - 1 : r[i] = p[i]
  <2> SUFFICES ASSUME NEW i \in 1..l - 1 PROVE r[i] = p[i]
    OBVIOUS
  <2>1. i + 1 \in 1..l
    BY <1>3
  <2>2. r[i] = Look(a, said[S[i + 1]])
    BY <1>3, <1>6
  <2>3. p[i] = Look(a, said[S[i + 1]])
    BY <1>5, <1>11, <2>1
  <2>. QED  BY <2>2, <2>3
<1>14. r = p
  <2>1. r = [k \in 1..l - 1 |-> r[k]]
    BY <1>6
  <2>2. p = [k \in 1..l - 1 |-> p[k]]
    BY <1>11
  <2>. QED  BY <1>13, <2>1, <2>2
<1>. QED  BY <1>2, <1>4, <1>9, <1>10, <1>12, <1>14

\* What is said later does not change what is there.
LEMMA LooksKept ==
    ASSUME NEW a, NEW S, NEW X, NEW said \in Seq(X), NEW m \in X,
           \A k \in 1..Len(S) : S[k] \in 1..Len(said)
    PROVE  Looks(a, S, Append(said, m)) = Looks(a, S, said)
<1>1. \A i \in 1..Len(said) : Append(said, m)[i] = said[i]
  BY AppendProperties
<1>. QED  BY <1>1, Zenon DEF Looks

\* And no number is no message.
LEMMA LooksNone ==
    ASSUME NEW a, NEW S \in Seq(Nat), NEW said
    PROVE  Looks(a, S, said) = <<>> <=> S = <<>>
<1>1. PICK l \in Nat : l = Len(S)
  BY LenProperties
<1>2. CASE S = <<>>
  <2>1. l = 0
    BY <1>1, <1>2
  <2>2. Looks(a, S, said) = [k \in 1..0 |-> Look(a, said[S[k]])]
    BY <1>1, <2>1 DEF Looks
  <2>3. Looks(a, S, said) = <<>>
    BY <2>2
  <2>. QED  BY <1>2, <2>3
<1>3. CASE S # <<>>
  BY <1>3, LooksFirst
<1>. QED  BY <1>2, <1>3

-----------------------------------------------------------------------------
(* What is said, and what the phone makes of it *)

\* What the PC says: texts, pictures, sounds and chunks, so many of each.
Shaped(m, p, s, c) ==
    \/ \E name, body, arg : m = TextMsg(name, body, arg)
    \/ \E k \in 1..p : \E idr \in BOOLEAN : \E n \in Frame :
          m = Picture(Moment * k, idr, <<n>>)
    \/ \E k \in 1..s : m = Sound(Moment * k, <<k>>)
    \/ \E seq \in 0..c - 1 : m = Chunk(DownId, seq, seq = MaxChunk - 1, <<seq>>)

\* The phone reads a sound as the PC built it, whatever the payload and a pts of
\* eight bytes (build_audio_frame, FrameParser.parse).
THEOREM SoundGivesBack ==
    ASSUME NEW S, NEW payload \in Seq(S), NEW pts \in 0..(WordSize * WordSize - 1)
    PROVE  /\ Len(BuildAudioFrame(payload, pts)) >= HeaderLen
           /\ Parse(BuildAudioFrame(payload, pts)) =
                 [type |-> Audio, keyframe |-> FALSE, config |-> FALSE, pts |-> pts,
                  payload |-> payload]
<1>1. PICK m, n \in Word : m = pts % WordSize /\ n = pts \div WordSize /\ m + WordSize * n = pts
  BY TwoWords
<1>2. PICK T : T = S \union Nat
  OBVIOUS
<1>3. payload \in Seq(T) /\ Nat \subseteq T /\ Audio \in Nat /\ 0 \in Nat
  BY <1>2, SeqMonotonic DEF Audio
<1>4. PICK f : f = FrameOf(Audio, 0, m, n, payload)
  OBVIOUS
<1>5. ReadsAs(f, Audio, 0, m, n, payload)
  BY <1>3, <1>4, FrameReads
<1>6. BuildAudioFrame(payload, pts) = f
  <2>1. f = <<Audio, 0, 0, 0>> \o (Le4(m) \o Le4(n)) \o payload
    BY <1>5 DEF ReadsAs
  <2>. QED  BY <1>1, <2>1 DEF BuildAudioFrame, Le8
<1>7. /\ Len(f) >= HeaderLen /\ f[1] = Audio /\ f[2] = 0
      /\ FromLe4(f, 5) = m /\ FromLe4(f, 9) = n /\ Payload(f) = payload
  BY <1>5 DEF ReadsAs
<1>8. ReadLongLe(f, 5) = pts
  <2>1. 5 + 4 = 9
    OBVIOUS
  <2>. QED  BY <1>1, <1>7, <2>1, Zenon DEF ReadLongLe
<1>9. HasFlag(f, Keyframe) = FALSE /\ HasFlag(f, Config) = FALSE
  <2>1. f[2] = Flag(FALSE, Keyframe) + Flag(FALSE, Config)
    BY <1>7 DEF Flag
  <2>. QED  BY <2>1, Flags
<1>10. Parse(f) = [type |-> Audio, keyframe |-> FALSE, config |-> FALSE, pts |-> pts,
                   payload |-> payload]
  BY <1>7, <1>8, <1>9, Zenon DEF Parse
<1>. QED  BY <1>6, <1>7, <1>10

\* A pts has its eight bytes.
LEMMA PtsFits ==
    ASSUME NEW n \in Nat, Moment * n < WordSize * WordSize, NEW k \in 1..n
    PROVE  Moment * k \in 0..(WordSize * WordSize - 1)
<1>1. PICK m \in Nat : m = Moment
  BY WireAssumption
<1>2. PICK w \in Nat : w = WordSize * WordSize
  <2>1. PICK v \in Nat : v = WordSize
    BY Words
  <2>2. v * v \in Nat
    OBVIOUS
  <2>. QED  BY <2>1, <2>2
<1>3. m * k \in Nat /\ m * n \in Nat
  OBVIOUS
<1>4. m * k <= m * n
  <2>1. PICK d \in Nat : n = k + d
    <3>1. n - k \in Nat /\ n = k + (n - k)
      OBVIOUS
    <3>. QED  BY <3>1
  <2>2. m * n = m * k + m * d /\ m * d \in Nat
    BY <2>1
  <2>. QED  BY <1>3, <2>2
<1>5. m * n < w
  BY <1>1, <1>2
<1>6. m * k < w
  BY <1>3, <1>4, <1>5
<1>7. m * k \in 0..w - 1
  BY <1>2, <1>3, <1>6
<1>. QED  BY <1>1, <1>2, <1>7

\* The numbers of the chunks have the bits of an Int.
LEMMA SmallBase == 2 * (Base + 2) < WordSize /\ 2 * (Base * Base + 1) < WordSize
<1>1. Base \in Nat /\ Base >= 4
  BY FramingAssumption
<1>2. PICK b2 \in Nat : b2 = Base * Base
  <2>1. Base * Base \in Nat
    BY <1>1
  <2>. QED  BY <2>1
<1>3. b2 >= 4 * Base
  <2>1. PICK d \in Nat : Base = 4 + d
    <3>1. Base - 4 \in Nat /\ Base = 4 + (Base - 4)
      BY <1>1
    <3>. QED  BY <3>1
  <2>2. Base * Base = 4 * Base + d * Base /\ d * Base \in Nat
    BY <1>1, <2>1
  <2>. QED  BY <1>1, <1>2, <2>2
<1>4. b2 >= 16
  BY <1>1, <1>2, <1>3
<1>5. b2 * b2 >= 16 * b2
  <2>1. PICK d \in Nat : b2 = 16 + d
    <3>1. b2 - 16 \in Nat /\ b2 = 16 + (b2 - 16)
      BY <1>2, <1>4
    <3>. QED  BY <3>1
  <2>2. b2 * b2 = 16 * b2 + d * b2 /\ d * b2 \in Nat
    BY <2>1
  <2>. QED  BY <2>2
<1>6. WordSize = b2 * b2
  <2>1. Base * Base * Base * Base = (Base * Base) * (Base * Base)
    BY <1>1
  <2>. QED  BY <1>2, <2>1 DEF WordSize
<1>7. PICK w \in Nat : w = WordSize
  BY Words
<1>8. w >= 16 * b2
  BY <1>5, <1>6, <1>7
<1>9. 2 * (Base + 2) < w /\ 2 * (b2 + 1) < w
  BY <1>1, <1>3, <1>4, <1>8
<1>. QED  BY <1>2, <1>7, <1>9

\* So an id or a number of a chunk is to the phone what it is to the PC.
LEMMA ChunkNumbers ==
    /\ DownId \in Word /\ ToInt(DownId) = DownId
    /\ UpId \in Word /\ Bits(UpId) = UpId
    /\ \A seq \in 0..MaxChunk - 1 : seq \in Word /\ ToInt(seq) = seq /\ Bits(seq) = seq
<1>1. PICK w \in Nat : w = WordSize /\ Word = 0..w - 1
  BY Words
<1>2. PICK d \in Nat, u \in Nat : d = DownId /\ u = UpId
  <2>1. Base \in Nat /\ Base * Base \in Nat
    BY FramingAssumption
  <2>. QED  BY <2>1 DEF DownId, UpId
<1>3. 2 * d < w /\ 2 * u < w
  BY <1>1, <1>2, SmallBase DEF DownId, UpId
<1>4. PICK c \in Nat : c = MaxChunk
  BY WireAssumption
<1>5. 2 * c <= w
  BY <1>1, <1>4, NumbersFit
<1>6. DownId \in Word /\ ToInt(DownId) = DownId
  BY <1>1, <1>2, <1>3 DEF ToInt
<1>7. UpId \in Word /\ Bits(UpId) = UpId
  BY <1>1, <1>2, <1>3 DEF Bits
<1>8. ASSUME NEW seq \in 0..c - 1
      PROVE  seq \in Word /\ ToInt(seq) = seq /\ Bits(seq) = seq
  <2>1. seq \in Nat /\ 2 * seq < w
    BY <1>5
  <2>. QED  BY <1>1, <2>1 DEF ToInt, Bits
<1>. QED  BY <1>4, <1>6, <1>7, <1>8

\* What the phone makes of the bytes of a message: the message.
ReadBack(m, b) ==
    /\ Len(b) >= HeaderLen /\ b # <<>> /\ b[1] = Parse(b).type
    /\ \/ /\ m.kind = "picture" /\ Parse(b).type = Video
          /\ m = Picture(Parse(b).pts, Parse(b).keyframe, Parse(b).payload)
       \/ /\ m.kind = "sound" /\ Parse(b).type = Audio
          /\ m = Sound(Parse(b).pts, Parse(b).payload)
       \/ /\ m.kind = "chunk" /\ Parse(b).type = File
          /\ IncomingChunk(Parse(b)) =
                [id |-> DownId, seq |-> m.seq, last |-> m.last, payload |-> m.data]
          /\ m = Chunk(DownId, m.seq, m.last, m.data)

CarriesText(m)  == m.kind = "text" /\ AsSent(m) = [text |-> TRUE, bytes |-> <<m>>]
CarriesBytes(m) ==
    \E b, S : b \in Seq(S) /\ AsSent(m) = [text |-> FALSE, bytes |-> b] /\ ReadBack(m, b)

\* A picture.
LEMMA PictureReadBack ==
    ASSUME NEW k \in 1..MaxFrame, NEW idr \in BOOLEAN, NEW n
    PROVE  CarriesBytes(Picture(Moment * k, idr, <<n>>))
<1>1. PICK m, pts : pts = Moment * k /\ m = Picture(pts, idr, <<n>>)
  OBVIOUS
<1>2. m.kind = "picture" /\ m.pts = pts /\ m.idr = idr /\ m.data = <<n>>
  BY <1>1 DEF Picture
<1>3. pts \in 0..(WordSize * WordSize - 1)
  BY <1>1, PtsFits, NumbersFit, EncoderAssumption
<1>4. <<n>> \in Seq({n})
  OBVIOUS
<1>5. PICK b : b = BuildVideoFrame(<<n>>, pts, idr, idr)
  OBVIOUS
<1>6. /\ Len(b) >= HeaderLen
      /\ Parse(b) = [type |-> Video, keyframe |-> idr, config |-> idr, pts |-> pts,
                     payload |-> <<n>>]
  BY <1>3, <1>4, <1>5, PictureGivesBack
<1>7. AsSent(m) = [text |-> FALSE, bytes |-> b]
  BY <1>2, <1>5 DEF AsSent, AsBinary
<1>8. b[1] = Parse(b).type
  BY DEF Parse
<1>9. \E S : b \in Seq(S)
  BY <1>4, <1>5, FramesReadable DEF BuildVideoFrame, Le8, ReadableBy, AsBinary
<1>10. b # <<>>
  BY <1>6 DEF HeaderLen
<1>11. m = Picture(Parse(b).pts, Parse(b).keyframe, Parse(b).payload) /\ Parse(b).type = Video
  BY <1>1, <1>6
<1>12. ReadBack(m, b)
  BY <1>2, <1>6, <1>8, <1>10, <1>11 DEF ReadBack
<1>. QED  BY <1>1, <1>7, <1>9, <1>12 DEF CarriesBytes

\* A sound.
LEMMA SoundReadBack ==
    ASSUME NEW k \in 1..MaxSound
    PROVE  CarriesBytes(Sound(Moment * k, <<k>>))
<1>1. PICK m, pts : pts = Moment * k /\ m = Sound(pts, <<k>>)
  OBVIOUS
<1>2. m.kind = "sound" /\ m.pts = pts /\ m.data = <<k>>
  BY <1>1 DEF Sound
<1>3. pts \in 0..(WordSize * WordSize - 1)
  BY <1>1, PtsFits, NumbersFit, WireAssumption
<1>4. <<k>> \in Seq({k})
  OBVIOUS
<1>5. PICK b : b = BuildAudioFrame(<<k>>, pts)
  OBVIOUS
<1>6. /\ Len(b) >= HeaderLen
      /\ Parse(b) = [type |-> Audio, keyframe |-> FALSE, config |-> FALSE, pts |-> pts,
                     payload |-> <<k>>]
  BY <1>3, <1>4, <1>5, SoundGivesBack
<1>8. b[1] = Parse(b).type
  BY DEF Parse
<1>7. AsSent(m) = [text |-> FALSE, bytes |-> b]
  BY <1>2, <1>5 DEF AsSent, AsBinary
<1>9. \E S : b \in Seq(S)
  BY <1>4, <1>5, FramesReadable DEF BuildAudioFrame, Le8, ReadableBy, AsBinary
<1>10. b # <<>>
  BY <1>6 DEF HeaderLen
<1>11. m = Sound(Parse(b).pts, Parse(b).payload) /\ Parse(b).type = Audio
  BY <1>1, <1>6
<1>12. ReadBack(m, b)
  BY <1>2, <1>6, <1>8, <1>10, <1>11 DEF ReadBack
<1>. QED  BY <1>1, <1>7, <1>9, <1>12 DEF CarriesBytes

\* A chunk.
LEMMA ChunkReadBack ==
    ASSUME NEW seq \in 0..MaxChunk - 1, NEW last \in BOOLEAN, NEW data, NEW T,
           data \in Seq(T)
    PROVE  CarriesBytes(Chunk(DownId, seq, last, data))
<1>1. PICK m : m = Chunk(DownId, seq, last, data)
  OBVIOUS
<1>2. m.kind = "chunk" /\ m.id = DownId /\ m.seq = seq /\ m.last = last /\ m.data = data
  BY <1>1 DEF Chunk
<1>3. DownId \in Word /\ seq \in Word /\ ToInt(DownId) = DownId /\ ToInt(seq) = seq
  BY ChunkNumbers
<1>5. PICK b : b = BuildChunkFrame(DownId, seq, last, data)
  OBVIOUS
<1>6. Len(b) >= HeaderLen /\ b[1] = File
  BY <1>3, <1>5, ChunkReads
<1>7. /\ Parse(b).type = File
      /\ IncomingChunk(Parse(b)) =
            [id |-> ToInt(DownId), seq |-> ToInt(seq), last |-> last, payload |-> data]
  BY <1>3, <1>5, ChunksGiveBack
<1>8. AsSent(m) = [text |-> FALSE, bytes |-> b]
  BY <1>2, <1>5 DEF AsSent, AsBinary
<1>9. \E S : b \in Seq(S)
  BY <1>5, ChunkReadable DEF ReadableBy, AsBinary
<1>10. b # <<>>
  BY <1>6 DEF HeaderLen
<1>12. ReadBack(m, b)
  BY <1>1, <1>2, <1>3, <1>6, <1>7, <1>10 DEF ReadBack
<1>. QED  BY <1>1, <1>8, <1>9, <1>12 DEF CarriesBytes

\* Whatever the PC says.
LEMMA SaidIsRead ==
    ASSUME NEW m, Shaped(m, MaxFrame, MaxSound, MaxChunk)
    PROVE  CarriesText(m) \/ CarriesBytes(m)
<1>1. CASE \E name, body, arg : m = TextMsg(name, body, arg)
  BY <1>1 DEF TextMsg, AsSent, AsText, CarriesText
<1>2. CASE \E k \in 1..MaxFrame : \E idr \in BOOLEAN : \E n \in Frame :
              m = Picture(Moment * k, idr, <<n>>)
  BY <1>2, PictureReadBack
<1>3. CASE \E k \in 1..MaxSound : m = Sound(Moment * k, <<k>>)
  BY <1>3, SoundReadBack
<1>4. CASE \E seq \in 0..MaxChunk - 1 : m = Chunk(DownId, seq, seq = MaxChunk - 1, <<seq>>)
  <2>1. PICK seq \in 0..MaxChunk - 1 : m = Chunk(DownId, seq, seq = MaxChunk - 1, <<seq>>)
    BY <1>4
  <2>2. <<seq>> \in Seq({seq}) /\ (seq = MaxChunk - 1) \in BOOLEAN
    OBVIOUS
  <2>. QED  BY <2>1, <2>2, ChunkReadBack
<1>. QED  BY <1>1, <1>2, <1>3, <1>4 DEF Shaped

-----------------------------------------------------------------------------
(* What the PC has said *)

\* Every message in its form, no two alike, and a chunk behind its announcement.
Saying(s, p) ==
    /\ \E S : s \in Seq(S)
    /\ p \in 0..MaxFrame
    /\ Number(s, "sound") \in 0..MaxSound /\ Number(s, "chunk") \in 0..MaxChunk
    /\ \A n \in 1..Len(s) : Shaped(s[n], p, Number(s, "sound"), Number(s, "chunk"))
    /\ \A m, n \in 1..Len(s) : m # n => s[m] # s[n]
    /\ \A n \in 1..Len(s) : s[n].kind = "chunk" =>
          \E m \in 1..n - 1 : /\ s[m].kind = "text" /\ s[m].name = "file_send_begin"
                              /\ s[m].arg = DownId

\* One message more is one of its kind more.
LEMMA NumberMore ==
    ASSUME NEW S, NEW s \in Seq(S), NEW m \in S, NEW kind
    PROVE  /\ Number(s, kind) \in Nat
           /\ Number(Append(s, m), kind) =
                 Number(s, kind) + (IF m.kind = kind THEN 1 ELSE 0)
<1>1. PICK l \in Nat : l = Len(s)
  BY LenProperties
<1>2. PICK t : t = Append(s, m)
  OBVIOUS
<1>3. /\ Len(t) = l + 1 /\ t[l + 1] = m
      /\ \A i \in 1..l : t[i] = s[i]
  BY <1>1, <1>2, AppendProperties
<1>4. PICK K : K = {i \in 1..l : s[i].kind = kind}
  OBVIOUS
<1>5. IsFiniteSet(K) /\ l + 1 \notin K
  <2>1. IsFiniteSet(1..l) /\ K \in SUBSET (1..l)
    BY <1>1, <1>4, FS_Interval
  <2>2. IsFiniteSet(K)
    BY <2>1, FS_Subset
  <2>3. l + 1 \notin 1..l
    OBVIOUS
  <2>. QED  BY <2>1, <2>2, <2>3
<1>6. {i \in 1..l + 1 : t[i].kind = kind} = IF m.kind = kind THEN K \union {l + 1} ELSE K
  <2>1. 1..l + 1 = (1..l) \union {l + 1}
    OBVIOUS
  <2>. QED  BY <1>3, <1>4, <2>1
<1>7. Cardinality(K) \in Nat /\ Cardinality(K \union {l + 1}) = Cardinality(K) + 1
  BY <1>5, FS_CardinalityType, FS_AddElement
<1>8. Number(s, kind) = Cardinality(K)
  BY <1>1, <1>4 DEF Number
<1>9. Number(t, kind) = IF m.kind = kind THEN Cardinality(K) + 1 ELSE Cardinality(K)
  BY <1>3, <1>6, <1>7 DEF Number
<1>. QED  BY <1>2, <1>7, <1>8, <1>9

\* What has a form has it among more.
LEMMA StillShaped ==
    ASSUME NEW p \in Nat, NEW p1 \in Nat, p <= p1, NEW s \in Nat, NEW s1 \in Nat, s <= s1,
           NEW c \in Nat, NEW c1 \in Nat, c <= c1, NEW m, Shaped(m, p, s, c)
    PROVE  Shaped(m, p1, s1, c1)
<1>1. 1..p \subseteq 1..p1 /\ 1..s \subseteq 1..s1 /\ 0..c - 1 \subseteq 0..c1 - 1
  OBVIOUS
<1>2. CASE \E name, body, arg : m = TextMsg(name, body, arg)
  BY <1>2 DEF Shaped
<1>3. CASE \E k \in 1..p : \E idr \in BOOLEAN : \E n \in Frame :
              m = Picture(Moment * k, idr, <<n>>)
  <2>1. PICK k \in 1..p1 : \E idr \in BOOLEAN : \E n \in Frame :
              m = Picture(Moment * k, idr, <<n>>)
    BY <1>1, <1>3
  <2>. QED  BY <2>1, Zenon DEF Shaped
<1>4. CASE \E k \in 1..s : m = Sound(Moment * k, <<k>>)
  <2>1. PICK k \in 1..s1 : m = Sound(Moment * k, <<k>>)
    BY <1>1, <1>4
  <2>. QED  BY <2>1, Zenon DEF Shaped
<1>5. CASE \E seq \in 0..c - 1 : m = Chunk(DownId, seq, seq = MaxChunk - 1, <<seq>>)
  <2>1. PICK seq \in 0..c1 - 1 : m = Chunk(DownId, seq, seq = MaxChunk - 1, <<seq>>)
    BY <1>1, <1>5
  <2>. QED  BY <2>1, Zenon DEF Shaped
<1>. QED  BY <1>2, <1>3, <1>4, <1>5 DEF Shaped

\* A message that was not said yet.
LEMMA SayingGrows ==
    ASSUME NEW s, NEW p, Saying(s, p), NEW q \in 0..MaxFrame, p <= q, NEW m,
           Number(Append(s, m), "sound") <= MaxSound,
           Number(Append(s, m), "chunk") <= MaxChunk,
           Shaped(m, q, Number(Append(s, m), "sound"), Number(Append(s, m), "chunk")),
           \A n \in 1..Len(s) : s[n] # m,
           m.kind = "chunk" => \E n \in 1..Len(s) :
                 s[n].kind = "text" /\ s[n].name = "file_send_begin" /\ s[n].arg = DownId
    PROVE  Saying(Append(s, m), q)
<1>1. PICK S : s \in Seq(S)
  BY DEF Saying
<1>2. PICK T : T = S \union {m}
  OBVIOUS
<1>3. s \in Seq(T) /\ m \in T
  BY <1>1, <1>2, SeqMonotonic
<1>4. PICK l \in Nat : l = Len(s)
  BY <1>1, LenProperties
<1>5. PICK t : t = Append(s, m)
  OBVIOUS
<1>6. /\ t \in Seq(T) /\ Len(t) = l + 1 /\ t[l + 1] = m
      /\ \A i \in 1..l : t[i] = s[i]
  BY <1>3, <1>4, <1>5, AppendProperties
<1>7. PICK a \in Nat, b \in Nat : a = Number(s, "sound") /\ b = Number(s, "chunk")
  BY <1>3, NumberMore
<1>8. PICK a1 \in Nat, b1 \in Nat :
        /\ a1 = Number(t, "sound") /\ b1 = Number(t, "chunk") /\ a <= a1 /\ b <= b1
  <2>1. /\ Number(t, "sound") = a + (IF m.kind = "sound" THEN 1 ELSE 0)
        /\ Number(t, "chunk") = b + (IF m.kind = "chunk" THEN 1 ELSE 0)
    BY <1>3, <1>5, <1>7, NumberMore
  <2>. QED  BY <2>1
<1>9. a1 \in 0..MaxSound /\ b1 \in 0..MaxChunk
  BY <1>5, <1>8, WireAssumption
<1>10. p \in Nat /\ q \in Nat
  BY EncoderAssumption DEF Saying
<1>11. \A n \in 1..l : Shaped(s[n], p, a, b)
  BY <1>4, <1>7 DEF Saying
<1>12. 1..l + 1 = (1..l) \union {l + 1}
  OBVIOUS
<1>13. \A n \in 1..l + 1 : Shaped(t[n], q, a1, b1)
  <2>1. \A n \in 1..l : Shaped(s[n], q, a1, b1)
    BY <1>8, <1>10, <1>11, StillShaped
  <2>2. Shaped(m, q, a1, b1)
    BY <1>5, <1>8
  <2>. QED  BY <1>6, <1>12, <2>1, <2>2
<1>14. \A i, j \in 1..l + 1 : i # j => t[i] # t[j]
  <2>1. \A i, j \in 1..l : i # j => s[i] # s[j]
    BY <1>4 DEF Saying
  <2>2. \A i \in 1..l : s[i] # m
    BY <1>4
  <2>. QED  BY <1>6, <1>12, <2>1, <2>2
<1> DEFINE Tells(x) == x.kind = "text" /\ x.name = "file_send_begin" /\ x.arg = DownId
<1>15. \A n \in 1..l + 1 : t[n].kind = "chunk" => \E i \in 1..n - 1 : Tells(t[i])
  <2> SUFFICES ASSUME NEW n \in 1..l + 1, t[n].kind = "chunk"
               PROVE  \E i \in 1..n - 1 : Tells(t[i])
    OBVIOUS
  <2>1. PICK i \in 1..l : i \in 1..n - 1 /\ Tells(s[i])
    <3>1. CASE n = l + 1
      <4>1. PICK i \in 1..l : Tells(s[i])
        BY <1>4, <1>6, <3>1
      <4>. QED  BY <3>1, <4>1
    <3>2. CASE n # l + 1
      <4>1. n \in 1..l
        BY <3>2
      <4>2. PICK i \in 1..n - 1 : Tells(s[i])
        BY <1>4, <1>6, <4>1 DEF Saying
      <4>. QED  BY <4>1, <4>2
    <3>. QED  BY <3>1, <3>2
  <2>2. Tells(t[i])
    BY <1>6, <2>1
  <2>. QED  BY <2>1, <2>2
<1>16. Saying(t, q)
  <2>1. Len(t) = l + 1
    BY <1>6
  <2>. QED  BY <1>6, <1>8, <1>9, <1>13, <1>14, <1>15, <2>1 DEF Saying
<1>. QED  BY <1>5, <1>16

\* Two pts are alike only if they are of one moment.
LEMMA OtherMoments ==
    ASSUME NEW k \in Nat, NEW l \in Nat, Moment * k = Moment * l
    PROVE  k = l
<1>1. PICK m \in Nat \ {0} : m = Moment
  BY WireAssumption
<1>2. m * k = m * l
  BY <1>1
<1>3. ASSUME NEW i \in Nat, NEW j \in Nat, i < j PROVE m * i # m * j
  <2>1. PICK d \in Nat \ {0} : j = i + d
    <3>1. j - i \in Nat \ {0} /\ j = i + (j - i)
      BY <1>3
    <3>. QED  BY <3>1
  <2>2. m * j = m * i + m * d
    BY <2>1
  <2>3. m * d > 0
    <3>1. PICK e \in Nat : d = e + 1
      <4>1. d - 1 \in Nat /\ d = (d - 1) + 1
        OBVIOUS
      <4>. QED  BY <4>1
    <3>2. m * d = m * e + m /\ m * e \in Nat
      BY <3>1
    <3>. QED  BY <3>2
  <2>4. m * i \in Nat /\ m * d \in Nat
    OBVIOUS
  <2>. QED  BY <2>2, <2>3, <2>4
<1>. QED  BY <1>2, <1>3

\* The next picture.
LEMMA PictureIsNew ==
    ASSUME NEW s, NEW p, Saying(s, p), p < MaxFrame, NEW idr \in BOOLEAN, NEW n \in Frame
    PROVE  Saying(Append(s, Picture(Moment * (p + 1), idr, <<n>>)), p + 1)
<1>1. PICK m : m = Picture(Moment * (p + 1), idr, <<n>>)
  OBVIOUS
<1>2. m.kind = "picture" /\ m.pts = Moment * (p + 1)
  BY <1>1 DEF Picture
<1>3. p \in Nat /\ p + 1 \in 0..MaxFrame /\ p + 1 \in 1..p + 1 /\ p <= p + 1
  BY EncoderAssumption DEF Saying
<1>4. PICK S : s \in Seq(S)
  BY DEF Saying
<1>5. PICK T : T = S \union {m}
  OBVIOUS
<1>6. s \in Seq(T) /\ m \in T
  BY <1>4, <1>5, SeqMonotonic
<1>7. /\ Number(Append(s, m), "sound") = Number(s, "sound")
      /\ Number(Append(s, m), "chunk") = Number(s, "chunk")
  <2>1. \A kind : /\ Number(s, kind) \in Nat
                  /\ Number(Append(s, m), kind) =
                        Number(s, kind) + (IF m.kind = kind THEN 1 ELSE 0)
    BY <1>6, NumberMore
  <2>. QED  BY <1>2, <2>1
<1>8. Shaped(m, p + 1, Number(Append(s, m), "sound"), Number(Append(s, m), "chunk"))
  <2>1. \E k \in 1..p + 1 : \E i \in BOOLEAN : \E f \in Frame :
           m = Picture(Moment * k, i, <<f>>)
    BY <1>1, <1>3
  <2>. QED  BY <2>1, Zenon DEF Shaped
<1>9. \A i \in 1..Len(s) : s[i] # m
  <2> SUFFICES ASSUME NEW i \in 1..Len(s), s[i] = m PROVE FALSE
    OBVIOUS
  <2>1. Shaped(m, p, Number(s, "sound"), Number(s, "chunk"))
    BY DEF Saying
  <2>2. PICK k \in 1..p : m.pts = Moment * k
    <3>1. PICK k \in 1..p : \E r \in BOOLEAN : \E f \in Frame :
             m = Picture(Moment * k, r, <<f>>)
      BY <1>2, <2>1 DEF Shaped, TextMsg, Sound, Chunk
    <3>. QED  BY <3>1 DEF Picture
  <2>3. Moment * k = Moment * (p + 1)
    BY <1>2, <2>2
  <2>4. k = p + 1
    BY <1>3, <2>3, OtherMoments
  <2>. QED  BY <1>3, <2>4
<1>10. /\ Number(Append(s, m), "sound") <= MaxSound
       /\ Number(Append(s, m), "chunk") <= MaxChunk
  BY <1>7, WireAssumption DEF Saying
<1>11. Saying(Append(s, m), p + 1)
  BY <1>2, <1>3, <1>8, <1>9, <1>10, SayingGrows
<1>. QED  BY <1>1, <1>11

\* The next sound.
LEMMA SoundIsNew ==
    ASSUME NEW s, NEW p, Saying(s, p), NEW k, k = Number(s, "sound") + 1, k <= MaxSound
    PROVE  Saying(Append(s, Sound(Moment * k, <<k>>)), p)
<1>1. PICK m : m = Sound(Moment * k, <<k>>)
  OBVIOUS
<1>2. m.kind = "sound" /\ m.pts = Moment * k
  BY <1>1 DEF Sound
<1>3. p \in 0..MaxFrame /\ p <= p
  BY EncoderAssumption DEF Saying
<1>4. PICK S : s \in Seq(S)
  BY DEF Saying
<1>5. PICK T : T = S \union {m}
  OBVIOUS
<1>6. s \in Seq(T) /\ m \in T
  BY <1>4, <1>5, SeqMonotonic
<1>7. /\ Number(s, "sound") \in Nat /\ k \in Nat /\ k \in 1..k
      /\ Number(Append(s, m), "sound") = k
      /\ Number(Append(s, m), "chunk") = Number(s, "chunk")
  <2>1. \A kind : /\ Number(s, kind) \in Nat
                  /\ Number(Append(s, m), kind) =
                        Number(s, kind) + (IF m.kind = kind THEN 1 ELSE 0)
    BY <1>6, NumberMore
  <2>. QED  BY <1>2, <2>1
<1>8. Shaped(m, p, Number(Append(s, m), "sound"), Number(Append(s, m), "chunk"))
  <2>1. \E i \in 1..Number(Append(s, m), "sound") : m = Sound(Moment * i, <<i>>)
    BY <1>1, <1>7
  <2>. QED  BY <2>1, Zenon DEF Shaped
<1>9. \A i \in 1..Len(s) : s[i] # m
  <2> SUFFICES ASSUME NEW i \in 1..Len(s), s[i] = m PROVE FALSE
    OBVIOUS
  <2>1. Shaped(m, p, Number(s, "sound"), Number(s, "chunk"))
    BY DEF Saying
  <2>2. PICK j \in 1..Number(s, "sound") : m = Sound(Moment * j, <<j>>)
    BY <1>2, <2>1 DEF Shaped, TextMsg, Picture, Chunk
  <2>3. m.data = <<j>> /\ m.data = <<k>>
    BY <1>1, <2>2 DEF Sound
  <2>4. j = k
    BY <2>3
  <2>. QED  BY <1>7, <2>4
<1>10. /\ Number(Append(s, m), "sound") <= MaxSound
       /\ Number(Append(s, m), "chunk") <= MaxChunk
  BY <1>7, WireAssumption DEF Saying
<1>11. Saying(Append(s, m), p)
  BY <1>2, <1>3, <1>8, <1>9, <1>10, SayingGrows
<1>. QED  BY <1>1, <1>11

\* The next chunk of the file that was announced.
LEMMA ChunkIsNew ==
    ASSUME NEW s, NEW p, Saying(s, p), NEW k, k = Number(s, "chunk"), k < MaxChunk,
           \E n \in 1..Len(s) :
              s[n].kind = "text" /\ s[n].name = "file_send_begin" /\ s[n].arg = DownId
    PROVE  Saying(Append(s, Chunk(DownId, k, k = MaxChunk - 1, <<k>>)), p)
<1>1. PICK m : m = Chunk(DownId, k, k = MaxChunk - 1, <<k>>)
  OBVIOUS
<1>2. m.kind = "chunk" /\ m.seq = k
  BY <1>1 DEF Chunk
<1>3. p \in 0..MaxFrame /\ p <= p
  BY EncoderAssumption DEF Saying
<1>4. PICK S : s \in Seq(S)
  BY DEF Saying
<1>5. PICK T : T = S \union {m}
  OBVIOUS
<1>6. s \in Seq(T) /\ m \in T
  BY <1>4, <1>5, SeqMonotonic
<1>7. /\ k \in Nat /\ k \in 0..(k + 1) - 1
      /\ Number(Append(s, m), "sound") = Number(s, "sound")
      /\ Number(Append(s, m), "chunk") = k + 1
  <2>1. \A kind : /\ Number(s, kind) \in Nat
                  /\ Number(Append(s, m), kind) =
                        Number(s, kind) + (IF m.kind = kind THEN 1 ELSE 0)
    BY <1>6, NumberMore
  <2>. QED  BY <1>2, <2>1
<1>8. Shaped(m, p, Number(Append(s, m), "sound"), Number(Append(s, m), "chunk"))
  <2>1. \E i \in 0..Number(Append(s, m), "chunk") - 1 :
           m = Chunk(DownId, i, i = MaxChunk - 1, <<i>>)
    BY <1>1, <1>7
  <2>. QED  BY <2>1, Zenon DEF Shaped
<1>9. \A i \in 1..Len(s) : s[i] # m
  <2> SUFFICES ASSUME NEW i \in 1..Len(s), s[i] = m PROVE FALSE
    OBVIOUS
  <2>1. Shaped(m, p, Number(s, "sound"), Number(s, "chunk"))
    BY DEF Saying
  <2>2. PICK j \in 0..k - 1 : m = Chunk(DownId, j, j = MaxChunk - 1, <<j>>)
    BY <1>2, <2>1 DEF Shaped, TextMsg, Picture, Sound
  <2>3. m.seq = j
    BY <2>2 DEF Chunk
  <2>. QED  BY <1>2, <1>7, <2>3
<1>10. /\ Number(Append(s, m), "sound") <= MaxSound
       /\ Number(Append(s, m), "chunk") <= MaxChunk
  <2>1. MaxChunk \in Nat /\ Number(s, "sound") <= MaxSound
    BY WireAssumption DEF Saying
  <2>. QED  BY <1>7, <2>1
<1>11. Saying(Append(s, m), p)
  BY <1>3, <1>8, <1>9, <1>10, SayingGrows
<1>. QED  BY <1>1, <1>11

\* A text that was not said before.
LEMMA TextIsNew ==
    ASSUME NEW s, NEW p, Saying(s, p), NEW name, NEW body, NEW arg,
           \A i \in 1..Len(s) : s[i] # TextMsg(name, body, arg)
    PROVE  Saying(Append(s, TextMsg(name, body, arg)), p)
<1>1. PICK m : m = TextMsg(name, body, arg)
  OBVIOUS
<1>2. m.kind = "text"
  BY <1>1 DEF TextMsg
<1>3. p \in 0..MaxFrame /\ p <= p
  BY EncoderAssumption DEF Saying
<1>4. PICK S : s \in Seq(S)
  BY DEF Saying
<1>5. PICK T : T = S \union {m}
  OBVIOUS
<1>6. s \in Seq(T) /\ m \in T
  BY <1>4, <1>5, SeqMonotonic
<1>7. /\ Number(Append(s, m), "sound") = Number(s, "sound")
      /\ Number(Append(s, m), "chunk") = Number(s, "chunk")
  <2>1. \A kind : /\ Number(s, kind) \in Nat
                  /\ Number(Append(s, m), kind) =
                        Number(s, kind) + (IF m.kind = kind THEN 1 ELSE 0)
    BY <1>6, NumberMore
  <2>. QED  BY <1>2, <2>1
<1>8. Shaped(m, p, Number(Append(s, m), "sound"), Number(Append(s, m), "chunk"))
  BY <1>1, Zenon DEF Shaped
<1>10. /\ Number(Append(s, m), "sound") <= MaxSound
       /\ Number(Append(s, m), "chunk") <= MaxChunk
  BY <1>7, WireAssumption DEF Saying
<1>11. Saying(Append(s, m), p)
  <2>1. \A i \in 1..Len(s) : s[i] # m
    BY <1>1
  <2>. QED  BY <1>2, <1>3, <1>8, <1>10, <2>1, SayingGrows
<1>. QED  BY <1>1, <1>11

\* The frames are those captured.
FramesKept ==
    /\ frames \in 0..MaxFrame /\ waiting \in Seq(Frame)
    /\ inside \subseteq Frame /\ ready \subseteq Frame /\ packets \subseteq Frame

LEMMA FramesStay ==
    ASSUME FramesKept, [Next]_vars
    PROVE  FramesKept'
<1>. USE DEF FramesKept
<1>1. CASE Ask
  BY <1>1 DEF Ask, callVars
<1>2. CASE Produce
  <2>1. PICK n \in inside : inside' = inside \ {n} /\ ready' = ready \union {n}
    BY <1>2 DEF Produce
  <2>2. UNCHANGED <<frames, waiting, packets>>
    BY <1>2 DEF Produce, callVars
  <2>. QED  BY <2>1, <2>2
<1>3. CASE Encode
  <2>1. /\ frames < MaxFrame /\ frames' = frames + 1 /\ waiting' = Append(waiting, frames + 1)
        /\ UNCHANGED <<inside, ready, packets>>
    BY <1>3 DEF Encode, transformVars
  <2>2. frames + 1 \in Frame /\ frames + 1 \in 0..MaxFrame
    BY <2>1, EncoderAssumption DEF Frame
  <2>3. waiting' \in Seq(Frame)
    BY <2>1, <2>2, AppendProperties
  <2>. QED  BY <2>1, <2>2, <2>3
<1>4. CASE ForceKeyframe
  BY <1>4 DEF ForceKeyframe, transformVars
<1>5. CASE NeedInput
  <2>1. /\ waiting' = SubSeq(waiting, Len(Fed) + 1, Len(waiting))
        /\ inside' = inside \union Range(Fed)
        /\ UNCHANGED <<frames, ready, packets>>
    BY <1>5 DEF NeedInput, callVars
  <2>2. waiting \in Seq(Nat) /\ Len(waiting) \in Nat
    <3>1. Frame \subseteq Nat
      BY EncoderAssumption DEF Frame
    <3>. QED  BY <3>1, SeqMonotonic, LenProperties
  <2>3. CASE waiting = <<>>
    <3>1. Fed = <<>> /\ Range(Fed) = {} /\ Len(Fed) = 0
      BY <2>2, <2>3, OneIsFed DEF Fed
    <3>2. waiting' = <<>> /\ <<>> \in Seq(Frame)
      BY <2>1, <2>2, <2>3, OneIsFed DEF Fed
    <3>. QED  BY <2>1, <3>1, <3>2
  <2>4. CASE waiting # <<>>
    <3>1. Len(Fed) = 1 /\ Range(Fed) = {waiting[1]}
      BY <2>2, <2>4, OneIsFed DEF Fed
    <3>2. waiting[1] \in Frame
      BY <2>2, <2>4, HeadTailProperties
    <3>3. waiting' = SubSeq(waiting, 2, Len(waiting))
      BY <2>1, <3>1
    <3>4. waiting' \in Seq(Frame)
      <4>1. \A i \in 2..Len(waiting) : waiting[i] \in Frame
        BY <2>2, ElementOfSeq
      <4>. QED  BY <2>2, <3>3, <4>1, SubSeqProperties
    <3>. QED  BY <2>1, <3>1, <3>2, <3>4
  <2>. QED  BY <2>3, <2>4
<1>6. CASE HaveOutput
  <2>1. PICK n \in ready : ready' = ready \ {n} /\ packets' = packets \union {n}
    BY <1>6 DEF HaveOutput, TakeOut
  <2>2. UNCHANGED <<frames, waiting, inside>>
    BY <1>6 DEF HaveOutput, callVars
  <2>. QED  BY <2>1, <2>2
<1>7. CASE NoEvents
  BY <1>7 DEF NoEvents, callVars, transformVars
<1>8. CASE UNCHANGED vars
  BY <1>8 DEF vars, callVars, transformVars
<1>. QED  BY <1>1, <1>2, <1>3, <1>4, <1>5, <1>6, <1>7, <1>8 DEF Next

\* A frame comes out once, so there are not more packets than frames.
LEMMA OnePacketMore ==
    ASSUME FramesKept, FramesKept', HaveOutput, NEW n \in packets' \ packets
    PROVE  /\ n \in Frame
           /\ Cardinality(packets) \in Nat /\ Cardinality(packets) < MaxFrame
           /\ Cardinality(packets') = Cardinality(packets) + 1
<1>1. PICK x \in ready : packets' = packets \union {x}
  BY DEF HaveOutput
<1>2. packets' = packets \union {n} /\ n \notin packets
  BY <1>1
<1>3. IsFiniteSet(Frame) /\ Cardinality(Frame) = MaxFrame
  <2>1. MaxFrame \in Nat
    BY EncoderAssumption
  <2>2. /\ IsFiniteSet(1..MaxFrame)
        /\ Cardinality(1..MaxFrame) = IF 1 > MaxFrame THEN 0 ELSE MaxFrame - 1 + 1
    BY <2>1, FS_Interval
  <2>. QED  BY <2>1, <2>2 DEF Frame
<1>4. packets \in SUBSET Frame /\ packets' \in SUBSET Frame
  BY DEF FramesKept
<1>5. IsFiniteSet(packets)
  BY <1>3, <1>4, FS_Subset
<1>6. Cardinality(packets') <= MaxFrame
  BY <1>3, <1>4, FS_Subset
<1>7. Cardinality(packets) \in Nat /\ Cardinality(packets') = Cardinality(packets) + 1
  BY <1>2, <1>5, FS_CardinalityType, FS_AddElement
<1>8. MaxFrame \in Nat
  BY EncoderAssumption
<1>. QED  BY <1>2, <1>4, <1>6, <1>7, <1>8

-----------------------------------------------------------------------------
(* What the phone says, and what the PC answers *)

\* Of the sequences, what was said by name.
LEMMA SaysAt ==
    ASSUME NEW S, NEW s \in Seq(S)
    PROVE  /\ \A name : Says(s, name) <=>
                 \E i \in 1..Len(s) : s[i].kind = "text" /\ s[i].name = name
           /\ \A id, name : Announced(s, id, name) <=>
                 \E i \in 1..Len(s) :
                    s[i].kind = "text" /\ s[i].name = name /\ s[i].arg = id
<1>1. Range(s) = {s[i] : i \in 1..Len(s)}
  BY LenProperties DEF Range
<1>2. PICK R : R = Range(s)
  OBVIOUS
<1>3. R = {s[i] : i \in 1..Len(s)}
  BY <1>1, <1>2
<1>4. \A name : Says(s, name) <=> \E m \in R : m.kind = "text" /\ m.name = name
  BY <1>2 DEF Says
<1>5. \A id, name : Announced(s, id, name) <=>
         \E m \in R : m.kind = "text" /\ m.name = name /\ m.arg = id
  BY <1>2 DEF Announced
<1>. QED  BY <1>3, <1>4, <1>5

\* And with one message more.
LEMMA SaysMore ==
    ASSUME NEW S, NEW s \in Seq(S), NEW m \in S, NEW name
    PROVE  Says(Append(s, m), name) <=> Says(s, name) \/ (m.kind = "text" /\ m.name = name)
<1>1. PICK l \in Nat : l = Len(s)
  BY LenProperties
<1>2. PICK t : t = Append(s, m)
  OBVIOUS
<1>3. /\ t \in Seq(S) /\ Len(t) = l + 1 /\ t[l + 1] = m
      /\ \A i \in 1..l : t[i] = s[i]
  BY <1>1, <1>2, AppendProperties
<1>4. 1..l + 1 = (1..l) \union {l + 1}
  OBVIOUS
<1>5. Says(s, name) <=> \E i \in 1..l : s[i].kind = "text" /\ s[i].name = name
  BY <1>1, SaysAt
<1>6. Says(t, name) <=> \E i \in 1..l + 1 : t[i].kind = "text" /\ t[i].name = name
  BY <1>3, SaysAt
<1>7. Says(t, name) <=> Says(s, name) \/ (m.kind = "text" /\ m.name = name)
  BY <1>3, <1>4, <1>5, <1>6
<1>. QED  BY <1>2, <1>7

\* A queue of texts, and a tunnel with texts.
Texts(q) == \E Q : q \in Seq(Q) /\ \A x \in Q : \E t : x = AsText(t)
Wraps(q) == \E Q : q \in Seq(Q) /\ \A x \in Q : \E t : x = EncodeData(Phone, TRUE, <<t>>)

LEMMA TextsMove ==
    ASSUME NEW q, Texts(q), q # <<>>
    PROVE  Texts(Tail(q)) /\ \E t : Head(q) = AsText(t)
<1>1. PICK Q : q \in Seq(Q) /\ \A x \in Q : \E t : x = AsText(t)
  BY DEF Texts
<1>2. Head(q) \in Q /\ Tail(q) \in Seq(Q)
  BY <1>1, HeadTailProperties
<1>. QED  BY <1>1, <1>2 DEF Texts

\* The same in the tunnel.
LEMMA WrapsMove ==
    ASSUME NEW q, Wraps(q), q # <<>>
    PROVE  Wraps(Tail(q)) /\ \E t : Head(q) = EncodeData(Phone, TRUE, <<t>>)
<1>1. PICK Q : q \in Seq(Q) /\ \A x \in Q : \E t : x = EncodeData(Phone, TRUE, <<t>>)
  BY DEF Wraps
<1>2. Head(q) \in Q /\ Tail(q) \in Seq(Q)
  BY <1>1, HeadTailProperties
<1>. QED  BY <1>1, <1>2 DEF Wraps

\* One text more.
LEMMA TextsMore ==
    ASSUME NEW q, NEW t
    PROVE  /\ Texts(q) => Texts(Append(q, AsText(t)))
           /\ Wraps(q) => Wraps(Append(q, EncodeData(Phone, TRUE, <<t>>)))
<1>1. ASSUME Texts(q) PROVE Texts(Append(q, AsText(t)))
  <2>1. PICK Q : q \in Seq(Q) /\ \A x \in Q : \E u : x = AsText(u)
    BY <1>1 DEF Texts
  <2>2. PICK m : m = AsText(t)
    OBVIOUS
  <2>3. PICK T : T = Q \union {m}
    OBVIOUS
  <2>4. q \in Seq(T) /\ m \in T
    BY <2>1, <2>3, SeqMonotonic
  <2>5. Append(q, m) \in Seq(T)
    BY <2>4, AppendProperties
  <2>6. \A x \in T : \E u : x = AsText(u)
    BY <2>1, <2>2, <2>3
  <2>. QED  BY <2>2, <2>5, <2>6 DEF Texts
<1>2. ASSUME Wraps(q) PROVE Wraps(Append(q, EncodeData(Phone, TRUE, <<t>>)))
  <2>1. PICK Q : q \in Seq(Q) /\ \A x \in Q : \E u : x = EncodeData(Phone, TRUE, <<u>>)
    BY <1>2 DEF Wraps
  <2>2. PICK m : m = EncodeData(Phone, TRUE, <<t>>)
    OBVIOUS
  <2>3. PICK T : T = Q \union {m}
    OBVIOUS
  <2>4. q \in Seq(T) /\ m \in T
    BY <2>1, <2>3, SeqMonotonic
  <2>5. Append(q, m) \in Seq(T)
    BY <2>4, AppendProperties
  <2>6. \A x \in T : \E u : x = EncodeData(Phone, TRUE, <<u>>)
    BY <2>1, <2>2, <2>3
  <2>. QED  BY <2>2, <2>5, <2>6 DEF Wraps
<1>. QED  BY <1>1, <1>2

\* The keys of an edit.
LEMMA KeysAreTexts ==
    ASSUME NEW q, Texts(q), NEW keys, Len(keys) \in Nat
    PROVE  LET said == [i \in 1..Len(keys) |-> KeyMsg(keys[i])]
           IN  Texts(q \o [i \in 1..Len(keys) |-> AsText(said[i])])
<1> DEFINE said == [i \in 1..Len(keys) |-> KeyMsg(keys[i])]
           r == [i \in 1..Len(keys) |-> AsText(said[i])]
<1>1. PICK n \in Nat : n = Len(keys)
  OBVIOUS
<1>2. PICK R : R = {AsText(said[i]) : i \in 1..n}
  OBVIOUS
<1>3. r \in Seq(R)
  <2>1. r = [i \in 1..n |-> AsText(said[i])]
    BY <1>1
  <2>2. r \in [1..n -> R]
    BY <2>1, <1>2
  <2>. QED  BY <2>2, <1>1
<1>4. PICK Q : q \in Seq(Q) /\ \A x \in Q : \E t : x = AsText(t)
  BY DEF Texts
<1>5. PICK T : T = Q \union R
  OBVIOUS
<1>6. q \in Seq(T) /\ r \in Seq(T)
  BY <1>3, <1>4, <1>5, SeqMonotonic
<1>7. q \o r \in Seq(T)
  BY <1>6, ConcatProperties
<1>8. \A x \in T : \E t : x = AsText(t)
  BY <1>2, <1>4, <1>5
<1>. QED  BY <1>7, <1>8 DEF Texts

\* A wrapped message is read as it was.
LEMMA WrappedReads ==
    ASSUME NEW S, NEW text \in BOOLEAN, NEW b \in Seq(S)
    PROVE  LET d == Decode(EncodeData(Phone, text, b))
           IN  d.text = text /\ d.payload = b
<1>1. Phone \in [1..IdLen -> Nat]
  <2>1. \A i \in 1..IdLen : 1 + (i % 2) \in Nat
    BY FramingAssumption
  <2>. QED  BY <2>1 DEF Phone
<1>2. Decode(EncodeData(Phone, text, b)) =
         [type |-> Data, id |-> Phone, text |-> text, payload |-> b]
  BY <1>1, TunnelGivesBack
<1>. QED  BY <1>2

-----------------------------------------------------------------------------
(* What a step makes of the places *)

\* A number is passed on, and with it its message.
Handed(N, M, a, b, said) ==
    /\ M[a] = Append(N[a], Head(N[b])) /\ M[b] = Tail(N[b])
    /\ Looks(a, M[a], said) = Append(Looks(a, N[a], said), Look(a, said[Head(N[b])]))
    /\ Looks(b, M[b], said) = Tail(Looks(b, N[b], said))
    /\ \A c \in Place : c # a /\ c # b => M[c] = N[c]

LEMMA LooksPassed ==
    ASSUME NEW N \in [Place -> Seq(Nat)], NEW a \in Place, NEW b \in Place, a # b,
           N[b] # <<>>, NEW said, NEW M, M = PassedOn(N, a, b)
    PROVE  Handed(N, M, a, b, said)
<1>1. N[a] \in Seq(Nat) /\ N[b] \in Seq(Nat)
  OBVIOUS
<1>2. PICK x, low : x = Head(N[b]) /\ low = Tail(N[b])
  OBVIOUS
<1>3. x \in Nat /\ low \in Seq(Nat)
  BY <1>1, <1>2, HeadTailProperties
<1>4. PICK high : high = Append(N[a], x)
  OBVIOUS
<1>5. M = [N EXCEPT ![a] = high, ![b] = low]
  BY <1>2, <1>4 DEF PassedOn
<1>6. M[a] = high /\ M[b] = low /\ \A c \in Place : c # a /\ c # b => M[c] = N[c]
  BY <1>5
<1>7. Looks(a, high, said) = Append(Looks(a, N[a], said), Look(a, said[x]))
  BY <1>1, <1>3, <1>4, LooksMore
<1>8. Looks(b, low, said) = Tail(Looks(b, N[b], said))
  BY <1>1, <1>2, LooksFirst
<1>. QED  BY <1>2, <1>4, <1>6, <1>7, <1>8 DEF Handed

\* A new message, put in a place.
Joined(N, M, a, said, m) ==
    /\ M[a] = Append(N[a], Len(said) + 1)
    /\ Looks(a, M[a], Append(said, m)) = Append(Looks(a, N[a], said), Look(a, m))
    /\ \A c \in Place : c # a =>
          /\ M[c] = N[c]
          /\ Looks(c, M[c], Append(said, m)) = Looks(c, N[c], said)

\* A message that is said and numbered joins one place and leaves the others.
LEMMA LooksPut ==
    ASSUME NEW lanes, NEW N, LaneOrder(N, lanes), NEW X, NEW said \in Seq(X), NEW m \in X,
           Len(lanes) = Len(said), NEW a \in Place,
           NEW M, M = PutIn(N, a, Len(said) + 1)
    PROVE  Joined(N, M, a, said, m)
<1>1. N \in [Place -> Seq(Nat)] /\ N[a] \in Seq(Nat)
  BY DEF LaneOrder
<1>2. PICK l \in Nat : l = Len(said)
  BY LenProperties
<1>3. PICK t : t = Append(said, m)
  OBVIOUS
<1>4. t[l + 1] = m
  BY <1>2, <1>3, AppendProperties
<1>5. PICK high : high = Append(N[a], l + 1)
  OBVIOUS
<1>6. M = [N EXCEPT ![a] = high]
  BY <1>2, <1>5 DEF PutIn
<1>7. M[a] = high /\ \A c \in Place : c # a => M[c] = N[c]
  BY <1>1, <1>6
<1>8. \A c \in Place : Looks(c, N[c], t) = Looks(c, N[c], said)
  <2> SUFFICES ASSUME NEW c \in Place PROVE Looks(c, N[c], t) = Looks(c, N[c], said)
    OBVIOUS
  <2>1. \A k \in 1..Len(N[c]) : N[c][k] \in 1..Len(said)
    BY DEF LaneOrder
  <2>. QED  BY <1>3, <2>1, LooksKept
<1>9. Looks(a, high, t) = Append(Looks(a, N[a], t), Look(a, t[l + 1]))
  BY <1>1, <1>2, <1>5, LooksMore
<1>. QED  BY <1>2, <1>3, <1>4, <1>5, <1>7, <1>8, <1>9 DEF Joined

\* A new message that is dropped.
LEMMA LooksStay ==
    ASSUME NEW lanes, NEW N, LaneOrder(N, lanes), NEW X, NEW said \in Seq(X), NEW m \in X,
           Len(lanes) = Len(said), NEW c \in Place
    PROVE  Looks(c, N[c], Append(said, m)) = Looks(c, N[c], said)
<1>1. \A k \in 1..Len(N[c]) : N[c][k] \in 1..Len(said)
  BY DEF LaneOrder
<1>. QED  BY <1>1, LooksKept

-----------------------------------------------------------------------------
(***************************************************************************)
(* The way up, of a file: the same places and the same order, where every  *)
(* message may only keep its own.  7 is the phone's socket, 5 the tunnel   *)
(* and 1 what the PC took.                                                 *)
(***************************************************************************)
Fasts(n) == [i \in 1..n |-> "fast"]

LEMMA FastsMore ==
    ASSUME NEW n \in Nat
    PROVE  /\ Fasts(n) \in Seq({"fast"}) /\ Len(Fasts(n)) = n
           /\ Fasts(n + 1) = Append(Fasts(n), "fast")
           /\ \A i \in 1..n : Fasts(n)[i] = "fast"
<1>1. PICK q, r : q = Fasts(n) /\ r = Fasts(n + 1)
  OBVIOUS
<1>2. q = [i \in 1..n |-> "fast"] /\ r = [i \in 1..n + 1 |-> "fast"]
  BY <1>1 DEF Fasts
<1>3. q \in Seq({"fast"}) /\ Len(q) = n /\ \A i \in 1..n : q[i] = "fast"
  BY <1>2
<1>4. PICK p : p = Append(q, "fast")
  OBVIOUS
<1>5. /\ p \in Seq({"fast"}) /\ Len(p) = n + 1 /\ p[n + 1] = "fast"
      /\ \A i \in 1..n : p[i] = q[i]
  BY <1>3, <1>4, AppendProperties
<1>6. \A i \in 1..n + 1 : p[i] = "fast"
  <2>1. 1..n + 1 = (1..n) \union {n + 1}
    OBVIOUS
  <2>. QED  BY <1>3, <1>5, <2>1
<1>7. r = p
  <2>1. p = [i \in 1..n + 1 |-> p[i]]
    BY <1>5
  <2>. QED  BY <1>2, <1>6, <2>1
<1>. QED  BY <1>1, <1>3, <1>4, <1>7

Way(N) ==
    /\ \E T : told \in Seq(T)
    /\ LaneOrder(N, Fasts(Len(told)))
    /\ N[2] = <<>> /\ N[3] = <<>>
    /\ upSocket = Looks(7, N[7], told) /\ toHost = Looks(5, N[5], told)
    /\ route = "lan" => N[5] = <<>>

\* What the PC answers to a message of an upload, and what it has answered.
FileAnswers == {"file_transfer_accepted", "file_transfer_complete"}
AnswerTo(m) ==
    IF m.kind = "text"
    THEN IF m.name = "file_transfer_begin" THEN "file_transfer_accepted" ELSE "none"
    ELSE IF m.last THEN "file_transfer_complete" ELSE "none"
Answered(N) ==
    \A name \in FileAnswers :
        Says(sent, name) => \E k \in 1..Len(N[1]) : AnswerTo(told[N[1][k]]) = name

\* What the phone says: texts, and so many chunks.
UpShaped(m, c) ==
    \/ \E name, body, arg : m = TextMsg(name, body, arg)
    \/ \E seq \in 0..c - 1 : \E data \in {<<>>, <<seq>>} :
          m = Chunk(UpId, seq, seq = MaxChunk - 1, data)

Uploads(N) ==
    /\ Way(N) /\ Answered(N)
    /\ Number(told, "chunk") \in 0..MaxChunk
    /\ \A i \in 1..Len(told) : UpShaped(told[i], Number(told, "chunk"))
    /\ \A i, j \in 1..Len(told) :
          i # j /\ AnswerTo(told[i]) \in FileAnswers => AnswerTo(told[i]) # AnswerTo(told[j])

\* The phone says something more, of which nothing said before has the answer.
LEMMA UploadsGrow ==
    ASSUME NEW N, Uploads(N), NEW m, PhoneSends(m, AsSent(m)),
           UNCHANGED <<toHost, sent, route>>,
           Number(Append(told, m), "chunk") <= MaxChunk,
           UpShaped(m, Number(Append(told, m), "chunk")),
           AnswerTo(m) \in FileAnswers =>
              \A i \in 1..Len(told) : AnswerTo(told[i]) # AnswerTo(m)
    PROVE  \E M : Uploads(M)'
<1>1. PICK S : told \in Seq(S)
  BY DEF Uploads, Way
<1>2. PICK T : T = S \union {m}
  OBVIOUS
<1>3. told \in Seq(T) /\ m \in T
  BY <1>1, <1>2, SeqMonotonic
<1>4. PICK l \in Nat : l = Len(told)
  BY <1>1, LenProperties
<1>5. PICK t : t = Append(told, m)
  OBVIOUS
<1>6. /\ t \in Seq(T) /\ Len(t) = l + 1 /\ t[l + 1] = m
      /\ \A i \in 1..l : t[i] = told[i]
  BY <1>3, <1>4, <1>5, AppendProperties
<1>7. told' = t /\ upSocket' = Append(upSocket, AsSent(m))
  BY <1>5 DEF PhoneSends
<1>8. LaneOrder(N, Fasts(l)) /\ Len(Fasts(l)) = l /\ Fasts(l) \in Seq({"fast"})
  BY <1>4, FastsMore DEF Uploads, Way
<1>9. PICK M : M = PutIn(N, 7, l + 1)
  OBVIOUS
<1>10. LaneOrder(M, Fasts(l + 1))
  <2>1. MayHold(7, "fast") /\ "fast" \in {"fast"} /\ 7 \in {6, 7, 8}
    BY DEF MayHold
  <2>2. LaneOrder(PutIn(N, 7, Len(Fasts(l)) + 1), Append(Fasts(l), "fast"))
    BY <1>8, <2>1, PutKeepsOrder
  <2>. QED  BY <1>8, <1>9, <2>2, FastsMore
<1>11. /\ Looks(7, M[7], t) = Append(Looks(7, N[7], told), Look(7, m))
       /\ \A c \in Place : c # 7 =>
             M[c] = N[c] /\ Looks(c, M[c], t) = Looks(c, N[c], told)
  <2>1. 7 \in Place /\ Len(Fasts(l)) = Len(told)
    BY <1>4, <1>8 DEF Place
  <2>2. M = PutIn(N, 7, Len(told) + 1)
    BY <1>4, <1>9
  <2>3. Joined(N, M, 7, told, m)
    BY <1>3, <1>8, <2>1, <2>2, LooksPut
  <2>. QED  BY <1>5, <2>3 DEF Joined
<1>12. {1, 2, 3, 5} \subseteq Place /\ Look(7, m) = AsSent(m)
  BY DEF Place, Look
<1>13. Way(M)'
  <2>1. upSocket' = Looks(7, M[7], told') /\ toHost' = Looks(5, M[5], told')
    BY <1>7, <1>11, <1>12 DEF Uploads, Way
  <2>2. M[2] = <<>> /\ M[3] = <<>> /\ (route' = "lan" => M[5] = <<>>)
    BY <1>11, <1>12 DEF Uploads, Way
  <2>3. LaneOrder(M, Fasts(Len(told')))
    BY <1>6, <1>7, <1>10
  <2>. QED  BY <1>6, <1>7, <2>1, <2>2, <2>3 DEF Way
<1>14. M[1] = N[1] /\ \A k \in 1..Len(N[1]) : N[1][k] \in 1..l
  BY <1>8, <1>11, <1>12 DEF LaneOrder
<1>15. Answered(M)'
  BY <1>6, <1>7, <1>14 DEF Uploads, Answered
<1>16. PICK c \in Nat, c1 \in Nat : c = Number(told, "chunk") /\ c1 = Number(t, "chunk") /\ c <= c1
  <2>1. /\ Number(told, "chunk") \in Nat
        /\ Number(t, "chunk") = Number(told, "chunk") + (IF m.kind = "chunk" THEN 1 ELSE 0)
    BY <1>3, <1>5, NumberMore
  <2>. QED  BY <2>1
<1>17. 1..l + 1 = (1..l) \union {l + 1}
  OBVIOUS
<1>18. \A i \in 1..l + 1 : UpShaped(t[i], c1)
  <2>1. \A i \in 1..l : UpShaped(told[i], c)
    BY <1>4, <1>16 DEF Uploads
  <2>2. 0..c - 1 \subseteq 0..c1 - 1
    BY <1>16
  <2>3. \A i \in 1..l : UpShaped(told[i], c1)
    BY <2>1, <2>2 DEF UpShaped
  <2>4. UpShaped(m, c1)
    BY <1>5, <1>16
  <2>. QED  BY <1>6, <1>17, <2>3, <2>4
<1>19. \A i, j \in 1..l + 1 :
          i # j /\ AnswerTo(t[i]) \in FileAnswers => AnswerTo(t[i]) # AnswerTo(t[j])
  <2>1. \A i, j \in 1..l :
          i # j /\ AnswerTo(told[i]) \in FileAnswers => AnswerTo(told[i]) # AnswerTo(told[j])
    BY <1>4 DEF Uploads
  <2>2. AnswerTo(m) \in FileAnswers => \A i \in 1..l : AnswerTo(told[i]) # AnswerTo(m)
    BY <1>4
  <2>. QED  BY <1>6, <1>17, <2>1, <2>2
<1>20. c1 \in 0..MaxChunk
  BY <1>5, <1>16, WireAssumption
<1>. QED  BY <1>6, <1>7, <1>13, <1>15, <1>16, <1>18, <1>19, <1>20 DEF Uploads

\* client_loop's reader hands a message of an upload on.
LEMMA UploadsPass ==
    ASSUME NEW N, Uploads(N), RelayReader
    PROVE  \E M : Uploads(M)'
<1>1. PICK l \in Nat : l = Len(told)
  <2>1. PICK T : told \in Seq(T)
    BY DEF Uploads, Way
  <2>. QED  BY <2>1, LenProperties
<1>2. /\ upSocket # <<>> /\ upSocket' = Tail(upSocket) /\ route = "relay"
      /\ toHost' = Append(toHost, EncodeData(Phone, Head(upSocket).text, Head(upSocket).bytes))
      /\ UNCHANGED <<route, sent, told>>
  BY DEF RelayReader, choiceVars, downVars
<1>3. LaneOrder(N, Fasts(l)) /\ \A i \in 1..l : Fasts(l)[i] = "fast"
  BY <1>1, FastsMore DEF Uploads, Way
<1>4. N \in [Place -> Seq(Nat)] /\ {1, 2, 3, 5, 6, 7} \subseteq Place /\ N[7] \in Seq(Nat)
  BY <1>3 DEF LaneOrder, Place
<1>5. N[7] # <<>>
  BY <1>2, <1>4, LooksNone DEF Uploads, Way
<1>6. PICK h : h = Head(N[7])
  OBVIOUS
<1>7. Fasts(l)[h] = "fast"
  <2>1. Len(N[7]) \in Nat /\ Len(N[7]) > 0 /\ h = N[7][1]
    BY <1>4, <1>5, <1>6, HeadTailProperties, EmptySeq
  <2>2. 1 \in 1..Len(N[7])
    BY <2>1
  <2>3. h \in 1..Len(Fasts(l))
    BY <1>3, <1>4, <2>1, <2>2 DEF LaneOrder
  <2>4. h \in 1..l
    BY <2>3, FastsMore
  <2>. QED  BY <1>3, <2>4
<1>8. Passable(N, Fasts(l), 5, 7)
  <2>1. MayHold(5, "fast")
    BY DEF MayHold
  <2>2. ASSUME NEW c \in Place, 5 < c, c < 7, NEW k \in 1..Len(N[c]) PROVE FALSE
    <3>1. c = 6
      BY <2>2 DEF Place
    <3>2. N[6][k] \in 1..Len(Fasts(l)) /\ MayHold(6, Fasts(l)[N[6][k]])
      BY <1>3, <1>4, <2>2, <3>1 DEF LaneOrder
    <3>3. N[6][k] \in 1..l
      BY <3>2, FastsMore
    <3>. QED  BY <1>3, <3>2, <3>3 DEF MayHold
  <2>3. 5 < 7
    OBVIOUS
  <2>. QED  BY <1>5, <1>6, <1>7, <2>1, <2>2, <2>3 DEF Passable
<1>9. PICK M : M = PassedOn(N, 5, 7)
  OBVIOUS
<1>10. LaneOrder(M, Fasts(l))
  BY <1>3, <1>4, <1>8, <1>9, PassKeepsOrder
<1>11. /\ Looks(5, M[5], told) = Append(Looks(5, N[5], told), Look(5, told[h]))
       /\ Looks(7, M[7], told) = Tail(Looks(7, N[7], told))
       /\ \A c \in Place : c # 5 /\ c # 7 => M[c] = N[c]
  <2>1. 5 \in Place /\ 7 \in Place /\ 5 # 7
    BY <1>4
  <2>2. Handed(N, M, 5, 7, told)
    BY <1>4, <1>5, <1>9, <2>1, LooksPassed
  <2>. QED  BY <1>6, <2>2 DEF Handed
<1>12. Head(upSocket) = AsSent(told[h])
  <2>1. Head(Looks(7, N[7], told)) = Look(7, told[h])
    BY <1>4, <1>5, <1>6, LooksFirst
  <2>2. Look(7, told[h]) = AsSent(told[h])
    BY DEF Look
  <2>. QED  BY <2>1, <2>2 DEF Uploads, Way
<1>13. Look(5, told[h]) = EncodeData(Phone, Head(upSocket).text, Head(upSocket).bytes)
  BY <1>12 DEF Look, Wrapped
<1>14. M[1] = N[1] /\ M[2] = <<>> /\ M[3] = <<>>
  <2>1. N[2] = <<>> /\ N[3] = <<>>
    BY DEF Uploads, Way
  <2>2. 1 \in Place /\ 2 \in Place /\ 3 \in Place
    BY <1>4
  <2>3. M[1] = N[1] /\ M[2] = N[2] /\ M[3] = N[3]
    BY <1>11, <2>2
  <2>. QED  BY <2>1, <2>3
<1>15. Way(M)'
  <2>1. upSocket' = Looks(7, M[7], told') /\ toHost' = Looks(5, M[5], told')
    BY <1>2, <1>11, <1>13 DEF Uploads, Way
  <2>2. LaneOrder(M, Fasts(Len(told')))
    BY <1>1, <1>2, <1>10
  <2>. QED  BY <1>2, <1>14, <2>1, <2>2 DEF Uploads, Way
<1>16. Answered(M)'
  BY <1>2, <1>14 DEF Uploads, Answered
<1>. QED  BY <1>2, <1>15, <1>16 DEF Uploads

\* What the phone says of an upload is to the PC what it is to the phone.
LEMMA UploadReads ==
    ASSUME NEW m, UpShaped(m, MaxChunk)
    PROVE  \/ m.kind = "text" /\ AsSent(m) = [text |-> TRUE, bytes |-> <<m>>]
           \/ /\ m.kind = "chunk"
              /\ \E b, S : /\ b \in Seq(S) /\ AsSent(m) = [text |-> FALSE, bytes |-> b]
                           /\ ParseFileChunk(b).last = m.last
                           /\ m.last \in BOOLEAN
<1>1. CASE \E name, body, arg : m = TextMsg(name, body, arg)
  BY <1>1 DEF TextMsg, AsSent, AsText
<1>2. CASE \E seq \in 0..MaxChunk - 1 : \E data \in {<<>>, <<seq>>} :
              m = Chunk(UpId, seq, seq = MaxChunk - 1, data)
  <2>1. PICK seq, last, data :
           /\ seq \in 0..MaxChunk - 1 /\ last \in BOOLEAN
           /\ data \in {<<>>, <<seq>>} /\ m = Chunk(UpId, seq, last, data)
    <3>1. PICK seq \in 0..MaxChunk - 1 : \E data \in {<<>>, <<seq>>} :
             m = Chunk(UpId, seq, seq = MaxChunk - 1, data)
      BY <1>2
    <3>2. PICK last \in BOOLEAN : last = (seq = MaxChunk - 1)
      <4>1. seq = MaxChunk - 1 => TRUE = (seq = MaxChunk - 1)
        OBVIOUS
      <4>2. seq # MaxChunk - 1 => FALSE = (seq = MaxChunk - 1)
        OBVIOUS
      <4>. QED  BY <4>1, <4>2
    <3>3. PICK data \in {<<>>, <<seq>>} : m = Chunk(UpId, seq, seq = MaxChunk - 1, data)
      BY <3>1
    <3>4. m = Chunk(UpId, seq, last, data)
      BY <3>2, <3>3
    <3>. QED  BY <3>4
  <2>2. m.kind = "chunk" /\ m.id = UpId /\ m.seq = seq /\ m.last = last /\ m.data = data
    BY <2>1 DEF Chunk
  <2>3. PICK b : b = BuildChunkFrame(UpId, seq, last, data)
    OBVIOUS
  <2>4. data \in Seq({seq})
    <3>1. <<>> \in Seq({seq}) /\ <<seq>> \in Seq({seq})
      OBVIOUS
    <3>. QED  BY <2>1, <3>1
  <2>5. UpId \in Word /\ seq \in Word
    BY <2>1, ChunkNumbers
  <2>6. HasFlag(b, Keyframe) = last
    BY <2>1, <2>3, <2>4, <2>5, ChunkReads
  <2>7. ParseFileChunk(b).last = last
    BY <2>6 DEF ParseFileChunk
  <2>8. AsSent(m) = [text |-> FALSE, bytes |-> b]
    BY <2>2, <2>3 DEF AsSent, AsBinary
  <2>9. \E S : b \in Seq(S)
    BY <2>1, <2>3, <2>4, ChunkReadable DEF ReadableBy, AsBinary
  <2>. QED  BY <2>1, <2>2, <2>7, <2>8, <2>9
<1>. QED  BY <1>1, <1>2 DEF UpShaped

\* The handler's answer, if any.
Replies(name) ==
    \/ PcSilent
    \/ name \in FileAnswers /\ \E body, arg : PcSendsText(TextMsg(name, body, arg))

LEMMA PcReplies ==
    ASSUME NEW m, UpShaped(m, MaxChunk), scene = "files", ~refused',
           NEW b, NEW text, AsSent(m) = [text |-> text, bytes |-> b],
           IF text THEN TakeText(b[1]) ELSE TakeBytes(b)
    PROVE  Replies(AnswerTo(m))
<1>1. CASE m.kind = "text" /\ AsSent(m) = [text |-> TRUE, bytes |-> <<m>>]
  <2>1. text = TRUE /\ b[1] = m
    BY <1>1
  <2>2. TakeText(m)
    BY <2>1
  <2>3. /\ m.name = "file_transfer_begin" => PcAnswers("file_transfer_accepted", m.arg)
        /\ m.name # "file_transfer_begin" => PcSilent
    BY <2>2 DEF TakeText
  <2>4. CASE m.name = "file_transfer_begin"
    <3>1. \E body : PcSendsText(TextMsg("file_transfer_accepted", body, m.arg))
      BY <2>3, <2>4 DEF PcAnswers
    <3>2. AnswerTo(m) = "file_transfer_accepted"
      BY <1>1, <2>4 DEF AnswerTo
    <3>. QED  BY <3>1, <3>2 DEF Replies, FileAnswers
  <2>5. CASE m.name # "file_transfer_begin"
    BY <2>3, <2>5 DEF Replies
  <2>. QED  BY <2>4, <2>5
<1>2. CASE /\ m.kind = "chunk"
           /\ \E c, S : /\ c \in Seq(S) /\ AsSent(m) = [text |-> FALSE, bytes |-> c]
                        /\ ParseFileChunk(c).last = m.last
                        /\ m.last \in BOOLEAN
  <2>1. PICK c : /\ AsSent(m) = [text |-> FALSE, bytes |-> c]
                 /\ ParseFileChunk(c).last = m.last
    BY <1>2
  <2>2. text = FALSE /\ b = c
    BY <2>1
  <2>3. TakeBytes(c)
    BY <2>2
  <2>4. \/ PcSilent
        \/ m.last /\ \E arg : PcAnswers("file_transfer_complete", arg)
    BY <2>1, <2>3 DEF TakeBytes
  <2>5. CASE m.last /\ \E arg : PcAnswers("file_transfer_complete", arg)
    <3>1. \E body, arg : PcSendsText(TextMsg("file_transfer_complete", body, arg))
      BY <2>5 DEF PcAnswers
    <3>2. AnswerTo(m) = "file_transfer_complete"
      BY <1>2, <2>5 DEF AnswerTo
    <3>. QED  BY <3>1, <3>2 DEF Replies, FileAnswers
  <2>. QED  BY <2>4, <2>5 DEF Replies
<1>. QED  BY <1>1, <1>2, UploadReads

\* An answer that was not given before, or none.
SaysNewText ==
    \/ PcSilent
    \/ \E name \in FileAnswers : \E body, arg :
          ~Says(sent, name) /\ PcSendsText(TextMsg(name, body, arg))

\* The PC takes the first of a place, and answers it.
LEMMA UploadTaken ==
    ASSUME NEW N, Uploads(N), NEW b \in {5, 7}, N[b] # <<>>, b = 7 => N[5] = <<>>,
           NEW S, sent \in Seq(S), UNCHANGED <<told, route>>,
           NEW M, M = PassedOn(N, 1, b),
           upSocket' = Looks(7, M[7], told), toHost' = Looks(5, M[5], told),
           Replies(AnswerTo(told[Head(N[b])]))
    PROVE  Uploads(M)' /\ SaysNewText
<1>1. PICK l \in Nat : l = Len(told)
  <2>1. PICK T : told \in Seq(T)
    BY DEF Uploads, Way
  <2>. QED  BY <2>1, LenProperties
<1>3. LaneOrder(N, Fasts(l)) /\ (\A i \in 1..l : Fasts(l)[i] = "fast") /\ Len(Fasts(l)) = l
  BY <1>1, FastsMore DEF Uploads, Way
<1>4. /\ N \in [Place -> Seq(Nat)] /\ b \in Place /\ 1 \in Place /\ 1 # b
      /\ N[b] \in Seq(Nat) /\ N[1] \in Seq(Nat)
  BY <1>3 DEF LaneOrder, Place
<1>6. PICK h : h = Head(N[b])
  OBVIOUS
<1>7. /\ Len(N[b]) \in Nat /\ Len(N[b]) > 0 /\ h = N[b][1] /\ 1 \in 1..Len(N[b])
      /\ h \in 1..l /\ Fasts(l)[h] = "fast"
  <2>1. Len(N[b]) \in Nat /\ Len(N[b]) > 0 /\ h = N[b][1]
    BY <1>4, <1>6, HeadTailProperties, EmptySeq
  <2>2. 1 \in 1..Len(N[b])
    BY <2>1
  <2>3. h \in 1..Len(Fasts(l))
    BY <1>3, <1>4, <2>1, <2>2 DEF LaneOrder
  <2>4. h \in 1..l
    BY <1>3, <2>3
  <2>. QED  BY <1>3, <2>1, <2>2, <2>4
<1>8. Passable(N, Fasts(l), 1, b)
  <2>1. MayHold(1, "fast") /\ 1 < b
    BY DEF MayHold
  <2>2. ASSUME NEW c \in Place, 1 < c, c < b, NEW k \in 1..Len(N[c]) PROVE FALSE
    <3>1. c \in {2, 3, 4, 5, 6}
      BY <2>2 DEF Place
    <3>2. CASE c \in {2, 3}
      <4>1. N[c] = <<>>
        BY <3>2 DEF Uploads, Way
      <4>. QED  BY <2>2, <4>1
    <3>3. CASE c = 5
      <4>1. N[c] = <<>>
        BY <2>2, <3>3
      <4>. QED  BY <2>2, <4>1
    <3>4. CASE c \in {4, 6}
      <4>1. N[c][k] \in 1..Len(Fasts(l)) /\ MayHold(c, Fasts(l)[N[c][k]])
        BY <1>3, <2>2 DEF LaneOrder
      <4>2. MayHold(c, "fast")
        BY <1>3, <4>1
      <4>. QED  BY <3>4, <4>2 DEF MayHold
    <3>. QED  BY <3>1, <3>2, <3>3, <3>4
  <2>. QED  BY <1>6, <1>7, <2>1, <2>2 DEF Passable
<1>9. LaneOrder(M, Fasts(l))
  BY <1>3, <1>4, <1>8, PassKeepsOrder
<1>10. /\ M[1] = Append(N[1], h)
       /\ \A c \in Place : c # 1 /\ c # b => M[c] = N[c]
       /\ M[b] = Tail(N[b])
  <2>1. Handed(N, M, 1, b, told)
    BY <1>4, LooksPassed
  <2>. QED  BY <1>6, <2>1 DEF Handed
<1>11. Way(M)'
  <2>1. M[2] = <<>> /\ M[3] = <<>>
    <3>1. 2 \in Place /\ 3 \in Place /\ N[2] = <<>> /\ N[3] = <<>>
      BY DEF Place, Uploads, Way
    <3>2. M[2] = N[2] /\ M[3] = N[3]
      BY <1>10, <3>1
    <3>. QED  BY <3>1, <3>2
  <2>2. route' = "lan" => M[5] = <<>>
    <3>1. CASE b = 5
      BY <3>1 DEF Uploads, Way
    <3>2. CASE b = 7
      <4>1. 5 \in Place /\ M[5] = N[5]
        BY <1>10, <3>2 DEF Place
      <4>. QED  BY <3>2, <4>1
    <3>. QED  BY <3>1, <3>2
  <2>3. LaneOrder(M, Fasts(Len(told')))
    BY <1>1, <1>9
  <2>4. \E T : told' \in Seq(T)
    BY DEF Uploads, Way
  <2>. QED  BY <2>1, <2>2, <2>3, <2>4 DEF Way
\* What is answered was not answered before.
<1>12. PICK name : name = AnswerTo(told[h])
  OBVIOUS
<1>13. PICK la \in Nat : la = Len(N[1])
  BY <1>4, LenProperties
<1>14. /\ Len(M[1]) = la + 1 /\ M[1][la + 1] = h
       /\ \A k \in 1..la : M[1][k] = N[1][k]
  <2>1. PICK q, r : q = N[1] /\ r = M[1]
    OBVIOUS
  <2>2. q \in Seq(Nat) /\ h \in Nat /\ r = Append(q, h) /\ Len(q) = la
    BY <1>4, <1>7, <1>10, <1>13, <2>1
  <2>3. /\ Len(r) = la + 1 /\ r[la + 1] = h
        /\ \A k \in 1..la : r[k] = q[k]
    BY <2>2, AppendProperties
  <2>. QED  BY <2>1, <2>3
<1>15. name \in FileAnswers => ~Says(sent, name)
  <2> SUFFICES ASSUME name \in FileAnswers, Says(sent, name) PROVE FALSE
    OBVIOUS
  <2>1. PICK k \in 1..Len(N[1]) : AnswerTo(told[N[1][k]]) = name
    BY DEF Uploads, Answered
  <2>2. N[1][k] \in 1..l
    BY <1>3, <1>4 DEF LaneOrder
  <2>3. N[1][k] = h
    BY <1>1, <1>7, <1>12, <2>1, <2>2 DEF Uploads
  <2>4. Ahead(1, k, b, 1)
    BY DEF Ahead
  <2>5. N[1][k] # N[b][1]
    BY <1>3, <1>4, <1>7, <2>4 DEF LaneOrder
  <2>. QED  BY <1>7, <2>3, <2>5
<1>16. PcSilent \/ (name \in FileAnswers /\ \E body, arg : PcSendsText(TextMsg(name, body, arg)))
  BY <1>6, <1>12 DEF Replies
<1>17. SaysNewText
  BY <1>15, <1>16 DEF SaysNewText
<1>18. \A other \in FileAnswers : Says(sent', other) => Says(sent, other) \/ other = name
  <2>1. CASE PcSilent
    BY <2>1 DEF PcSilent
  <2>2. CASE \E body, arg : PcSendsText(TextMsg(name, body, arg))
    <3>1. PICK body, arg : PcSendsText(TextMsg(name, body, arg))
      BY <2>2
    <3>2. PICK m : m = TextMsg(name, body, arg) /\ sent' = Append(sent, m)
      BY <3>1 DEF PcSendsText
    <3>3. m.name = name
      BY <3>2 DEF TextMsg
    <3>4. PICK T : T = S \union {m}
      OBVIOUS
    <3>5. sent \in Seq(T) /\ m \in T
      BY <3>4, SeqMonotonic
    <3>. QED  BY <3>2, <3>3, <3>5, SaysMore
  <2>. QED  BY <1>16, <2>1, <2>2
<1>19. Answered(M)'
  <2> SUFFICES ASSUME NEW other \in FileAnswers, Says(sent', other)
               PROVE  \E k \in 1..Len(M[1]) : AnswerTo(told[M[1][k]]) = other
    BY DEF Answered
  <2>1. CASE Says(sent, other)
    <3>1. PICK k \in 1..la : AnswerTo(told[N[1][k]]) = other
      BY <1>13, <2>1 DEF Uploads, Answered
    <3>2. k \in 1..la + 1
      OBVIOUS
    <3>. QED  BY <1>14, <3>1, <3>2
  <2>2. CASE other = name
    <3>1. la + 1 \in 1..la + 1
      OBVIOUS
    <3>. QED  BY <1>12, <1>14, <2>2, <3>1
  <2>. QED  BY <1>18, <2>1, <2>2
<1>. QED  BY <1>11, <1>17, <1>19 DEF Uploads

\* run_connection, while a file is uploaded.
LEMMA UploadsTaken ==
    ASSUME NEW N, Uploads(N), PcTakesMessage, scene = "files", ~refused',
           NEW S, sent \in Seq(S)
    PROVE  SaysNewText /\ \E M : Uploads(M)'
<1>1. N \in [Place -> Seq(Nat)] /\ 1 \in Place /\ 5 \in Place /\ 7 \in Place
  BY DEF Uploads, Way, LaneOrder, Place
<1>2. UNCHANGED <<told, route>>
  BY DEF PcTakesMessage, choiceVars
<1>3. ASSUME NEW b \in {5, 7}, N[b] # <<>>
      PROVE  UpShaped(told[Head(N[b])], MaxChunk)
  <2>1. PICK c \in Nat : c = Number(told, "chunk") /\ c <= MaxChunk
    BY WireAssumption DEF Uploads
  <2>2. Head(N[b]) \in 1..Len(told)
    <3>1. PICK l \in Nat : l = Len(told)
      <4>1. PICK T : told \in Seq(T)
        BY DEF Uploads, Way
      <4>. QED  BY <4>1, LenProperties
    <3>2. N[b] \in Seq(Nat)
      BY <1>1
    <3>3. Len(N[b]) \in Nat /\ Len(N[b]) > 0 /\ Head(N[b]) = N[b][1]
      BY <1>3, <3>2, HeadTailProperties, EmptySeq
    <3>4. 1 \in 1..Len(N[b])
      BY <3>3
    <3>5. LaneOrder(N, Fasts(l)) /\ Len(Fasts(l)) = l /\ b \in Place
      BY <1>1, <3>1, FastsMore DEF Uploads, Way
    <3>6. N[b][1] \in 1..l
      BY <3>4, <3>5 DEF LaneOrder
    <3>. QED  BY <3>1, <3>3, <3>6
  <2>3. UpShaped(told[Head(N[b])], c)
    BY <2>1, <2>2 DEF Uploads
  <2>4. 0..c - 1 \subseteq 0..MaxChunk - 1
    BY <2>1, WireAssumption
  <2>. QED  BY <2>3, <2>4 DEF UpShaped
<1>4. CASE /\ route = "lan" /\ upSocket # <<>>
           /\ upSocket' = Tail(upSocket) /\ UNCHANGED toHost
           /\ LET m == Head(upSocket)
              IN  IF m.text THEN TakeText(m.bytes[1]) ELSE TakeBytes(m.bytes)
  <2>1. N[7] # <<>> /\ N[5] = <<>> /\ N[7] \in Seq(Nat)
    BY <1>1, <1>4, LooksNone DEF Uploads, Way
  <2>2. PICK m : m = told[Head(N[7])]
    OBVIOUS
  <2>3. Head(upSocket) = AsSent(m)
    <3>1. Head(Looks(7, N[7], told)) = Look(7, m)
      BY <2>1, <2>2, LooksFirst
    <3>. QED  BY <3>1 DEF Look, Uploads, Way
  <2>4. UpShaped(m, MaxChunk)
    BY <1>3, <2>1, <2>2
  <2>5. PICK text, b : AsSent(m) = [text |-> text, bytes |-> b]
    BY <2>4, UploadReads
  <2>6. IF text THEN TakeText(b[1]) ELSE TakeBytes(b)
    BY <1>4, <2>3, <2>5
  <2>7. Replies(AnswerTo(m))
    BY <2>4, <2>5, <2>6, PcReplies
  <2>8. PICK M : M = PassedOn(N, 1, 7)
    OBVIOUS
  <2>9. Handed(N, M, 1, 7, told)
    <3>1. 1 # 7
      OBVIOUS
    <3>. QED  BY <1>1, <2>1, <2>8, <3>1, LooksPassed
  <2>10. upSocket' = Looks(7, M[7], told)
    BY <1>4, <2>9 DEF Handed, Uploads, Way
  <2>11. toHost' = Looks(5, M[5], told)
    <3>1. M[5] = N[5]
      <4>1. \A c \in Place : c # 1 /\ c # 7 => M[c] = N[c]
        BY <2>9 DEF Handed
      <4>. QED  BY <1>1, <4>1
    <3>. QED  BY <1>4, <3>1 DEF Uploads, Way
  <2>12. 7 \in {5, 7}
    OBVIOUS
  <2>. QED  BY <1>2, <2>1, <2>2, <2>7, <2>8, <2>10, <2>11, <2>12, UploadTaken
<1>5. CASE /\ toHost # <<>> /\ toHost' = Tail(toHost) /\ UNCHANGED upSocket
           /\ LET d == Decode(Head(toHost))
              IN  IF d.text THEN TakeText(d.payload[1]) ELSE TakeBytes(d.payload)
  <2>1. N[5] # <<>> /\ N[5] \in Seq(Nat)
    BY <1>1, <1>5, LooksNone DEF Uploads, Way
  <2>2. PICK m : m = told[Head(N[5])]
    OBVIOUS
  <2>3. Head(toHost) = Wrapped(m)
    <3>1. Head(Looks(5, N[5], told)) = Look(5, m)
      BY <2>1, <2>2, LooksFirst
    <3>. QED  BY <3>1 DEF Look, Uploads, Way
  <2>4. UpShaped(m, MaxChunk)
    BY <1>3, <2>1, <2>2
  <2>5. PICK text, b : /\ text \in BOOLEAN /\ AsSent(m) = [text |-> text, bytes |-> b]
                       /\ \E T : b \in Seq(T)
    <3>1. <<m>> \in Seq({m})
      OBVIOUS
    <3>. QED  BY <2>4, <3>1, UploadReads
  <2>6. Decode(Head(toHost)).text = text /\ Decode(Head(toHost)).payload = b
    <3>1. Head(toHost) = EncodeData(Phone, text, b)
      BY <2>3, <2>5 DEF Wrapped
    <3>. QED  BY <2>5, <3>1, WrappedReads
  <2>7. IF text THEN TakeText(b[1]) ELSE TakeBytes(b)
    BY <1>5, <2>6
  <2>8. Replies(AnswerTo(m))
    BY <2>4, <2>5, <2>7, PcReplies
  <2>9. PICK M : M = PassedOn(N, 1, 5)
    OBVIOUS
  <2>10. Handed(N, M, 1, 5, told)
    <3>1. 1 # 5
      OBVIOUS
    <3>. QED  BY <1>1, <2>1, <2>9, <3>1, LooksPassed
  <2>11. toHost' = Looks(5, M[5], told)
    BY <1>5, <2>10 DEF Handed, Uploads, Way
  <2>12. upSocket' = Looks(7, M[7], told)
    <3>1. M[7] = N[7]
      <4>1. \A c \in Place : c # 1 /\ c # 5 => M[c] = N[c]
        BY <2>10 DEF Handed
      <4>2. 7 \in Place /\ 7 # 1 /\ 7 # 5
        BY DEF Place
      <4>. QED  BY <4>1, <4>2, Zenon
    <3>. QED  BY <1>5, <3>1 DEF Uploads, Way
  <2>13. 5 \in {5, 7}
    OBVIOUS
  <2>. QED  BY <1>2, <2>1, <2>2, <2>8, <2>9, <2>11, <2>12, <2>13, UploadTaken
<1>. QED  BY <1>4, <1>5 DEF PcTakesMessage

-----------------------------------------------------------------------------
(* What the session keeps *)

\* Without a file, the phone says texts only.
UpInv ==
    /\ scene # "files" => Texts(upSocket) /\ Wraps(toHost)
    /\ scene = "files" => \E N : Uploads(N)

\* A file is announced by its id.
Announces(s) ==
    \A n \in 1..Len(s) :
        s[n].kind = "text" /\ s[n].name = "file_send_begin" => s[n].arg = DownId

SessionInv ==
    /\ FramesKept /\ Saying(sent, Cardinality(packets)) /\ UpInv
    /\ scene = "files" => Announces(sent)

\* Whatever else is said.
LEMMA StillAnnounces ==
    ASSUME NEW S, NEW s \in Seq(S), Announces(s), NEW m,
           m.kind = "text" /\ m.name = "file_send_begin" => m.arg = DownId
    PROVE  Announces(Append(s, m))
<1>1. PICK T : T = S \union {m}
  OBVIOUS
<1>2. s \in Seq(T) /\ m \in T
  BY <1>1, SeqMonotonic
<1>3. PICK l, t : l \in Nat /\ l = Len(s) /\ t = Append(s, m)
  BY <1>2, LenProperties
<1>4. /\ Len(t) = l + 1 /\ t[l + 1] = m
      /\ \A i \in 1..l : t[i] = s[i]
  BY <1>2, <1>3, AppendProperties
<1>5. 1..l + 1 = (1..l) \union {l + 1}
  BY <1>3
<1>. QED  BY <1>3, <1>4, <1>5 DEF Announces

\* The PC says something that is no answer.
LEMMA UpStays ==
    ASSUME UpInv, NEW S, sent \in Seq(S), UNCHANGED <<scene, route, upSocket, toHost, told>>,
           \/ sent' = sent
           \/ \E m : /\ sent' = Append(sent, m)
                     /\ scene = "files" => ~(m.kind = "text" /\ m.name \in FileAnswers)
    PROVE  UpInv'
<1>1. CASE scene # "files"
  BY <1>1 DEF UpInv
<1>2. CASE scene = "files"
  <2>1. PICK N : Uploads(N)
    BY <1>2 DEF UpInv
  <2>2. \A name \in FileAnswers : Says(sent', name) => Says(sent, name)
    <3>1. CASE sent' = sent
      BY <3>1
    <3>2. CASE sent' # sent
      <4>1. PICK m : sent' = Append(sent, m) /\ ~(m.kind = "text" /\ m.name \in FileAnswers)
        BY <1>2, <3>2
      <4>2. PICK T : T = S \union {m}
        OBVIOUS
      <4>3. sent \in Seq(T) /\ m \in T
        BY <4>2, SeqMonotonic
      <4>. QED  BY <4>1, <4>3, SaysMore
    <3>. QED  BY <3>1, <3>2
  <2>3. Answered(N)'
    BY <2>1, <2>2 DEF Uploads, Answered
  <2>4. Way(N)'
    BY <2>1 DEF Uploads, Way
  <2>5. Uploads(N)'
    BY <2>1, <2>3, <2>4 DEF Uploads
  <2>. QED  BY <1>2, <2>5 DEF UpInv
<1>. QED  BY <1>1, <1>2

\* The phone says a text; it announces an upload once.
LEMMA PhoneSaysText ==
    ASSUME UpInv, NEW name, NEW body, NEW arg, NEW m, m = TextMsg(name, body, arg),
           PhoneSends(m, AsText(m)), UNCHANGED <<scene, route, toHost, sent>>,
           scene = "files" /\ name = "file_transfer_begin" => ~Says(told, name)
    PROVE  UpInv'
<1>0. m.kind = "text" /\ m.name = name
  BY DEF TextMsg
<1>1. CASE scene # "files"
  <2>1. Texts(upSocket) /\ Wraps(toHost) /\ upSocket' = Append(upSocket, AsText(m))
    BY <1>1 DEF UpInv, PhoneSends
  <2>2. Texts(upSocket')
    BY <2>1, TextsMore
  <2>. QED  BY <1>1, <2>1, <2>2 DEF UpInv
<1>2. CASE scene = "files"
  <2>1. PICK N : Uploads(N)
    BY <1>2 DEF UpInv
  <2>2. PICK S : told \in Seq(S)
    BY <2>1 DEF Uploads, Way
  <2>3. PICK T : T = S \union {m}
    OBVIOUS
  <2>4. told \in Seq(T) /\ m \in T
    BY <2>2, <2>3, SeqMonotonic
  <2>5. Number(Append(told, m), "chunk") = Number(told, "chunk")
    <3>1. /\ Number(told, "chunk") \in Nat
          /\ Number(Append(told, m), "chunk") =
                Number(told, "chunk") + (IF m.kind = "chunk" THEN 1 ELSE 0)
      BY <2>4, NumberMore
    <3>. QED  BY <1>0, <3>1
  <2>6. Number(Append(told, m), "chunk") <= MaxChunk
    BY <2>1, <2>5, WireAssumption DEF Uploads
  <2>7. UpShaped(m, Number(Append(told, m), "chunk"))
    BY Zenon DEF UpShaped
  <2>8. AnswerTo(m) \in FileAnswers =>
           \A i \in 1..Len(told) : AnswerTo(told[i]) # AnswerTo(m)
    <3> SUFFICES ASSUME AnswerTo(m) \in FileAnswers, NEW i \in 1..Len(told),
                        AnswerTo(told[i]) = AnswerTo(m)
                 PROVE  FALSE
      OBVIOUS
    <3>1. name = "file_transfer_begin" /\ AnswerTo(m) = "file_transfer_accepted"
      BY <1>0 DEF AnswerTo, FileAnswers
    <3>2. told[i].kind = "text" /\ told[i].name = name
      BY <3>1 DEF AnswerTo
    <3>3. Says(told, name)
      BY <2>2, <3>2, SaysAt
    <3>. QED  BY <1>2, <3>1, <3>3
  <2>9. PhoneSends(m, AsSent(m))
    BY <1>0 DEF AsSent
  <2>10. \E M : Uploads(M)'
    BY <2>1, <2>6, <2>7, <2>8, <2>9, UploadsGrow
  <2>. QED  BY <1>2, <2>10 DEF UpInv
<1>. QED  BY <1>1, <1>2

\* The upload's next chunk.
LEMMA PhoneSaysChunk ==
    ASSUME UpInv, scene = "files", NEW seq, seq = Number(told, "chunk"), seq < MaxChunk,
           NEW last, last = (seq = MaxChunk - 1), NEW data \in {<<>>, <<seq>>},
           PhoneSends(Chunk(UpId, seq, last, data),
                      AsBinary(PhoneChunkFrame(UpId, seq, last, data))),
           UNCHANGED <<scene, route, toHost, sent>>
    PROVE  UpInv'
<1>1. PICK N : Uploads(N)
  BY DEF UpInv
<1>2. PICK m : m = Chunk(UpId, seq, last, data)
  OBVIOUS
<1>3. /\ m.kind = "chunk" /\ m.id = UpId /\ m.seq = seq /\ m.last = last /\ m.data = data
  BY <1>2 DEF Chunk
<1>4. PICK S : told \in Seq(S)
  BY <1>1 DEF Uploads, Way
<1>5. PICK T : T = S \union {m}
  OBVIOUS
<1>6. told \in Seq(T) /\ m \in T
  BY <1>4, <1>5, SeqMonotonic
<1>7. seq \in Nat /\ Number(Append(told, m), "chunk") = seq + 1
  <2>1. /\ Number(told, "chunk") \in Nat
        /\ Number(Append(told, m), "chunk") =
              Number(told, "chunk") + (IF m.kind = "chunk" THEN 1 ELSE 0)
    BY <1>6, NumberMore
  <2>. QED  BY <1>3, <2>1
<1>8. MaxChunk \in Nat
  BY WireAssumption
<1>9. Number(Append(told, m), "chunk") <= MaxChunk
  BY <1>7, <1>8
<1>10. UpShaped(m, Number(Append(told, m), "chunk"))
  <2>1. seq \in 0..Number(Append(told, m), "chunk") - 1
    BY <1>7
  <2>2. m = Chunk(UpId, seq, seq = MaxChunk - 1, data)
    BY <1>2
  <2>. QED  BY <2>1, <2>2, Zenon DEF UpShaped
<1>11. AnswerTo(m) \in FileAnswers =>
          \A i \in 1..Len(told) : AnswerTo(told[i]) # AnswerTo(m)
  <2> SUFFICES ASSUME AnswerTo(m) \in FileAnswers, NEW i \in 1..Len(told),
                      AnswerTo(told[i]) = AnswerTo(m)
               PROVE  FALSE
    OBVIOUS
  <2>1. last /\ AnswerTo(m) = "file_transfer_complete"
    BY <1>3 DEF AnswerTo, FileAnswers
  <2>2. told[i].kind # "text" /\ told[i].last
    BY <2>1 DEF AnswerTo
  <2>3. UpShaped(told[i], seq)
    BY <1>1 DEF Uploads
  <2>4. PICK k \in 0..seq - 1 : \E d : told[i] = Chunk(UpId, k, k = MaxChunk - 1, d)
    <3>1. CASE \E name, body, arg : told[i] = TextMsg(name, body, arg)
      BY <2>2, <3>1 DEF TextMsg
    <3>2. CASE \E k \in 0..seq - 1 : \E d \in {<<>>, <<k>>} :
                  told[i] = Chunk(UpId, k, k = MaxChunk - 1, d)
      BY <3>2
    <3>. QED  BY <2>3, <3>1, <3>2 DEF UpShaped
  <2>5. k = MaxChunk - 1
    <3>1. PICK d : told[i] = Chunk(UpId, k, k = MaxChunk - 1, d)
      BY <2>4
    <3>2. PICK end : end = (k = MaxChunk - 1)
      OBVIOUS
    <3>3. told[i] = Chunk(UpId, k, end, d)
      BY <3>1, <3>2
    <3>4. told[i].last = end
      BY <3>3 DEF Chunk
    <3>. QED  BY <2>2, <3>2, <3>4
  <2>. QED  BY <1>7, <1>8, <2>1, <2>5
<1>12. PhoneSends(m, AsSent(m))
  <2>1. Bits(UpId) = UpId /\ Bits(seq) = seq
    <3>1. seq \in 0..MaxChunk - 1
      BY <1>7, <1>8
    <3>. QED  BY <3>1, ChunkNumbers
  <2>2. AsSent(m) = AsBinary(PhoneChunkFrame(UpId, seq, last, data))
    BY <1>3, <2>1 DEF AsSent, PhoneChunkFrame
  <2>. QED  BY <1>2, <2>2
<1>13. \E M : Uploads(M)'
  BY <1>1, <1>9, <1>10, <1>11, <1>12, UploadsGrow
<1>. QED  BY <1>13 DEF UpInv

\* client_loop's reader, in any case.
LEMMA ReaderKeeps ==
    ASSUME UpInv, RelayReader
    PROVE  UpInv'
<1>1. UNCHANGED <<scene, route, sent, told>>
  BY DEF RelayReader, choiceVars, downVars
<1>2. CASE scene # "files"
  <2>1. Texts(upSocket) /\ Wraps(toHost)
    BY <1>2 DEF UpInv
  <2>2. /\ upSocket # <<>> /\ upSocket' = Tail(upSocket)
        /\ toHost' = Append(toHost, EncodeData(Phone, Head(upSocket).text, Head(upSocket).bytes))
    BY DEF RelayReader
  <2>3. PICK t : Head(upSocket) = AsText(t)
    BY <2>1, <2>2, TextsMove
  <2>4. toHost' = Append(toHost, EncodeData(Phone, TRUE, <<t>>))
    <3>1. Head(upSocket).text = TRUE /\ Head(upSocket).bytes = <<t>>
      BY <2>3 DEF AsText
    <3>. QED  BY <2>2, <3>1
  <2>5. Texts(upSocket') /\ Wraps(toHost')
    BY <2>1, <2>2, <2>4, TextsMove, TextsMore
  <2>. QED  BY <1>1, <1>2, <2>5 DEF UpInv
<1>3. CASE scene = "files"
  BY <1>1, <1>3, UploadsPass DEF UpInv
<1>. QED  BY <1>2, <1>3

\* run_connection, in any case.
LEMMA PcTakesKeeps ==
    ASSUME UpInv, PcTakesMessage, ~refused', NEW S, sent \in Seq(S)
    PROVE  UpInv' /\ SaysNewText
<1>1. UNCHANGED <<scene, route, told>>
  BY DEF PcTakesMessage, choiceVars
<1>2. CASE scene # "files"
  <2>1. Texts(upSocket) /\ Wraps(toHost)
    BY <1>2 DEF UpInv
  <2>2. ASSUME NEW t, TakeText(t) PROVE PcSilent
    BY <1>2, <2>2 DEF TakeText
  <2>3. CASE /\ upSocket # <<>> /\ upSocket' = Tail(upSocket) /\ UNCHANGED toHost
             /\ LET m == Head(upSocket)
                IN  IF m.text THEN TakeText(m.bytes[1]) ELSE TakeBytes(m.bytes)
    <3>1. PICK t : Head(upSocket) = AsText(t)
      BY <2>1, <2>3, TextsMove
    <3>2. Head(upSocket).text = TRUE
      BY <3>1 DEF AsText
    <3>3. PcSilent
      BY <2>2, <2>3, <3>2
    <3>4. Texts(upSocket')
      BY <2>1, <2>3, TextsMove
    <3>. QED  BY <1>1, <1>2, <2>1, <2>3, <3>3, <3>4 DEF UpInv, SaysNewText
  <2>4. CASE /\ toHost # <<>> /\ toHost' = Tail(toHost) /\ UNCHANGED upSocket
             /\ LET d == Decode(Head(toHost))
                IN  IF d.text THEN TakeText(d.payload[1]) ELSE TakeBytes(d.payload)
    <3>1. PICK t : Head(toHost) = EncodeData(Phone, TRUE, <<t>>)
      BY <2>1, <2>4, WrapsMove
    <3>2. Decode(Head(toHost)).text = TRUE
      <4>1. <<t>> \in Seq({t}) /\ TRUE \in BOOLEAN
        OBVIOUS
      <4>. QED  BY <3>1, <4>1, WrappedReads
    <3>3. PcSilent
      BY <2>2, <2>4, <3>2
    <3>4. Wraps(toHost')
      BY <2>1, <2>4, WrapsMove
    <3>. QED  BY <1>1, <1>2, <2>1, <2>4, <3>3, <3>4 DEF UpInv, SaysNewText
  <2>. QED  BY <2>3, <2>4 DEF PcTakesMessage
<1>3. CASE scene = "files"
  BY <1>1, <1>3, UploadsTaken DEF UpInv
<1>. QED  BY <1>2, <1>3

\* At the start nothing was said.
LEMMA SessionStarts == WireInit => SessionInv
<1> SUFFICES ASSUME WireInit PROVE SessionInv
  OBVIOUS
<1>1. FramesKept
  BY EncoderAssumption DEF WireInit, Init, FramesKept
<1>2. sent = <<>> /\ told = <<>> /\ packets = {}
  BY DEF WireInit, Init
<1>3. Cardinality(packets) = 0 /\ \A kind : Number(<<>>, kind) = 0
  <2>0. Len(<<>>) = 0 /\ 1..0 = {}
    OBVIOUS
  <2>1. PICK E : E = <<>>
    OBVIOUS
  <2>2. Len(E) = 0 /\ 1..0 = {}
    BY <2>0, <2>1
  <2>3. \A kind : {i \in 1..Len(E) : E[i].kind = kind} = {}
    BY <2>2
  <2>4. \A kind : Number(E, kind) = 0
    BY <2>3, FS_EmptySet DEF Number
  <2>. QED  BY <1>2, <2>1, <2>4, FS_EmptySet
<1>4. <<>> \in Seq({})
  OBVIOUS
<1>5. Len(<<>>) = 0 /\ 1..0 = {}
  OBVIOUS
<1>6. 0 \in 0..MaxFrame /\ 0 \in 0..MaxSound /\ 0 \in 0..MaxChunk
  BY EncoderAssumption, WireAssumption
<1>7. Saying(sent, Cardinality(packets))
  <2>1. PICK E : E = <<>>
    OBVIOUS
  <2>2. sent = E /\ Number(E, "sound") = 0 /\ Number(E, "chunk") = 0 /\ Len(E) = 0
    BY <1>2, <1>3, <1>5, <2>1
  <2>3. \E S : E \in Seq(S)
    BY <1>4, <2>1
  <2>4. Saying(E, 0)
    BY <1>5, <1>6, <2>2, <2>3 DEF Saying
  <2>. QED  BY <1>3, <2>2, <2>4
<1>8. ASSUME scene # "files" PROVE Texts(upSocket) /\ Wraps(toHost)
  <2>1. upSocket = <<>> /\ toHost = <<>>
    BY DEF WireInit
  <2>2. PICK Q : Q = {}
    OBVIOUS
  <2>3. <<>> \in Seq(Q) /\ \A x \in Q : FALSE
    BY <1>4, <2>2
  <2>. QED  BY <2>1, <2>3 DEF Texts, Wraps
<1>9. ASSUME scene = "files" PROVE \E N : Uploads(N)
  <2>1. PICK N : N = [a \in Place |-> <<>>]
    OBVIOUS
  <2>2. N \in [Place -> Seq(Nat)] /\ \A a \in Place : N[a] = <<>> /\ Len(N[a]) = 0
    <3>1. <<>> \in Seq(Nat)
      OBVIOUS
    <3>. QED  BY <2>1, <3>1
  <2>3. 0 \in Nat /\ Len(Fasts(0)) = 0
    BY FastsMore
  <2>4. LaneOrder(N, Fasts(0))
    BY <1>5, <2>2, <2>3 DEF LaneOrder
  <2>5. {1, 2, 3, 5, 7} \subseteq Place
    BY DEF Place
  <2>6. \A a, said : Looks(a, <<>>, said) = <<>>
    <3>1. <<>> \in Seq(Nat)
      OBVIOUS
    <3>. QED  BY <3>1, LooksNone
  <2>7. Way(N)
    <3>1. upSocket = Looks(7, N[7], told) /\ toHost = Looks(5, N[5], told)
      <4>1. N[7] = <<>> /\ N[5] = <<>> /\ upSocket = <<>> /\ toHost = <<>>
        BY <2>2, <2>5 DEF WireInit
      <4>. QED  BY <2>6, <4>1
    <3>2. N[2] = <<>> /\ N[3] = <<>> /\ N[5] = <<>>
      BY <2>2, <2>5
    <3>3. Len(told) = 0 /\ \E T : told \in Seq(T)
      BY <1>2, <1>4, <1>5
    <3>. QED  BY <2>4, <3>1, <3>2, <3>3 DEF Way
  <2>8. Answered(N)
    <3>1. \A name : ~Says(<<>>, name)
      BY <1>4, <1>5, SaysAt
    <3>. QED  BY <1>2, <3>1 DEF Answered
  <2>9. Len(told) = 0 /\ Number(told, "chunk") = 0
    BY <1>2, <1>3, <1>5
  <2>. QED  BY <1>5, <1>6, <2>7, <2>8, <2>9 DEF Uploads
<1>10. Announces(sent)
  BY <1>2, <1>5 DEF Announces
<1>. QED  BY <1>1, <1>7, <1>8, <1>9, <1>10 DEF SessionInv, UpInv

\* Who speaks of the PC, but for its answers.
LEMMA PcSpeaksOn ==
    ASSUME SessionInv, PictureOut \/ SoundOut \/ AnnounceFile \/ PushChunk \/ PcTalks
    PROVE  SessionInv'
<1>1. PICK S : sent \in Seq(S)
  BY DEF SessionInv, Saying
<1>2. PICK p : p = Cardinality(packets) /\ Saying(sent, p)
  BY DEF SessionInv
<1>3. UNCHANGED <<scene, route, upSocket, toHost, told>>
  BY DEF PictureOut, SoundOut, AnnounceFile, PushChunk, PcTalks, choiceVars, upVars
<1>4. UpInv /\ FramesKept
  BY DEF SessionInv
<1>a. ASSUME NEW m, sent' = Append(sent, m),
             m.kind = "text" /\ m.name = "file_send_begin" => m.arg = DownId
      PROVE  scene' = "files" => Announces(sent')
  BY <1>1, <1>3, <1>a, StillAnnounces DEF SessionInv
<1>5. CASE PictureOut
  <2>1. PICK n \in packets' \ packets :
           sent' = Append(sent, Picture(Moment * (Cardinality(packets) + 1), n \in clean, <<n>>))
    BY <1>5 DEF PictureOut, PcSendsFast
  <2>2. HaveOutput
    BY <1>5 DEF PictureOut
  <2>3. FramesKept'
    BY <1>4, <2>2, FramesStay DEF Next
  <2>4. n \in Frame /\ p < MaxFrame /\ Cardinality(packets') = p + 1
    BY <1>2, <1>4, <2>2, <2>3, OnePacketMore
  <2>5. PICK idr \in BOOLEAN : idr = (n \in clean)
    <3>1. n \in clean => TRUE = (n \in clean)
      OBVIOUS
    <3>2. n \notin clean => FALSE = (n \in clean)
      OBVIOUS
    <3>. QED  BY <3>1, <3>2
  <2>6. PICK m : m = Picture(Moment * (p + 1), idr, <<n>>) /\ sent' = Append(sent, m)
    BY <1>2, <2>1, <2>5
  <2>7. Saying(sent', p + 1)
    BY <1>2, <2>4, <2>6, PictureIsNew
  <2>8. m.kind # "text"
    BY <2>6 DEF Picture
  <2>9. UpInv'
    BY <1>1, <1>3, <1>4, <2>6, <2>8, UpStays
  <2>. QED  BY <1>a, <2>3, <2>4, <2>6, <2>7, <2>8, <2>9 DEF SessionInv
<1>6. ASSUME SoundOut \/ AnnounceFile \/ PushChunk \/ PcTalks
      PROVE  FramesKept' /\ Cardinality(packets') = p
  <2>1. UNCHANGED <<frames, waiting, inside, ready, packets>>
    BY <1>6 DEF SoundOut, AnnounceFile, PushChunk, PcTalks, encoderIdle, vars, callVars,
                transformVars
  <2>. QED  BY <1>2, <1>4, <2>1 DEF FramesKept
<1>7. CASE SoundOut
  <2>1. PICK k : k = Number(sent, "sound") + 1
    OBVIOUS
  <2>2. PICK m : m = Sound(Moment * k, <<k>>) /\ sent' = Append(sent, m)
    BY <1>7, <2>1 DEF SoundOut, PcSendsFast
  <2>3. k <= MaxSound
    <3>1. Number(sent, "sound") \in 0..MaxSound /\ Number(sent, "sound") < MaxSound
      BY <1>2, <1>7 DEF SoundOut, Saying
    <3>2. MaxSound \in Nat
      BY WireAssumption
    <3>. QED  BY <2>1, <3>1, <3>2
  <2>4. Saying(sent', p)
    BY <1>2, <2>1, <2>2, <2>3, SoundIsNew
  <2>5. m.kind # "text"
    BY <2>2 DEF Sound
  <2>6. UpInv'
    BY <1>1, <1>3, <1>4, <2>2, <2>5, UpStays
  <2>. QED  BY <1>6, <1>7, <1>a, <2>2, <2>4, <2>5, <2>6 DEF SessionInv
<1>8. CASE AnnounceFile
  <2>1. PICK body : PcSendsText(TextMsg("file_send_begin", body, DownId))
    BY <1>8 DEF AnnounceFile
  <2>2. PICK m : m = TextMsg("file_send_begin", body, DownId) /\ sent' = Append(sent, m)
    BY <2>1 DEF PcSendsText
  <2>3. m.name = "file_send_begin"
    BY <2>2 DEF TextMsg
  <2>4. \A i \in 1..Len(sent) : sent[i] # m
    <3>1. ~Says(sent, "file_send_begin")
      BY <1>8 DEF AnnounceFile
    <3>2. m.kind = "text"
      BY <2>2 DEF TextMsg
    <3>. QED  BY <1>1, <2>3, <3>1, <3>2, SaysAt
  <2>5. Saying(sent', p)
    BY <1>2, <2>2, <2>4, TextIsNew
  <2>6. UpInv'
    <3>1. m.name \notin FileAnswers
      BY <2>3 DEF FileAnswers
    <3>. QED  BY <1>1, <1>3, <1>4, <2>2, <3>1, UpStays
  <2>7. m.arg = DownId
    BY <2>2 DEF TextMsg
  <2>. QED  BY <1>6, <1>8, <1>a, <2>2, <2>5, <2>6, <2>7 DEF SessionInv
<1>9. CASE PushChunk
  <2>1. PICK k : k = Number(sent, "chunk")
    OBVIOUS
  <2>2. PICK m : m = Chunk(DownId, k, k = MaxChunk - 1, <<k>>) /\ sent' = Append(sent, m)
    BY <1>9, <2>1 DEF PushChunk, PcSendsBulk
  <2>3. k < MaxChunk
    BY <1>9, <2>1 DEF PushChunk
  <2>4. \E n \in 1..Len(sent) : /\ sent[n].kind = "text" /\ sent[n].name = "file_send_begin"
                                /\ sent[n].arg = DownId
    <3>1. Says(sent, "file_send_begin") /\ scene = "files"
      BY <1>9 DEF PushChunk
    <3>2. PICK n \in 1..Len(sent) : sent[n].kind = "text" /\ sent[n].name = "file_send_begin"
      BY <1>1, <3>1, SaysAt
    <3>3. sent[n].arg = DownId
      BY <3>1, <3>2 DEF SessionInv, Announces
    <3>. QED  BY <3>2, <3>3
  <2>5. Saying(sent', p)
    BY <1>2, <2>1, <2>2, <2>3, <2>4, ChunkIsNew
  <2>6. m.kind # "text"
    BY <2>2 DEF Chunk
  <2>7. UpInv'
    BY <1>1, <1>3, <1>4, <2>2, <2>6, UpStays
  <2>. QED  BY <1>6, <1>9, <1>a, <2>2, <2>5, <2>6, <2>7 DEF SessionInv
<1>10. CASE PcTalks
  <2>1. PICK name, body : PcSendsText(TextMsg(name, body, 0))
    BY <1>10 DEF PcTalks
  <2>2. PICK m : m = TextMsg(name, body, 0) /\ sent' = Append(sent, m)
    BY <2>1 DEF PcSendsText
  <2>3. scene = "talk" /\ sent = <<>>
    BY <1>10 DEF PcTalks
  <2>4. \A i \in 1..Len(sent) : sent[i] # m
    BY <2>3
  <2>5. Saying(sent', p)
    BY <1>2, <2>2, <2>4, TextIsNew
  <2>6. UpInv'
    BY <1>1, <1>3, <1>4, <2>2, <2>3, UpStays
  <2>7. scene' # "files"
    BY <1>3, <2>3
  <2>. QED  BY <1>6, <1>10, <2>5, <2>6, <2>7 DEF SessionInv
<1>. QED  BY <1>5, <1>7, <1>8, <1>9, <1>10

\* What the phone says.
LEMMA PhoneSpeaksOn ==
    ASSUME SessionInv, WireInv, ~refused',
           RequestKeyframe \/ Upload \/ PhoneTalks \/ FieldChanges \/ PhoneHears
    PROVE  SessionInv'
<1>1. UNCHANGED <<scene, route, toHost, sent, frames, waiting, inside, ready, packets>>
  BY DEF RequestKeyframe, Upload, PhoneTalks, FieldChanges, PhoneHears, choiceVars, downVars,
         encoderIdle, vars, callVars, transformVars
<1>2. ASSUME UpInv' PROVE SessionInv'
  <2>1. PICK s, p : s = sent /\ p = Cardinality(packets)
    OBVIOUS
  <2>2. s = sent' /\ p = Cardinality(packets') /\ Saying(s, p) /\ (scene = "files" => Announces(s))
    BY <1>1, <2>1 DEF SessionInv
  <2>3. FramesKept'
    BY <1>1 DEF SessionInv, FramesKept
  <2>. QED  BY <1>1, <1>2, <2>2, <2>3 DEF SessionInv
<1>3. UpInv
  BY DEF SessionInv
<1>4. ASSUME NEW name, NEW id, name # "file_transfer_begin", Answer(name, id) PROVE UpInv'
  <2>1. PICK body : PhoneSends(TextMsg(name, body, id), AsText(TextMsg(name, body, id)))
    BY <1>4 DEF Answer
  <2>2. PICK m : m = TextMsg(name, body, id) /\ PhoneSends(m, AsText(m))
    BY <2>1
  <2>. QED  BY <1>1, <1>3, <1>4, <2>2, PhoneSaysText
<1>5. ASSUME NoAnswer PROVE UpInv'
  <2>1. \E S : sent \in Seq(S)
    BY DEF SessionInv, Saying
  <2>. QED  BY <1>1, <1>3, <1>5, <2>1, UpStays DEF NoAnswer
<1>6. CASE RequestKeyframe
  <2>1. PICK body, m : m = TextMsg("keyframe_request", body, 0) /\ PhoneSends(m, AsText(m))
    BY <1>6 DEF RequestKeyframe
  <2>2. UpInv'
    BY <1>1, <1>3, <2>1, PhoneSaysText
  <2>. QED  BY <1>2, <2>2
<1>7. CASE Upload
  <2>1. CASE /\ ~Says(told, "file_transfer_begin")
             /\ \E body \in PhoneWrites(PhoneSays["file_transfer_begin"]) :
                   LET m == TextMsg("file_transfer_begin", body, UpId)
                   IN  PhoneSends(m, AsText(m))
    <3>1. PICK body, m : m = TextMsg("file_transfer_begin", body, UpId) /\ PhoneSends(m, AsText(m))
      BY <2>1
    <3>2. UpInv'
      BY <1>1, <1>3, <2>1, <3>1, PhoneSaysText
    <3>. QED  BY <1>2, <3>2
  <2>2. CASE LET seq  == Number(told, "chunk")
                 last == seq = MaxChunk - 1
                 data == IF last THEN <<>> ELSE <<seq>>
             IN  PhoneSends(Chunk(UpId, seq, last, data),
                            AsBinary(PhoneChunkFrame(UpId, seq, last, data)))
    <3>1. PICK seq : seq = Number(told, "chunk")
      OBVIOUS
    <3>2. PICK last : last = (seq = MaxChunk - 1)
      OBVIOUS
    <3>3. PICK data : data \in {<<>>, <<seq>>} /\ data = IF last THEN <<>> ELSE <<seq>>
      OBVIOUS
    <3>4. PhoneSends(Chunk(UpId, seq, last, data),
                     AsBinary(PhoneChunkFrame(UpId, seq, last, data)))
      BY <2>2, <3>1, <3>2, <3>3
    <3>5. scene = "files" /\ seq < MaxChunk
      BY <1>7, <3>1 DEF Upload
    <3>6. UpInv'
      BY <1>1, <1>3, <3>1, <3>2, <3>3, <3>4, <3>5, PhoneSaysChunk
    <3>. QED  BY <1>2, <3>6
  <2>. QED  BY <1>7, <2>1, <2>2 DEF Upload
<1>8. CASE PhoneTalks
  <2>1. PICK name, body, m : m = TextMsg(name, body, 0) /\ PhoneSends(m, AsText(m))
    BY <1>8 DEF PhoneTalks
  <2>2. scene # "files"
    BY <1>8 DEF PhoneTalks
  <2>3. UpInv'
    BY <1>1, <1>3, <2>1, <2>2, PhoneSaysText
  <2>. QED  BY <1>2, <2>3
<1>9. CASE FieldChanges
  <2>1. Change(SendKeys) /\ scene # "files"
    BY <1>9 DEF FieldChanges
  <2>2. committed' \in Seq(Chars)
    <3>1. PICK new \in Text : \E i \in 0..Len(new) : \E j \in i..Len(new) :
             committed' = Stable(new, i, j)
      BY <2>1 DEF Change
    <3>. QED  BY <3>1, StableIsText
  <2>3. PICK keys : keys = Diff(committed, committed') /\ SendKeys(keys)
    BY <2>1 DEF Change
  <2>4. Len(keys) \in Nat
    BY <2>2, <2>3, DiffCounts DEF WireInv
  <2>5. Texts(upSocket) /\ Wraps(toHost)
    BY <1>3, <2>1 DEF UpInv
  <2>6. Texts(upSocket')
    BY <2>3, <2>4, <2>5, KeysAreTexts DEF SendKeys
  <2>7. UpInv'
    BY <1>1, <2>1, <2>5, <2>6 DEF UpInv
  <2>. QED  BY <1>2, <2>7
<1>10. CASE PhoneHears
  <2>1. ASSUME NEW m, HearText(m) PROVE UpInv'
    <3>1. Answer("file_send_accepted", m.arg) \/ NoAnswer
      BY <2>1 DEF HearText
    <3>. QED  BY <1>4, <1>5, <3>1
  <2>2. ASSUME NEW b, HearBytes(b) PROVE UpInv'
    <3>1. ASSUME NEW c, HearChunk(c) PROVE UpInv'
      <4>1. Answer("file_send_complete", c.id) \/ NoAnswer
        BY <3>1 DEF HearChunk
      <4>. QED  BY <1>4, <1>5, <4>1
    <3>2. NoAnswer \/ \E c : HearChunk(c)
      BY <2>2 DEF HearBytes
    <3>. QED  BY <1>5, <3>1, <3>2
  <2>3. (\E m : HearText(m)) \/ (\E b : HearBytes(b))
    BY <1>10 DEF PhoneHears
  <2>. QED  BY <1>2, <2>1, <2>2, <2>3
<1>. QED  BY <1>6, <1>7, <1>8, <1>9, <1>10

\* The PC's answers: each is said once.
LEMMA PcAnswersOn ==
    ASSUME SessionInv, ~refused', PcTakesMessage
    PROVE  SessionInv'
<1>1. UNCHANGED <<scene, frames, waiting, inside, ready, packets>>
  BY DEF PcTakesMessage, choiceVars, encoderIdle, vars, callVars, transformVars
<1>2. PICK S : sent \in Seq(S)
  BY DEF SessionInv, Saying
<1>3. UpInv' /\ SaysNewText
  BY <1>2, PcTakesKeeps DEF SessionInv
<1>4. PICK p : p = Cardinality(packets) /\ Saying(sent, p)
  BY DEF SessionInv
<1>5. p = Cardinality(packets') /\ FramesKept'
  BY <1>1, <1>4 DEF SessionInv, FramesKept
<1>6. CASE PcSilent
  BY <1>1, <1>3, <1>4, <1>5, <1>6 DEF PcSilent, SessionInv
<1>7. CASE \E name \in FileAnswers : \E body, arg :
              ~Says(sent, name) /\ PcSendsText(TextMsg(name, body, arg))
  <2>1. PICK name \in FileAnswers : \E body, arg :
              ~Says(sent, name) /\ PcSendsText(TextMsg(name, body, arg))
    BY <1>7
  <2>2. PICK body, arg : ~Says(sent, name) /\ PcSendsText(TextMsg(name, body, arg))
    BY <2>1
  <2>3. PICK m : m = TextMsg(name, body, arg) /\ sent' = Append(sent, m)
    BY <2>2 DEF PcSendsText
  <2>4. m.kind = "text" /\ m.name = name
    BY <2>3 DEF TextMsg
  <2>5. \A i \in 1..Len(sent) : sent[i] # m
    BY <1>2, <2>2, <2>4, SaysAt
  <2>6. Saying(sent', p)
    BY <1>4, <2>3, <2>5, TextIsNew
  <2>7. scene' = "files" => Announces(sent')
    <3>1. m.name # "file_send_begin"
      BY <2>4 DEF FileAnswers
    <3>. QED  BY <1>1, <1>2, <2>3, <3>1, StillAnnounces DEF SessionInv
  <2>. QED  BY <1>3, <1>5, <2>6, <2>7 DEF SessionInv
<1>. QED  BY <1>3, <1>6, <1>7 DEF SaysNewText

\* Every step.
LEMMA SessionStep ==
    ASSUME SessionInv, WireInv, ~refused', [WireNext]_allVars
    PROVE  SessionInv'
<1>1. CASE PictureOut \/ SoundOut \/ AnnounceFile \/ PushChunk \/ PcTalks
  BY <1>1, PcSpeaksOn
<1>2. CASE RequestKeyframe \/ Upload \/ PhoneTalks \/ FieldChanges \/ PhoneHears
  BY <1>2, PhoneSpeaksOn
<1>3. CASE PcTakesMessage
  BY <1>3, PcAnswersOn
<1>4. PICK S : sent \in Seq(S)
  BY DEF SessionInv, Saying
<1>5. PICK s, p : s = sent /\ p = Cardinality(packets) /\ Saying(s, p)
  BY DEF SessionInv
<1>6. ASSUME UNCHANGED <<scene, sent, packets>>, FramesKept', UpInv' PROVE SessionInv'
  BY <1>5, <1>6 DEF SessionInv
<1>7. CASE EncoderStep \/ TakeAsked
  <2>1. [Next]_vars
    BY <1>7 DEF EncoderStep, TakeAsked, Next
  <2>2. UNCHANGED <<scene, route, upSocket, toHost, told, sent>>
    BY <1>7 DEF EncoderStep, TakeAsked, wireVars, choiceVars, downVars, upVars
  <2>3. UNCHANGED packets
    BY <1>7 DEF EncoderStep, TakeAsked, Ask, Produce, Encode, NeedInput, NoEvents, ForceKeyframe,
                transformVars
  <2>4. FramesKept'
    BY <2>1, FramesStay DEF SessionInv
  <2>5. UpInv'
    BY <1>4, <2>2, UpStays DEF SessionInv
  <2>. QED  BY <1>6, <2>2, <2>3, <2>4, <2>5
<1>8. CASE LanWriter \/ Pump \/ RelayRoutes \/ RelayWriter \/ UNCHANGED allVars
  <2>1. UNCHANGED <<scene, route, upSocket, toHost, told, sent>>
    BY <1>8 DEF LanWriter, Pump, RelayRoutes, RelayWriter, allVars, wireVars, choiceVars, downVars,
                upVars
  <2>2. UNCHANGED vars
    BY <1>8 DEF LanWriter, Pump, RelayRoutes, RelayWriter, allVars, encoderIdle
  <2>3. UNCHANGED packets
    BY <2>2 DEF vars, callVars, transformVars
  <2>4. FramesKept'
    BY <2>2, FramesStay DEF SessionInv
  <2>5. UpInv'
    BY <1>4, <2>1, UpStays DEF SessionInv
  <2>. QED  BY <1>6, <2>1, <2>3, <2>4, <2>5
<1>9. CASE RelayReader
  <2>1. UpInv'
    BY <1>9, ReaderKeeps DEF SessionInv
  <2>2. UNCHANGED <<scene, sent, frames, waiting, inside, ready, packets>>
    BY <1>9 DEF RelayReader, choiceVars, downVars, encoderIdle, vars, callVars, transformVars
  <2>3. FramesKept'
    BY <2>2 DEF SessionInv, FramesKept
  <2>. QED  BY <1>6, <2>1, <2>2, <2>3
<1>. QED  BY <1>1, <1>2, <1>3, <1>7, <1>8, <1>9 DEF WireNext

-----------------------------------------------------------------------------
(* The PC's way to the phone *)

\* The lanes of what the PC said, the places of its way, and that each place
\* holds the messages of its numbers.  On the LAN the relay's are empty.
Said == [n \in 1..Len(sent) |-> Lane(sent[n])]
AllLanes == {"text", "bulk", "fast"}
Held == <<heard, socket, fast, bulk, tunnel, outbox, outboxVideo, outboxBulk>>
OnItsWay(N) ==
    /\ LaneOrder(N, Said)
    /\ \A c \in Place : Held[c] = Looks(c, N[c], sent)
    /\ route = "lan" => \A c \in {3, 4, 5} : N[c] = <<>>

\* What a step leaves of it: nothing new, one message more, or one delivered.
Moves(N, M) ==
    \/ Said' = Said /\ M[1] = N[1]
    \/ (\E lane \in AllLanes : Said' = Append(Said, lane)) /\ M[1] = N[1]
    \/ Said' = Said /\ N[2] # <<>> /\ M = PassedOn(N, 1, 2)

\* The lanes grow with what is said.
LEMMA SaidMore ==
    ASSUME NEW S, sent \in Seq(S)
    PROVE  /\ Said \in Seq(AllLanes) /\ Len(Said) = Len(sent)
           /\ \A n \in 1..Len(sent) : Said[n] = Lane(sent[n])
           /\ \A m : sent' = Append(sent, m) => Said' = Append(Said, Lane(m))
<1>1. \A m : Lane(m) \in AllLanes
  BY DEF Lane, AllLanes
<1>2. PICK l \in Nat : l = Len(sent)
  BY LenProperties
<1>3. PICK q : q = [n \in 1..l |-> Lane(sent[n])]
  OBVIOUS
<1>4. q \in Seq(AllLanes) /\ Len(q) = l /\ \A n \in 1..l : q[n] = Lane(sent[n])
  <2>1. q \in [1..l -> AllLanes]
    BY <1>1, <1>3
  <2>. QED  BY <1>3, <2>1
<1>5. ASSUME NEW m, sent' = Append(sent, m) PROVE Said' = Append(q, Lane(m))
  <2>1. PICK T : T = S \union {m}
    OBVIOUS
  <2>2. sent \in Seq(T) /\ m \in T
    BY <2>1, SeqMonotonic
  <2>3. PICK t : t = Append(sent, m)
    OBVIOUS
  <2>4. /\ Len(t) = l + 1 /\ t[l + 1] = m
        /\ \A i \in 1..l : t[i] = sent[i]
    BY <1>2, <2>2, <2>3, AppendProperties
  <2>5. PICK p, lane : p = Append(q, lane) /\ lane = Lane(m)
    OBVIOUS
  <2>6. lane \in AllLanes
    BY <1>1, <2>5
  <2>7. /\ p \in Seq(AllLanes) /\ Len(p) = l + 1 /\ p[l + 1] = lane
        /\ \A i \in 1..l : p[i] = q[i]
    BY <1>4, <2>5, <2>6, AppendProperties
  <2>8. \A i \in 1..l + 1 : p[i] = Lane(t[i])
    <3>1. 1..l + 1 = (1..l) \union {l + 1}
      OBVIOUS
    <3>. QED  BY <1>4, <2>4, <2>5, <2>7, <3>1
  <2>9. p = [i \in 1..l + 1 |-> Lane(t[i])]
    <3>1. p = [i \in 1..l + 1 |-> p[i]]
      BY <2>7
    <3>. QED  BY <2>8, <3>1
  <2>. QED  BY <1>5, <2>3, <2>4, <2>5, <2>9 DEF Said
<1>. QED  BY <1>2, <1>3, <1>4, <1>5 DEF Said

\* The first message of a place.
LEMMA FirstHeld ==
    ASSUME NEW N, OnItsWay(N), NEW S, sent \in Seq(S), NEW b \in Place
    PROVE  /\ N[b] = <<>> <=> Held[b] = <<>>
           /\ N[b] # <<>> =>
                 /\ N[b] \in Seq(Nat) /\ Head(N[b]) = N[b][1] /\ 1 \in 1..Len(N[b])
                 /\ Head(N[b]) \in 1..Len(sent)
                 /\ Head(Held[b]) = Look(b, sent[Head(N[b])])
                 /\ Said[Head(N[b])] = Lane(sent[Head(N[b])])
                 /\ MayHold(b, Said[Head(N[b])])
<1>1. N[b] \in Seq(Nat)
  BY DEF OnItsWay, LaneOrder
<1>2. N[b] = <<>> <=> Held[b] = <<>>
  BY <1>1, LooksNone DEF OnItsWay
<1>3. ASSUME N[b] # <<>>
      PROVE  /\ Head(N[b]) = N[b][1] /\ 1 \in 1..Len(N[b])
             /\ Head(N[b]) \in 1..Len(sent)
             /\ Head(Held[b]) = Look(b, sent[Head(N[b])])
             /\ Said[Head(N[b])] = Lane(sent[Head(N[b])])
             /\ MayHold(b, Said[Head(N[b])])
  <2>1. Len(N[b]) \in Nat /\ Len(N[b]) > 0 /\ Head(N[b]) = N[b][1]
    BY <1>1, <1>3, HeadTailProperties, EmptySeq
  <2>2. 1 \in 1..Len(N[b])
    BY <2>1
  <2>3. N[b][1] \in 1..Len(Said) /\ MayHold(b, Said[N[b][1]])
    BY <2>2 DEF OnItsWay, LaneOrder
  <2>4. PICK x : x = Head(N[b])
    OBVIOUS
  <2>5. x \in 1..Len(sent) /\ Said[x] = Lane(sent[x]) /\ MayHold(b, Said[x])
    BY <2>1, <2>3, <2>4, SaidMore
  <2>6. Head(Looks(b, N[b], sent)) = Look(b, sent[Head(N[b])])
    BY <1>1, <1>3, LooksFirst
  <2>. QED  BY <2>1, <2>2, <2>4, <2>5, <2>6 DEF OnItsWay
<1>. QED  BY <1>1, <1>2, <1>3

\* A message is put in one of the PC's queues.
LEMMA WayPut ==
    ASSUME NEW N, OnItsWay(N), NEW S, sent \in Seq(S), NEW m, sent' = Append(sent, m),
           NEW a \in {6, 7, 8}, MayHold(a, Lane(m)), UNCHANGED route,
           Held'[a] = Append(Held[a], AsSent(m)),
           \A c \in Place : c # a => Held'[c] = Held[c]
    PROVE  \E M : OnItsWay(M)' /\ Moves(N, M)
<1>1. PICK T : T = S \union {m}
  OBVIOUS
<1>2. sent \in Seq(T) /\ m \in T
  BY <1>1, SeqMonotonic
<1>3. PICK L, lane : L = Said /\ lane = Lane(m)
  OBVIOUS
<1>4. /\ L \in Seq(AllLanes) /\ Len(L) = Len(sent) /\ Said' = Append(L, lane)
      /\ lane \in AllLanes /\ LaneOrder(N, L)
  BY <1>3, SaidMore DEF OnItsWay, Lane, AllLanes
<1>5. PICK M : M = PutIn(N, a, Len(sent) + 1)
  OBVIOUS
<1>6. a \in Place /\ 1 \in Place /\ 1 # a
  BY DEF Place
<1>7. /\ Looks(a, M[a], Append(sent, m)) = Append(Looks(a, N[a], sent), Look(a, m))
      /\ \A c \in Place : c # a =>
            M[c] = N[c] /\ Looks(c, M[c], Append(sent, m)) = Looks(c, N[c], sent)
  <2>1. Joined(N, M, a, sent, m)
    BY <1>2, <1>4, <1>5, <1>6, LooksPut
  <2>. QED  BY <2>1 DEF Joined
<1>8. LaneOrder(M, Append(L, lane))
  <2>1. MayHold(a, lane)
    BY <1>3
  <2>. QED  BY <1>4, <1>5, <2>1, PutKeepsOrder
<1>9. \A c \in Place : Held'[c] = Looks(c, M[c], sent')
  <2>1. Look(a, m) = AsSent(m)
    BY DEF Look
  <2>2. Held'[a] = Looks(a, M[a], sent')
    BY <1>6, <1>7, <2>1 DEF OnItsWay
  <2>3. ASSUME NEW c \in Place, c # a PROVE Held'[c] = Looks(c, M[c], sent')
    BY <1>7, <2>3 DEF OnItsWay
  <2>. QED  BY <2>2, <2>3
<1>10. route' = "lan" => \A c \in {3, 4, 5} : M[c] = <<>>
  <2>1. \A c \in {3, 4, 5} : c \in Place /\ c # a
    BY DEF Place
  <2>. QED  BY <1>7, <2>1 DEF OnItsWay
<1>11. OnItsWay(M)'
  BY <1>4, <1>8, <1>9, <1>10 DEF OnItsWay
<1>12. Moves(N, M)
  BY <1>3, <1>4, <1>6, <1>7 DEF Moves
<1>. QED  BY <1>11, <1>12

\* A picture or a sound that finds its queue full.
LEMMA WayLost ==
    ASSUME NEW N, OnItsWay(N), NEW S, sent \in Seq(S), NEW m, sent' = Append(sent, m),
           Lane(m) = "fast", UNCHANGED route, \A c \in Place : Held'[c] = Held[c]
    PROVE  \E M : OnItsWay(M)' /\ Moves(N, M)
<1>1. PICK T : T = S \union {m}
  OBVIOUS
<1>2. sent \in Seq(T) /\ m \in T
  BY <1>1, SeqMonotonic
<1>3. PICK L : L = Said
  OBVIOUS
<1>4. /\ L \in Seq(AllLanes) /\ Len(L) = Len(sent) /\ Said' = Append(L, "fast")
      /\ "fast" \in AllLanes /\ LaneOrder(N, L)
  BY <1>3, SaidMore DEF OnItsWay, AllLanes
<1>5. LaneOrder(N, Append(L, "fast"))
  BY <1>4, DroppedKeepsOrder
<1>6. \A c \in Place : Held'[c] = Looks(c, N[c], sent')
  BY <1>2, <1>4, LooksStay DEF OnItsWay
<1>7. OnItsWay(N)'
  BY <1>4, <1>5, <1>6 DEF OnItsWay
<1>8. Moves(N, N)
  BY <1>3, <1>4 DEF Moves
<1>. QED  BY <1>7, <1>8

\* A message goes on from one place to another.
LEMMA WayPassed ==
    ASSUME NEW N, OnItsWay(N), UNCHANGED <<sent, route>>, NEW a \in Place, NEW b \in Place,
           Passable(N, Said, a, b), route = "lan" => a \notin {3, 4, 5},
           a = 1 => b = 2,
           Held'[a] = Append(Held[a], Look(a, sent[Head(N[b])])), Held'[b] = Tail(Held[b]),
           \A c \in Place : c # a /\ c # b => Held'[c] = Held[c]
    PROVE  \E M : OnItsWay(M)' /\ Moves(N, M)
<1>1. Said' = Said
  BY DEF Said
<1>2. PICK M : M = PassedOn(N, a, b)
  OBVIOUS
<1>3. N \in [Place -> Seq(Nat)] /\ a # b /\ N[b] # <<>> /\ 1 \in Place /\ b # 1
  <2>1. N \in [Place -> Seq(Nat)]
    BY DEF OnItsWay, LaneOrder
  <2>2. a < b /\ N[b] # <<>>
    BY DEF Passable
  <2>3. \A c \in Place : c \in Nat /\ c >= 1
    BY DEF Place
  <2>4. 1 \in Place
    BY DEF Place
  <2>. QED  BY <2>1, <2>2, <2>3, <2>4
<1>4. LaneOrder(M, Said)
  BY <1>2, PassKeepsOrder DEF OnItsWay
<1>5. Handed(N, M, a, b, sent)
  BY <1>2, <1>3, LooksPassed
<1>6. \A c \in Place : Held'[c] = Looks(c, M[c], sent)
  <2>1. Held'[a] = Looks(a, M[a], sent)
    BY <1>5 DEF Handed, OnItsWay
  <2>2. Held'[b] = Looks(b, M[b], sent)
    BY <1>5 DEF Handed, OnItsWay
  <2>3. ASSUME NEW c \in Place, c # a, c # b PROVE Held'[c] = Looks(c, M[c], sent)
    BY <1>5, <2>3 DEF Handed, OnItsWay
  <2>. QED  BY <2>1, <2>2, <2>3
<1>7. ASSUME route = "lan", NEW c \in {3, 4, 5} PROVE M[c] = <<>>
  <2>1. N[c] = <<>>
    BY <1>7 DEF OnItsWay
  <2>2. c \in Place
    BY DEF Place
  <2>3. c # a
    BY <1>7
  <2>4. c # b
    BY <1>3, <2>1
  <2>. QED  BY <1>5, <2>1, <2>2, <2>3, <2>4 DEF Handed
<1>8. OnItsWay(M)'
  BY <1>1, <1>4, <1>6, <1>7 DEF OnItsWay
<1>9. Moves(N, M)
  <2>1. CASE a = 1
    BY <1>1, <1>2, <1>3, <2>1 DEF Moves
  <2>2. CASE a # 1
    <3>1. M[1] = N[1]
      BY <1>3, <1>5, <2>2 DEF Handed
    <3>. QED  BY <1>1, <3>1 DEF Moves
  <2>. QED  BY <2>1, <2>2
<1>. QED  BY <1>8, <1>9

\* Nothing moves.
LEMMA WayStays ==
    ASSUME NEW N, OnItsWay(N), UNCHANGED <<sent, route>>, \A c \in Place : Held'[c] = Held[c]
    PROVE  \E M : OnItsWay(M)' /\ Moves(N, M)
<1>1. Said' = Said
  BY DEF Said
<1>2. OnItsWay(N)'
  BY <1>1 DEF OnItsWay
<1>. QED  BY <1>1, <1>2 DEF Moves

\* What the PC sends is on its way: a text,
LEMMA PcTextOn ==
    ASSUME NEW N, OnItsWay(N), NEW S, sent \in Seq(S), NEW name, NEW body, NEW arg,
           PcSendsText(TextMsg(name, body, arg)),
           UNCHANGED <<route, outboxVideo, outboxBulk, tunnel, fast, bulk, socket, heard>>
    PROVE  \E M : OnItsWay(M)' /\ Moves(N, M)
<1>1. PICK m : m = TextMsg(name, body, arg)
  OBVIOUS
<1>2. m.kind = "text" /\ AsSent(m) = AsText(m) /\ Lane(m) = "text"
  BY <1>1 DEF TextMsg, AsSent, Lane
<1>3. sent' = Append(sent, m) /\ outbox' = Append(outbox, AsText(m))
  BY <1>1 DEF PcSendsText
<1>4. Held'[6] = Append(Held[6], AsSent(m))
  BY <1>2, <1>3 DEF Held
<1>5. \A c \in Place : c # 6 => Held'[c] = Held[c]
  <2>1. Place = {1, 2, 3, 4, 5, 6, 7, 8}
    BY DEF Place
  <2>. QED  BY <2>1 DEF Held
<1>6. MayHold(6, Lane(m)) /\ 6 \in {6, 7, 8}
  BY <1>2 DEF MayHold
<1>. QED  BY <1>3, <1>4, <1>5, <1>6, WayPut

\* a picture or a sound, unless its queue is full,
LEMMA PcFastOn ==
    ASSUME NEW N, OnItsWay(N), NEW S, sent \in Seq(S), NEW m, m.kind \in {"picture", "sound"},
           NEW bytes, AsSent(m) = AsBinary(bytes), PcSendsFast(m, bytes),
           UNCHANGED <<route, outbox, outboxBulk, tunnel, fast, bulk, socket, heard>>
    PROVE  \E M : OnItsWay(M)' /\ Moves(N, M)
<1>1. Lane(m) = "fast"
  BY DEF Lane
<1>2. sent' = Append(sent, m)
  BY DEF PcSendsFast
<1>3. Place = {1, 2, 3, 4, 5, 6, 7, 8}
  BY DEF Place
<1>4. CASE Len(outboxVideo) < VideoCap
  <2>1. outboxVideo' = Append(outboxVideo, AsSent(m))
    BY <1>4 DEF PcSendsFast
  <2>2. Held'[7] = Append(Held[7], AsSent(m))
    BY <2>1 DEF Held
  <2>3. \A c \in Place : c # 7 => Held'[c] = Held[c]
    BY <1>3 DEF Held
  <2>4. MayHold(7, Lane(m)) /\ 7 \in {6, 7, 8}
    BY <1>1 DEF MayHold
  <2>. QED  BY <1>2, <2>2, <2>3, <2>4, WayPut
<1>5. CASE ~(Len(outboxVideo) < VideoCap)
  <2>1. UNCHANGED outboxVideo
    BY <1>5 DEF PcSendsFast
  <2>2. \A c \in Place : Held'[c] = Held[c]
    BY <1>3, <2>1 DEF Held
  <2>. QED  BY <1>1, <1>2, <2>2, WayLost
<1>. QED  BY <1>4, <1>5

\* or a chunk.
LEMMA PcBulkOn ==
    ASSUME NEW N, OnItsWay(N), NEW S, sent \in Seq(S), NEW m, m.kind = "chunk",
           NEW bytes, AsSent(m) = AsBinary(bytes), PcSendsBulk(m, bytes),
           UNCHANGED <<route, outbox, outboxVideo, tunnel, fast, bulk, socket, heard>>
    PROVE  \E M : OnItsWay(M)' /\ Moves(N, M)
<1>1. Lane(m) = "bulk"
  BY DEF Lane
<1>2. sent' = Append(sent, m) /\ outboxBulk' = Append(outboxBulk, AsSent(m))
  BY DEF PcSendsBulk
<1>3. Held'[8] = Append(Held[8], AsSent(m))
  BY <1>2 DEF Held
<1>4. \A c \in Place : c # 8 => Held'[c] = Held[c]
  <2>1. Place = {1, 2, 3, 4, 5, 6, 7, 8}
    BY DEF Place
  <2>. QED  BY <2>1 DEF Held
<1>5. MayHold(8, Lane(m)) /\ 8 \in {6, 7, 8}
  BY <1>1 DEF MayHold
<1>. QED  BY <1>2, <1>3, <1>4, <1>5, WayPut

\* Each of the PC's speakers.
LEMMA PcSaysOn ==
    ASSUME NEW N, OnItsWay(N), NEW S, sent \in Seq(S),
           PictureOut \/ SoundOut \/ AnnounceFile \/ PushChunk \/ PcTalks
    PROVE  \E M : OnItsWay(M)' /\ Moves(N, M)
<1>1. UNCHANGED <<route, tunnel, fast, bulk, socket, heard>>
  BY DEF PictureOut, SoundOut, AnnounceFile, PushChunk, PcTalks, choiceVars, relayVars
<1>2. CASE PictureOut
  <2>1. PICK n, pts : PcSendsFast(Picture(pts, n \in clean, <<n>>),
                                  BuildVideoFrame(<<n>>, pts, n \in clean, n \in clean))
    BY <1>2 DEF PictureOut
  <2>2. PICK idr : idr = (n \in clean)
    OBVIOUS
  <2>3. PICK m, b : /\ m = Picture(pts, idr, <<n>>) /\ b = BuildVideoFrame(<<n>>, pts, idr, idr)
                    /\ PcSendsFast(m, b)
    BY <2>1, <2>2
  <2>4. m.kind = "picture" /\ m.data = <<n>> /\ m.pts = pts /\ m.idr = idr
    BY <2>3 DEF Picture
  <2>5. AsSent(m) = AsBinary(b)
    BY <2>3, <2>4 DEF AsSent
  <2>6. UNCHANGED <<outbox, outboxBulk>>
    BY <1>2 DEF PictureOut
  <2>. QED  BY <1>1, <2>3, <2>4, <2>5, <2>6, PcFastOn
<1>3. CASE SoundOut
  <2>1. PICK n, m, b : /\ m = Sound(Moment * n, <<n>>) /\ b = BuildAudioFrame(<<n>>, Moment * n)
                       /\ PcSendsFast(m, b)
    BY <1>3 DEF SoundOut
  <2>2. m.kind = "sound" /\ m.data = <<n>> /\ m.pts = Moment * n
    BY <2>1 DEF Sound
  <2>3. AsSent(m) = AsBinary(b)
    BY <2>1, <2>2 DEF AsSent
  <2>4. UNCHANGED <<outbox, outboxBulk>>
    BY <1>3 DEF SoundOut
  <2>. QED  BY <1>1, <2>1, <2>2, <2>3, <2>4, PcFastOn
<1>4. CASE AnnounceFile
  <2>1. PICK body : PcSendsText(TextMsg("file_send_begin", body, DownId))
    BY <1>4 DEF AnnounceFile
  <2>2. UNCHANGED <<outboxVideo, outboxBulk>>
    BY <1>4 DEF AnnounceFile
  <2>. QED  BY <1>1, <2>1, <2>2, PcTextOn
<1>5. CASE PushChunk
  <2>1. PICK k, last : PcSendsBulk(Chunk(DownId, k, last, <<k>>),
                                   BuildChunkFrame(DownId, k, last, <<k>>))
    BY <1>5 DEF PushChunk
  <2>2. PICK m, b : /\ m = Chunk(DownId, k, last, <<k>>) /\ b = BuildChunkFrame(DownId, k, last, <<k>>)
                    /\ PcSendsBulk(m, b)
    BY <2>1
  <2>3. m.kind = "chunk" /\ m.id = DownId /\ m.seq = k /\ m.last = last /\ m.data = <<k>>
    BY <2>2 DEF Chunk
  <2>4. AsSent(m) = AsBinary(b)
    BY <2>2, <2>3 DEF AsSent
  <2>5. UNCHANGED <<outbox, outboxVideo>>
    BY <1>5 DEF PushChunk
  <2>. QED  BY <1>1, <2>2, <2>3, <2>4, <2>5, PcBulkOn
<1>6. CASE PcTalks
  <2>1. PICK name, body : PcSendsText(TextMsg(name, body, 0))
    BY <1>6 DEF PcTalks
  <2>2. UNCHANGED <<outboxVideo, outboxBulk>>
    BY <1>6 DEF PcTalks
  <2>. QED  BY <1>1, <2>1, <2>2, PcTextOn
<1>. QED  BY <1>2, <1>3, <1>4, <1>5, <1>6

\* What the PC takes of the phone may be answered.
LEMMA PcAnswersOnWay ==
    ASSUME NEW N, OnItsWay(N), NEW S, sent \in Seq(S), PcTakesMessage
    PROVE  \E M : OnItsWay(M)' /\ Moves(N, M)
<1>1. UNCHANGED <<route, outboxVideo, outboxBulk, tunnel, fast, bulk, socket, heard>>
  BY DEF PcTakesMessage, choiceVars, relayVars
<1>2. ASSUME PcSilent PROVE \E M : OnItsWay(M)' /\ Moves(N, M)
  <2>1. UNCHANGED <<sent, outbox>>
    BY <1>2 DEF PcSilent
  <2>2. \A c \in Place : Held'[c] = Held[c]
    BY <1>1, <2>1 DEF Held
  <2>. QED  BY <1>1, <2>1, <2>2, WayStays
<1>3. ASSUME NEW name, NEW id, PcAnswers(name, id) PROVE \E M : OnItsWay(M)' /\ Moves(N, M)
  <2>1. PICK body : PcSendsText(TextMsg(name, body, id))
    BY <1>3 DEF PcAnswers
  <2>. QED  BY <1>1, <2>1, PcTextOn
<1>4. PcSilent \/ \E name, id : PcAnswers(name, id)
  <2>1. ASSUME NEW t, TakeText(t) PROVE PcSilent \/ \E name, id : PcAnswers(name, id)
    BY <2>1 DEF TakeText
  <2>2. ASSUME NEW b, TakeBytes(b) PROVE PcSilent \/ \E name, id : PcAnswers(name, id)
    BY <2>2 DEF TakeBytes
  <2>3. (\E t : TakeText(t)) \/ (\E b : TakeBytes(b))
    BY DEF PcTakesMessage
  <2>. QED  BY <2>1, <2>2, <2>3
<1>. QED  BY <1>2, <1>3, <1>4

\* A writer of the PC hands on the first message of a queue, when those before
\* it are empty.
LEMMA WriterPasses ==
    ASSUME NEW N, OnItsWay(N), NEW S, sent \in Seq(S), UNCHANGED <<sent, route>>,
           NEW b \in {6, 7, 8}, Held[b] # <<>>, Held'[b] = Tail(Held[b]),
           \A c \in {6, 7} : c < b => Held[c] = <<>>,
           \/ /\ route = "lan" /\ Held'[2] = Append(Held[2], Head(Held[b]))
              /\ \A c \in Place : c # 2 /\ c # b => Held'[c] = Held[c]
           \/ /\ route = "relay"
              /\ Held'[5] = Append(Held[5],
                                   EncodeData(Phone, Head(Held[b]).text, Head(Held[b]).bytes))
              /\ \A c \in Place : c # 5 /\ c # b => Held'[c] = Held[c]
    PROVE  \E M : OnItsWay(M)' /\ Moves(N, M)
<1>1. /\ b \in Place /\ 2 \in Place /\ 5 \in Place
      /\ \A c \in Place : c \in {1, 2, 3, 4, 5, 6, 7, 8}
  BY DEF Place
<1>2. N[b] # <<>> /\ Head(Held[b]) = Look(b, sent[Head(N[b])])
  BY <1>1, FirstHeld
<1>3. PICK m : m = sent[Head(N[b])]
  OBVIOUS
<1>4. Head(Held[b]) = AsSent(m)
  BY <1>2, <1>3 DEF Look
<1>5. \A c \in {6, 7} : c < b => N[c] = <<>>
  <2> SUFFICES ASSUME NEW c \in {6, 7}, c < b PROVE N[c] = <<>>
    OBVIOUS
  <2>1. c \in Place /\ Held[c] = <<>>
    BY DEF Place
  <2>. QED  BY <2>1, FirstHeld
<1>6. CASE /\ route = "lan" /\ Held'[2] = Append(Held[2], Head(Held[b]))
           /\ \A c \in Place : c # 2 /\ c # b => Held'[c] = Held[c]
  <2>1. \A c \in Place : \A k \in 1..Len(N[c]) :
           2 < c /\ c < b => Said[Head(N[b])] = "fast" /\ Said[N[c][k]] # "fast"
    <3> SUFFICES ASSUME NEW c \in Place, NEW k \in 1..Len(N[c]), 2 < c, c < b PROVE FALSE
      OBVIOUS
    <3>1. N[c] = <<>>
      <4>1. c \in {1, 2, 3, 4, 5, 6, 7, 8}
        BY <1>1
      <4>2. CASE c \in {3, 4, 5}
        BY <1>6, <4>2 DEF OnItsWay
      <4>3. CASE c \in {6, 7}
        BY <1>5, <4>3
      <4>. QED  BY <4>1, <4>2, <4>3
    <3>. QED  BY <3>1
  <2>2. MayHold(2, Said[Head(N[b])]) /\ 2 < b
    BY DEF MayHold
  <2>3. Passable(N, Said, 2, b)
    BY <1>2, <2>1, <2>2 DEF Passable
  <2>4. Held'[2] = Append(Held[2], Look(2, sent[Head(N[b])]))
    BY <1>3, <1>4, <1>6 DEF Look
  <2>5. 2 \notin {3, 4, 5} /\ 2 # 1
    OBVIOUS
  <2>. QED  BY <1>1, <1>6, <2>3, <2>4, <2>5, WayPassed
<1>7. CASE /\ route = "relay"
           /\ Held'[5] = Append(Held[5],
                                EncodeData(Phone, Head(Held[b]).text, Head(Held[b]).bytes))
           /\ \A c \in Place : c # 5 /\ c # b => Held'[c] = Held[c]
  <2>1. \A c \in Place : \A k \in 1..Len(N[c]) :
           5 < c /\ c < b => Said[Head(N[b])] = "fast" /\ Said[N[c][k]] # "fast"
    <3> SUFFICES ASSUME NEW c \in Place, NEW k \in 1..Len(N[c]), 5 < c, c < b PROVE FALSE
      OBVIOUS
    <3>1. N[c] = <<>>
      <4>1. c \in {6, 7}
        BY <1>1
      <4>. QED  BY <1>5, <4>1
    <3>. QED  BY <3>1
  <2>2. MayHold(5, Said[Head(N[b])]) /\ 5 < b
    BY DEF MayHold
  <2>3. Passable(N, Said, 5, b)
    BY <1>2, <2>1, <2>2 DEF Passable
  <2>4. Held'[5] = Append(Held[5], Look(5, sent[Head(N[b])]))
    BY <1>3, <1>4, <1>7 DEF Look, Wrapped
  <2>5. route # "lan" /\ 5 # 1
    BY <1>7
  <2>. QED  BY <1>1, <1>7, <2>3, <2>4, <2>5, WayPassed
<1>. QED  BY <1>6, <1>7

\* The writer of a LAN session, and the pump of a relayed one.
LEMMA WritersPass ==
    ASSUME NEW N, OnItsWay(N), NEW S, sent \in Seq(S), LanWriter \/ Pump
    PROVE  \E M : OnItsWay(M)' /\ Moves(N, M)
<1>1. PICK b \in {6, 7, 8} :
        /\ Held[b] # <<>> /\ Held'[b] = Tail(Held[b])
        /\ \A c \in {6, 7} : c < b => Held[c] = <<>>
        /\ \A c \in {6, 7, 8} : c # b => Held'[c] = Held[c]
        /\ \/ LanWriter /\ ToSocket(Head(Held[b]))
           \/ Pump /\ ToTunnel(Head(Held[b]))
  <2>1. CASE LanWriter
    BY <2>1 DEF LanWriter, Drain, Held
  <2>2. CASE Pump
    BY <2>2 DEF Pump, Drain, Held
  <2>. QED  BY <2>1, <2>2
<1>2. Place = {1, 2, 3, 4, 5, 6, 7, 8}
  BY DEF Place
<1>3. UNCHANGED <<sent, route, heard, fast, bulk>>
  BY DEF LanWriter, Pump, choiceVars, relayVars
<1>4. CASE LanWriter /\ ToSocket(Head(Held[b]))
  <2>1. route = "lan" /\ UNCHANGED tunnel
    BY <1>4 DEF LanWriter, relayVars
  <2>2. socket' = Append(socket, Head(Held[b]))
    BY <1>4 DEF ToSocket
  <2>3. Held'[2] = Append(Held[2], Head(Held[b]))
    BY <2>2 DEF Held
  <2>4. \A c \in {1, 3, 4, 5} : Held'[c] = Held[c]
    BY <1>3, <2>1 DEF Held
  <2>5. \A c \in Place : c # 2 /\ c # b => Held'[c] = Held[c]
    BY <1>1, <1>2, <2>4
  <2>. QED  BY <1>1, <1>3, <2>1, <2>3, <2>5, WriterPasses
<1>5. CASE Pump /\ ToTunnel(Head(Held[b]))
  <2>1. route = "relay" /\ UNCHANGED socket
    BY <1>5 DEF Pump
  <2>2. tunnel' = Append(tunnel, EncodeData(Phone, Head(Held[b]).text, Head(Held[b]).bytes))
    BY <1>5 DEF ToTunnel
  <2>3. Held'[5] = Append(Held[5],
                          EncodeData(Phone, Head(Held[b]).text, Head(Held[b]).bytes))
    BY <2>2 DEF Held
  <2>4. \A c \in {1, 2, 3, 4} : Held'[c] = Held[c]
    BY <1>3, <2>1 DEF Held
  <2>5. \A c \in Place : c # 5 /\ c # b => Held'[c] = Held[c]
    BY <1>1, <1>2, <2>4
  <2>. QED  BY <1>1, <1>3, <2>1, <2>3, <2>5, WriterPasses
<1>. QED  BY <1>1, <1>4, <1>5

\* All that the PC said can be read.
LEMMA SaidCarries ==
    ASSUME SessionInv, NEW n \in 1..Len(sent)
    PROVE  CarriesText(sent[n]) \/ CarriesBytes(sent[n])
<1>1. PICK p : Saying(sent, p)
  BY DEF SessionInv
<1>2. PICK s, c : s = Number(sent, "sound") /\ c = Number(sent, "chunk")
  OBVIOUS
<1>3. p \in 0..MaxFrame /\ s \in 0..MaxSound /\ c \in 0..MaxChunk /\ Shaped(sent[n], p, s, c)
  BY <1>1, <1>2 DEF Saying
<1>4. MaxFrame \in Nat /\ MaxSound \in Nat /\ MaxChunk \in Nat
  BY EncoderAssumption, WireAssumption
<1>5. /\ p \in Nat /\ s \in Nat /\ c \in Nat
      /\ p <= MaxFrame /\ s <= MaxSound /\ c <= MaxChunk
  BY <1>3, <1>4
<1>6. Shaped(sent[n], MaxFrame, MaxSound, MaxChunk)
  BY <1>3, <1>4, <1>5, StillShaped
<1>. QED  BY <1>6, SaidIsRead

\* The relay sees whether a packet must be delivered, and what is in it.
LEMMA RelaySees ==
    ASSUME NEW m, CarriesText(m) \/ CarriesBytes(m)
    PROVE  LET d == Decode(Wrapped(m))
           IN  /\ [text |-> d.text, bytes |-> d.payload] = AsSent(m)
               /\ MustDeliver(d) <=> Lane(m) # "fast"
<1>1. CASE CarriesText(m)
  <2>1. AsSent(m).text = TRUE /\ AsSent(m).bytes = <<m>> /\ Lane(m) = "text"
    BY <1>1 DEF CarriesText, Lane
  <2>2. <<m>> \in Seq({m}) /\ TRUE \in BOOLEAN
    OBVIOUS
  <2>3. PICK d : d = Decode(Wrapped(m)) /\ d.text = TRUE /\ d.payload = <<m>>
    BY <2>1, <2>2, WrappedReads DEF Wrapped
  <2>4. [text |-> d.text, bytes |-> d.payload] = AsSent(m)
    BY <1>1, <2>3 DEF CarriesText
  <2>5. MustDeliver(d)
    BY <2>3 DEF MustDeliver
  <2>. QED  BY <2>1, <2>3, <2>4, <2>5
<1>2. CASE CarriesBytes(m)
  <2>1. PICK b, S : b \in Seq(S) /\ AsSent(m) = [text |-> FALSE, bytes |-> b] /\ ReadBack(m, b)
    BY <1>2 DEF CarriesBytes
  <2>2. AsSent(m).text = FALSE /\ AsSent(m).bytes = b
    BY <2>1
  <2>3. PICK d : d = Decode(Wrapped(m)) /\ d.text = FALSE /\ d.payload = b
    <3>1. FALSE \in BOOLEAN
      OBVIOUS
    <3>. QED  BY <2>1, <2>2, <3>1, WrappedReads DEF Wrapped
  <2>4. [text |-> d.text, bytes |-> d.payload] = AsSent(m)
    BY <2>1, <2>3
  <2>5. MustDeliver(d) <=> b # <<>> /\ b[1] = File
    BY <2>3 DEF MustDeliver
  <2>6. b # <<>> /\ (b[1] = File <=> Lane(m) # "fast")
    BY <2>1 DEF ReadBack, Lane, File, Video, Audio
  <2>. QED  BY <2>3, <2>4, <2>5, <2>6
<1>. QED  BY <1>1, <1>2

\* host_loop's reader.
LEMMA RelayRoutesOn ==
    ASSUME NEW N, OnItsWay(N), SessionInv, RelayRoutes
    PROVE  \E M : OnItsWay(M)' /\ Moves(N, M)
<1>1. PICK S : sent \in Seq(S)
  BY DEF SessionInv, Saying
<1>2. Place = {1, 2, 3, 4, 5, 6, 7, 8}
  BY DEF Place
<1>3. UNCHANGED <<sent, route, heard, socket, outbox, outboxVideo, outboxBulk>>
  BY DEF RelayRoutes, choiceVars, pcQueues
<1>4. tunnel # <<>> /\ tunnel' = Tail(tunnel)
  BY DEF RelayRoutes
<1>5. Held[5] = tunnel /\ Held'[5] = Tail(Held[5])
  BY <1>4 DEF Held
<1>6. PICK x : x = Head(N[5])
  OBVIOUS
<1>7. /\ N[5] # <<>> /\ x \in 1..Len(sent) /\ Head(tunnel) = Look(5, sent[x])
      /\ Said[x] = Lane(sent[x])
  <2>1. 5 \in Place
    BY <1>2
  <2>2. N[5] # <<>>
    BY <1>1, <1>4, <1>5, <2>1, FirstHeld
  <2>. QED  BY <1>1, <1>5, <1>6, <2>1, <2>2, FirstHeld
<1>8. PICK m : m = sent[x] /\ (CarriesText(m) \/ CarriesBytes(m))
  BY <1>7, SaidCarries
<1>9. Head(tunnel) = Wrapped(m)
  BY <1>7, <1>8 DEF Look
<1>10. PICK d : d = Decode(Head(tunnel))
  OBVIOUS
<1>11. /\ [text |-> d.text, bytes |-> d.payload] = AsSent(m)
       /\ MustDeliver(d) <=> Lane(m) # "fast"
  BY <1>8, <1>9, <1>10, RelaySees
<1>12. \/ /\ MustDeliver(d) /\ bulk' = Append(bulk, AsSent(m)) /\ UNCHANGED fast
       \/ /\ ~MustDeliver(d) /\ UNCHANGED bulk
          /\ fast' = Append(fast, AsSent(m)) \/ fast' = fast
  BY <1>10, <1>11 DEF RelayRoutes
<1>13. route # "lan"
  BY <1>2, <1>7 DEF OnItsWay
<1>14. CASE Lane(m) # "fast"
  <2>1. bulk' = Append(bulk, AsSent(m)) /\ UNCHANGED fast
    BY <1>11, <1>12, <1>14
  <2>2. Held'[4] = Append(Held[4], Look(4, sent[x]))
    BY <1>8, <2>1 DEF Held, Look
  <2>3. \A c \in Place : c # 4 /\ c # 5 => Held'[c] = Held[c]
    BY <1>2, <1>3, <2>1 DEF Held
  <2>4. Passable(N, Said, 4, 5)
    <3>1. MayHold(4, Said[x])
      BY <1>7, <1>8, <1>14 DEF MayHold
    <3>2. \A c \in Place : ~(4 < c /\ c < 5)
      BY <1>2
    <3>. QED  BY <1>6, <1>7, <3>1, <3>2 DEF Passable
  <2>5. 4 \in Place /\ 5 \in Place /\ 4 # 1
    BY <1>2
  <2>. QED  BY <1>1, <1>3, <1>5, <1>6, <1>13, <2>2, <2>3, <2>4, <2>5, WayPassed
<1>15. CASE Lane(m) = "fast" /\ fast' = Append(fast, AsSent(m)) /\ UNCHANGED bulk
  <2>1. Held'[3] = Append(Held[3], Look(3, sent[x]))
    BY <1>8, <1>15 DEF Held, Look
  <2>2. \A c \in Place : c # 3 /\ c # 5 => Held'[c] = Held[c]
    BY <1>2, <1>3, <1>15 DEF Held
  <2>3. Passable(N, Said, 3, 5)
    <3>1. MayHold(3, Said[x]) /\ Said[x] = "fast"
      BY <1>7, <1>8, <1>15 DEF MayHold
    <3>2. ASSUME NEW c \in Place, 3 < c, c < 5, NEW k \in 1..Len(N[c])
          PROVE  Said[N[c][k]] # "fast"
      <4>1. c = 4
        BY <1>2, <3>2
      <4>2. MayHold(c, Said[N[c][k]])
        BY DEF OnItsWay, LaneOrder
      <4>. QED  BY <4>1, <4>2 DEF MayHold
    <3>. QED  BY <1>6, <1>7, <3>1, <3>2 DEF Passable
  <2>4. 3 \in Place /\ 5 \in Place /\ 3 # 1
    BY <1>2
  <2>. QED  BY <1>1, <1>3, <1>5, <1>6, <1>13, <2>1, <2>2, <2>3, <2>4, WayPassed
<1>16. CASE Lane(m) = "fast" /\ fast' = fast /\ UNCHANGED bulk
  <2>1. PICK M : M = LeftOut(N, 5)
    OBVIOUS
  <2>2. Said' = Said
    BY <1>3 DEF Said
  <2>3. LaneOrder(M, Said)
    <3>1. Said[Head(N[5])] = "fast" /\ 5 \in Place
      BY <1>2, <1>6, <1>7, <1>8, <1>16
    <3>. QED  BY <1>7, <2>1, <3>1, LeftOutKeepsOrder DEF OnItsWay
  <2>4. N[5] \in Seq(Nat) /\ N \in [Place -> Seq(Nat)]
    BY <1>2 DEF OnItsWay, LaneOrder
  <2>5. M[5] = Tail(N[5]) /\ \A c \in Place : c # 5 => M[c] = N[c]
    BY <1>2, <2>1, <2>4 DEF LeftOut
  <2>6. Held'[5] = Looks(5, M[5], sent)
    <3>1. Held[5] = Looks(5, N[5], sent)
      BY <1>2 DEF OnItsWay
    <3>2. Tail(Looks(5, N[5], sent)) = Looks(5, Tail(N[5]), sent)
      BY <1>7, <2>4, LooksFirst
    <3>. QED  BY <1>5, <2>5, <3>1, <3>2
  <2>7. ASSUME NEW c \in Place, c # 5 PROVE Held'[c] = Looks(c, M[c], sent)
    <3>1. Held'[c] = Held[c]
      BY <1>2, <1>3, <1>16, <2>7 DEF Held
    <3>. QED  BY <2>5, <2>7, <3>1 DEF OnItsWay
  <2>8. OnItsWay(M)'
    BY <1>3, <1>13, <2>2, <2>3, <2>6, <2>7 DEF OnItsWay
  <2>9. M[1] = N[1]
    BY <1>2, <2>5
  <2>. QED  BY <2>2, <2>8, <2>9 DEF Moves
<1>. QED  BY <1>11, <1>12, <1>14, <1>15, <1>16

\* client_loop's writer.
LEMMA RelayWriterOn ==
    ASSUME NEW N, OnItsWay(N), NEW S, sent \in Seq(S), RelayWriter
    PROVE  \E M : OnItsWay(M)' /\ Moves(N, M)
<1>1. Place = {1, 2, 3, 4, 5, 6, 7, 8}
  BY DEF Place
<1>2. UNCHANGED <<sent, route, heard, tunnel, outbox, outboxVideo, outboxBulk>>
  BY DEF RelayWriter, choiceVars, pcQueues
<1>3. PICK b \in {3, 4} : /\ Held[b] # <<>> /\ Held'[b] = Tail(Held[b])
                          /\ socket' = Append(socket, Head(Held[b]))
                          /\ b = 4 => Held[3] = <<>>
                          /\ \A c \in {3, 4} : c # b => Held'[c] = Held[c]
  BY DEF RelayWriter, ToSocket, Held
<1>4. b \in Place /\ 2 \in Place /\ 3 \in Place
  BY <1>1
<1>5. N[b] # <<>> /\ Head(Held[b]) = Look(b, sent[Head(N[b])]) /\ (b = 4 => N[3] = <<>>)
  BY <1>3, <1>4, FirstHeld
<1>6. Held'[2] = Append(Held[2], Look(2, sent[Head(N[b])]))
  <2>1. Look(2, sent[Head(N[b])]) = Head(Held[b])
    BY <1>5 DEF Look
  <2>. QED  BY <1>3, <2>1 DEF Held
<1>7. \A c \in Place : c # 2 /\ c # b => Held'[c] = Held[c]
  <2>1. \A c \in {1, 5, 6, 7, 8} : Held'[c] = Held[c]
    BY <1>2 DEF Held
  <2>. QED  BY <1>1, <1>3, <2>1
<1>8. Passable(N, Said, 2, b)
  <2>1. 2 < b /\ MayHold(2, Said[Head(N[b])])
    BY DEF MayHold
  <2>2. ASSUME NEW c \in Place, 2 < c, c < b, NEW k \in 1..Len(N[c]) PROVE FALSE
    <3>1. c = 3 /\ b = 4
      BY <1>1, <2>2
    <3>2. N[c] = <<>>
      BY <1>5, <3>1
    <3>. QED  BY <2>2, <3>2
  <2>. QED  BY <1>5, <2>1, <2>2 DEF Passable
<1>9. route # "lan" \/ 2 \notin {3, 4, 5}
  OBVIOUS
<1>. QED  BY <1>2, <1>3, <1>4, <1>6, <1>7, <1>8, <1>9, WayPassed

\* What the phone heard, by its numbers.
LEMMA HeardIs ==
    ASSUME NEW N, OnItsWay(N)
    PROVE  /\ \E X : heard \in Seq(X)
           /\ N[1] \in Seq(Nat) /\ Len(N[1]) \in Nat /\ Len(heard) = Len(N[1])
           /\ \A k \in 1..Len(N[1]) : heard[k] = sent[N[1][k]]
<1>1. 1 \in Place
  BY DEF Place
<1>2. PICK q : q = N[1]
  OBVIOUS
<1>3. q \in Seq(Nat)
  BY <1>1, <1>2 DEF OnItsWay, LaneOrder
<1>4. PICK n \in Nat : n = Len(q)
  BY <1>3, LenProperties
<1>5. heard = Looks(1, q, sent)
  <2>1. Held[1] = Looks(1, q, sent)
    BY <1>1, <1>2 DEF OnItsWay
  <2>. QED  BY <2>1 DEF Held
<1>6. heard = [k \in 1..n |-> sent[q[k]]]
  BY <1>4, <1>5 DEF Looks, Look
<1>7. PICK X : X = {sent[q[k]] : k \in 1..n}
  OBVIOUS
<1>8. heard \in [1..n -> X]
  BY <1>6, <1>7
<1>9. heard \in Seq(X) /\ Len(heard) = n
  BY <1>6, <1>8
<1>. QED  BY <1>2, <1>3, <1>4, <1>6, <1>9

\* A chunk that comes to the phone comes after its announcement.
LEMMA AnnouncedBefore ==
    ASSUME NEW N, OnItsWay(N), SessionInv, N[2] # <<>>, sent[Head(N[2])].kind = "chunk"
    PROVE  Announced(heard, DownId, "file_send_begin")
<1>1. PICK S : sent \in Seq(S)
  BY DEF SessionInv, Saying
<1>2. 1 \in Place /\ 2 \in Place /\ \A c \in Place : c \in Nat /\ c >= 1
  BY DEF Place
<1>3. PICK x : x = Head(N[2])
  OBVIOUS
<1>4. /\ x = N[2][1] /\ 1 \in 1..Len(N[2]) /\ x \in 1..Len(sent) /\ Said[x] = Lane(sent[x])
  BY <1>1, <1>2, <1>3, FirstHeld
<1>5. PICK n \in 1..x - 1 : /\ sent[n].kind = "text" /\ sent[n].name = "file_send_begin"
                            /\ sent[n].arg = DownId
  BY <1>3, <1>4 DEF SessionInv, Saying
<1>6. n \in 1..Len(sent) /\ n < x /\ n # x
  <2>1. Len(sent) \in Nat
    BY <1>1, LenProperties
  <2>. QED  BY <1>4, <1>5, <2>1
<1>7. Len(Said) = Len(sent) /\ Said[n] = "text" /\ Said[x] = "bulk"
  <2>1. Said[n] = Lane(sent[n]) /\ Len(Said) = Len(sent)
    BY <1>1, <1>6, SaidMore
  <2>. QED  BY <1>3, <1>4, <1>5, <2>1 DEF Lane
<1>8. PICK c \in Place : \E i \in 1..Len(N[c]) : N[c][i] = n
  <2>1. n \in 1..Len(Said) /\ Said[n] # "fast"
    BY <1>6, <1>7
  <2>. QED  BY <2>1 DEF OnItsWay, LaneOrder
<1>9. PICK i \in 1..Len(N[c]) : N[c][i] = n
  BY <1>8
<1>10. c = 1
  <2> SUFFICES ASSUME c # 1 PROVE FALSE
    OBVIOUS
  <2>1. i \in Nat /\ i >= 1
    <3>1. N[c] \in Seq(Nat)
      BY DEF OnItsWay, LaneOrder
    <3>2. Len(N[c]) \in Nat
      BY <3>1, LenProperties
    <3>. QED  BY <3>2
  <2>2. c # 2 \/ i # 1
    BY <1>4, <1>6, <1>9
  <2>3. Ahead(2, 1, c, i)
    BY <1>2, <2>1, <2>2 DEF Ahead
  <2>4. ~Follows(Said, N[2][1], N[c][i])
    BY <1>2, <1>4, <2>3 DEF OnItsWay, LaneOrder
  <2>. QED  BY <1>4, <1>6, <1>7, <1>9, <2>4 DEF Follows
<1>11. heard[i] = sent[n] /\ i \in 1..Len(heard)
  BY <1>9, <1>10, HeardIs
<1>12. PICK X : heard \in Seq(X)
  BY HeardIs
<1>. QED  BY <1>5, <1>11, <1>12, SaysAt

\* The phone takes what comes as the PC said it.
LEMMA PhoneTakesIt ==
    ASSUME NEW m, CarriesText(m) \/ CarriesBytes(m), ~refused',
           m.kind = "chunk" => Announced(heard, DownId, "file_send_begin"),
           IF AsSent(m).text THEN HearText(AsSent(m).bytes[1]) ELSE HearBytes(AsSent(m).bytes)
    PROVE  heard' = Append(heard, m)
<1>1. CASE CarriesText(m)
  <2>1. AsSent(m).text = TRUE /\ AsSent(m).bytes[1] = m
    BY <1>1 DEF CarriesText
  <2>2. HearText(m)
    BY <2>1
  <2>. QED  BY <2>2 DEF HearText
<1>2. CASE CarriesBytes(m)
  <2>1. PICK b : AsSent(m) = [text |-> FALSE, bytes |-> b] /\ ReadBack(m, b)
    BY <1>2 DEF CarriesBytes
  <2>2. AsSent(m).text = FALSE /\ AsSent(m).bytes = b
    BY <2>1
  <2>3. HearBytes(b)
    BY <2>2
  <2>4. PICK f : f = Parse(b)
    OBVIOUS
  <2>5. /\ Len(b) >= HeaderLen
        /\ \/ m.kind = "picture" /\ f.type = Video /\ m = Picture(f.pts, f.keyframe, f.payload)
           \/ m.kind = "sound" /\ f.type = Audio /\ m = Sound(f.pts, f.payload)
           \/ /\ m.kind = "chunk" /\ f.type = File
              /\ IncomingChunk(f) = [id |-> DownId, seq |-> m.seq, last |-> m.last,
                                     payload |-> m.data]
              /\ m = Chunk(DownId, m.seq, m.last, m.data)
    BY <2>1, <2>4 DEF ReadBack
  <2>6. \/ f.type = Video /\ heard' = Append(heard, Picture(f.pts, f.keyframe, f.payload))
        \/ f.type = Audio /\ heard' = Append(heard, Sound(f.pts, f.payload))
        \/ f.type = File /\ HearChunk(IncomingChunk(f))
    <3>1. ~(Len(b) < HeaderLen)
      <4>1. \E S : b \in Seq(S)
        BY <1>2, <2>1 DEF CarriesBytes
      <4>2. Len(b) \in Nat
        BY <4>1, LenProperties
      <4>. QED  BY <2>5, <4>2 DEF HeaderLen
    <3>. QED  BY <2>3, <2>4, <3>1 DEF HearBytes
  <2>7. CASE m.kind = "chunk"
    <3>1. PICK c : c = IncomingChunk(f)
      OBVIOUS
    <3>2. c.id = DownId /\ c.seq = m.seq /\ c.last = m.last /\ c.payload = m.data
      BY <2>5, <2>7, <3>1
    <3>3. HearChunk(c)
      BY <2>5, <2>6, <2>7, <3>1 DEF Video, Audio, File
    <3>4. heard' = Append(heard, Chunk(c.id, c.seq, c.last, c.payload))
      BY <2>7, <3>2, <3>3 DEF HearChunk
    <3>. QED  BY <2>5, <2>7, <3>2, <3>4
  <2>8. CASE m.kind = "picture"
    BY <2>5, <2>6, <2>8 DEF Video, Audio, File
  <2>9. CASE m.kind = "sound"
    BY <2>5, <2>6, <2>9 DEF Video, Audio, File
  <2>. QED  BY <2>5, <2>7, <2>8, <2>9
<1>. QED  BY <1>1, <1>2

\* The phone's reader delivers what is first on the socket.
LEMMA PhoneHearsOn ==
    ASSUME NEW N, OnItsWay(N), SessionInv, PhoneHears, ~refused'
    PROVE  \E M : OnItsWay(M)' /\ Moves(N, M)
<1>1. PICK S : sent \in Seq(S)
  BY DEF SessionInv, Saying
<1>2. Place = {1, 2, 3, 4, 5, 6, 7, 8}
  BY DEF Place
<1>3. UNCHANGED <<sent, route, fast, bulk, tunnel, outbox, outboxVideo, outboxBulk>>
  BY DEF PhoneHears, choiceVars, pcQueues, relayVars
<1>4. Held[2] = socket /\ socket # <<>> /\ Held'[2] = Tail(Held[2])
  BY DEF PhoneHears, Held
<1>5. PICK x : x = Head(N[2])
  OBVIOUS
<1>6. N[2] # <<>> /\ x \in 1..Len(sent) /\ Head(socket) = Look(2, sent[x])
  <2>1. 2 \in Place
    BY <1>2
  <2>2. N[2] # <<>>
    BY <1>1, <1>4, <2>1, FirstHeld
  <2>. QED  BY <1>1, <1>4, <1>5, <2>1, <2>2, FirstHeld
<1>7. PICK m : m = sent[x] /\ (CarriesText(m) \/ CarriesBytes(m))
  BY <1>6, SaidCarries
<1>8. Head(socket) = AsSent(m)
  BY <1>6, <1>7 DEF Look
<1>9. m.kind = "chunk" => Announced(heard, DownId, "file_send_begin")
  BY <1>5, <1>6, <1>7, AnnouncedBefore
<1>10. IF AsSent(m).text THEN HearText(AsSent(m).bytes[1]) ELSE HearBytes(AsSent(m).bytes)
  BY <1>8 DEF PhoneHears
<1>11. heard' = Append(heard, m)
  BY <1>7, <1>9, <1>10, PhoneTakesIt
<1>12. Held'[1] = Append(Held[1], Look(1, sent[x]))
  BY <1>7, <1>11 DEF Held, Look
<1>13. \A c \in Place : c # 1 /\ c # 2 => Held'[c] = Held[c]
  BY <1>2, <1>3 DEF Held
<1>14. Passable(N, Said, 1, 2)
  <2>1. MayHold(1, Said[x]) /\ \A c \in Place : ~(1 < c /\ c < 2)
    BY <1>2 DEF MayHold
  <2>. QED  BY <1>5, <1>6, <2>1 DEF Passable
<1>15. 1 \in Place /\ 2 \in Place /\ 1 \notin {3, 4, 5}
  BY <1>2
<1>. QED  BY <1>1, <1>3, <1>4, <1>5, <1>12, <1>13, <1>14, <1>15, WayPassed

\* At the start nothing is on its way.
LEMMA WayStarts == WireInit => \E N : OnItsWay(N)
<1> SUFFICES ASSUME WireInit PROVE \E N : OnItsWay(N)
  OBVIOUS
<1>1. PICK N : N = [a \in Place |-> <<>>]
  OBVIOUS
<1>2. N \in [Place -> Seq(Nat)] /\ \A a \in Place : N[a] = <<>> /\ Len(N[a]) = 0
  <2>1. <<>> \in Seq(Nat)
    OBVIOUS
  <2>. QED  BY <1>1, <2>1
<1>3. sent = <<>> /\ \A c \in {1, 2, 3, 4, 5, 6, 7, 8} : Held[c] = <<>>
  BY DEF WireInit, Held
<1>4. 1..0 = {}
  OBVIOUS
<1>5. Len(Said) = 0
  <2>1. <<>> \in Seq({}) /\ Len(<<>>) = 0
    OBVIOUS
  <2>2. sent \in Seq({}) /\ Len(sent) = 0
    BY <1>3, <2>1
  <2>. QED  BY <2>2, SaidMore
<1>6. LaneOrder(N, Said)
  BY <1>2, <1>4, <1>5 DEF LaneOrder
<1>7. \A c \in Place : Held[c] = Looks(c, N[c], sent)
  <2>1. \A c \in Place : Held[c] = <<>>
    BY <1>3 DEF Place
  <2>2. <<>> \in Seq(Nat)
    OBVIOUS
  <2>. QED  BY <1>2, <2>1, <2>2, LooksNone
<1>8. \A c \in {3, 4, 5} : N[c] = <<>>
  <2>1. \A c \in {3, 4, 5} : c \in Place
    BY DEF Place
  <2>. QED  BY <1>2, <2>1
<1>. QED  BY <1>6, <1>7, <1>8 DEF OnItsWay

\* Every step.
LEMMA WayStep ==
    ASSUME NEW N, OnItsWay(N), SessionInv, ~refused', [WireNext]_allVars
    PROVE  \E M : OnItsWay(M)' /\ Moves(N, M)
<1>1. PICK S : sent \in Seq(S)
  BY DEF SessionInv, Saying
<1>2. CASE PictureOut \/ SoundOut \/ AnnounceFile \/ PushChunk \/ PcTalks
  BY <1>1, <1>2, PcSaysOn
<1>3. CASE PcTakesMessage
  BY <1>1, <1>3, PcAnswersOnWay
<1>4. CASE LanWriter \/ Pump
  BY <1>1, <1>4, WritersPass
<1>5. CASE RelayRoutes
  BY <1>5, RelayRoutesOn
<1>6. CASE RelayWriter
  BY <1>1, <1>6, RelayWriterOn
<1>7. CASE PhoneHears
  BY <1>7, PhoneHearsOn
<1>8. CASE \/ EncoderStep \/ TakeAsked \/ RequestKeyframe \/ Upload \/ PhoneTalks \/ FieldChanges
           \/ RelayReader \/ UNCHANGED allVars
  <2>1. UNCHANGED <<downVars, route>>
    BY <1>8 DEF EncoderStep, TakeAsked, RequestKeyframe, Upload, PhoneTalks, FieldChanges,
                RelayReader, allVars, wireVars, choiceVars
  <2>2. UNCHANGED sent /\ \A c \in Place : Held'[c] = Held[c]
    <3>1. UNCHANGED <<sent, heard, socket, fast, bulk, tunnel, outbox, outboxVideo, outboxBulk>>
      BY <2>1 DEF downVars, pcQueues, relayVars
    <3>. QED  BY <3>1 DEF Held
  <2>. QED  BY <2>1, <2>2, WayStays
<1>. QED  BY <1>2, <1>3, <1>4, <1>5, <1>6, <1>7, <1>8 DEF WireNext

-----------------------------------------------------------------------------
(* The way to the phone implements the lanes *)

Got == [k \in 1..Len(heard) |-> NumberOf(heard[k])]
Numbers(s, h) ==
    [k \in 1..Len(h) |->
        IF \E n \in 1..Len(s) : s[n] = h[k]
        THEN CHOOSE n \in 1..Len(s) : s[n] = h[k] ELSE 0]

\* The numbers of messages that are all different are found again.
LEMMA NumbersFound ==
    ASSUME NEW s, \A m, n \in 1..Len(s) : s[m] = s[n] => m = n,
           NEW q \in Seq(Nat), \A k \in 1..Len(q) : q[k] \in 1..Len(s),
           NEW h, h = Looks(1, q, s)
    PROVE  Numbers(s, h) = q
<1>1. PICK l \in Nat : l = Len(q)
  BY LenProperties
<1>2. h = [k \in 1..l |-> s[q[k]]]
  BY <1>1 DEF Looks, Look
<1>3. Len(h) = l
  BY <1>2
<1>4. ASSUME NEW k \in 1..l
      PROVE  (IF \E n \in 1..Len(s) : s[n] = h[k]
              THEN CHOOSE n \in 1..Len(s) : s[n] = h[k] ELSE 0) = q[k]
  <2>1. q[k] \in 1..Len(s) /\ s[q[k]] = h[k]
    BY <1>1, <1>2
  <2>2. PICK x : x = CHOOSE n \in 1..Len(s) : s[n] = h[k]
    OBVIOUS
  <2>3. x \in 1..Len(s) /\ s[x] = h[k]
    BY <2>1, <2>2
  <2>4. x = q[k]
    BY <2>1, <2>3
  <2>. QED  BY <2>1, <2>2, <2>4
<1>5. q = [k \in 1..l |-> q[k]]
  BY <1>1
<1>. QED  BY <1>3, <1>4, <1>5 DEF Numbers

\* What the phone has got, before a step and after it.
LEMMA GotIs ==
    ASSUME NEW N, OnItsWay(N), SessionInv
    PROVE  Got = N[1] /\ N[1] \in Seq(Nat) /\ \A k \in 1..Len(N[1]) : N[1][k] \in 1..Len(Said)
<1>1. PICK S : sent \in Seq(S)
  BY DEF SessionInv, Saying
<1>2. Len(Said) = Len(sent)
  BY <1>1, SaidMore
<1>3. 1 \in Place
  BY DEF Place
<1>4. N[1] \in Seq(Nat) /\ \A k \in 1..Len(N[1]) : N[1][k] \in 1..Len(Said)
  BY <1>3 DEF OnItsWay, LaneOrder
<1>5. heard = Looks(1, N[1], sent)
  <2>1. Held[1] = Looks(1, N[1], sent)
    BY <1>3 DEF OnItsWay
  <2>. QED  BY <2>1 DEF Held
<1>6. \A m, n \in 1..Len(sent) : sent[m] = sent[n] => m = n
  BY DEF SessionInv, Saying
<1>7. Got = N[1]
  <2>1. Got = Numbers(sent, heard)
    BY DEF Got, NumberOf, Numbers
  <2>. QED  BY <1>2, <1>4, <1>5, <1>6, <2>1, NumbersFound
<1>. QED  BY <1>4, <1>7

LEMMA GotWillBe ==
    ASSUME NEW N, OnItsWay(N)', SessionInv'
    PROVE  Got' = N[1]
<1>1. PICK S : sent' \in Seq(S)
  BY DEF SessionInv, Saying
<1>2. Len(Said') = Len(sent')
  <2>1. PICK t, l : t = sent' /\ l = Len(t)
    OBVIOUS
  <2>2. l \in Nat
    BY <1>1, <2>1, LenProperties
  <2>3. Said' = [n \in 1..l |-> Lane(t[n])]
    BY <2>1 DEF Said
  <2>. QED  BY <2>1, <2>2, <2>3
<1>3. 1 \in Place
  BY DEF Place
<1>4. N[1] \in Seq(Nat) /\ \A k \in 1..Len(N[1]) : N[1][k] \in 1..Len(Said')
  BY <1>3 DEF OnItsWay, LaneOrder
<1>5. heard' = Looks(1, N[1], sent')
  <2>1. Held'[1] = Looks(1, N[1], sent')
    BY <1>3 DEF OnItsWay
  <2>. QED  BY <2>1 DEF Held
<1>6. \A m, n \in 1..Len(sent') : sent'[m] = sent'[n] => m = n
  BY DEF SessionInv, Saying
<1>7. Got' = Numbers(sent', heard')
  BY DEF Got, NumberOf, Numbers
<1>. QED  BY <1>2, <1>4, <1>5, <1>6, <1>7, NumbersFound

\* What is first on the socket may be delivered.
LEMMA MayBeDelivered ==
    ASSUME NEW lanes, NEW N, LaneOrder(N, lanes), N[2] # <<>>, NEW x, x = Head(N[2])
    PROVE  /\ x \in 1..Len(lanes) /\ \A k \in 1..Len(N[1]) : N[1][k] # x
           /\ \A m \in 1..x - 1 : lanes[m] # "fast" /\ Follows(lanes, x, m) =>
                 \E k \in 1..Len(N[1]) : N[1][k] = m
           /\ lanes[x] = "fast" =>
                 \A k \in 1..Len(N[1]) : lanes[N[1][k]] = "fast" => N[1][k] < x
<1>1. 1 \in Place /\ 2 \in Place /\ \A c \in Place : c \in Nat /\ c >= 1
  BY DEF Place
<1>2. N[2] \in Seq(Nat) /\ \A c \in Place : N[c] \in Seq(Nat)
  BY <1>1 DEF LaneOrder
<1>3. Len(N[2]) \in Nat /\ Len(N[2]) > 0 /\ x = N[2][1]
  BY <1>2, HeadTailProperties, EmptySeq
<1>4. 1 \in 1..Len(N[2])
  BY <1>3
<1>5. x \in 1..Len(lanes) /\ x \in Nat
  BY <1>1, <1>3, <1>4 DEF LaneOrder
<1>6. \A k \in 1..Len(N[1]) :
         /\ N[1][k] \in Nat /\ N[1][k] # x /\ ~Follows(lanes, N[1][k], x)
  <2> SUFFICES ASSUME NEW k \in 1..Len(N[1])
               PROVE  N[1][k] \in Nat /\ N[1][k] # x /\ ~Follows(lanes, N[1][k], x)
    OBVIOUS
  <2>1. Ahead(1, k, 2, 1)
    BY DEF Ahead
  <2>2. N[1][k] # N[2][1] /\ ~Follows(lanes, N[1][k], N[2][1])
    BY <1>1, <1>4, <2>1 DEF LaneOrder
  <2>3. N[1][k] \in 1..Len(lanes)
    BY <1>1 DEF LaneOrder
  <2>. QED  BY <1>3, <2>2, <2>3
<1>7. ASSUME NEW m \in 1..x - 1, lanes[m] # "fast", Follows(lanes, x, m)
      PROVE  \E k \in 1..Len(N[1]) : N[1][k] = m
  <2>1. m \in 1..Len(lanes) /\ m # x
    BY <1>5
  <2>2. PICK c \in Place : \E i \in 1..Len(N[c]) : N[c][i] = m
    BY <1>7, <2>1 DEF LaneOrder
  <2>3. PICK i \in 1..Len(N[c]) : N[c][i] = m
    BY <2>2
  <2>4. CASE c = 1
    BY <2>3, <2>4
  <2>5. CASE c # 1
    <3>1. i \in Nat /\ i >= 1
      <4>1. Len(N[c]) \in Nat
        BY <1>2, LenProperties
      <4>. QED  BY <4>1
    <3>2. c # 2 \/ i # 1
      BY <1>3, <2>1, <2>3
    <3>3. Ahead(2, 1, c, i)
      BY <1>1, <2>5, <3>1, <3>2 DEF Ahead
    <3>4. ~Follows(lanes, N[2][1], N[c][i])
      BY <1>1, <1>4, <3>3 DEF LaneOrder
    <3>. QED  BY <1>3, <1>7, <2>3, <3>4
  <2>. QED  BY <2>4, <2>5
<1>8. ASSUME lanes[x] = "fast", NEW k \in 1..Len(N[1]), lanes[N[1][k]] = "fast"
      PROVE  N[1][k] < x
  BY <1>5, <1>6, <1>8 DEF Follows
<1>. QED  BY <1>5, <1>6, <1>7, <1>8

\* What a step is to the lanes.
LEMMA LanesStep ==
    ASSUME NEW N, OnItsWay(N), SessionInv, NEW M, OnItsWay(M)', SessionInv', Moves(N, M)
    PROVE  [Promise!Send \/ Promise!Deliver]_<<Said, Got>>
<1>1. Got = N[1] /\ Got' = M[1]
  BY GotIs, GotWillBe
<1>2. CASE Said' = Said /\ M[1] = N[1]
  BY <1>1, <1>2
<1>3. CASE (\E lane \in AllLanes : Said' = Append(Said, lane)) /\ M[1] = N[1]
  <2>1. Promise!Send
    BY <1>1, <1>3 DEF Promise!Send, Promise!Lane, AllLanes, Said, Got
  <2>. QED  BY <2>1
<1>4. CASE Said' = Said /\ N[2] # <<>> /\ M = PassedOn(N, 1, 2)
  <2>1. PICK x : x = Head(N[2])
    OBVIOUS
  <2>2. PICK lanes, got : lanes = Said /\ got = Got
    OBVIOUS
  <2>3. got = N[1] /\ got \in Seq(Nat) /\ LaneOrder(N, lanes)
    BY <1>1, <2>2, GotIs DEF OnItsWay
  <2>4. /\ x \in 1..Len(lanes) /\ \A k \in 1..Len(got) : got[k] # x
        /\ \A m \in 1..x - 1 : lanes[m] # "fast" /\ Follows(lanes, x, m) =>
              \E k \in 1..Len(got) : got[k] = m
        /\ lanes[x] = "fast" =>
              \A k \in 1..Len(got) : lanes[got[k]] = "fast" => got[k] < x
    BY <1>4, <2>1, <2>3, MayBeDelivered
  <2>5. Promise!Range(got) = {got[k] : k \in 1..Len(got)}
    BY <2>3, LenProperties DEF Promise!Range
  <2>6. Got' = Append(Got, x)
    <3>1. N \in [Place -> Seq(Nat)] /\ 1 \in Place /\ 2 \in Place /\ 1 # 2
      BY <2>3 DEF LaneOrder, Place
    <3>2. Handed(N, M, 1, 2, sent)
      BY <1>4, <3>1, LooksPassed
    <3>. QED  BY <1>1, <2>1, <3>2 DEF Handed
  <2>7. x \in (1..Len(lanes)) \ Promise!Range(got)
    BY <2>4, <2>5
  <2>8. Promise!Before(x) \subseteq Promise!Range(got)
    <3>1. Promise!Before(x) = {m \in 1..(x - 1) :
                                  \/ lanes[m] = lanes[x] /\ lanes[x] # "fast"
                                  \/ lanes[m] = "text" /\ lanes[x] = "bulk"}
      BY <2>2 DEF Promise!Before, Said
    <3>2. ASSUME NEW m \in 1..(x - 1),
                 \/ lanes[m] = lanes[x] /\ lanes[x] # "fast"
                 \/ lanes[m] = "text" /\ lanes[x] = "bulk"
          PROVE  m \in Promise!Range(got)
      <4>1. x \in Nat /\ m < x
        <5>1. x \in Nat
          BY <2>4
        <5>. QED  BY <5>1
      <4>2. lanes[m] # "fast" /\ Follows(lanes, x, m)
        BY <3>2, <4>1 DEF Follows
      <4>. QED  BY <2>4, <2>5, <4>2
    <3>. QED  BY <3>1, <3>2
  <2>9. lanes[x] = "fast" => \A m \in Promise!Range(got) : lanes[m] = "fast" => m < x
    BY <2>4, <2>5
  <2>10. Promise!Deliver
    BY <1>4, <2>2, <2>6, <2>7, <2>8, <2>9 DEF Promise!Deliver, Said, Got
  <2>. QED  BY <2>10
<1>. QED  BY <1>2, <1>3, <1>4 DEF Moves

\* Whatever the route, the lengths of the queues, the number of pictures, sounds
\* and chunks and how the tasks take turns: the PC's three queues, the tunnel and
\* the relay's two queues implement the lanes (outbox of ws_server.rs and
\* relay_client.rs, host_loop and client_loop of main.rs, onMessage).
THEOREM WireKeepsLanes == WireSpec => LanesKept
<1> DEFINE Inv == WireInv /\ SessionInv /\ \E N : OnItsWay(N)
<1>1. WireInit => Inv
  BY WireStarts, SessionStarts, WayStarts
<1>2. ASSUME Inv, [WireNext]_allVars
      PROVE  Inv' /\ [Promise!Send \/ Promise!Deliver]_<<Said, Got>>
  <2>1. PICK N : OnItsWay(N)
    BY <1>2
  <2>2. WireInv' /\ ~refused'
    BY <1>2, WireInvStep DEF WireInv, NothingRefused
  <2>3. SessionInv'
    BY <1>2, <2>2, SessionStep
  <2>4. PICK M : OnItsWay(M)' /\ Moves(N, M)
    BY <1>2, <2>1, <2>2, WayStep
  <2>. QED  BY <1>2, <2>1, <2>2, <2>3, <2>4, LanesStep
<1>3. WireInit => Promise!Init
  <2> SUFFICES ASSUME WireInit PROVE Promise!Init
    OBVIOUS
  <2>1. sent = <<>> /\ heard = <<>>
    BY DEF WireInit
  <2>2. PICK E : E = <<>>
    OBVIOUS
  <2>3. Len(E) = 0
    BY <2>2
  <2>4. \A f : [n \in 1..Len(E) |-> f[n]] = <<>>
    BY <2>3
  <2>. QED  BY <2>1, <2>2, <2>3 DEF Promise!Init
<1>. QED  BY <1>1, <1>2, <1>3, PTL DEF WireSpec, LanesKept, Promise!Spec, Said, Got

-----------------------------------------------------------------------------
(***************************************************************************)
(* The mirrored field: the texts that the PC's field goes through while    *)
(* the keys on their way arrive are its course, a function of the number   *)
(* of the last key it took.  A step cuts the course at its beginning or    *)
(* lengthens it at its end; that it is the one of Mirrored is shown once.  *)
(***************************************************************************)

\* From the keys taken to those told the field takes this course.
Leads(Course, first, last) ==
    /\ Course[first] = remote /\ Course[last] = committed
    /\ \A n \in first + 1..last : Course[n] = Typed(Course[n - 1], told[n].arg)

\* Such a function is the one of Mirrored.
LEMMA LeadsToCommitted ==
    ASSUME Len(taken) \in Nat, Len(told) \in Nat, Len(taken) <= Len(told),
           NEW Course, Leads(Course, Len(taken), Len(told))
    PROVE  Mirrored
<1>1. PICK a \in Nat, z \in Nat : a = Len(taken) /\ z = Len(told) /\ a <= z
  OBVIOUS
<1> DEFINE Body(f) == [n \in a..z |-> IF n = a THEN remote ELSE Typed(f[n - 1], told[n].arg)]
<1>2. PICK F : F = [n \in a..z |-> Course[n]]
  OBVIOUS
<1>3. /\ F[a] = remote /\ F[z] = committed
      /\ \A n \in a + 1..z : F[n] = Typed(F[n - 1], told[n].arg)
  <2>1. a \in a..z /\ z \in a..z /\ \A n \in a + 1..z : n \in a..z /\ n - 1 \in a..z
    BY <1>1
  <2>. QED  BY <1>1, <1>2, <2>1 DEF Leads
<1>4. F = Body(F)
  <2>1. \A n \in a..z : F[n] = IF n = a THEN remote ELSE Typed(F[n - 1], told[n].arg)
    <3> SUFFICES ASSUME NEW n \in a..z, n # a PROVE F[n] = Typed(F[n - 1], told[n].arg)
      BY <1>3
    <3>1. n \in a + 1..z
      BY <1>1
    <3>. QED  BY <1>3, <3>1
  <2>2. F = [n \in a..z |-> F[n]]
    BY <1>2
  <2>. QED  BY <2>1, <2>2, Zenon
<1>5. PICK f : f = CHOOSE g : g = Body(g)
  OBVIOUS
<1>6. f = Body(f)
  BY <1>4, <1>5, Zenon
<1>7. f[a] = remote /\ \A n \in a + 1..z : f[n] = Typed(f[n - 1], told[n].arg)
  <2>1. a \in a..z /\ \A n \in a + 1..z : n \in a..z /\ n # a
    BY <1>1
  <2>2. \A n \in a..z : f[n] = IF n = a THEN remote ELSE Typed(f[n - 1], told[n].arg)
    BY <1>6, Zenon
  <2>. QED  BY <2>1, <2>2
<1>8. f[z] = F[z]
  <2>1. PICK D : D = {k \in Nat : a + k <= z /\ f[a + k] # F[a + k]}
    OBVIOUS
  <2>2. D = {}
    <3> SUFFICES ASSUME D # {} PROVE FALSE
      OBVIOUS
    <3>1. D \subseteq Nat
      BY <2>1
    <3>2. \E l \in D : \A k \in D : ~(<<k, l>> \in OpToRel(<, Nat))
      BY <3>1, NatLessThanWellFounded, WFMin, Zenon
    <3>3. PICK l \in D : \A k \in D : ~(<<k, l>> \in OpToRel(<, Nat))
      BY <3>2
    <3>4. \A k \in D : ~(k < l)
      BY <3>1, <3>3, Zenon DEF OpToRel
    <3>5. l \in Nat /\ a + l <= z /\ f[a + l] # F[a + l]
      BY <2>1
    <3>6. l # 0
      BY <1>1, <1>3, <1>7, <3>5
    <3>7. l - 1 \notin D /\ l - 1 \in Nat /\ a + (l - 1) <= z
      BY <1>1, <3>4, <3>5, <3>6
    <3>8. f[a + (l - 1)] = F[a + (l - 1)]
      BY <2>1, <3>7
    <3>9. PICK n : n = a + l
      OBVIOUS
    <3>10. n \in a + 1..z /\ n - 1 = a + (l - 1)
      BY <1>1, <3>5, <3>6, <3>9
    <3>11. f[n] = F[n]
      BY <1>3, <1>7, <3>8, <3>10
    <3>. QED  BY <3>5, <3>9, <3>11
  <2>3. z - a \in Nat /\ a + (z - a) = z
    BY <1>1
  <2>. QED  BY <2>1, <2>2, <2>3
<1>. QED  BY <1>1, <1>3, <1>5, <1>8 DEF Mirrored

\* The beginnings of a text, and a beginning of one of them.
LEMMA Shortened ==
    ASSUME NEW s \in Seq(Chars), NEW l \in 0..Len(s)
    PROVE  /\ SubSeq(s, 1, l) \in Seq(Chars) /\ Len(SubSeq(s, 1, l)) = l
           /\ \A i \in 1..l : SubSeq(s, 1, l)[i] = s[i]
<1>1. Len(s) \in Nat
  BY LenProperties
<1>2. l \in Nat /\ \A i \in 1..l : s[i] \in Chars
  BY <1>1, ElementOfSeq
<1>3. SubSeq(s, 1, l) \in Seq(Chars)
  BY <1>2, SubSeqProperties
<1>4. Len(SubSeq(s, 1, l)) = IF 1 <= l THEN l - 1 + 1 ELSE 0
  BY <1>2, SubSeqProperties
<1>5. \A i \in 1..l : SubSeq(s, 1, l)[i] = s[1 + i - 1]
  <2> SUFFICES ASSUME NEW i \in 1..l PROVE SubSeq(s, 1, l)[i] = s[1 + i - 1]
    OBVIOUS
  <2>1. i \in 1..l - 1 + 1
    BY <1>2
  <2>. QED  BY <1>2, <2>1, SubSeqProperties
<1>. QED  BY <1>2, <1>3, <1>4, <1>5

\* A beginning of a beginning.
LEMMA ShortenedTwice ==
    ASSUME NEW s \in Seq(Chars), NEW l \in 0..Len(s), NEW k \in 0..l
    PROVE  SubSeq(SubSeq(s, 1, l), 1, k) = SubSeq(s, 1, k)
<1>1. PICK t : t = SubSeq(s, 1, l)
  OBVIOUS
<1>2. Len(s) \in Nat
  BY LenProperties
<1>3. l \in Nat /\ k \in Nat /\ k <= l /\ k \in 0..Len(s)
  BY <1>2
<1>4. t \in Seq(Chars) /\ Len(t) = l /\ \A i \in 1..l : t[i] = s[i]
  BY <1>1, Shortened
<1>5. PICK u : u = SubSeq(t, 1, k)
  OBVIOUS
<1>6. u \in Seq(Chars) /\ Len(u) = k /\ \A i \in 1..k : u[i] = t[i]
  BY <1>4, <1>5, Shortened
<1>7. PICK v : v = SubSeq(s, 1, k)
  OBVIOUS
<1>8. v \in Seq(Chars) /\ Len(v) = k /\ \A i \in 1..k : v[i] = s[i]
  BY <1>3, <1>7, Shortened
<1>9. \A i \in 1..k : u[i] = v[i]
  BY <1>3, <1>4, <1>6, <1>8
<1>10. u = v
  BY <1>6, <1>8, <1>9, SeqEqual
<1>. QED  BY <1>1, <1>5, <1>7, <1>10

\* A whole text, and one that a beginning and what follows it make.
LEMMA BeginAndRest ==
    ASSUME NEW s \in Seq(Chars), NEW l \in 0..Len(s)
    PROVE  /\ SubSeq(s, 1, Len(s)) = s
           /\ SubSeq(s, l + 1, Len(s)) \in Seq(Chars)
           /\ SubSeq(s, 1, l) \o SubSeq(s, l + 1, Len(s)) = s
           /\ SubSeq(s, l + 1, Len(s)) = <<>> => l = Len(s)
<1>1. PICK z \in Nat : z = Len(s)
  BY LenProperties
<1>2. l \in Nat /\ l <= z
  BY <1>1
<1>3. PICK p : p = SubSeq(s, 1, l)
  OBVIOUS
<1>4. p \in Seq(Chars) /\ Len(p) = l /\ \A i \in 1..l : p[i] = s[i]
  BY <1>3, Shortened
<1>5. PICK r : r = SubSeq(s, l + 1, z)
  OBVIOUS
<1>6. /\ r \in Seq(Chars) /\ Len(r) = z - l
      /\ \A i \in 1..z - l : r[i] = s[l + i]
  <2>1. \A i \in l + 1..z : s[i] \in Chars
    <3>1. \A i \in l + 1..z : i \in 1..z
      BY <1>2
    <3>. QED  BY <1>1, <3>1, ElementOfSeq
  <2>2. r \in Seq(Chars)
    BY <1>2, <1>5, <2>1, SubSeqProperties
  <2>3. Len(r) = IF l + 1 <= z THEN z - (l + 1) + 1 ELSE 0
    BY <1>2, <1>5, <2>1, SubSeqProperties
  <2>4. \A i \in 1..z - (l + 1) + 1 : r[i] = s[l + 1 + i - 1]
    BY <1>2, <1>5, <2>1, SubSeqProperties
  <2>. QED  BY <1>2, <2>2, <2>3, <2>4
<1>7. PICK w : w = p \o r
  OBVIOUS
<1>8. /\ w \in Seq(Chars) /\ Len(w) = l + (z - l)
      /\ \A i \in 1..l + (z - l) : w[i] = IF i <= l THEN p[i] ELSE r[i - l]
  BY <1>4, <1>6, <1>7, ConcatProperties
<1>9. \A i \in 1..z : w[i] = s[i]
  <2> SUFFICES ASSUME NEW i \in 1..z PROVE w[i] = s[i]
    OBVIOUS
  <2>1. i \in 1..l + (z - l) /\ i \in Nat
    BY <1>2
  <2>2. CASE i <= l
    BY <1>4, <1>8, <2>1, <2>2
  <2>3. CASE ~(i <= l)
    <3>1. i - l \in 1..z - l /\ l + (i - l) = i
      BY <1>2, <2>3
    <3>. QED  BY <1>6, <1>8, <2>1, <2>3, <3>1
  <2>. QED  BY <2>2, <2>3
<1>10. w = s
  BY <1>1, <1>2, <1>8, <1>9, SeqEqual
<1>11. SubSeq(s, 1, z) = s
  <2>1. PICK v : v = SubSeq(s, 1, z)
    OBVIOUS
  <2>2. v \in Seq(Chars) /\ Len(v) = z /\ \A i \in 1..z : v[i] = s[i]
    BY <1>1, <2>1, Shortened
  <2>3. v = s
    BY <1>1, <2>2, SeqEqual
  <2>. QED  BY <2>1, <2>3
<1>12. r = <<>> => l = z
  <2>1. r = <<>> => Len(r) = 0
    BY EmptySeq
  <2>. QED  BY <1>2, <1>6, <2>1
<1>. QED  BY <1>1, <1>3, <1>5, <1>6, <1>7, <1>10, <1>11, <1>12

\* A function that starts with a text, ends with another and takes one key at a
\* time.
Turns(G, s, keys, t) ==
    /\ G[0] = s /\ G[Len(keys)] = t
    /\ \A i \in 1..Len(keys) : G[i] = Typed(G[i - 1], keys[i])

\* n backspaces take n characters away.
LEMMA TapsShorten ==
    ASSUME NEW s \in Seq(Chars), NEW n \in Nat, n <= Len(s)
    PROVE  /\ Len(Taps(n)) = 2 * n
           /\ \E G : Turns(G, s, Taps(n), SubSeq(s, 1, Len(s) - n))
<1>1. PICK z \in Nat : z = Len(s) /\ n <= z
  BY LenProperties
<1>2. PICK keys : keys = Taps(n)
  OBVIOUS
<1>3. /\ Len(keys) = 2 * n
      /\ \A i \in 1..2 * n : keys[i] = IF i % 2 = 1 THEN Press ELSE Release
  BY <1>2 DEF Taps
<1> DEFINE Half(i) == (i + 1) \div 2
<1>4. PICK G : G = [i \in 0..2 * n |-> SubSeq(s, 1, z - Half(i))]
  OBVIOUS
<1>5. \A i \in 0..2 * n : Half(i) \in Nat /\ Half(i) <= n
  OBVIOUS
<1>6. \A i \in 0..2 * n : /\ z - Half(i) \in 0..z
                          /\ G[i] = SubSeq(s, 1, z - Half(i))
  BY <1>1, <1>4, <1>5
<1>7. Half(0) = 0 /\ Half(2 * n) = n /\ 0 \in 0..2 * n /\ 2 * n \in 0..2 * n
  OBVIOUS
<1>8. G[0] = s /\ G[2 * n] = SubSeq(s, 1, z - n)
  <2>1. 0 \in 0..z /\ z - 0 = z
    BY <1>1
  <2>2. SubSeq(s, 1, z) = s
    BY <1>1, <2>1, BeginAndRest
  <2>. QED  BY <1>6, <1>7, <2>1, <2>2
<1>9. \A i \in 1..2 * n : G[i] = Typed(G[i - 1], keys[i])
  <2> SUFFICES ASSUME NEW i \in 1..2 * n PROVE G[i] = Typed(G[i - 1], keys[i])
    OBVIOUS
  <2>0. i \in 0..2 * n /\ i - 1 \in 0..2 * n /\ i \in Nat
    OBVIOUS
  <2>1. PICK l : l = z - Half(i - 1)
    OBVIOUS
  <2>2. l \in 0..z /\ G[i - 1] = SubSeq(s, 1, l)
    BY <1>6, <2>0, <2>1
  <2>3. CASE i % 2 = 1
    <3>1. Half(i) = Half(i - 1) + 1
      BY <2>0, <2>3
    <3>2. z - Half(i) = l - 1 /\ l - 1 \in 0..z
      <4>1. PICK g \in Nat, h \in Nat : g = Half(i - 1) /\ h = Half(i)
        BY <1>5, <2>0
      <4>2. l = z - g /\ z - h \in 0..z /\ h = g + 1
        BY <1>6, <2>0, <2>1, <3>1, <4>1
      <4>3. z - h = l - 1
        BY <1>1, <4>1, <4>2
      <4>. QED  BY <4>1, <4>2, <4>3
    <3>3. G[i] = SubSeq(s, 1, l - 1)
      BY <1>6, <2>0, <3>2
    <3>4. l - 1 \in 0..l /\ l \in Nat
      BY <1>1, <2>2, <3>2
    <3>5. Len(SubSeq(s, 1, l)) = l
      BY <1>1, <2>2, Shortened
    <3>6. SubSeq(SubSeq(s, 1, l), 1, l - 1) = SubSeq(s, 1, l - 1)
      BY <1>1, <2>2, <3>4, ShortenedTwice
    <3>7. keys[i].op = "down"
      BY <1>3, <2>3 DEF Press
    <3>. QED  BY <2>2, <3>3, <3>5, <3>6, <3>7 DEF Typed
  <2>4. CASE i % 2 # 1
    <3>1. Half(i) = Half(i - 1)
      BY <2>0, <2>4
    <3>2. G[i] = SubSeq(s, 1, l)
      BY <1>6, <2>0, <2>1, <3>1
    <3>3. keys[i].op # "down" /\ keys[i].text = <<>>
      BY <1>3, <2>4 DEF Release
    <3>4. SubSeq(s, 1, l) \in Seq(Chars)
      BY <1>1, <2>2, Shortened
    <3>5. SubSeq(s, 1, l) \o <<>> = SubSeq(s, 1, l)
      BY <3>4, ConcatEmptySeq
    <3>. QED  BY <2>2, <3>2, <3>3, <3>5 DEF Typed
  <2>. QED  BY <2>3, <2>4
<1>10. Turns(G, s, keys, SubSeq(s, 1, z - n))
  BY <1>3, <1>8, <1>9 DEF Turns
<1>. QED  BY <1>1, <1>2, <1>3, <1>10

\* The difference turns the old text into the new one, if each character that it
\* takes away is one unit.
LEMMA DiffTurns ==
    ASSUME NEW old \in Seq(Chars), NEW new \in Seq(Chars), ~CutsWide(old, new)
    PROVE  \E S, G : Diff(old, new) \in Seq(S) /\ Turns(G, old, Diff(old, new), new)
<1>1. PICK p \in Seq(Chars) : p = Agree(old, new)
  BY AgreeIsText
<1>2. PICK y \in Nat, z \in Nat, l \in Nat : y = Len(old) /\ z = Len(new) /\ l = Len(p)
  BY LenProperties
<1>3. l <= y /\ l <= z /\ p = SubSeq(old, 1, l) /\ p = SubSeq(new, 1, l)
  <2>1. p \in Prefixes(old) /\ p \in Prefixes(new)
    BY <1>1, AgreeIsText
  <2>2. PICK i \in 0..Len(old) : p = SubSeq(old, 1, i)
    BY <2>1 DEF Prefixes
  <2>3. PICK j \in 0..Len(new) : p = SubSeq(new, 1, j)
    BY <2>1 DEF Prefixes
  <2>4. i = l
    BY <1>2, <2>2, Shortened
  <2>5. j = l
    BY <1>2, <2>3, Shortened
  <2>6. l <= y /\ p = SubSeq(old, 1, l)
    <3>1. l \in 0..y
      BY <1>2, <2>2, <2>4
    <3>2. l <= y
      BY <3>1
    <3>3. p = SubSeq(old, 1, l)
      BY <2>2, <2>4, Zenon
    <3>. QED  BY <3>2, <3>3
  <2>7. l <= z /\ p = SubSeq(new, 1, l)
    <3>1. l \in 0..z
      BY <1>2, <2>3, <2>5
    <3>2. l <= z
      BY <3>1
    <3>3. p = SubSeq(new, 1, l)
      BY <2>3, <2>5, Zenon
    <3>. QED  BY <3>2, <3>3
  <2>. QED  BY <2>6, <2>7
<1>4. PICK n \in Nat : n = y - l
  BY <1>3
<1>5. Length(old) - Length(p) = n
  <2>1. \A i \in l + 1..y : ~(old[i] \in Wide)
    BY <1>1, <1>2 DEF CutsWide
  <2>2. \A i \in 1..l : p[i] = old[i]
    BY <1>2, <1>3, Shortened
  <2>3. PICK W : W = {i \in 1..l : p[i] \in Wide}
    OBVIOUS
  <2>4. {i \in 1..y : old[i] \in Wide} = W
    <3>1. \A i \in 1..y : i \in 1..l \/ i \in l + 1..y
      BY <1>3
    <3>2. \A i \in 1..l : i \in 1..y
      BY <1>3
    <3>. QED  BY <2>1, <2>2, <2>3, <3>1, <3>2
  <2>5. Cardinality(W) \in Nat
    <3>1. IsFiniteSet(1..l) /\ W \in SUBSET (1..l)
      BY <2>3, FS_Interval
    <3>. QED  BY <3>1, FS_Subset, FS_CardinalityType
  <2>6. Length(old) = y + Cardinality(W) /\ Length(p) = l + Cardinality(W)
    BY <1>2, <2>3, <2>4 DEF Length
  <2>. QED  BY <1>3, <1>4, <2>5, <2>6
<1>6. PICK tail : tail = SubSeq(new, l + 1, z)
  OBVIOUS
<1>7. PICK keys : keys = Taps(n)
  OBVIOUS
<1>8. Diff(old, new) = keys \o (IF tail = <<>> THEN <<>> ELSE <<Types(tail)>>)
  BY <1>1, <1>2, <1>5, <1>6, <1>7 DEF Diff
<1>9. Len(keys) = 2 * n /\ \E G : Turns(G, old, keys, p)
  <2>1. n <= Len(old) /\ Len(old) - n = l
    BY <1>2, <1>3, <1>4
  <2>2. \E G : Turns(G, old, Taps(n), SubSeq(old, 1, Len(old) - n))
    BY <2>1, TapsShorten
  <2>3. Len(Taps(n)) = 2 * n
    BY <2>1, TapsShorten
  <2>. QED  BY <1>3, <1>7, <2>1, <2>2, <2>3
<1>10. PICK G : Turns(G, old, keys, p)
  BY <1>9
<1>11. PICK S : S = {Press, Release, Types(tail)}
  OBVIOUS
<1>12. keys \in Seq(S)
  <2>1. keys = [i \in 1..2 * n |-> IF i % 2 = 1 THEN Press ELSE Release]
    BY <1>7 DEF Taps
  <2>2. \A i \in 1..2 * n : (IF i % 2 = 1 THEN Press ELSE Release) \in S
    BY <1>11
  <2>. QED  BY <2>1, <2>2, SeqDef
<1>13. /\ p \o tail = new
       /\ tail = <<>> => l = z
       /\ SubSeq(new, 1, z) = new
  <2>1. l \in 0..Len(new)
    BY <1>2, <1>3
  <2>. QED  BY <1>2, <1>3, <1>6, <2>1, BeginAndRest
<1>14. CASE tail = <<>>
  <2>1. p = new
    BY <1>3, <1>13, <1>14
  <2>2. Diff(old, new) = keys
    BY <1>8, <1>12, <1>14, ConcatEmptySeq
  <2>. QED  BY <1>10, <1>12, <2>1, <2>2
<1>15. CASE tail # <<>>
  <2>1. PICK all : all = keys \o <<Types(tail)>>
    OBVIOUS
  <2>2. <<Types(tail)>> \in Seq(S) /\ Len(<<Types(tail)>>) = 1 /\ <<Types(tail)>>[1] = Types(tail)
    <3>1. Types(tail) \in S
      BY <1>11
    <3>. QED  BY <3>1
  <2>3. /\ all \in Seq(S) /\ Len(all) = 2 * n + 1
        /\ \A i \in 1..2 * n + 1 :
              all[i] = IF i <= 2 * n THEN keys[i] ELSE <<Types(tail)>>[i - 2 * n]
    BY <1>9, <1>12, <2>1, <2>2, ConcatProperties
  <2>4. PICK H : H = [i \in 0..2 * n + 1 |-> IF i <= 2 * n THEN G[i] ELSE new]
    OBVIOUS
  <2>5. H[0] = old /\ H[2 * n] = p /\ H[2 * n + 1] = new
    BY <1>9, <1>10, <2>4 DEF Turns
  <2>6. \A i \in 1..2 * n + 1 : H[i] = Typed(H[i - 1], all[i])
    <3> SUFFICES ASSUME NEW i \in 1..2 * n + 1 PROVE H[i] = Typed(H[i - 1], all[i])
      OBVIOUS
    <3>1. CASE i <= 2 * n
      <4>1. i \in 1..2 * n /\ i \in 0..2 * n + 1 /\ i - 1 \in 0..2 * n + 1 /\ i - 1 <= 2 * n
        BY <3>1
      <4>2. H[i] = G[i] /\ H[i - 1] = G[i - 1] /\ all[i] = keys[i]
        BY <2>3, <2>4, <4>1
      <4>3. G[i] = Typed(G[i - 1], keys[i])
        BY <1>9, <1>10, <4>1 DEF Turns
      <4>. QED  BY <4>2, <4>3
    <3>2. CASE ~(i <= 2 * n)
      <4>1. i = 2 * n + 1 /\ i - 1 = 2 * n /\ i - 2 * n = 1
        BY <3>2
      <4>2. all[i] = Types(tail)
        BY <2>2, <2>3, <3>2, <4>1
      <4>3. all[i].op # "down" /\ all[i].text = tail
        BY <4>2 DEF Types
      <4>. QED  BY <1>13, <2>5, <4>1, <4>3 DEF Typed
    <3>. QED  BY <3>1, <3>2
  <2>7. Turns(H, old, all, new)
    BY <2>3, <2>5, <2>6 DEF Turns
  <2>8. Diff(old, new) = all
    BY <1>8, <1>15, <2>1
  <2>. QED  BY <2>3, <2>7, <2>8
<1>. QED  BY <1>14, <1>15

\* The keys that were told and not taken wait in their order, first in the
\* relay's queue and then in the socket.
KeysWait(a, b, c) ==
    /\ Len(taken) = a /\ Len(toHost) = b /\ Len(upSocket) = c
    /\ Len(told) = a + b + c /\ (route = "lan" => b = 0)
    /\ \A i \in 1..b : toHost[i] = EncodeData(Phone, TRUE, <<told[a + i]>>)
    /\ \A i \in 1..c : upSocket[i] = AsText(told[a + b + i])

\* When the phone types, the PC has nothing to say.
PcIsQuiet ==
    /\ sent = <<>> /\ outbox = <<>> /\ outboxVideo = <<>> /\ outboxBulk = <<>>
    /\ tunnel = <<>> /\ fast = <<>> /\ bulk = <<>> /\ socket = <<>>

\* The keys on their way, and the texts they lead through.
KeysLead ==
    \E a, b, c \in Nat : \E Course : KeysWait(a, b, c) /\ Leads(Course, a, a + b + c)

TypingInv ==
    scene = "typing" /\ ~cutWide =>
        /\ PcIsQuiet
        /\ \E T : told \in Seq(T) /\ taken \in Seq(T)
        /\ KeysLead

\* Nothing is on its way at first.
LEMMA TypingStarts == WireInit => TypingInv
<1> SUFFICES ASSUME WireInit PROVE TypingInv
  OBVIOUS
<1>1. PcIsQuiet
  BY DEF WireInit, PcIsQuiet
<1>2. told = <<>> /\ taken = <<>> /\ toHost = <<>> /\ upSocket = <<>>
  BY DEF WireInit
<1>3. \E T : told \in Seq(T) /\ taken \in Seq(T)
  <2>1. <<>> \in Seq({})
    OBVIOUS
  <2>. QED  BY <1>2, <2>1
<1>4. PICK Course : Course = [n \in {0} |-> <<>>]
  OBVIOUS
<1>5. KeysWait(0, 0, 0)
  <2>1. Len(<<>>) = 0 /\ 1..0 = {}
    OBVIOUS
  <2>. QED  BY <1>2, <2>1 DEF KeysWait
<1>6. Leads(Course, 0, 0 + 0 + 0)
  <2>1. remote = <<>> /\ committed = <<>>
    BY DEF WireInit, TextInit
  <2>2. 0 + 1..0 = {} /\ 0 + 0 + 0 = 0
    OBVIOUS
  <2>. QED  BY <1>4, <2>1, <2>2 DEF Leads
<1>. QED  BY <1>1, <1>3, <1>5, <1>6 DEF TypingInv, KeysLead

\* An edit is told behind what waits, and leads from the old text to the new one.
LEMMA EditLeads ==
    ASSUME WireInv, KeysLead, FieldChanges, ~cutWide',
           NEW T, told \in Seq(T), taken \in Seq(T)
    PROVE  /\ KeysLead'
           /\ \E S : told' \in Seq(S) /\ taken' \in Seq(S)
<1>1. /\ UNCHANGED <<toHost, taken, remote, route>>
      /\ \E new \in Text : \E i \in 0..Len(new) : \E j \in i..Len(new) :
            committed' = Stable(new, i, j)
      /\ SendKeys(Diff(committed, committed'))
      /\ ~CutsWide(committed, committed')
  BY DEF FieldChanges, Change, choiceVars
<1>2. committed \in Seq(Chars) /\ committed' \in Seq(Chars)
  BY <1>1, StableIsText DEF WireInv
<1>3. PICK keys : keys = Diff(committed, committed')
  OBVIOUS
<1>4. \E S, G : keys \in Seq(S) /\ Turns(G, committed, keys, committed')
  BY <1>1, <1>2, <1>3, DiffTurns
<1>5. PICK S, G : keys \in Seq(S) /\ Turns(G, committed, keys, committed')
  BY <1>4
<1>6. PICK l \in Nat : l = Len(keys)
  BY <1>5, LenProperties
<1>7. PICK said : said = [i \in 1..l |-> KeyMsg(keys[i])]
  OBVIOUS
<1>8. PICK boxed : boxed = [i \in 1..l |-> AsText(said[i])]
  OBVIOUS
<1>9. told' = told \o said /\ upSocket' = upSocket \o boxed
  BY <1>1, <1>3, <1>6, <1>7, <1>8 DEF SendKeys
<1>10. PICK R : R = T \union {KeyMsg(keys[i]) : i \in 1..l}
  OBVIOUS
<1>11. /\ told \in Seq(R) /\ taken \in Seq(R)
       /\ said \in Seq(R) /\ Len(said) = l /\ \A i \in 1..l : said[i] = KeyMsg(keys[i])
  <2>1. told \in Seq(R) /\ taken \in Seq(R)
    BY <1>10, SeqMonotonic
  <2>2. \A i \in 1..l : KeyMsg(keys[i]) \in R
    BY <1>10
  <2>. QED  BY <1>7, <2>1, <2>2
<1>12. PICK a \in Nat, b \in Nat, c \in Nat : \E Course :
          KeysWait(a, b, c) /\ Leads(Course, a, a + b + c)
  BY DEF KeysLead
<1>13. PICK Course : KeysWait(a, b, c) /\ Leads(Course, a, a + b + c)
  BY <1>12
<1>14. PICK z \in Nat : z = a + b + c
  OBVIOUS
<1>15. /\ route = "lan" => b = 0
       /\ Len(taken) = a /\ Len(toHost) = b /\ Len(upSocket) = c /\ Len(told) = z
       /\ \A i \in 1..b : toHost[i] = EncodeData(Phone, TRUE, <<told[a + i]>>)
       /\ \A i \in 1..c : upSocket[i] = AsText(told[a + b + i])
  BY <1>13, <1>14 DEF KeysWait
<1>16. /\ told' \in Seq(R) /\ Len(told') = z + l
       /\ \A i \in 1..z + l : told'[i] = IF i <= z THEN told[i] ELSE said[i - z]
  BY <1>9, <1>11, <1>15, ConcatProperties
<1>17. /\ Len(upSocket') = c + l
       /\ \A i \in 1..c + l : upSocket'[i] = IF i <= c THEN upSocket[i] ELSE boxed[i - c]
  <2>1. PICK Q : upSocket \in Seq(Q)
    BY DEF WireInv, UpReadable, Queued
  <2>2. PICK P : P = Q \union {AsText(said[i]) : i \in 1..l}
    OBVIOUS
  <2>3. upSocket \in Seq(P)
    BY <2>1, <2>2, SeqMonotonic
  <2>4. boxed \in Seq(P) /\ Len(boxed) = l
    <3>1. \A i \in 1..l : AsText(said[i]) \in P
      BY <2>2
    <3>. QED  BY <1>8, <3>1
  <2>. QED  BY <1>9, <1>15, <2>3, <2>4, ConcatProperties
<1>18. KeysWait(a, b, c + l)'
  <2>1. \A i \in 1..b : toHost'[i] = EncodeData(Phone, TRUE, <<told'[a + i]>>)
    <3> SUFFICES ASSUME NEW i \in 1..b
                 PROVE  toHost'[i] = EncodeData(Phone, TRUE, <<told'[a + i]>>)
      OBVIOUS
    <3>1. a + i \in 1..z + l /\ a + i <= z
      BY <1>14
    <3>2. told'[a + i] = told[a + i]
      BY <1>16, <3>1
    <3>. QED  BY <1>1, <1>15, <3>2
  <2>2. \A i \in 1..c + l : upSocket'[i] = AsText(told'[a + b + i])
    <3> SUFFICES ASSUME NEW i \in 1..c + l
                 PROVE  upSocket'[i] = AsText(told'[a + b + i])
      OBVIOUS
    <3>0. a + b + i \in 1..z + l /\ i \in Nat
      BY <1>14
    <3>1. CASE i <= c
      <4>1. a + b + i <= z /\ i \in 1..c
        BY <1>14, <3>0, <3>1
      <4>2. told'[a + b + i] = told[a + b + i] /\ upSocket'[i] = upSocket[i]
        BY <1>16, <1>17, <3>0, <3>1, <4>1
      <4>. QED  BY <1>15, <4>1, <4>2
    <3>2. CASE ~(i <= c)
      <4>1. ~(a + b + i <= z) /\ (a + b + i) - z = i - c /\ i - c \in 1..l
        BY <1>14, <3>0, <3>2
      <4>2. told'[a + b + i] = said[i - c] /\ upSocket'[i] = boxed[i - c]
        BY <1>16, <1>17, <3>0, <3>2, <4>1
      <4>. QED  BY <1>8, <4>1, <4>2
    <3>. QED  BY <3>1, <3>2
  <2>3. Len(told') = a + b + (c + l)
    BY <1>14, <1>16
  <2>. QED  BY <1>1, <1>15, <1>17, <2>1, <2>2, <2>3 DEF KeysWait
<1>19. PICK H : H = [n \in 0..z + l |-> IF n <= z THEN Course[n] ELSE G[n - z]]
  OBVIOUS
<1>20. \A n \in 0..z + l : H[n] = IF n <= z THEN Course[n] ELSE G[n - z]
  BY <1>19
<1>21. Leads(H, a, z + l)'
  <2>0. /\ Course[a] = remote /\ Course[z] = committed
        /\ \A n \in a + 1..z : Course[n] = Typed(Course[n - 1], told[n].arg)
        /\ G[0] = committed /\ G[l] = committed'
        /\ \A i \in 1..l : G[i] = Typed(G[i - 1], keys[i])
    BY <1>5, <1>6, <1>13, <1>14 DEF Leads, Turns
  <2>1. H[a] = remote'
    <3>1. a \in 0..z + l /\ a <= z
      BY <1>14
    <3>. QED  BY <1>1, <1>20, <2>0, <3>1
  <2>2. \A i \in 0..l : H[z + i] = G[i]
    <3> SUFFICES ASSUME NEW i \in 0..l PROVE H[z + i] = G[i]
      OBVIOUS
    <3>1. z + i \in 0..z + l /\ (z + i) - z = i /\ (z + i <= z <=> i = 0)
      OBVIOUS
    <3>2. CASE i = 0
      BY <1>20, <2>0, <3>1, <3>2
    <3>3. CASE i # 0
      BY <1>20, <3>1, <3>3
    <3>. QED  BY <3>2, <3>3
  <2>3. H[z + l] = committed'
    <3>1. l \in 0..l
      OBVIOUS
    <3>. QED  BY <2>0, <2>2, <3>1
  <2>4. \A n \in a + 1..z + l : H[n] = Typed(H[n - 1], told'[n].arg)
    <3> SUFFICES ASSUME NEW n \in a + 1..z + l
                 PROVE  H[n] = Typed(H[n - 1], told'[n].arg)
      OBVIOUS
    <3>0. n \in 1..z + l /\ n \in 0..z + l /\ n - 1 \in 0..z + l /\ n \in Nat
      OBVIOUS
    <3>1. CASE n <= z
      <4>1. n \in a + 1..z /\ n - 1 <= z
        BY <3>0, <3>1
      <4>2. H[n] = Course[n] /\ H[n - 1] = Course[n - 1] /\ told'[n] = told[n]
        BY <1>16, <1>20, <3>0, <3>1, <4>1
      <4>. QED  BY <2>0, <4>1, <4>2
    <3>2. CASE ~(n <= z)
      <4>1. PICK i \in 1..l : n = z + i
        <5>1. n - z \in 1..l /\ n = z + (n - z)
          BY <3>0, <3>2
        <5>. QED  BY <5>1
      <4>2. i \in 0..l /\ i - 1 \in 0..l /\ n - 1 = z + (i - 1) /\ n - z = i
        BY <4>1
      <4>3. H[n] = G[i] /\ H[n - 1] = G[i - 1]
        BY <2>2, <4>1, <4>2
      <4>4. told'[n].arg = keys[i]
        <5>1. told'[n] = KeyMsg(keys[i])
          BY <1>11, <1>16, <3>0, <3>2, <4>1, <4>2
        <5>. QED  BY <5>1 DEF KeyMsg, TextMsg
      <4>. QED  BY <2>0, <4>1, <4>3, <4>4
    <3>. QED  BY <3>1, <3>2
  <2>. QED  BY <2>1, <2>3, <2>4 DEF Leads
<1>22. z + l = a + b + (c + l) /\ c + l \in Nat
  BY <1>14
<1>23. \E cc \in Nat : \E F : KeysWait(a, b, cc)' /\ Leads(F, a, a + b + cc)'
  BY <1>18, <1>21, <1>22
<1>24. KeysLead'
  BY <1>23 DEF KeysLead
<1>. QED  BY <1>1, <1>11, <1>16, <1>24

\* The relay passes a key on.
LEMMA KeyPassedOn ==
    ASSUME WireInv, KeysLead, RelayReader
    PROVE  KeysLead'
<1>1. PICK a \in Nat, b \in Nat, c \in Nat : \E Course :
         KeysWait(a, b, c) /\ Leads(Course, a, a + b + c)
  BY DEF KeysLead
<1>2. PICK Course : KeysWait(a, b, c) /\ Leads(Course, a, a + b + c)
  BY <1>1
<1>3. /\ Len(taken) = a /\ Len(toHost) = b /\ Len(upSocket) = c
      /\ Len(told) = a + b + c
      /\ \A i \in 1..b : toHost[i] = EncodeData(Phone, TRUE, <<told[a + i]>>)
      /\ \A i \in 1..c : upSocket[i] = AsText(told[a + b + i])
  BY <1>2 DEF KeysWait
<1>4. /\ UNCHANGED <<told, taken, remote, committed, route>>
      /\ route = "relay" /\ upSocket # <<>> /\ upSocket' = Tail(upSocket)
  BY DEF RelayReader, textIdle, textVars, choiceVars
<1>5. PICK Q : upSocket \in Seq(Q)
  BY DEF WireInv, UpReadable, Queued
<1>6. /\ c > 0 /\ Head(upSocket) = upSocket[1]
      /\ Len(upSocket') = c - 1 /\ \A i \in 1..c - 1 : upSocket'[i] = upSocket[i + 1]
  BY <1>3, <1>4, <1>5, HeadTailProperties, EmptySeq
<1>7. Head(upSocket) = AsText(told[a + b + 1])
  <2>1. 1 \in 1..c
    BY <1>6
  <2>. QED  BY <1>3, <1>6, <2>1
<1>8. PICK p : p = EncodeData(Phone, TRUE, <<told[a + (b + 1)]>>)
  OBVIOUS
<1>9. toHost' = Append(toHost, p)
  <2>1. Head(upSocket).text = TRUE /\ Head(upSocket).bytes = <<told[a + b + 1]>>
    BY <1>7 DEF AsText
  <2>2. a + (b + 1) = a + b + 1
    OBVIOUS
  <2>. QED  BY <1>8, <2>1, <2>2 DEF RelayReader
<1>10. PICK P : toHost \in Seq(P)
  BY DEF WireInv, UpReadable, Carried
<1>11. PICK R : R = P \union {p}
  OBVIOUS
<1>12. toHost \in Seq(R) /\ p \in R
  BY <1>10, <1>11, SeqMonotonic
<1>13. /\ Len(toHost') = b + 1 /\ toHost'[b + 1] = p
       /\ \A i \in 1..b : toHost'[i] = toHost[i]
  BY <1>3, <1>9, <1>12, AppendProperties
<1>14. KeysWait(a, b + 1, c - 1)'
  <2>1. \A i \in 1..b + 1 : toHost'[i] = EncodeData(Phone, TRUE, <<told[a + i]>>)
    <3> SUFFICES ASSUME NEW i \in 1..b + 1
                 PROVE  toHost'[i] = EncodeData(Phone, TRUE, <<told[a + i]>>)
      OBVIOUS
    <3>1. CASE i = b + 1
      BY <1>8, <1>13, <3>1
    <3>2. CASE i # b + 1
      <4>1. i \in 1..b
        BY <3>2
      <4>. QED  BY <1>3, <1>13, <4>1
    <3>. QED  BY <3>1, <3>2
  <2>2. \A i \in 1..c - 1 : upSocket'[i] = AsText(told[a + (b + 1) + i])
    <3> SUFFICES ASSUME NEW i \in 1..c - 1
                 PROVE  upSocket'[i] = AsText(told[a + (b + 1) + i])
      OBVIOUS
    <3>1. i + 1 \in 1..c /\ a + b + (i + 1) = a + (b + 1) + i
      OBVIOUS
    <3>2. upSocket[i + 1] = AsText(told[a + b + (i + 1)])
      BY <1>3, <3>1
    <3>. QED  BY <1>6, <3>1, <3>2
  <2>3. Len(told) = a + (b + 1) + (c - 1)
    BY <1>3
  <2>4. route # "lan"
    BY <1>4
  <2>. QED  BY <1>3, <1>4, <1>6, <1>13, <2>1, <2>2, <2>3, <2>4 DEF KeysWait
<1>15. a + (b + 1) + (c - 1) = a + b + c /\ b + 1 \in Nat /\ c - 1 \in Nat
  BY <1>6
<1>16. Leads(Course, a, a + b + c)'
  BY <1>2, <1>4 DEF Leads
<1>17. Leads(Course, a, a + (b + 1) + (c - 1))'
  BY <1>15, <1>16
<1>. QED  BY <1>14, <1>15, <1>17 DEF KeysLead

\* A key that the PC takes is typed.
LEMMA KeyTyped ==
    ASSUME scene = "typing", ~refused', NEW m, TakeText(m)
    PROVE  /\ taken' = Append(taken, m) /\ remote' = Typed(remote, m.arg)
           /\ UNCHANGED <<committed, outbox, sent>>
<1>1. Reads(PcTakes[m.name], m.body)
  BY DEF TakeText
<1>2. taken' = Append(taken, m) /\ PcSilent /\ Inject(m.arg)
  BY <1>1 DEF TakeText
<1>. QED  BY <1>2 DEF PcSilent, Inject

\* The key that comes next, from the socket or out of the tunnel.
LEMMA NextKey ==
    ASSUME WireInv, ~refused', scene = "typing", PcTakesMessage,
           NEW a \in Nat, NEW b \in Nat, NEW c \in Nat, KeysWait(a, b, c)
    PROVE  /\ TakeText(told[a + 1]) /\ b + c > 0
           /\ \/ b = 0 /\ toHost' = toHost /\ upSocket # <<>> /\ upSocket' = Tail(upSocket)
              \/ b > 0 /\ toHost' = Tail(toHost) /\ upSocket' = upSocket
<1>1. /\ Len(taken) = a /\ Len(toHost) = b /\ Len(upSocket) = c
      /\ route = "lan" => b = 0
      /\ \A i \in 1..b : toHost[i] = EncodeData(Phone, TRUE, <<told[a + i]>>)
      /\ \A i \in 1..c : upSocket[i] = AsText(told[a + b + i])
  BY DEF KeysWait
<1>2. CASE /\ route = "lan" /\ upSocket # <<>> /\ upSocket' = Tail(upSocket)
           /\ UNCHANGED toHost
           /\ LET m == Head(upSocket)
              IN  IF m.text THEN TakeText(m.bytes[1]) ELSE TakeBytes(m.bytes)
  <2>1. PICK Q : upSocket \in Seq(Q)
    BY DEF WireInv, UpReadable, Queued
  <2>2. c > 0 /\ Head(upSocket) = upSocket[1]
    BY <1>1, <1>2, <2>1, HeadTailProperties, EmptySeq
  <2>3. b = 0 /\ 1 \in 1..c /\ a + b + 1 = a + 1
    BY <1>1, <1>2, <2>2
  <2>4. Head(upSocket) = AsText(told[a + 1])
    BY <1>1, <2>2, <2>3
  <2>5. Head(upSocket).text = TRUE /\ Head(upSocket).bytes[1] = told[a + 1]
    BY <2>4 DEF AsText
  <2>6. TakeText(told[a + 1])
    BY <1>2, <2>5
  <2>. QED  BY <1>2, <2>2, <2>3, <2>6
<1>3. CASE /\ toHost # <<>> /\ toHost' = Tail(toHost) /\ UNCHANGED upSocket
           /\ LET d == Decode(Head(toHost))
              IN  IF d.text THEN TakeText(d.payload[1]) ELSE TakeBytes(d.payload)
  <2>1. PICK P : toHost \in Seq(P)
    BY DEF WireInv, UpReadable, Carried
  <2>2. b > 0 /\ Head(toHost) = toHost[1]
    BY <1>1, <1>3, <2>1, HeadTailProperties, EmptySeq
  <2>3. PICK m : m = told[a + 1]
    OBVIOUS
  <2>4. Head(toHost) = EncodeData(Phone, TRUE, <<m>>)
    <3>1. 1 \in 1..b
      BY <2>2
    <3>. QED  BY <1>1, <2>2, <2>3, <3>1
  <2>5. PICK d : d = Decode(Head(toHost))
    OBVIOUS
  <2>6. d = [type |-> Data, id |-> Phone, text |-> TRUE, payload |-> <<m>>]
    <3>1. Phone \in [1..IdLen -> Nat]
      BY FramingAssumption DEF Phone
    <3>2. <<m>> \in Seq({m}) /\ TRUE \in BOOLEAN
      OBVIOUS
    <3>. QED  BY <2>4, <2>5, <3>1, <3>2, TunnelGivesBack
  <2>7. d.text = TRUE /\ d.payload[1] = m
    BY <2>6
  <2>8. TakeText(m)
    BY <1>3, <2>5, <2>7
  <2>9. b + c > 0
    BY <2>2
  <2>. QED  BY <1>3, <2>2, <2>3, <2>8, <2>9
<1>. QED  BY <1>2, <1>3 DEF PcTakesMessage

\* What is left leads on from the field with that key.
LEMMA KeyTaken ==
    ASSUME WireInv, ~refused', scene = "typing", KeysLead, PcTakesMessage,
           NEW T, told \in Seq(T), taken \in Seq(T)
    PROVE  /\ KeysLead' /\ UNCHANGED <<outbox, sent>>
           /\ told' \in Seq(T) /\ taken' \in Seq(T)
<1>1. PICK a \in Nat, b \in Nat, c \in Nat : \E Course :
         KeysWait(a, b, c) /\ Leads(Course, a, a + b + c)
  BY DEF KeysLead
<1>2. PICK Course : KeysWait(a, b, c) /\ Leads(Course, a, a + b + c)
  BY <1>1
<1>3. /\ Len(taken) = a /\ Len(toHost) = b /\ Len(upSocket) = c
      /\ route = "lan" => b = 0
      /\ Len(told) = a + b + c
      /\ \A i \in 1..b : toHost[i] = EncodeData(Phone, TRUE, <<told[a + i]>>)
      /\ \A i \in 1..c : upSocket[i] = AsText(told[a + b + i])
  BY <1>2 DEF KeysWait
<1>4. UNCHANGED <<told, route>>
  BY DEF PcTakesMessage, choiceVars
<1>5. PICK m : m = told[a + 1]
  OBVIOUS
<1>6. /\ TakeText(m) /\ b + c > 0
      /\ \/ b = 0 /\ toHost' = toHost /\ upSocket # <<>> /\ upSocket' = Tail(upSocket)
         \/ b > 0 /\ toHost' = Tail(toHost) /\ upSocket' = upSocket
  BY <1>2, <1>5, NextKey
<1>7. /\ taken' = Append(taken, m) /\ remote' = Typed(remote, m.arg)
      /\ UNCHANGED <<committed, outbox, sent>>
  BY <1>6, KeyTyped
<1>8. m \in T
  <2>1. a + 1 \in 1..Len(told)
    BY <1>3, <1>6
  <2>. QED  BY <1>5, <2>1, ElementOfSeq
<1>9. taken' \in Seq(T) /\ Len(taken') = a + 1
  BY <1>3, <1>7, <1>8, AppendProperties
<1>10. Leads(Course, a + 1, a + b + c)'
  <2>1. /\ Course[a] = remote /\ Course[a + b + c] = committed
        /\ \A n \in a + 1..a + b + c : Course[n] = Typed(Course[n - 1], told[n].arg)
    BY <1>2 DEF Leads
  <2>2. Course[a + 1] = remote'
    <3>1. a + 1 \in a + 1..a + b + c /\ (a + 1) - 1 = a
      BY <1>6
    <3>2. Course[a + 1] = Typed(Course[(a + 1) - 1], told[a + 1].arg)
      BY <2>1, <3>1
    <3>. QED  BY <1>5, <1>7, <2>1, <3>1, <3>2
  <2>3. \A n \in (a + 1) + 1..a + b + c : n \in a + 1..a + b + c
    OBVIOUS
  <2>. QED  BY <1>4, <1>7, <2>1, <2>2, <2>3 DEF Leads
<1>11. CASE b = 0 /\ toHost' = toHost /\ upSocket # <<>> /\ upSocket' = Tail(upSocket)
  <2>1. PICK Q : upSocket \in Seq(Q)
    BY DEF WireInv, UpReadable, Queued
  <2>2. /\ Len(upSocket') = c - 1 /\ \A i \in 1..c - 1 : upSocket'[i] = upSocket[i + 1]
    BY <1>3, <1>11, <2>1, HeadTailProperties
  <2>3. c > 0 /\ c - 1 \in Nat
    BY <1>6, <1>11
  <2>4. \A i \in 1..c - 1 : upSocket'[i] = AsText(told[(a + 1) + 0 + i])
    <3> SUFFICES ASSUME NEW i \in 1..c - 1
                 PROVE  upSocket'[i] = AsText(told[(a + 1) + 0 + i])
      OBVIOUS
    <3>1. i + 1 \in 1..c /\ a + b + (i + 1) = (a + 1) + 0 + i
      BY <1>11, <2>3
    <3>. QED  BY <1>3, <2>2, <3>1
  <2>5. (a + 1) + 0 + (c - 1) = a + b + c
    BY <1>11, <2>3
  <2>6. KeysWait(a + 1, 0, c - 1)'
    <3>1. \A i \in 1..0 : FALSE
      OBVIOUS
    <3>. QED  BY <1>3, <1>4, <1>9, <1>11, <2>2, <2>4, <2>5, <3>1 DEF KeysWait
  <2>7. Leads(Course, a + 1, (a + 1) + 0 + (c - 1))'
    BY <1>10, <2>5
  <2>8. a + 1 \in Nat /\ 0 \in Nat
    OBVIOUS
  <2>. QED  BY <1>4, <1>7, <1>9, <2>3, <2>6, <2>7, <2>8 DEF KeysLead
<1>12. CASE b > 0 /\ toHost' = Tail(toHost) /\ upSocket' = upSocket
  <2>1. PICK P : toHost \in Seq(P)
    BY DEF WireInv, UpReadable, Carried
  <2>2. toHost # <<>>
    <3>1. toHost = <<>> => Len(toHost) = 0
      BY EmptySeq
    <3>. QED  BY <1>3, <1>12, <3>1
  <2>3. /\ Len(toHost') = b - 1 /\ \A i \in 1..b - 1 : toHost'[i] = toHost[i + 1]
    BY <1>3, <1>12, <2>1, <2>2, HeadTailProperties
  <2>4. \A i \in 1..b - 1 : toHost'[i] = EncodeData(Phone, TRUE, <<told[(a + 1) + i]>>)
    <3> SUFFICES ASSUME NEW i \in 1..b - 1
                 PROVE  toHost'[i] = EncodeData(Phone, TRUE, <<told[(a + 1) + i]>>)
      OBVIOUS
    <3>1. i + 1 \in 1..b /\ a + (i + 1) = (a + 1) + i
      OBVIOUS
    <3>2. toHost[i + 1] = EncodeData(Phone, TRUE, <<told[a + (i + 1)]>>)
      BY <1>3, <3>1
    <3>. QED  BY <2>3, <3>1, <3>2
  <2>5. a + b = (a + 1) + (b - 1) /\ (a + 1) + (b - 1) + c = a + b + c
    OBVIOUS
  <2>6. \A i \in 1..c : upSocket'[i] = AsText(told[(a + 1) + (b - 1) + i])
    BY <1>3, <1>12, <2>5
  <2>7. KeysWait(a + 1, b - 1, c)'
    <3>1. route = "lan" => b - 1 = 0
      BY <1>3, <1>12
    <3>. QED  BY <1>3, <1>4, <1>9, <1>12, <2>3, <2>4, <2>5, <2>6, <3>1 DEF KeysWait
  <2>8. Leads(Course, a + 1, (a + 1) + (b - 1) + c)'
    BY <1>10, <2>5
  <2>9. a + 1 \in Nat /\ b - 1 \in Nat
    BY <1>12
  <2>. QED  BY <1>4, <1>7, <1>9, <2>7, <2>8, <2>9 DEF KeysLead
<1>. QED  BY <1>6, <1>11, <1>12

\* Nothing else moves a key, and a quiet PC has nothing for the phone to hear.
LEMMA TypingKept ==
    ASSUME TypingInv, UNCHANGED <<scene, route, textVars, upVars>>, PcIsQuiet'
    PROVE  TypingInv'
<1>1. UNCHANGED <<upSocket, toHost, told, taken, committed, remote, cutWide>>
  BY DEF upVars, textVars
<1>2. ASSUME KeysLead PROVE KeysLead'
  <2>1. PICK a \in Nat, b \in Nat, c \in Nat : \E Course :
           KeysWait(a, b, c) /\ Leads(Course, a, a + b + c)
    BY <1>2 DEF KeysLead
  <2>2. PICK Course : KeysWait(a, b, c) /\ Leads(Course, a, a + b + c)
    BY <2>1
  <2>3. KeysWait(a, b, c)'
    BY <1>1, <2>2 DEF KeysWait
  <2>4. Leads(Course, a, a + b + c)'
    BY <1>1, <2>2 DEF Leads
  <2>. QED  BY <2>3, <2>4 DEF KeysLead
<1>. QED  BY <1>1, <1>2 DEF TypingInv

\* Once a wide character was taken away, that is so.
LEMMA CutStays ==
    ASSUME [WireNext]_allVars, cutWide
    PROVE  cutWide'
<1>1. CASE \/ EncoderStep \/ TakeAsked \/ PictureOut \/ SoundOut \/ RequestKeyframe
           \/ AnnounceFile \/ PushChunk \/ Upload \/ PcTalks \/ PhoneTalks
  BY <1>1 DEF EncoderStep, TakeAsked, PictureOut, SoundOut, RequestKeyframe,
              AnnounceFile, PushChunk, Upload, PcTalks, PhoneTalks, wireVars,
              textIdle, textVars
<1>2. CASE FieldChanges
  BY <1>2 DEF FieldChanges, Change
<1>3. CASE \/ LanWriter \/ Pump \/ RelayRoutes \/ RelayWriter \/ PhoneHears
           \/ RelayReader \/ UNCHANGED allVars
  BY <1>3 DEF LanWriter, Pump, RelayRoutes, RelayWriter, PhoneHears, RelayReader,
              allVars, textIdle, textVars
<1>4. CASE PcTakesMessage
  <2>1. (\E m : TakeText(m)) \/ (\E bytes : TakeBytes(bytes))
    BY <1>4 DEF PcTakesMessage
  <2>2. ASSUME NEW m, TakeText(m) PROVE cutWide' = cutWide
    BY <2>2 DEF TakeText, Inject, textIdle, textVars
  <2>3. ASSUME NEW bytes, TakeBytes(bytes) PROVE cutWide' = cutWide
    BY <2>3 DEF TakeBytes, textIdle, textVars
  <2>. QED  BY <2>1, <2>2, <2>3
<1>. QED  BY <1>1, <1>2, <1>3, <1>4 DEF WireNext

\* Every step of the session, as the mirrored field sees it.
LEMMA TypingStep ==
    ASSUME WireInv, ~refused', TypingInv, [WireNext]_allVars
    PROVE  TypingInv'
<1>1. scene' = scene
  BY DEF WireNext, allVars, wireVars, choiceVars, EncoderStep, TakeAsked, PictureOut,
         SoundOut, RequestKeyframe, AnnounceFile, PushChunk, Upload, FieldChanges,
         PcTalks, PhoneTalks, LanWriter, Pump, RelayRoutes, RelayWriter, PhoneHears,
         RelayReader, PcTakesMessage
<1>2. SUFFICES ASSUME scene = "typing", ~cutWide, ~cutWide' PROVE TypingInv'
  BY <1>1, CutStays DEF TypingInv
<1>3. PcIsQuiet /\ KeysLead /\ \E T : told \in Seq(T) /\ taken \in Seq(T)
  BY <1>2 DEF TypingInv
<1>4. PICK T : told \in Seq(T) /\ taken \in Seq(T)
  BY <1>3
<1>5. CASE \/ EncoderStep \/ PictureOut \/ SoundOut \/ RequestKeyframe \/ AnnounceFile
           \/ PushChunk \/ Upload \/ PcTalks \/ PhoneTalks
  BY <1>2, <1>5 DEF EncoderStep, PictureOut, SoundOut, RequestKeyframe, AnnounceFile,
                    PushChunk, Upload, PcTalks, PhoneTalks
<1>6. CASE LanWriter \/ Pump \/ RelayRoutes \/ RelayWriter \/ PhoneHears
  BY <1>3, <1>6 DEF PcIsQuiet, LanWriter, Pump, Drain, RelayRoutes, RelayWriter, PhoneHears
<1>7. CASE TakeAsked \/ UNCHANGED allVars
  <2>1. UNCHANGED <<scene, route, textVars, upVars, downVars>>
    BY <1>7 DEF TakeAsked, allVars, wireVars, choiceVars, textIdle
  <2>2. PcIsQuiet'
    BY <1>3, <2>1 DEF PcIsQuiet, downVars, pcQueues, relayVars
  <2>. QED  BY <2>1, <2>2, TypingKept
<1>8. CASE FieldChanges
  <2>1. KeysLead' /\ \E S : told' \in Seq(S) /\ taken' \in Seq(S)
    BY <1>2, <1>3, <1>4, <1>8, EditLeads
  <2>2. PcIsQuiet'
    BY <1>3, <1>8 DEF FieldChanges, PcIsQuiet, downVars, pcQueues, relayVars
  <2>. QED  BY <2>1, <2>2 DEF TypingInv
<1>9. CASE RelayReader
  <2>1. KeysLead'
    BY <1>3, <1>9, KeyPassedOn
  <2>2. PcIsQuiet' /\ UNCHANGED <<told, taken>>
    BY <1>3, <1>9 DEF RelayReader, PcIsQuiet, downVars, pcQueues, relayVars
  <2>. QED  BY <1>4, <2>1, <2>2 DEF TypingInv
<1>10. CASE PcTakesMessage
  <2>1. KeysLead' /\ UNCHANGED <<outbox, sent>> /\ told' \in Seq(T) /\ taken' \in Seq(T)
    BY <1>2, <1>3, <1>4, <1>10, KeyTaken
  <2>2. PcIsQuiet'
    BY <1>3, <1>10, <2>1 DEF PcTakesMessage, PcIsQuiet, relayVars
  <2>. QED  BY <2>1, <2>2 DEF TypingInv
<1>. QED  BY <1>5, <1>6, <1>7, <1>8, <1>9, <1>10 DEF WireNext

\* Whatever the characters, the texts, the edits, the compositions, the length
\* of the queues and the route, what is on its way to the PC makes of its field
\* the committed text (syncDiff, type_unicode), until an edit takes away a
\* character of two UTF-16 units.
THEOREM FieldIsMirrored == WireSpec => []Mirrored
<1> DEFINE Inv == WireInv /\ TypingInv
<1>1. WireInit => Inv
  BY WireStarts, TypingStarts
<1>2. Inv /\ [WireNext]_allVars => Inv'
  BY WireInvStep, TypingStep DEF WireInv, NothingRefused
<1>3. Inv => Mirrored
  <2> SUFFICES ASSUME Inv, scene = "typing", ~cutWide PROVE Mirrored
    BY DEF Mirrored
  <2>1. PICK a \in Nat, b \in Nat, c \in Nat : \E Course :
           KeysWait(a, b, c) /\ Leads(Course, a, a + b + c)
    BY DEF TypingInv, KeysLead
  <2>2. PICK Course : KeysWait(a, b, c) /\ Leads(Course, a, a + b + c)
    BY <2>1
  <2>3. Len(taken) = a /\ Len(told) = a + b + c
    BY <2>2 DEF KeysWait
  <2>4. Leads(Course, Len(taken), Len(told))
    BY <2>2, <2>3
  <2>5. Len(taken) \in Nat /\ Len(told) \in Nat /\ Len(taken) <= Len(told)
    BY <2>3
  <2>. QED  BY <2>4, <2>5, LeadsToCommitted
<1>. QED  BY <1>1, <1>2, <1>3, PTL DEF WireSpec
=============================================================================
