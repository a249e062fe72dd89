----------------------------- MODULE TextMirror -----------------------------
(***************************************************************************)
(* The two ends of the phone's text field that is mirrored on the PC:      *)
(* whenever the field changes, KeyboardOverlay.kt compares its committed   *)
(* text with that of the last change and sends the difference, backspaces  *)
(* and then text.  type_unicode and vkey of input.rs inject both into the  *)
(* focused field of the PC.  The module Wire carries them from one to the  *)
(* other.                                                                  *)
(*                                                                         *)
(* Text is a sequence of characters; those in Wide take two UTF-16 units,  *)
(* in which Kotlin's String.length and substring count.  A prefix is cut   *)
(* between characters, as startsWith and commonPrefixWith do for texts of  *)
(* whole characters.  The focused field, not part of the program, appends  *)
(* what it gets and takes a whole character away for a backspace.          *)
(***************************************************************************)
EXTENDS Naturals, Sequences, FiniteSets, SequencesExt

CONSTANTS
    Chars,    \* bound: characters
    Wide,     \* those outside the BMP
    MaxText,  \* bound: characters of the field
    MaxEdit   \* bound: changes of the field

ASSUME TextAssumption == Wide \subseteq Chars /\ MaxText \in Nat /\ MaxEdit \in Nat

Text == UNION {[1..n -> Chars] : n \in 0..MaxText}

VARIABLES
    committed,  \* the text the PC was told of
    edits,      \* changes so far
    remote,     \* the text in the focused field of the PC
    cutWide     \* history: a change took a wide character away

textVars == <<committed, edits, remote, cutWide>>

TextInit == committed = <<>> /\ edits = 0 /\ remote = <<>> /\ cutWide = FALSE

\* A message: the backspace key goes down or up, or text.
Press       == [op |-> "down", text |-> <<>>]
Release     == [op |-> "up", text |-> <<>>]
Types(text) == [op |-> "text", text |-> text]

\* sendKeyTap, n times.
Taps(n) == [i \in 1..(2 * n) |-> IF i % 2 = 1 THEN Press ELSE Release]

-----------------------------------------------------------------------------
(* The phone *)

\* String.length: one for each character, one more for a wide one.
Length(s) == Len(s) + Cardinality({i \in 1..Len(s) : s[i] \in Wide})

\* stableTextOf, of a field whose composition is between i and j.
Stable(s, i, j) == SubSeq(s, 1, i) \o SubSeq(s, j + 1, Len(s))

\* commonPrefixWith.
Agree(old, new) ==
    CHOOSE p \in Prefixes(old) \intersect Prefixes(new) :
        \A q \in Prefixes(old) \intersect Prefixes(new) : Len(q) <= Len(p)

\* syncDiff: its three cases are one, with an empty tail or no backspace.
\* Mutated: it looks only at what was appended.
Appended(old, new) == <<Types(SubSeq(new, Len(old) + 1, Len(new)))>>
Diff(old, new) ==
    LET p    == Agree(old, new)
        tail == SubSeq(new, Len(p) + 1, Len(new))
    IN  Taps(Length(old) - Length(p))
            \o (IF tail = <<>> THEN <<>> ELSE <<Types(tail)>>)

\* The history: one of the characters that Diff takes away is wide, and gets a
\* backspace for each of its units.
CutsWide(old, new) ==
    \E i \in Len(Agree(old, new)) + 1..Len(old) : old[i] \in Wide

\* onFieldChange: any text, with any part of it composing.  Sent is what it
\* sends.
Change(Sent(_)) ==
    /\ edits < MaxEdit
    /\ edits' = edits + 1
    /\ \E new \in Text : \E i \in 0..Len(new) : \E j \in i..Len(new) :
          committed' = Stable(new, i, j)
    /\ Sent(Diff(committed, committed'))
    /\ cutWide' = (cutWide \/ CutsWide(committed, committed'))
    /\ UNCHANGED remote

-----------------------------------------------------------------------------
(* The PC *)

\* The focused field after a message.
Typed(s, key) ==
    IF key.op = "down" THEN SubSeq(s, 1, Len(s) - 1) ELSE s \o key.text

\* dispatch of KeyText and KeyEvent.
Inject(key) == remote' = Typed(remote, key) /\ UNCHANGED <<committed, edits, cutWide>>
=============================================================================
