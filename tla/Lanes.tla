------------------------------- MODULE Lanes -------------------------------
(***************************************************************************)
(* What the PC's way to a phone promises, whichever route it takes: text   *)
(* is never lost nor overtaken by text, a chunk of a file is never lost    *)
(* nor overtaken by a chunk or ahead of a text sent before it, a picture   *)
(* or a sound may be lost but never comes after a later one, and nothing   *)
(* comes twice.  Text may pass chunks, pictures may pass anything.         *)
(***************************************************************************)
EXTENDS Naturals, Sequences, SequencesExt

VARIABLES
    sent,  \* the lane of each message, in the order of sending
    got    \* the numbers of those delivered, in the order of delivery

Lane == {"text", "bulk", "fast"}

Init == sent = <<>> /\ got = <<>>

\* The messages n waits for.
Before(n) ==
    {m \in 1..(n - 1) : \/ sent[m] = sent[n] /\ sent[n] # "fast"
                        \/ sent[m] = "text" /\ sent[n] = "bulk"}

Send == \E lane \in Lane : sent' = Append(sent, lane) /\ UNCHANGED got

Deliver ==
    \E n \in (1..Len(sent)) \ Range(got) :
        /\ Before(n) \subseteq Range(got)
        /\ sent[n] = "fast" => \A m \in Range(got) : sent[m] = "fast" => m < n
        /\ got' = Append(got, n)
        /\ UNCHANGED sent

Spec == Init /\ [][Send \/ Deliver]_<<sent, got>>
=============================================================================
