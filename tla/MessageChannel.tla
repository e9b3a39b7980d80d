--------------------------- MODULE MessageChannel ---------------------------
(***************************************************************************)
(* What the channel to the coordinator promises one sender: a message that *)
(* arrives is one that was offered, it arrives once and after the messages *)
(* offered before it that arrive at all.  Any message may be lost.         *)
(***************************************************************************)
EXTENDS Integers, SequencesExt

CONSTANT Messages

VARIABLES
  offered,   \* messages offered so far, in order
  arrived    \* messages that came out, in order

\* Position of message m among those offered.
Position(m) == CHOOSE i \in 1 .. Len(offered) : offered[i] = m

Init == offered = <<>> /\ arrived = <<>>

Offer ==
  /\ \E m \in Messages \ ToSet(offered) : offered' = Append(offered, m)
  /\ UNCHANGED arrived

\* Any offered message later than the last one that arrived.
Arrive ==
  /\ \E m \in ToSet(offered) :
       /\ arrived # <<>> => Position(arrived[Len(arrived)]) < Position(m)
       /\ arrived' = Append(arrived, m)
  /\ UNCHANGED offered

Next == Offer \/ Arrive

Spec == Init /\ [][Next]_<<offered, arrived>>

=============================================================================
