---------------------------------- MODULE View ----------------------------------
(***************************************************************************)
(* What the Supervisor promises to whoever looks at it, whatever its       *)
(* threads, its port and its queues do in between: a frame of the board is *)
(* shown whole or not at all, at most once, in the order in which it was   *)
(* said; some are missed; and opening a port starts from blank labels.     *)
(***************************************************************************)
EXTENDS Integers, Sequences

CONSTANTS
    Frames,      \* what the board may say
    NoLabels,    \* blank labels
    Show(_, _)   \* the labels after a frame has been shown

VARIABLES
    pending,  \* frames that have been said and may still be shown
    labels    \* what is shown

viewVars == <<pending, labels>>

Init ==
    /\ pending = <<>>
    /\ labels = NoLabels

\* The oldest k of the frames are given up, or have been shown.
Drop(k) == pending' = SubSeq(pending, k + 1, Len(pending))

Say ==
    /\ \E frame \in Frames : pending' = Append(pending, frame)
    /\ UNCHANGED labels

\* A frame is lost on its way, or the oldest ones are discarded.
Miss ==
    /\ pending # <<>>
    /\ \/ pending' = SubSeq(pending, 1, Len(pending) - 1)
       \/ \E k \in 1 .. Len(pending) : Drop(k)
    /\ UNCHANGED labels

\* The oldest frame is shown; any that follow may be discarded with it.
ShowNext ==
    /\ pending # <<>>
    /\ labels' = Show(labels, Head(pending))
    /\ \E k \in 1 .. Len(pending) : Drop(k)

Clear ==
    /\ labels' = NoLabels
    /\ \E k \in 0 .. Len(pending) : Drop(k)

Next == Say \/ Miss \/ ShowNext \/ Clear

Spec == Init /\ [][Next]_viewVars
=============================================================================
