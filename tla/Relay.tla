------------------------------- MODULE Relay -------------------------------
(***************************************************************************)
(* What the bridge promises its user: a bounded relay that may lose        *)
(* frames but never invents, alters, reorders or repeats one.              *)
(*                                                                         *)
(* A frame handed over by the input side is either accepted, and then kept *)
(* in arrival order, or lost on the spot.  The frame at the front is later *)
(* put on the output exactly as it was accepted, or thrown away.  A reset  *)
(* of the device forgets everything that was accepted.                     *)
(***************************************************************************)
EXTENDS Naturals, Sequences

CONSTANTS
    Frame,      \* the frames an input can hand over
    NoFrame,    \* the output before its first frame
    Capacity    \* how many accepted frames the relay holds

VARIABLES
    pending,    \* accepted frames, oldest first
    wire        \* the frame last put on the output

vars == <<pending, wire>>

TypeOK ==
    /\ pending \in Seq(Frame)
    /\ Len(pending) <= Capacity
    /\ wire \in Frame \cup {NoFrame}

Init ==
    /\ pending = <<>>
    /\ wire = NoFrame

Accept(f) ==
    /\ Len(pending) < Capacity
    /\ pending' = Append(pending, f)
    /\ UNCHANGED wire

Forward ==
    /\ pending # <<>>
    /\ wire' = Head(pending)
    /\ pending' = Tail(pending)

Discard ==
    /\ pending # <<>>
    /\ pending' = Tail(pending)
    /\ UNCHANGED wire

Reset ==
    /\ pending' = <<>>
    /\ UNCHANGED wire

Next ==
    \/ \E f \in Frame : Accept(f)
    \/ Forward
    \/ Discard
    \/ Reset

Spec == Init /\ [][Next]_vars
=============================================================================
