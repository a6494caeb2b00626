-------------------------------- MODULE Fifo --------------------------------
(***************************************************************************)
(* What a byte ring between an interrupt handler and a task promises: a    *)
(* bounded queue that may refuse bytes at its end, and never loses,        *)
(* repeats, reorders or invents one it has taken.                          *)
(*                                                                         *)
(* q is what the queue holds, out what its reader took last.               *)
(***************************************************************************)
EXTENDS Naturals, Sequences

CONSTANTS
  Byte,       \* what is queued
  Capacity    \* the most the queue holds

VARIABLES q, out

fifo == <<q, out>>

Init == q = <<>> /\ out = <<>>

(* A writer appends what still fits of its bytes. *)
Put ==
  /\ Len(q') > Len(q) /\ Len(q') <= Capacity
  /\ SubSeq(q', 1, Len(q)) = q
  /\ \A i \in 1..Len(q') : q'[i] \in Byte
  /\ UNCHANGED out

(* The reader takes the oldest n bytes, after the ones it already has or   *)
(* in place of them.                                                       *)
Get ==
  \E n \in 1..Len(q) :
    /\ out' \in {out \o SubSeq(q, 1, n), SubSeq(q, 1, n)}
    /\ q' = SubSeq(q, n + 1, Len(q))

(* The reader is done with what it took, or with the first part of it. *)
Used ==
  /\ out # <<>>
  /\ \E n \in 1..Len(out) : out' = SubSeq(out, n + 1, Len(out))
  /\ UNCHANGED q

Next == Put \/ Get \/ Used

Spec == Init /\ [][Next]_fifo
=============================================================================
