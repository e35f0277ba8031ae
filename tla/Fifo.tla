---------------------------------- MODULE Fifo ----------------------------------
(***************************************************************************)
(* What a ring buffer promises: a bounded first-in first-out channel       *)
(* between one sender and one receiver.                                    *)
(***************************************************************************)
EXTENDS Naturals, Sequences

CONSTANTS
  Values,     \* what can be sent
  Capacity,   \* how many values can be on the way
  Nothing     \* what the receiver holds before it has received

VARIABLES
  chan,       \* values sent and not yet received, oldest first
  out         \* the value received last

vars == <<chan, out>>

Init ==
  /\ chan = <<>>
  /\ out = Nothing

Put(v) ==
  /\ Len(chan) < Capacity
  /\ chan' = Append(chan, v)
  /\ UNCHANGED out

Get ==
  /\ chan # <<>>
  /\ out' = Head(chan)
  /\ chan' = Tail(chan)

Next == Get \/ \E v \in Values : Put(v)

Spec == Init /\ [][Next]_vars
=================================================================================
