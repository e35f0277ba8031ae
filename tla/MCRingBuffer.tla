------------------------------- MODULE MCRingBuffer ------------------------------
(* A ring of 11 words, messages of one and two data words, and one that the reader
   refuses: with this reserve it admits 8 bytes. *)
EXTENDS RingBuffer

MCLength == [m \in Messages |-> CASE m = "a" -> 4 [] m = "b" -> 7 [] OTHER -> 9]
=================================================================================
