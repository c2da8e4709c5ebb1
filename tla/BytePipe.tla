------------------------------ MODULE BytePipe ------------------------------
(***************************************************************************)
(* What a user of the JTAG UART is promised, in each direction: a bounded  *)
(* pipe.  Bytes are numbered round a circle of Count so that a lost, a     *)
(* duplicated, a stale or an overtaking byte shows; put is the number of   *)
(* the next byte to go in, got the number of the next to come out.         *)
(***************************************************************************)
EXTENDS Integers, Sequences

CONSTANTS Count, Capacity

VARIABLES put, got, pipe

vars == <<put, got, pipe>>

Numbers(first, k) == [i \in 1 .. k |-> (first + i - 1) % Count]

Init == put = 0 /\ got = 0 /\ pipe = <<>>

\* Any number of bytes goes in at once, in order, behind what is there.
Put ==
  \E k \in 1 .. Capacity - Len(pipe) :
    /\ pipe' = pipe \o Numbers(put, k)
    /\ put' = (put + k) % Count
    /\ got' = got

\* Any number of bytes comes out, from the front, each the one that is due.
Get ==
  \E k \in 1 .. Len(pipe) :
    /\ SubSeq(pipe, 1, k) = Numbers(got, k)
    /\ pipe' = SubSeq(pipe, k + 1, Len(pipe))
    /\ got' = (got + k) % Count
    /\ put' = put

Spec == Init /\ [][Put \/ Get]_vars
==============================================================================
