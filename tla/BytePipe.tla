------------------------------ MODULE BytePipe ------------------------------
(***************************************************************************)
(* What a pair of compress and decompress blocks promises: a pipe for a    *)
(* stream of bytes 1, 2, 3, ...  Bytes that have been accepted come out    *)
(* unchanged, once and in order, any number at a time.                     *)
(***************************************************************************)
EXTENDS Integers, Sequences

VARIABLES
    accepted,   \* number of bytes the pipe has taken
    delivered   \* the bytes it has handed out

pvars == <<accepted, delivered>>

Init ==
    /\ accepted = 0
    /\ delivered = <<>>

Accept ==
    /\ accepted' \in Nat
    /\ accepted' > accepted
    /\ UNCHANGED delivered

Deliver ==
    /\ Len(delivered') \in Len(delivered) + 1 .. accepted
    /\ delivered' = [i \in 1..Len(delivered') |-> i]
    /\ UNCHANGED accepted

Next == Accept \/ Deliver

Spec == Init /\ [][Next]_pvars

=============================================================================
