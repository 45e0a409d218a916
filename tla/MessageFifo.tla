---------------------------- MODULE MessageFifo ----------------------------
(***************************************************************************)
(* What CompressedMsgToStream and StreamToDecompressionMsg promise when    *)
(* the byte stream of the one is the byte stream of the other: a FIFO      *)
(* channel for compressed blocks that loses, repeats and changes none.     *)
(***************************************************************************)
EXTENDS Naturals, Sequences

CONSTANT Blocks   \* the compressed blocks

VARIABLES sent, got

fvars == <<sent, got>>

Init == sent = <<>> /\ got = <<>>

Send ==
    /\ Len(sent') = Len(sent) + 1
    /\ sent' = Append(sent, sent'[Len(sent')])
    /\ sent'[Len(sent')] \in Blocks
    /\ UNCHANGED got

Receive ==
    /\ Len(got) < Len(sent)
    /\ got' = Append(got, sent[Len(got) + 1])
    /\ UNCHANGED sent

Spec == Init /\ [][Send \/ Receive]_fvars

=============================================================================
