---------------------------- MODULE MessagePath ----------------------------
(***************************************************************************)
(* A flowgraph with a compress block whose message port "compressed" is    *)
(* connected to the port "compressedin" of a decompress block.  Each block *)
(* has a thread of its own; message_port_pub puts a message straight into  *)
(* the mailbox of the receiving block, an unbounded FIFO queue that both   *)
(* share.  Either block may be stopped and started at any time.            *)
(***************************************************************************)
EXTENDS ZStd

CONSTANTS
    InItemSize,   \* itemsize of the compress block
    OutItemSize,  \* itemsize of the decompress block
    BlockSize, AddHeader, SendMsg, BufferSize,
    InMaxItems,   \* the largest noutput_items of the compress block
    OutMaxItems,  \* the largest noutput_items of the decompress block
    MaxInput      \* bound: bytes of input considered

ASSUME PathAssumption ==
    /\ InItemSize \in Nat \ {0} /\ OutItemSize \in Nat \ {0}
    /\ BlockSize \in Nat \ {0} /\ BufferSize \in Nat \ {0}
    /\ AddHeader \in BOOLEAN /\ SendMsg \in BOOLEAN
    /\ InMaxItems \in Nat /\ OutMaxItems \in Nat /\ MaxInput \in Nat

VARIABLES
    cRunning, cFaulted, received, pCompressor,           \* compress
    cBuffer, cBufferSize, cNextIndex, compressedBufferSize, compressedBufferAlloc,
    mailbox,                                              \* between the two
    dRunning, dFaulted, dBufferSize, byteQueue, uncompressed, out  \* decompress

C == INSTANCE Compress WITH
        ItemSize <- InItemSize, MaxItems <- InMaxItems,
        running <- cRunning, faulted <- cFaulted,
        localWriteBuffer <- cBuffer, localWriteBufferSize <- cBufferSize,
        localWriteBufferNextIndex <- cNextIndex, compressed <- mailbox

D == INSTANCE Decompress WITH
        ItemSize <- OutItemSize, MaxItems <- OutMaxItems,
        running <- dRunning, faulted <- dFaulted,
        localWriteBufferSize <- dBufferSize, compressedin <- mailbox

cOnly == <<cRunning, cFaulted, received, pCompressor, cBuffer, cBufferSize,
           cNextIndex, compressedBufferSize, compressedBufferAlloc>>
dOnly == <<dRunning, dFaulted, dBufferSize, byteQueue, uncompressed, out>>
vars == <<cOnly, mailbox, dOnly>>

Init == C!Init /\ D!Init

CompressStep == C!Next /\ UNCHANGED dOnly
DecompressStep == D!Next /\ UNCHANGED cOnly

Next == CompressStep \/ DecompressStep

Spec == Init /\ [][Next]_vars

(* The decompress block's thread serves its mailbox and its output while   *)
(* it runs.  Nothing is assumed of the source of the stream.               *)
FairSpec == Spec /\ WF_vars(D!CompressedIn /\ UNCHANGED cOnly)
                 /\ WF_vars(D!Work /\ UNCHANGED cOnly)

-----------------------------------------------------------------------------
(* The two blocks implement a pipe for bytes. *)
Pipe == INSTANCE BytePipe WITH accepted <- received, delivered <- out
PipeSpec == Pipe!Spec

TypeOK == C!TypeOK /\ D!TypeOK

(* What is in flight is in order everywhere: the output stream, byteQueue, *)
(* the messages and the bytes waiting in the compress block are the        *)
(* accepted bytes, cut into four consecutive parts.                        *)
Queued == Len(out) + Len(byteQueue)

InOrder ==
    /\ out = Run(0, Len(out))
    /\ byteQueue = Run(Len(out), Len(byteQueue))
    /\ Chain(mailbox, Queued, received - cNextIndex)
    /\ pCompressor => cBuffer = Run(received - cNextIndex, cNextIndex)

(* Neither block reaches undefined behaviour, except a compress block that *)
(* is used again after stop.                                               *)
NoFault == (cFaulted => ~pCompressor) /\ ~dFaulted

(* Less than a compression block waits in the compress block and less than *)
(* an item in the decompress block; a decompress block that keeps running  *)
(* hands out everything else.                                              *)
HoldsBackLittle ==
    <>[]dRunning => <>[]( received - Len(out) <= (BlockSize - 1) + (OutItemSize - 1) )

=============================================================================
