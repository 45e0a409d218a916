----------------------------- MODULE Decompress -----------------------------
(***************************************************************************)
(* The decompress block: its message handler decompresses a message into   *)
(* byteQueue (and publishes the bytes again when sendMsg is set), work     *)
(* moves whole items from byteQueue to the output stream.  Both take       *)
(* d_mutex for their whole duration.                                       *)
(***************************************************************************)
EXTENDS ZStd

CONSTANTS
    ItemSize,    \* itemsize: bytes of one stream item
    SendMsg,     \* sendMsg: also publish the decompressed bytes
    BufferSize,  \* d_compressionBlockSize: first size of localWriteBuffer
    MaxItems     \* the largest noutput_items the scheduler passes to work

ASSUME DecompressAssumption ==
    /\ ItemSize \in Nat \ {0}
    /\ SendMsg \in BOOLEAN
    /\ BufferSize \in Nat \ {0}
    /\ MaxItems \in Nat

VARIABLES
    running,               \* the flowgraph has started the block
    faulted,               \* bytes were written outside localWriteBuffer
    localWriteBufferSize,  \* 0 when localWriteBuffer is NULL
    byteQueue,             \* decompressed bytes work has not produced yet
    compressedin,          \* messages waiting for the handler
    uncompressed,          \* messages published on the port "uncompressed"
    out                    \* the output stream so far

dvars == <<running, faulted, localWriteBufferSize, byteQueue, compressedin,
           uncompressed, out>>

(* The constructor, and the start of the flowgraph. *)
Init ==
    /\ running = TRUE
    /\ faulted = FALSE
    /\ localWriteBufferSize = BufferSize
    /\ byteQueue = <<>>
    /\ compressedin = <<>>
    /\ uncompressed = <<>>
    /\ out = <<>>

-----------------------------------------------------------------------------
(* Mutation: the buffer is never replaced by a larger one. *)
BufferFor_Fixed(msg) == localWriteBufferSize

(* localWriteBufferSize once it has been made to hold a whole message. *)
BufferFor(msg) ==
    IF msg.uncompressedsize > localWriteBufferSize
    THEN msg.uncompressedsize ELSE localWriteBufferSize

(* Mutation: only whole items are published. *)
Republished_WholeItems(data) ==
    IF SendMsg /\ Len(data) % ItemSize = 0
    THEN Append(uncompressed, data) ELSE uncompressed

(* The port "uncompressed" after the message for data, if one is wanted. *)
Republished(data) ==
    IF SendMsg THEN Append(uncompressed, data) ELSE uncompressed

(* compressedIn: a size above the expected one is an error and returns     *)
(* early; any other result, the size 0 of a failure too, is queued and,    *)
(* with sendMsg, published.                                                *)
CompressedIn ==
    LET msg == Head(compressedin)
        data == Payload(msg)
    IN
    /\ running /\ ~faulted
    /\ compressedin # <<>>
    /\ compressedin' = Tail(compressedin)
    /\ localWriteBufferSize' = BufferFor(msg)
    /\ faulted' = (Len(data) > BufferFor(msg))
    /\ IF Len(data) > msg.uncompressedsize
       THEN UNCHANGED <<byteQueue, uncompressed>>
       ELSE /\ byteQueue' = byteQueue \o data
            /\ uncompressed' = Republished(data)
    /\ UNCHANGED <<running, out>>

(* Mutation: the last item is taken for incomplete. *)
Producible_OneLess(n) ==
    LET itemsAvailable == (Len(byteQueue) - 1) \div ItemSize IN
    ItemSize * (IF itemsAvailable >= n THEN n ELSE itemsAvailable)

(* Bytes of the whole items among those available, at most n items. *)
Producible(n) ==
    LET itemsAvailable == Len(byteQueue) \div ItemSize IN
    ItemSize * (IF itemsAvailable >= n THEN n ELSE itemsAvailable)

(* work, when it produces something (a call that returns 0 changes         *)
(* nothing, and the scheduler calls again).                                *)
Work ==
    \E n \in 1..MaxItems :
        LET noi == Producible(n) IN
        /\ running /\ ~faulted
        /\ noi > 0
        /\ out' = out \o SubSeq(byteQueue, 1, noi)
        /\ byteQueue' = SubSeq(byteQueue, noi + 1, Len(byteQueue))
        /\ UNCHANGED <<running, faulted, localWriteBufferSize, compressedin,
                       uncompressed>>

(* Mutation: stop also empties byteQueue. *)
Stop_DropsQueue ==
    /\ running /\ ~faulted
    /\ running' = FALSE
    /\ localWriteBufferSize' = 0
    /\ byteQueue' = <<>>
    /\ UNCHANGED <<faulted, compressedin, uncompressed, out>>

(* stop: frees localWriteBuffer; byteQueue is kept. *)
Stop ==
    /\ running /\ ~faulted
    /\ running' = FALSE
    /\ localWriteBufferSize' = 0
    /\ UNCHANGED <<faulted, byteQueue, compressedin, uncompressed, out>>

(* The flowgraph is started again. *)
Start ==
    /\ ~running
    /\ running' = TRUE
    /\ UNCHANGED <<faulted, localWriteBufferSize, byteQueue, compressedin,
                   uncompressed, out>>

Handle == CompressedIn \/ Work

Next == Handle \/ Stop \/ Start

(* The block's thread runs the handler while a message waits and calls     *)
(* work while there is room downstream, for as long as the block runs.     *)
Fairness == WF_dvars(CompressedIn) /\ WF_dvars(Work)

Spec == Init /\ [][Next]_dvars

TypeOK ==
    /\ running \in BOOLEAN /\ faulted \in BOOLEAN
    /\ localWriteBufferSize \in Nat
    /\ byteQueue \in Seq(Nat)
    /\ compressedin \in Seq(Messages)
    /\ uncompressed \in Seq(Seq(Nat))
    /\ out \in Seq(Nat)

(* No decompression writes outside localWriteBuffer, whatever the sizes    *)
(* the messages announce and however often the block is restarted.         *)
NeverOverruns == ~faulted

=============================================================================
