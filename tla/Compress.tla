------------------------------ MODULE Compress ------------------------------
(***************************************************************************)
(* The compress block: it collects the items the scheduler hands to work   *)
(* until a block of at least BlockSize bytes is there, compresses all of   *)
(* them into one frame and publishes the frame as a message on the port    *)
(* "compressed".  work and stop run in the block's one thread.             *)
(*                                                                         *)
(* Buffers are modelled with their sizes, because the code reallocates     *)
(* them by hand: a copy outside a buffer, a use of a freed object or of    *)
(* the error code of ZSTD_compress2 as a length is the state "faulted".    *)
(***************************************************************************)
EXTENDS ZStd

CONSTANTS
    ItemSize,   \* itemsize: bytes of one stream item
    BlockSize,  \* compressionBlockSize: bytes that trigger a compression
    AddHeader,  \* addHeader: the message repeats the sizes in its blob
    MaxItems,   \* the largest noutput_items the scheduler passes to work
    MaxInput    \* bound: bytes of input considered

ASSUME CompressAssumption ==
    /\ ItemSize \in Nat \ {0}
    /\ BlockSize \in Nat \ {0}
    /\ AddHeader \in BOOLEAN
    /\ MaxItems \in Nat
    /\ MaxInput \in Nat

(* Sizes of a block are int in the constructor, so the header has room.    *)
ASSUME BlockFitsHeader ==
    CompressBound(BlockSize + MaxItems * ItemSize) < WordSize

VARIABLES
    running,                    \* the flowgraph has started the block
    faulted,                    \* undefined behaviour has been reached
    received,                   \* bytes of the stream work has consumed
    pCompressor,                \* pCompressor is not NULL
    localWriteBuffer,           \* the bytes waiting in it
    localWriteBufferSize,       \* 0 when it is NULL
    localWriteBufferNextIndex,
    compressedBufferSize,       \* what the block believes
    compressedBufferAlloc,      \* what new[] gave it
    compressed                  \* messages published and not yet taken

cvars == <<running, faulted, received, pCompressor, localWriteBuffer,
           localWriteBufferSize, localWriteBufferNextIndex,
           compressedBufferSize, compressedBufferAlloc, compressed>>

HeaderRoom == IF AddHeader THEN HeaderLen ELSE 0

(* The constructor, and the start of the flowgraph. *)
Init ==
    /\ running = TRUE
    /\ faulted = FALSE
    /\ received = 0
    /\ pCompressor = TRUE
    /\ localWriteBuffer = <<>>
    /\ localWriteBufferSize = BlockSize
    /\ localWriteBufferNextIndex = 0
    /\ compressedBufferSize = BlockSize
    /\ compressedBufferAlloc = BlockSize + HeaderRoom
    /\ compressed = <<>>

-----------------------------------------------------------------------------
(* The next noi bytes of the stream, from input_items. *)
Input(noi) == Run(received, noi)

(* Mutation: new bytes overwrite the waiting ones. *)
Appended_Overwriting(noi) == Input(noi)

(* The waiting bytes with the next noi bytes behind them. *)
Appended(noi) == localWriteBuffer \o Input(noi)

(* Mutation: off by one. *)
BlockReady_TooSoon(queueSize) == queueSize >= BlockSize - 1

BlockReady(queueSize) == queueSize >= BlockSize

(* localWriteBufferSize once it has been made to hold queueSize bytes. *)
RoomFor(queueSize) ==
    IF queueSize > localWriteBufferSize THEN queueSize ELSE localWriteBufferSize

(* compressedBufferSize and the allocation behind it, once there is room   *)
(* for the worst case of queueSize bytes.                                  *)
TargetSize(queueSize) ==
    IF CompressBound(queueSize) > compressedBufferSize
    THEN CompressBound(queueSize) ELSE compressedBufferSize

(* Mutation: no room for the header in the new buffer. *)
TargetAlloc_NoHeader(queueSize) ==
    IF CompressBound(queueSize) > compressedBufferSize
    THEN CompressBound(queueSize) ELSE compressedBufferAlloc

TargetAlloc(queueSize) ==
    IF CompressBound(queueSize) > compressedBufferSize
    THEN CompressBound(queueSize) + HeaderRoom ELSE compressedBufferAlloc

(* The copies into localWriteBuffer stay inside buffers that exist. *)
AppendSafe(queueSize) ==
    /\ queueSize > localWriteBufferSize
         => localWriteBufferNextIndex <= Len(localWriteBuffer)
    /\ queueSize <= RoomFor(queueSize)

(* ZSTD_compress2 has a context, does not run out of its capacity, and     *)
(* what it writes after the room for the header lies in the allocation.    *)
CompressSafe(queueSize, csize) ==
    /\ pCompressor
    /\ csize <= TargetSize(queueSize)
    /\ HeaderRoom + csize <= TargetAlloc(queueSize)

-----------------------------------------------------------------------------
(* work, with too little data for a block: the bytes wait. *)
WorkCollect(noi) ==
    LET queueSize == localWriteBufferNextIndex + noi IN
    /\ running /\ ~faulted
    /\ received + noi <= MaxInput
    /\ AppendSafe(queueSize)
    /\ ~BlockReady(queueSize)
    /\ localWriteBuffer' = Appended(noi)
    /\ localWriteBufferSize' = RoomFor(queueSize)
    /\ localWriteBufferNextIndex' = queueSize
    /\ received' = received + noi
    /\ UNCHANGED <<running, faulted, pCompressor, compressedBufferSize,
                   compressedBufferAlloc, compressed>>

(* work, with a block: all of it goes into one frame and one message. *)
WorkPublish(noi, csize) ==
    LET queueSize == localWriteBufferNextIndex + noi IN
    /\ running /\ ~faulted
    /\ received + noi <= MaxInput
    /\ AppendSafe(queueSize)
    /\ BlockReady(queueSize)
    /\ csize <= CompressBound(queueSize)
    /\ CompressSafe(queueSize, csize)
    /\ compressed' = Append(compressed, BlockMessage(Appended(noi), csize, AddHeader))
    /\ localWriteBuffer' = <<>>
    /\ localWriteBufferSize' = RoomFor(queueSize)
    /\ localWriteBufferNextIndex' = 0
    /\ compressedBufferSize' = TargetSize(queueSize)
    /\ compressedBufferAlloc' = TargetAlloc(queueSize)
    /\ received' = received + noi
    /\ UNCHANGED <<running, faulted, pCompressor>>

(* work, in a state where one of its copies or calls is undefined: the     *)
(* call does not return, so the scheduler never consumes its input.        *)
WorkFault(noi, csize) ==
    LET queueSize == localWriteBufferNextIndex + noi IN
    /\ running /\ ~faulted
    /\ received + noi <= MaxInput
    /\ csize <= CompressBound(queueSize)
    /\ \/ ~AppendSafe(queueSize)
       \/ BlockReady(queueSize) /\ ~CompressSafe(queueSize, csize)
    /\ faulted' = TRUE
    /\ UNCHANGED <<running, received, pCompressor, localWriteBuffer,
                   localWriteBufferSize, localWriteBufferNextIndex,
                   compressedBufferSize, compressedBufferAlloc, compressed>>

(* stop: frees everything, keeps localWriteBufferNextIndex. *)
Stop ==
    /\ running /\ ~faulted
    /\ running' = FALSE
    /\ pCompressor' = FALSE
    /\ localWriteBuffer' = <<>>
    /\ localWriteBufferSize' = 0
    /\ compressedBufferSize' = 0
    /\ compressedBufferAlloc' = 0
    /\ UNCHANGED <<faulted, received, localWriteBufferNextIndex, compressed>>

(* The flowgraph is started again: block::start does nothing here. *)
Start ==
    /\ ~running
    /\ running' = TRUE
    /\ UNCHANGED <<faulted, received, pCompressor, localWriteBuffer,
                   localWriteBufferSize, localWriteBufferNextIndex,
                   compressedBufferSize, compressedBufferAlloc, compressed>>

Work ==
    \E n \in 1..MaxItems :
        \/ WorkCollect(n * ItemSize)
        \/ \E csize \in 1..CompressBound(localWriteBufferNextIndex + n * ItemSize) :
              WorkPublish(n * ItemSize, csize) \/ WorkFault(n * ItemSize, csize)

Next == Work \/ Stop \/ Start

Spec == Init /\ [][Next]_cvars

-----------------------------------------------------------------------------
(* Types, and the sizes the code keeps beside its buffers. *)
TypeOK ==
    /\ running \in BOOLEAN /\ faulted \in BOOLEAN /\ pCompressor \in BOOLEAN
    /\ received \in 0..MaxInput
    /\ localWriteBuffer \in Seq(Nat)
    /\ localWriteBufferSize \in Nat
    /\ localWriteBufferNextIndex \in 0..received
    /\ compressedBufferSize \in Nat
    /\ compressedBufferAlloc \in Nat
    /\ compressed \in Seq(Messages)

(* As long as the block has not been stopped, the sizes the code keeps     *)
(* beside its buffers are true, so whatever sizes the scheduler picks no   *)
(* copy of work leaves its buffer, no call of it uses a freed object and   *)
(* zstd never runs out of room.  (After stop the buffers are gone while    *)
(* work may be called again: that is the only way to a fault.)             *)
NoFaultBeforeStop ==
    /\ faulted => ~pCompressor
    /\ pCompressor =>
         /\ Len(localWriteBuffer) = localWriteBufferNextIndex
         /\ localWriteBufferNextIndex <= localWriteBufferSize
         /\ compressedBufferAlloc = compressedBufferSize + HeaderRoom

(* The messages partition the input: the first starts at the first byte,   *)
(* each starts where the one before it ended, the last ends at the bytes   *)
(* that still wait, and fewer than a block of them wait; so a stop at any  *)
(* moment loses less than BlockSize bytes, all at the end of the stream.   *)
Partition ==
    /\ Chain(compressed, 0, received - localWriteBufferNextIndex)
    /\ localWriteBufferNextIndex < BlockSize
    /\ pCompressor => localWriteBuffer = Run(received - localWriteBufferNextIndex,
                                             localWriteBufferNextIndex)

(* "Actual block sizes will vary around the requested block size": they    *)
(* are never below it and exceed it by less than one call's worth of items.*)
BlockSizes ==
    \A k \in 1..Len(compressed) :
        /\ compressed[k].uncompressedsize >= BlockSize
        /\ compressed[k].uncompressedsize < BlockSize + MaxItems * ItemSize

(* What a message says of itself is exact: the blob is as long as the      *)
(* metadata says, and the 32-bit fields of a header are the metadata's     *)
(* sizes, never truncated.                                                 *)
MetadataExact ==
    \A k \in 1..Len(compressed) :
        LET m == compressed[k] IN
        /\ Len(m.blob) = Skip(m) + m.compressedsize
        /\ m.hasheader => SubSeq(m.blob, 1, HeaderLen)
                            = [i \in 1..HeaderLen |->
                                 [kind |-> "header",
                                  uncompressed_size |-> m.uncompressedsize,
                                  compressed_size |-> m.compressedsize, at |-> i]]

=============================================================================
