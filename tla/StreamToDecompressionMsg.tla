---------------------- MODULE StreamToDecompressionMsg ----------------------
(***************************************************************************)
(* The StreamToDecompressionMsg block: work queues the bytes it is handed  *)
(* and publishes a message for every complete record among them.  A record *)
(* may be cut anywhere by the calls of work, so the parser's state         *)
(* (byteQueue, headerValid, currentHeader) outlives a call, and a stop.    *)
(*                                                                         *)
(* A message is visible to its receiver as soon as it is published, so one *)
(* call of work is a step that takes the input and one step per iteration  *)
(* of its loop.                                                            *)
(***************************************************************************)
EXTENDS ZStd

CONSTANTS
    MaxItems,    \* the largest noutput_items the scheduler passes to work
    BufferSize   \* 64000: first size of localWriteBuffer

VARIABLES
    running,               \* the flowgraph has started the block
    inWork,                \* a call of work is in its loop
    faulted,               \* bytes were written outside localWriteBuffer
    stream,                \* the buffer of the input stream
    byteQueue,
    headerValid,
    currentHeader,         \* the two fields of the header
    localWriteBufferSize,  \* 0 when localWriteBuffer is NULL
    compressed             \* messages published

svars == <<running, inWork, faulted, stream, byteQueue, headerValid,
           currentHeader, localWriteBufferSize, compressed>>

(* Mutation: the size beside the buffer is not initialised. *)
Init_Unset ==
    /\ running = TRUE
    /\ inWork = FALSE
    /\ faulted = FALSE
    /\ stream = <<>>
    /\ byteQueue = <<>>
    /\ headerValid = FALSE
    /\ currentHeader = [uncompressed_size |-> 0, compressed_size |-> 0]
    /\ localWriteBufferSize \in {-1, BufferSize}
    /\ compressed = <<>>

(* The constructor, and the start of the flowgraph. *)
Init ==
    /\ running = TRUE
    /\ inWork = FALSE
    /\ faulted = FALSE
    /\ stream = <<>>
    /\ byteQueue = <<>>
    /\ headerValid = FALSE
    /\ currentHeader = [uncompressed_size |-> 0, compressed_size |-> 0]
    /\ localWriteBufferSize = BufferSize
    /\ compressed = <<>>

(* The header that is current in an iteration, and what is queued after it.*)
Headers ==
    IF headerValid THEN {currentHeader}
    ELSE HeaderValues(SubSeq(byteQueue, 1, HeaderLen))

(* Mutation: the header is read but not popped. *)
AfterHeader_NotPopped == byteQueue

AfterHeader ==
    IF headerValid THEN byteQueue
    ELSE SubSeq(byteQueue, HeaderLen + 1, Len(byteQueue))

HeaderAvailable == headerValid \/ Len(byteQueue) >= HeaderLen

(* work begins: the items it was called with are queued. *)
WorkBegin ==
    \E n \in 1..MaxItems :
        /\ running /\ ~faulted /\ ~inWork
        /\ n <= Len(stream)
        /\ byteQueue' = byteQueue \o SubSeq(stream, 1, n)
        /\ stream' = SubSeq(stream, n + 1, Len(stream))
        /\ inWork' = TRUE
        /\ UNCHANGED <<running, faulted, headerValid, currentHeader,
                       localWriteBufferSize, compressed>>

(* work returns: not even the header of the next record is there. *)
ReturnWithoutHeader ==
    /\ inWork /\ ~faulted
    /\ ~HeaderAvailable
    /\ inWork' = FALSE
    /\ UNCHANGED <<running, faulted, stream, byteQueue, headerValid,
                   currentHeader, localWriteBufferSize, compressed>>

(* work returns: the header is there, and kept, but not all of the data. *)
ReturnWithHeader ==
    /\ inWork /\ ~faulted
    /\ HeaderAvailable
    /\ \E header \in Headers :
        /\ header.compressed_size > Len(AfterHeader)
        /\ currentHeader' = header
    /\ headerValid' = TRUE
    /\ byteQueue' = AfterHeader
    /\ inWork' = FALSE
    /\ UNCHANGED <<running, faulted, stream, localWriteBufferSize, compressed>>

BufferFor(size) ==
    IF size > localWriteBufferSize THEN size ELSE localWriteBufferSize

(* Mutation: one record per call of work. *)
MoreData_Once(queue) == FALSE

(* moreData: whether the loop goes on with what is left in the queue. *)
MoreData(queue) == Len(queue) >= HeaderLen

(* An iteration with a whole record: its data becomes a message, and the   *)
(* loop goes on if another header is queued.                               *)
PublishRecord ==
    /\ inWork /\ ~faulted
    /\ HeaderAvailable
    /\ \E header \in Headers :
        LET size == header.compressed_size IN
        /\ size <= Len(AfterHeader)
        /\ currentHeader' = header
        /\ byteQueue' = SubSeq(AfterHeader, size + 1, Len(AfterHeader))
        /\ localWriteBufferSize' = BufferFor(size)
        /\ faulted' = (size > BufferFor(size))
        /\ compressed' = Append(compressed,
              [uncompressedsize |-> header.uncompressed_size,
               compressedsize |-> size, hasheader |-> FALSE,
               blob |-> SubSeq(AfterHeader, 1, size)])
    /\ headerValid' = FALSE
    /\ inWork' = MoreData(byteQueue')
    /\ UNCHANGED <<running, stream>>

(* stop frees localWriteBuffer; byteQueue, headerValid and currentHeader   *)
(* are kept.                                                               *)
Stop ==
    /\ running /\ ~inWork /\ ~faulted
    /\ running' = FALSE
    /\ localWriteBufferSize' = 0
    /\ UNCHANGED <<inWork, faulted, stream, byteQueue, headerValid,
                   currentHeader, compressed>>

(* The flowgraph is started again. *)
Start ==
    /\ ~running
    /\ running' = TRUE
    /\ UNCHANGED <<inWork, faulted, stream, byteQueue, headerValid,
                   currentHeader, localWriteBufferSize, compressed>>

Iterate == ReturnWithoutHeader \/ ReturnWithHeader \/ PublishRecord

Next == WorkBegin \/ Iterate \/ Stop \/ Start

Spec == Init /\ [][Next]_svars

TypeOK ==
    /\ running \in BOOLEAN /\ inWork \in BOOLEAN /\ faulted \in BOOLEAN
    /\ stream \in Seq(Bytes) /\ byteQueue \in Seq(Bytes)
    /\ headerValid \in BOOLEAN
    /\ currentHeader \in [uncompressed_size : Nat, compressed_size : Nat]
    /\ localWriteBufferSize \in Nat
    /\ compressed \in Seq(Messages)
=============================================================================
