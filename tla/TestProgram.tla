---------------------------- MODULE TestProgram ----------------------------
(***************************************************************************)
(* The program test_compress: it times one compress block on a buffer of   *)
(* its own, hands it the contents of a file again and again through test,  *)
(* and hands what the last compression left to the test of one decompress  *)
(* block, again and again.  Both blocks are used as objects, outside a     *)
(* flowgraph; their test functions repeat the code of work and of the      *)
(* message handler, so the operators of those modules are used here.       *)
(***************************************************************************)
EXTENDS ZStd

CONSTANTS
    BlockSize,   \* largeBlockSize
    QueueSize,   \* queueSize of timeCompression
    BufferSize,  \* d_compressionBlockSize of the decompress block
    Iterations,  \* calls of each test after the first
    MaxFile      \* bound: bytes in the file

ASSUME TestProgramAssumption ==
    /\ BlockSize \in Nat \ {0} /\ QueueSize \in Nat \ {0}
    /\ BufferSize \in Nat \ {0}
    /\ Iterations \in Nat /\ MaxFile \in Nat

VARIABLES
    pc,        \* the part of TestCompression that comes next
    calls,     \* how often that part has called a block
    fileSize,  \* byteStreamSize
    faulted,   \* undefined behaviour has been reached
    localWriteBuffer, localWriteBufferSize, localWriteBufferNextIndex,
    compressedBufferSize, compressedBufferAlloc,
    compressedBuffer,  \* the frame in it
    compressedSize,    \* the length test has noted of it
    decompressBufferSize,  \* localWriteBufferSize of the decompress block
    byteQueue, \* of the decompress block
    errors     \* how many errors the decompress block has reported

compressor == <<localWriteBuffer, localWriteBufferSize, localWriteBufferNextIndex,
                compressedBufferSize, compressedBufferAlloc, compressedBuffer,
                compressedSize>>

decompressor == <<decompressBufferSize, byteQueue, errors>>

tvars == <<pc, calls, fileSize, faulted, compressor, decompressor>>

C == INSTANCE Compress WITH
        ItemSize <- 1, AddHeader <- FALSE, MaxItems <- MaxFile, MaxInput <- MaxFile,
        running <- TRUE, received <- 0, pCompressor <- TRUE, compressed <- <<>>

D == INSTANCE Decompress WITH
        ItemSize <- 1, SendMsg <- FALSE, MaxItems <- 0, running <- TRUE,
        localWriteBufferSize <- decompressBufferSize,
        compressedin <- <<>>, uncompressed <- <<>>, out <- <<>>

File == Run(0, fileSize)

(* What new[] leaves in a buffer: no byte of the file. *)
Uninitialised(n) == [i \in 1..n |-> 0]

TestInit ==
    /\ pc = "time" /\ calls = 0 /\ fileSize = 0
    /\ C!Init
    /\ compressedBuffer = <<>> /\ compressedSize = 0
    /\ D!Init
    /\ errors = 0

-----------------------------------------------------------------------------
(* timeCompression: compresses QueueSize bytes that nothing has written,   *)
(* over and over into the same place; compressedSize is not changed.       *)
TimeCompression ==
    /\ pc = "time"
    /\ pc' = "read"
    /\ \E csize \in 1..CompressBound(QueueSize) :
         /\ faulted' = ~C!CompressSafe(QueueSize, csize)
         /\ compressedBuffer' = Frame(Uninitialised(QueueSize), csize)
    /\ localWriteBufferSize' = C!RoomFor(QueueSize)
    /\ compressedBufferSize' = C!TargetSize(QueueSize)
    /\ compressedBufferAlloc' = C!TargetAlloc(QueueSize)
    /\ UNCHANGED <<calls, fileSize, localWriteBuffer, localWriteBufferNextIndex,
                   compressedSize, decompressor>>

(* The file is read whole, whatever its size ... *)
ReadFile ==
    /\ pc = "read"
    /\ pc' = "compress"
    /\ fileSize' \in 0..MaxFile
    /\ UNCHANGED <<calls, faulted, compressor, decompressor>>

(* ... or cannot be opened. *)
NoFile ==
    /\ pc = "read"
    /\ pc' = "exit"
    /\ UNCHANGED <<calls, fileSize, faulted, compressor, decompressor>>

(* How many bytes wait after a call of test. *)
Waiting(queueSize) == IF C!BlockReady(queueSize) THEN 0 ELSE queueSize

(* Mutation: the size of the frame is not noted. *)
Noted_Never(queueSize, csize) == compressedSize

(* Mutation: the capacity is noted, and not how much of it was used. *)
Noted_Capacity(queueSize, csize) ==
    IF C!BlockReady(queueSize) THEN C!TargetSize(queueSize) ELSE compressedSize

(* compressedSize after a call of test: of the last frame, if there is one.*)
Noted(queueSize, csize) ==
    IF C!BlockReady(queueSize) THEN csize ELSE compressedSize

(* compress_impl::test with the whole file: too little data for a block    *)
(* waits, as in work.                                                      *)
TestCollect ==
    LET queueSize == localWriteBufferNextIndex + fileSize IN
    /\ pc = "compress" /\ calls <= Iterations
    /\ ~C!BlockReady(queueSize)
    /\ faulted' = (faulted \/ ~C!AppendSafe(queueSize))
    /\ calls' = calls + 1
    /\ localWriteBuffer' = localWriteBuffer \o File
    /\ localWriteBufferSize' = C!RoomFor(queueSize)
    /\ localWriteBufferNextIndex' = Waiting(queueSize)
    /\ UNCHANGED <<pc, fileSize, compressedBufferSize, compressedBufferAlloc,
                   compressedBuffer, compressedSize, decompressor>>

(* compress_impl::test with the whole file: all that waits becomes the     *)
(* frame in compressedBuffer.  The message made of it is thrown away.      *)
TestCompress ==
    LET queueSize == localWriteBufferNextIndex + fileSize IN
    /\ pc = "compress" /\ calls <= Iterations
    /\ C!BlockReady(queueSize)
    /\ \E csize \in 1..CompressBound(queueSize) :
         /\ faulted' = (\/ faulted
                        \/ ~C!AppendSafe(queueSize)
                        \/ ~C!CompressSafe(queueSize, csize))
         /\ compressedBuffer' = Frame(localWriteBuffer \o File, csize)
         /\ compressedSize' = Noted(queueSize, csize)
    /\ calls' = calls + 1
    /\ localWriteBuffer' = <<>>
    /\ localWriteBufferSize' = C!RoomFor(queueSize)
    /\ localWriteBufferNextIndex' = Waiting(queueSize)
    /\ compressedBufferSize' = C!TargetSize(queueSize)
    /\ compressedBufferAlloc' = C!TargetAlloc(queueSize)
    /\ UNCHANGED <<pc, fileSize, decompressor>>

(* The decompress block is made and the frame is copied. *)
Turn ==
    /\ pc = "compress" /\ calls > Iterations
    /\ pc' = "decompress"
    /\ calls' = 0
    /\ UNCHANGED <<fileSize, faulted, compressor, decompressor>>

(* The input of the decompress block's test: what getCompressedBuffer and  *)
(* getCompressedSize gave.                                                 *)
Copied == SubSeq(compressedBuffer, 1, compressedSize)

(* decompress_impl::test: unlike the message handler, it takes the size 0  *)
(* for the error that it is.                                               *)
TestDecompress ==
    LET data == Decompress(fileSize, Copied)
        room == D!BufferFor([uncompressedsize |-> fileSize])
    IN
    /\ pc = "decompress" /\ calls <= Iterations
    /\ calls' = calls + 1
    /\ decompressBufferSize' = room
    /\ faulted' = (faulted \/ Len(data) > room)
    /\ byteQueue' = byteQueue \o data
    /\ errors' = IF data = <<>> THEN errors + 1 ELSE errors
    /\ UNCHANGED <<pc, fileSize, compressor>>

(* Both blocks are deleted, their destructors call stop. *)
Delete ==
    /\ pc = "decompress" /\ calls > Iterations
    /\ pc' = "done"
    /\ localWriteBuffer' = <<>>
    /\ localWriteBufferSize' = 0
    /\ compressedBuffer' = <<>>
    /\ compressedBufferSize' = 0
    /\ compressedBufferAlloc' = 0
    /\ decompressBufferSize' = 0
    /\ UNCHANGED <<calls, fileSize, faulted, localWriteBufferNextIndex,
                   compressedSize, byteQueue, errors>>

TestNext ==
    \/ TimeCompression \/ ReadFile \/ NoFile
    \/ TestCollect \/ TestCompress \/ Turn
    \/ TestDecompress \/ Delete

TestSpec == TestInit /\ [][TestNext]_tvars

-----------------------------------------------------------------------------

(* One object that is timed, then fed files of any size, never leaves the  *)
(* buffers that timeCompression and test replace by hand in turn, and the  *)
(* copy of the frame that is handed over lies in what was written.         *)
BuffersHold ==
    /\ ~faulted
    /\ pc # "done" =>
         /\ compressedBufferAlloc >= compressedBufferSize
         /\ localWriteBufferSize >= localWriteBufferNextIndex
         /\ Len(compressedBuffer) <= compressedBufferAlloc
         /\ compressedSize <= Len(compressedBuffer)

(* A file of a block or more comes back whole from every decompression.  A *)
(* smaller one never does: several copies of it are in the frame when the  *)
(* program announces the size of one, or there is no frame and, although   *)
(* the timing has left one in the buffer, its bytes are not taken for it.  *)
RoundTrip ==
    pc \in {"decompress", "done"} =>
      IF fileSize >= BlockSize
      THEN /\ errors = 0
           /\ byteQueue = [i \in 1..calls * fileSize |-> ((i - 1) % fileSize) + 1]
      ELSE errors = calls /\ byteQueue = <<>>

=============================================================================
