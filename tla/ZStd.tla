-------------------------------- MODULE ZStd --------------------------------
(***************************************************************************)
(* The zstd wrappers ZStdCompressor and ZStdDecompressor, and the          *)
(* CompressionHeader that travels in front of a compressed block.          *)
(*                                                                         *)
(* A byte of the uncompressed stream is its position in that stream.  The  *)
(* bytes of a compressed frame are opaque symbols: each knows the content  *)
(* the frame stands for, the frame's length and its own place in the       *)
(* frame, which is exactly what decides whether a span of bytes is one     *)
(* whole frame.  Header bytes are symbols too.                             *)
(***************************************************************************)
EXTENDS Integers, Sequences

CONSTANTS
    HeaderLen,  \* sizeof(CompressionHeader): 8 in the build
    WordSize,   \* number of values of a header field: 2^32 in the build
    Overhead    \* how much a compressed block may exceed its input

ASSUME ZStdAssumption ==
    /\ HeaderLen \in Nat \ {0}
    /\ WordSize \in Nat \ {0}
    /\ Overhead \in Nat \ {0}

(* ZSTD_compressBound: the worst case size of a compressed block. *)
CompressBound(n) == n + Overhead

(* Mutation: the two fields are filled in the wrong order. *)
Header_Swapped(uncompressed, compressed) ==
    [i \in 1..HeaderLen |-> [kind |-> "header",
                             uncompressed_size |-> compressed % WordSize,
                             compressed_size |-> uncompressed % WordSize,
                             at |-> i]]

(* The header's two fields are uint32_t: a larger size is truncated. *)
Header(uncompressed, compressed) ==
    [i \in 1..HeaderLen |-> [kind |-> "header",
                             uncompressed_size |-> uncompressed % WordSize,
                             compressed_size |-> compressed % WordSize,
                             at |-> i]]

(* A compressed frame of n bytes that stands for content. *)
Frame(content, n) ==
    [i \in 1..n |-> [kind |-> "frame", of |-> content, len |-> n, at |-> i]]

IsFrame(bytes) ==
    /\ Len(bytes) > 0
    /\ bytes[1].kind = "frame"
    /\ bytes = Frame(bytes[1].of, Len(bytes))

(* ZStdDecompressor::decompress: what it writes to a destination of the    *)
(* given capacity.  Every libzstd error becomes the size 0.                *)
Decompress(capacity, bytes) ==
    IF IsFrame(bytes) /\ Len(bytes[1].of) <= capacity THEN bytes[1].of ELSE <<>>

-----------------------------------------------------------------------------
Bytes == [kind : {"header"}, uncompressed_size : Nat, compressed_size : Nat, at : Nat]
           \cup [kind : {"frame"}, of : Seq(Nat), len : Nat, at : Nat]

(* A PDU on the message ports: its metadata and its blob. *)
Messages == [uncompressedsize : Nat, compressedsize : Nat,
             hasheader : BOOLEAN, blob : Seq(Bytes)]

(* Mutation: the result of dict_add is not assigned, one entry is lost. *)
BlockMessage_NoSize(content, csize, hasheader) ==
    [uncompressedsize |-> Len(content), hasheader |-> hasheader,
     blob |-> Frame(content, csize)]

(* The message of a compressed block of csize bytes that stands for        *)
(* content; with a header, the blob begins with a CompressionHeader.       *)
BlockMessage(content, csize, hasheader) ==
    [uncompressedsize |-> Len(content), compressedsize |-> csize,
     hasheader |-> hasheader,
     blob |-> (IF hasheader THEN Header(Len(content), csize) ELSE <<>>)
                \o Frame(content, csize)]

(* What the cast of HeaderLen bytes to a CompressionHeader yields: the     *)
(* sender's sizes from the bytes of one header, any sizes from any others. *)
HeaderValues(bytes) ==
    LET h == bytes[1] IN
    IF h.kind = "header" /\ bytes = Header(h.uncompressed_size, h.compressed_size)
    THEN {[uncompressed_size |-> h.uncompressed_size,
           compressed_size |-> h.compressed_size]}
    ELSE [uncompressed_size : 0..WordSize - 1, compressed_size : 0..WordSize - 1]

(* The n bytes of the stream that follow its first lo bytes. *)
Run(lo, n) == [i \in 1..n |-> lo + i]

(* Where the frame starts in the blob of a message. *)
Skip(msg) == IF msg.hasheader THEN HeaderLen ELSE 0

(* The bytes a receiver decompresses a message to. *)
Payload(msg) ==
    Decompress(msg.uncompressedsize,
               SubSeq(msg.blob, Skip(msg) + 1, Skip(msg) + msg.compressedsize))

(* Consecutive messages that carry the bytes after lo up to hi, each       *)
(* starting where the one before it ended.                                 *)
Begin(msg) == Payload(msg)[1] - 1
End(msg) == Begin(msg) + Len(Payload(msg))

Carries(msg) ==
    /\ Payload(msg) \in Seq(Nat) \ {<<>>}
    /\ Begin(msg) \in Nat
    /\ Payload(msg) = Run(Begin(msg), Len(Payload(msg)))

Chain(msgs, lo, hi) ==
    /\ \A k \in 1..Len(msgs) : Carries(msgs[k])
    /\ \A k \in 1..Len(msgs) : k > 1 => Begin(msgs[k]) = End(msgs[k - 1])
    /\ msgs # <<>> => Begin(msgs[1]) = lo /\ End(msgs[Len(msgs)]) = hi
    /\ msgs = <<>> => lo = hi

=============================================================================
