----------------------- MODULE CompressedMsgToStream -----------------------
(***************************************************************************)
(* The CompressedMsgToStream block: its handler puts every message into    *)
(* byteQueue as a record, the CompressionHeader and then the frame, and    *)
(* work moves bytes from byteQueue to the output stream.                   *)
(***************************************************************************)
EXTENDS ZStd

CONSTANTS
    MaxItems,    \* the largest noutput_items the scheduler passes to work
    StreamRoom   \* bytes the buffer of the output stream holds

VARIABLES
    compressed,  \* messages waiting for the handler
    byteQueue,   \* record bytes work has not produced yet
    stream       \* the buffer of the output stream

mvars == <<compressed, byteQueue, stream>>

Init ==
    /\ compressed = <<>>
    /\ byteQueue = <<>>
    /\ stream = <<>>

(* The header of the record: the one in the blob if there is one, else one *)
(* built from the metadata.                                                *)
RecordHeader(msg) ==
    IF msg.hasheader THEN SubSeq(msg.blob, 1, HeaderLen)
    ELSE Header(msg.uncompressedsize, msg.compressedsize)

(* Mutation: a header in the blob is sent a second time, as data. *)
RecordData_WithHeader(msg) == msg.blob

(* The data of the record: what the blob holds after its header. *)
RecordData(msg) == SubSeq(msg.blob, Skip(msg) + 1, Len(msg.blob))

CompressedIn ==
    /\ compressed # <<>>
    /\ compressed' = Tail(compressed)
    /\ byteQueue' = byteQueue \o RecordHeader(Head(compressed))
                              \o RecordData(Head(compressed))
    /\ UNCHANGED stream

(* work, when it has something to return. *)
Work ==
    \E n \in 1..MaxItems :
        LET bytesToReturn == IF Len(byteQueue) < n THEN Len(byteQueue) ELSE n IN
        /\ bytesToReturn > 0
        /\ Len(stream) + n <= StreamRoom
        /\ stream' = stream \o SubSeq(byteQueue, 1, bytesToReturn)
        /\ byteQueue' = SubSeq(byteQueue, bytesToReturn + 1, Len(byteQueue))
        /\ UNCHANGED compressed

Next == CompressedIn \/ Work

Spec == Init /\ [][Next]_mvars

TypeOK ==
    /\ compressed \in Seq(Messages)
    /\ byteQueue \in Seq(Bytes)
    /\ stream \in Seq(Bytes)
=============================================================================
