----------------------------- MODULE StreamLink -----------------------------
(***************************************************************************)
(* CompressedMsgToStream and StreamToDecompressionMsg joined by a stream   *)
(* of bytes, as for a transmission over a socket.  The stream keeps the    *)
(* order of the bytes but not the calls they were produced by: how it is   *)
(* cut into calls of work differs on the two sides.                        *)
(***************************************************************************)
EXTENDS ZStd

CONSTANTS
    MaxItems, StreamRoom, BufferSize,
    MaxSent,    \* bound: bytes of the uncompressed stream that are sent
    MaxBlock,   \* bound: bytes a block stands for
    MaxFrame    \* bound: bytes in a frame

ASSUME StreamLinkAssumption ==
    /\ MaxItems \in Nat /\ StreamRoom \in Nat /\ BufferSize \in Nat \ {0}
    /\ MaxSent \in Nat /\ MaxBlock \in Nat /\ MaxFrame \in Nat
    /\ MaxBlock < WordSize /\ MaxFrame < WordSize

VARIABLES
    sent,                                             \* messages sent (history)
    mailbox, sendQueue, stream,                       \* CompressedMsgToStream
    running, inWork, faulted, receiveQueue, headerValid, currentHeader,
    localWriteBufferSize, published                   \* StreamToDecompressionMsg

M == INSTANCE CompressedMsgToStream WITH
        compressed <- mailbox, byteQueue <- sendQueue

S == INSTANCE StreamToDecompressionMsg WITH
        byteQueue <- receiveQueue, compressed <- published

mOnly == <<mailbox, sendQueue>>
sOnly == <<running, inWork, faulted, receiveQueue, headerValid, currentHeader,
           localWriteBufferSize, published>>
vars == <<sent, mOnly, stream, sOnly>>

Init == sent = <<>> /\ M!Init /\ S!Init

(* Bytes of the uncompressed stream sent so far. *)
SentBytes == IF sent = <<>> THEN 0 ELSE End(sent[Len(sent)])

(* A compress block publishes the message of its next block. *)
Send ==
    \E u \in 1..MaxBlock, csize \in 1..MaxFrame, hasheader \in BOOLEAN :
        LET msg == BlockMessage(Run(SentBytes, u), csize, hasheader) IN
        /\ SentBytes + u <= MaxSent
        /\ sent' = Append(sent, msg)
        /\ mailbox' = Append(mailbox, msg)
        /\ UNCHANGED <<sendQueue, stream, sOnly>>

ToStream == M!Next /\ UNCHANGED <<sent, sOnly>>
FromStream == S!Next /\ UNCHANGED <<sent, mOnly>>

Next == Send \/ ToStream \/ FromStream

Spec == Init /\ [][Next]_vars

(* Both threads go on while there is work for them; a call of work that    *)
(* has begun goes on to its end.                                           *)
FairSpec ==
    /\ Spec
    /\ WF_vars(M!CompressedIn /\ UNCHANGED <<sent, sOnly>>)
    /\ WF_vars(M!Work /\ UNCHANGED <<sent, sOnly>>)
    /\ WF_vars(S!WorkBegin /\ UNCHANGED <<sent, mOnly>>)
    /\ WF_vars(S!Iterate /\ UNCHANGED <<sent, mOnly>>)

-----------------------------------------------------------------------------
(* A message without what the stream does not keep of it: where its sizes  *)
(* were written.                                                           *)
Plain(msg) ==
    [msg EXCEPT !.hasheader = FALSE,
                !.blob = SubSeq(msg.blob, Skip(msg) + 1, Len(msg.blob))]

(* The two blocks implement a FIFO channel for messages: every message     *)
(* arrives once, in order and with its sizes and its frame unchanged,      *)
(* however the calls of work cut the stream and whenever the receiving     *)
(* block is stopped and started.                                           *)
Fifo == INSTANCE MessageFifo WITH
           Blocks <- Messages, sent <- [k \in 1..Len(sent) |-> Plain(sent[k])],
           got <- published
FifoSpec == Fifo!Spec

TypeOK == sent \in Seq(Messages) /\ M!TypeOK /\ S!TypeOK

(* The parser is in step with the records: a header is only ever read from *)
(* the bytes of a header, and a header that is held was sent for the next  *)
(* message to be published.                                                *)
InStep ==
    /\ S!HeaderAvailable =>
         /\ Len(published) < Len(sent)
         /\ S!Headers =
              {[uncompressed_size |-> sent[Len(published) + 1].uncompressedsize,
                compressed_size |-> sent[Len(published) + 1].compressedsize]}
    /\ ~faulted

(* A receiving block that keeps running publishes every message in the     *)
(* end: no record waits in a queue for bytes that came before it.          *)
AllArrive == <>[]running => <>[](Len(published) = Len(sent))

=============================================================================
