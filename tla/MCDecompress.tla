---------------------------- MODULE MCDecompress ----------------------------
(***************************************************************************)
(* Decompress closed by a sender for TLC.  The sender cuts the stream      *)
(* 1, 2, 3, ... into blocks.  A block reaches the handler intact, with or  *)
(* without a header in its blob, or spoilt: its frame cut short, or its    *)
(* metadata without "uncompressedsize" (dict_ref then yields 0).           *)
(***************************************************************************)
EXTENDS Decompress, SequencesExt

CONSTANTS
    MaxSent,    \* bound: bytes of the stream that are sent
    MaxBlock,   \* bound: bytes in a block
    FrameLen    \* bound: bytes in a frame

VARIABLES
    sent,       \* bytes sent so far, in intact and in spoilt blocks
    intact      \* those of them that were sent in intact blocks

mcvars == <<running, faulted, localWriteBufferSize, byteQueue, compressedin,
            uncompressed, out, sent, intact>>

CutShort(msg) == [msg EXCEPT !.compressedsize = @ - 1, !.blob = Front(@)]
Unlabelled(msg) == [msg EXCEPT !.uncompressedsize = 0]

Arrive ==
    \E u \in 1..MaxBlock, hasheader \in BOOLEAN :
        LET msg == BlockMessage(Run(sent, u), FrameLen, hasheader) IN
        /\ sent + u <= MaxSent
        /\ sent' = sent + u
        /\ \/ /\ compressedin' = Append(compressedin, msg)
              /\ intact' = intact \cup (sent + 1)..(sent + u)
           \/ /\ compressedin' = Append(compressedin, CutShort(msg))
              /\ UNCHANGED intact
           \/ /\ compressedin' = Append(compressedin, Unlabelled(msg))
              /\ UNCHANGED intact
        /\ UNCHANGED <<running, faulted, localWriteBufferSize, byteQueue,
                       uncompressed, out>>

MCInit == Init /\ sent = 0 /\ intact = {}

MCNext == Arrive \/ (Next /\ UNCHANGED <<sent, intact>>)

MCSpec == MCInit /\ [][MCNext]_mcvars /\ Fairness

-----------------------------------------------------------------------------
Got == out \o byteQueue

Waiting == UNION {Range(Payload(compressedin[k])) : k \in 1..Len(compressedin)}

(* Over stops and restarts and between spoilt blocks, the bytes of every   *)
(* intact block are queued once, whole and in order: what the stream and   *)
(* byteQueue hold is increasing and misses nothing that has been handled.  *)
IntactBlocksSurvive ==
    /\ \A i, j \in 1..Len(Got) : i < j => Got[i] < Got[j]
    /\ Range(Got) = intact \ Waiting

(* With sendMsg, the messages on "uncompressed" are the same bytes in the  *)
(* same order as the stream; without it, nothing is published.             *)
MessagesMatchStream ==
    FlattenSeq(uncompressed) = IF SendMsg THEN Got ELSE <<>>

(* The stream carries whole items, so a residue smaller than an item is    *)
(* the only thing that a block left running withholds in the end.          *)
Drains ==
    <>[]running => <>[]( /\ compressedin = <<>>
                         /\ Len(byteQueue) < ItemSize
                         /\ Len(out) % ItemSize = 0 )

=============================================================================
