----------------------------- MODULE MCFileSink -----------------------------
(***************************************************************************)
(* FileSink closed by a sender for TLC, with what the properties need to   *)
(* remember of the past.                                                   *)
(***************************************************************************)
EXTENDS FileSink, SequencesExt

CONSTANTS
    MaxSent,   \* bound: messages sent
    MaxCalls,  \* bound: calls of the application, and restarts
    FrameLen   \* bound: bytes in a frame

VARIABLES
    sent,       \* number of messages sent
    handled,    \* messages the handler had a stream for
    durable,    \* how many of them were handled by the last unbuffered call
    calls,      \* number of calls of the application, and restarts
    truncated,  \* File was opened again and not for appending
    target      \* the file open opened last, NULL after close or stop

mcvars == <<kvars, sent, handled, durable, calls, truncated, target>>

Existing == Header(1, 1) \o Frame(<<0>>, 1)

MCInit ==
    /\ Init
    /\ sent = 0 /\ handled = <<>> /\ durable = 0 /\ calls = 0
    /\ truncated = FALSE /\ target = File

Arrive ==
    /\ process = "alive" /\ sent < MaxSent
    /\ sent' = sent + 1
    /\ \E hasheader \in BOOLEAN :
         compressedin' = Append(compressedin,
                                BlockMessage(Run(sent, 1), FrameLen, hasheader))
    /\ UNCHANGED <<process, running, disk, d_fp, d_new_fp, d_updated, d_append,
                   d_unbuffered, handles, handled, durable, calls, truncated, target>>

Thread ==
    /\ \/ /\ CompressedIn
          /\ handled' = IF d_fp = NULL THEN handled ELSE Append(handled, Head(compressedin))
          /\ durable' = IF d_unbuffered THEN Len(handled') ELSE durable
          /\ UNCHANGED target
       \/ Stop /\ target' = NULL /\ UNCHANGED <<handled, durable>>
       \/ Destroy /\ durable' = Len(handled) /\ target' = NULL /\ UNCHANGED handled
       \/ Kill /\ UNCHANGED <<handled, durable, target>>
    /\ UNCHANGED <<sent, calls, truncated>>

Caller ==
    /\ calls < MaxCalls
    /\ calls' = calls + 1
    /\ \/ \E name \in Names :
            /\ Open(name)
            /\ target' = IF d_new_fp' = NULL THEN target ELSE name
            /\ truncated' = (truncated \/ (name = File /\ ~d_append))
       \/ Close /\ target' = NULL /\ UNCHANGED truncated
       \/ (SetUnbuffered \/ Start) /\ UNCHANGED <<target, truncated>>
    /\ UNCHANGED <<sent, handled, durable>>

MCNext == Arrive \/ Thread \/ Caller

MCSpec == MCInit /\ [][MCNext]_mcvars

-----------------------------------------------------------------------------
(* The file format: a header and a frame for each message, whatever its    *)
(* blob begins with.                                                       *)
Chained(msgs) ==
    FlattenSeq([k \in 1..Len(msgs) |->
                  Header(msgs[k].uncompressedsize, msgs[k].compressedsize)
                    \o SubSeq(msgs[k].blob, Skip(msgs[k]) + 1, Len(msgs[k].blob))])

Old == IF d_append THEN Before ELSE <<>>

(* As far as it has been written, the file is a chain of records of the    *)
(* messages in the order they came, behind what was there before: a block  *)
(* that is killed at any moment leaves whole records and at most one       *)
(* broken off at the end.  (Unless the application opens the same file     *)
(* again and so truncates it under the block.)                             *)
FileIsChain ==
    ~truncated =>
      \E next \in {<<>>} \cup {<<compressedin[k]>> : k \in {1} \cap DOMAIN compressedin} :
        IsPrefix(disk[File], Old \o Chained(handled \o next))

(* What was handled while the block was unbuffered, and everything once    *)
(* the block has been destroyed, is in the file and survives a kill.       *)
Durable ==
    ~truncated =>
      Len(disk[File]) >= Len(Old \o Chained(SubSeq(handled, 1, durable)))

(* "Closes current output file and ignores any output until open is called *)
(* to connect to another file": a message goes to the file opened last, or *)
(* to none.                                                                *)
Holds(name) == IF d_fp # NULL /\ d_fp.name = name
               THEN Written(disk[name], d_fp.at, d_fp.buffer) ELSE disk[name]

OutputWhereTold ==
    [][CompressedIn => \A name \in Names : name # target => Holds(name)' = Holds(name)]_mcvars

=============================================================================
