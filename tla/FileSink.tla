------------------------------ MODULE FileSink ------------------------------
(***************************************************************************)
(* The CompressedFileSink block with its base class file_sink_base: the    *)
(* message handler writes every message as a record, a CompressionHeader   *)
(* and the frame, through a stdio stream with a buffer of its own.         *)
(*                                                                         *)
(* The block's thread runs the handler and stop; the application calls     *)
(* open, close and set_unbuffered from another thread.  open, close and    *)
(* the handler hold d_mutex throughout, so each of them is one step.       *)
(***************************************************************************)
EXTENDS ZStd

CONSTANTS
    Names,   \* the files
    File,    \* the one the block is made with
    Before,  \* bytes that are in File when it is opened for appending
    NULL

ASSUME FileSinkAssumption ==
    /\ File \in Names
    /\ Before \in Seq(Bytes)
    /\ NULL \notin [name : Names, at : Nat, buffer : Seq(Bytes)]

VARIABLES
    process,         \* the block's: "alive", "destroyed" or "killed"
    running,         \* the flowgraph has started the block
    disk,            \* what the system holds of each file
    d_fp, d_new_fp,  \* NULL, or a stream: its file, position and buffer
    d_updated, d_append, d_unbuffered,
    handles,         \* streams opened and not closed
    compressedin     \* messages waiting for the handler

kvars == <<process, running, disk, d_fp, d_new_fp, d_updated, d_append,
           d_unbuffered, handles, compressedin>>

Opened(name) == [name |-> name, at |-> 0, buffer |-> <<>>]
Count(fp) == IF fp = NULL THEN 0 ELSE 1

(* The base class opens the file, the constructor opens it again, closes   *)
(* the first stream and installs the second.  It ignores what open returns,*)
(* so the block may be left without a stream.                              *)
Init ==
    /\ process = "alive" /\ running = TRUE
    /\ d_append \in BOOLEAN /\ d_unbuffered \in BOOLEAN
    /\ disk = [name \in Names |->
                 IF name = File /\ d_append THEN Before ELSE <<>>]
    /\ d_fp \in {Opened(File), NULL} /\ d_new_fp = NULL
    /\ handles = Count(d_fp)
    /\ d_updated = FALSE
    /\ compressedin = <<>>

-----------------------------------------------------------------------------
(* The bytes of a file once some are written at a position, or at its end  *)
(* if it is open for appending; a gap before them reads as zeros.          *)
Written(bytes, at, new) ==
    LET from == IF d_append THEN Len(bytes) ELSE at
        upto == IF from + Len(new) > Len(bytes) THEN from + Len(new) ELSE Len(bytes)
    IN  [i \in 1..upto |->
           IF i \in from + 1 .. from + Len(new) THEN new[i - from]
           ELSE IF i <= Len(bytes) THEN bytes[i] ELSE [kind |-> "zero"]]

(* disk once the first n of the bytes a stream has buffered are written.   *)
Flushed(buffer, n) ==
    [disk EXCEPT ![d_fp.name] = Written(@, d_fp.at, SubSeq(buffer, 1, n))]

(* Mutation: the frame alone is written, the header of the blob is not.    *)
Record_NoHeader(msg) == SubSeq(msg.blob, Skip(msg) + 1, Len(msg.blob))

(* What the handler writes: a header if the blob does not begin with one,  *)
(* and the blob.                                                           *)
Record(msg) ==
    (IF msg.hasheader THEN <<>>
     ELSE Header(msg.uncompressedsize, msg.compressedsize)) \o msg.blob

(* Mutation: an unbuffered stream is not flushed either. *)
Pending_Kept(buffer) == 0..Len(buffer)

(* How many bytes of its buffer the stream may have written when the       *)
(* handler returns: all of them with fflush, else any, as stdio likes.     *)
Pending(buffer) == IF d_unbuffered THEN {Len(buffer)} ELSE 0..Len(buffer)

CompressedIn ==
    /\ process = "alive" /\ running
    /\ compressedin # <<>>
    /\ compressedin' = Tail(compressedin)
    /\ \/ d_fp = NULL /\ UNCHANGED <<disk, d_fp>>
       \/ /\ d_fp # NULL
          /\ LET buffer == d_fp.buffer \o Record(Head(compressedin)) IN
             \E n \in Pending(buffer) :
               /\ disk' = Flushed(buffer, n)
               /\ d_fp' = [d_fp EXCEPT !.at = @ + n,
                                       !.buffer = SubSeq(buffer, n + 1, Len(buffer))]
    /\ UNCHANGED <<process, running, d_new_fp, d_updated, d_append, d_unbuffered, handles>>

-----------------------------------------------------------------------------
(* Mutation: open does not close the stream it replaces. *)
HandlesAfterOpen_Leak(fp) == handles + Count(fp)

HandlesAfterOpen(fp) == handles - Count(d_new_fp) + Count(fp)

(* open creates or truncates the file at once, but its stream is only      *)
(* installed by do_update; there is none if fdopen fails.                  *)
Open(name) ==
    /\ process = "alive"
    /\ disk' = IF d_append THEN disk ELSE [disk EXCEPT ![name] = <<>>]
    /\ d_new_fp' \in {Opened(name), NULL}
    /\ handles' = HandlesAfterOpen(d_new_fp')
    /\ d_updated' = TRUE
    /\ UNCHANGED <<process, running, d_fp, d_append, d_unbuffered, compressedin>>

CloseEffect ==
    /\ d_new_fp' = NULL
    /\ handles' = handles - Count(d_new_fp)
    /\ d_updated' = TRUE
    /\ UNCHANGED <<process, disk, d_fp, d_append, d_unbuffered, compressedin>>

Close == process = "alive" /\ CloseEffect /\ UNCHANGED running

SetUnbuffered ==
    /\ process = "alive"
    /\ d_unbuffered' = ~d_unbuffered
    /\ UNCHANGED <<process, running, disk, d_fp, d_new_fp, d_updated, d_append,
                   handles, compressedin>>

(* stop calls close. *)
Stop == process = "alive" /\ running /\ CloseEffect /\ running' = FALSE

(* The flowgraph is started again. *)
Start ==
    /\ process = "alive" /\ ~running
    /\ running' = TRUE
    /\ UNCHANGED <<process, disk, d_fp, d_new_fp, d_updated, d_append, d_unbuffered,
                   handles, compressedin>>

(* The destructors: close again, and then fclose of d_fp writes the rest.  *)
Destroy ==
    /\ process = "alive" /\ ~running
    /\ process' = "destroyed"
    /\ disk' = IF d_fp = NULL THEN disk ELSE Flushed(d_fp.buffer, Len(d_fp.buffer))
    /\ d_fp' = NULL /\ d_new_fp' = NULL
    /\ handles' = handles - Count(d_fp) - Count(d_new_fp)
    /\ d_updated' = TRUE
    /\ UNCHANGED <<running, d_append, d_unbuffered, compressedin>>

(* The process is killed, perhaps in the middle of the handler, when stdio *)
(* has written some of the bytes it was given.                             *)
Kill ==
    /\ process = "alive"
    /\ process' = "killed"
    /\ IF d_fp = NULL \/ compressedin = <<>> \/ ~running THEN UNCHANGED disk
       ELSE LET buffer == d_fp.buffer \o Record(Head(compressedin)) IN
            \E n \in 0..Len(buffer) : disk' = Flushed(buffer, n)
    /\ d_fp' = NULL /\ d_new_fp' = NULL /\ handles' = 0
    /\ UNCHANGED <<running, d_updated, d_append, d_unbuffered, compressedin>>

Application == (\E name \in Names : Open(name)) \/ Close \/ SetUnbuffered

Next == CompressedIn \/ Application \/ Stop \/ Start \/ Destroy \/ Kill

Spec == Init /\ [][Next]_kvars

(* Types; a stream that waits to be installed has nothing in its buffer.   *)
TypeOK ==
    /\ process \in {"alive", "destroyed", "killed"} /\ running \in BOOLEAN
    /\ \A fp \in {d_fp, d_new_fp} : fp # NULL => fp.name \in Names /\ fp.at \in Nat
    /\ d_fp # NULL => d_fp.buffer \in Seq(Bytes)
    /\ d_new_fp # NULL => d_new_fp.buffer = <<>>
    /\ d_updated \in BOOLEAN /\ d_append \in BOOLEAN /\ d_unbuffered \in BOOLEAN
    /\ compressedin \in Seq(Messages)

(* Every stream that was opened is in use, waiting to be used, or closed.  *)
NoStreamLeaks == handles = Count(d_fp) + Count(d_new_fp)

=============================================================================
