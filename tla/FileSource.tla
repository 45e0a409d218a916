----------------------------- MODULE FileSource -----------------------------
(***************************************************************************)
(* The CompressedFileSource block: work reads records from a file, a       *)
(* CompressionHeader and the frame it announces, decompresses them into    *)
(* byteQueue and hands out whole requests from it.                         *)
(*                                                                         *)
(* The block's thread calls work and stop.  Another thread, the            *)
(* application's, calls open, close and seek at any time: open and close   *)
(* wait for fp_mutex, which work holds while it reads, seek takes no lock, *)
(* and neither does stop.  A call of work is a step per record it reads    *)
(* the header or the data of, and where work and stop close a stream, what *)
(* they put in its place is a step of its own: until then the stream can   *)
(* still be used.                                                          *)
(***************************************************************************)
EXTENDS ZStd

CONSTANTS
    Names,       \* the files
    File,        \* the one the block is made with
    ItemSize,    \* itemsize: bytes of one stream item
    MaxItems,    \* the largest noutput_items the scheduler passes to work
    StreamRoom,  \* bound: bytes of output considered
    BufferSize,  \* 64000: first size of both buffers
    SeekPoints,  \* the values of seek_point the application uses
    NULL

ASSUME FileSourceAssumption ==
    /\ File \in Names
    /\ ItemSize \in Nat \ {0} /\ MaxItems \in Nat /\ StreamRoom \in Nat
    /\ BufferSize \in Nat /\ BufferSize >= HeaderLen
    /\ SeekPoints \subseteq Int
    /\ NULL \notin [name : Names, at : Nat]

VARIABLES
    content,               \* the bytes of each file: never changed
    status,                \* of the block in the flowgraph
    faulted,               \* undefined behaviour has been reached
    d_fp, d_new_fp,        \* NULL, or the name and the position of a stream
    d_updated, d_repeat,
    handles,               \* streams opened and not closed
    pc,                    \* where the call of work or stop is
    noi,                   \* bytes that call is to produce
    header,                \* what it read as the header of the record, or NULL
    localWriteBufferSize, compressedBufferSize,
    byteQueue,
    out                    \* the output stream so far

fileVars == <<d_fp, d_new_fp, d_updated, d_repeat, handles>>
bufferVars == <<localWriteBufferSize, compressedBufferSize>>
callVars == <<pc, noi, header>>
rvars == <<content, status, faulted, fileVars, callVars, bufferVars, byteQueue, out>>

Whences == {"SEEK_SET", "SEEK_CUR", "SEEK_END"}

Opened(name) == [name |-> name, at |-> 0]
Count(fp) == IF fp = NULL THEN 0 ELSE 1

(* The constructor, which opens File and installs it at once. *)
Init ==
    /\ content \in [Names -> Seq(Bytes)]
    /\ status = "running"
    /\ faulted = FALSE
    /\ d_fp = Opened(File) /\ d_new_fp = NULL
    /\ d_updated = FALSE /\ d_repeat \in BOOLEAN
    /\ handles = 1
    /\ pc = "idle" /\ noi = 0
    /\ header = NULL
    /\ localWriteBufferSize = BufferSize /\ compressedBufferSize = BufferSize
    /\ byteQueue = <<>> /\ out = <<>>

-----------------------------------------------------------------------------
(* The application's calls. *)

(* fp_mutex is held by do_update, and by work from Lock to its return. *)
Unlocked == pc \in {"idle", "locking", "stopping"}

(* The stream in d_fp is closed: do_update and stop close it before they   *)
(* put another value there; and so it is with d_new_fp in stop.            *)
FpClosed == pc \in {"updating", "stopping"}
NewFpClosed == pc = "clearing"

(* Mutation: open does not set d_updated. *)
Open_NotUpdated(name, repeat) ==
    /\ Unlocked /\ ~faulted
    /\ d_new_fp' = Opened(name)
    /\ handles' = handles - Count(d_new_fp) + 1
    /\ d_repeat' = repeat
    /\ UNCHANGED <<content, status, faulted, d_fp, d_updated, callVars, bufferVars,
                   byteQueue, out>>

Open(name, repeat) ==
    /\ Unlocked /\ ~faulted
    /\ d_new_fp' = Opened(name)
    /\ handles' = handles - Count(d_new_fp) + 1
    /\ d_updated' = TRUE
    /\ d_repeat' = repeat
    /\ UNCHANGED <<content, status, faulted, d_fp, callVars, bufferVars, byteQueue, out>>

(* open throws because fdopen fails, when it has closed the stream that    *)
(* was waiting to be installed.                                            *)
OpenFails ==
    /\ Unlocked /\ ~faulted
    /\ d_new_fp # NULL
    /\ d_new_fp' = NULL
    /\ handles' = handles - 1
    /\ UNCHANGED <<content, status, faulted, d_fp, d_updated, d_repeat, callVars,
                   bufferVars, byteQueue, out>>

Close ==
    /\ Unlocked /\ ~faulted
    /\ d_new_fp' = NULL
    /\ handles' = handles - Count(d_new_fp)
    /\ d_updated' = TRUE
    /\ UNCHANGED <<content, status, faulted, d_fp, d_repeat, callVars, bufferVars,
                   byteQueue, out>>

(* open and close find the stream in d_new_fp that stop has just closed,   *)
(* and close it again.                                                     *)
ClosedTwice ==
    /\ NewFpClosed /\ ~faulted
    /\ faulted' = TRUE
    /\ UNCHANGED <<content, status, fileVars, callVars, bufferVars, byteQueue, out>>

(* The position in the compressed file, from its beginning, from where the *)
(* stream is or from its end.                                              *)
Target(seek_point, whence) ==
    seek_point * ItemSize
      + CASE whence = "SEEK_SET" -> 0
          [] whence = "SEEK_CUR" -> d_fp.at
          [] whence = "SEEK_END" -> Len(content[d_fp.name])

(* fseek fails before the beginning of the file, but not behind its end. *)
Seek(seek_point, whence) ==
    /\ ~faulted
    /\ IF d_fp = NULL \/ FpClosed
       THEN faulted' = TRUE /\ UNCHANGED d_fp
       ELSE /\ d_fp' = IF Target(seek_point, whence) < 0 THEN d_fp
                       ELSE [d_fp EXCEPT !.at = Target(seek_point, whence)]
            /\ UNCHANGED faulted
    /\ UNCHANGED <<content, status, d_new_fp, d_updated, d_repeat, handles, callVars,
                   bufferVars, byteQueue, out>>

-----------------------------------------------------------------------------
(* The block's thread. *)

(* Mutation: do_update does not close the stream it replaces. *)
HandlesAfterUpdate_Leak == handles

(* do_update closes the stream, if there is one. *)
HandlesAfterUpdate == handles - Count(d_fp)

(* Mutation: work does not test for a file. *)
GoOn_NoCheck(fp) == pc' = "locking" /\ UNCHANGED status

(* work throws if do_update leaves no file. *)
GoOn(fp) ==
    IF fp = NULL
    THEN status' = "threw" /\ pc' = "idle"
    ELSE pc' = "locking" /\ UNCHANGED status

(* work begins with do_update, which closes d_fp if there is something to  *)
(* be put in its place.                                                    *)
WorkBegin ==
    \E n \in 1..MaxItems :
        /\ status = "running" /\ ~faulted /\ pc = "idle"
        /\ Len(out) + n * ItemSize <= StreamRoom
        /\ noi' = n * ItemSize
        /\ IF d_updated
           THEN pc' = "updating" /\ handles' = HandlesAfterUpdate /\ UNCHANGED status
           ELSE GoOn(d_fp) /\ UNCHANGED handles
        /\ UNCHANGED <<content, faulted, d_fp, d_new_fp, d_updated, d_repeat, header,
                       bufferVars, byteQueue, out>>

(* do_update installs what open or close left for it. *)
Install ==
    /\ pc = "updating" /\ ~faulted
    /\ d_fp' = d_new_fp /\ d_new_fp' = NULL
    /\ d_updated' = FALSE
    /\ GoOn(d_new_fp)
    /\ UNCHANGED <<content, faulted, d_repeat, handles, noi, header, bufferVars,
                   byteQueue, out>>

Lock ==
    /\ pc = "locking" /\ ~faulted
    /\ pc' = "loop"
    /\ UNCHANGED <<content, status, faulted, fileVars, noi, header, bufferVars, byteQueue, out>>

(* Mutation: what is left over is dropped with the request. *)
Remainder_Dropped == <<>>

Remainder == SubSeq(byteQueue, noi + 1, Len(byteQueue))

(* work returns all it was asked for. *)
Return ==
    /\ pc = "loop" /\ ~faulted
    /\ Len(byteQueue) >= noi
    /\ out' = out \o SubSeq(byteQueue, 1, noi)
    /\ byteQueue' = Remainder
    /\ pc' = "idle"
    /\ UNCHANGED <<content, status, faulted, fileVars, noi, header, bufferVars>>

(* What fread yields when asked for n bytes; it moves the position by that.*)
Fread(n) ==
    SubSeq(content[d_fp.name], d_fp.at + 1,
           IF d_fp.at + n <= Len(content[d_fp.name])
           THEN d_fp.at + n ELSE Len(content[d_fp.name]))

(* Mutation: at the end of the file the position is not set back. *)
EndOfFile_NoRewind(got) ==
    /\ pc' = "idle"
    /\ IF d_repeat THEN UNCHANGED <<status, d_fp>>
       ELSE status' = "done" /\ UNCHANGED d_fp

(* Mutation: the end of the file is not reported. *)
EndOfFile_NotDone(got) ==
    /\ pc' = "idle"
    /\ IF d_repeat
       THEN d_fp' = [d_fp EXCEPT !.at = 0] /\ UNCHANGED status
       ELSE d_fp' = [d_fp EXCEPT !.at = @ + got] /\ UNCHANGED status

(* got bytes were read, less than asked for: work gives up the request,    *)
(* and returns WORK_DONE or, with repeat, 0 after going back to the first  *)
(* record.                                                                 *)
EndOfFile(got) ==
    /\ pc' = "idle"
    /\ IF d_repeat
       THEN d_fp' = [d_fp EXCEPT !.at = 0] /\ UNCHANGED status
       ELSE status' = "done" /\ d_fp' = [d_fp EXCEPT !.at = @ + got]

(* Mutation: a buffer is replaced by a smaller one. *)
Larger_Any(m, n) == n

(* The size of a buffer of m bytes that has been made to hold n. *)
Larger(m, n) == IF m > n THEN m ELSE n

ReadHeader ==
    LET bytes == Fread(HeaderLen) IN
    /\ pc = "loop" /\ ~faulted
    /\ Len(byteQueue) < noi
    /\ localWriteBufferSize >= HeaderLen
    /\ \/ /\ Len(bytes) < HeaderLen
          /\ EndOfFile(Len(bytes))
          /\ UNCHANGED <<header, bufferVars>>
       \/ /\ Len(bytes) = HeaderLen
          /\ header' \in HeaderValues(bytes)
          /\ localWriteBufferSize' = Larger(localWriteBufferSize, header'.uncompressed_size)
          /\ compressedBufferSize' = Larger(compressedBufferSize, header'.compressed_size)
          /\ d_fp' = [d_fp EXCEPT !.at = @ + HeaderLen]
          /\ pc' = "data"
          /\ UNCHANGED status
    /\ UNCHANGED <<content, faulted, d_new_fp, d_updated, d_repeat, handles, noi,
                   byteQueue, out>>

(* The header is read into a buffer that stop has freed. *)
ReadHeaderFault ==
    /\ pc = "loop" /\ ~faulted
    /\ Len(byteQueue) < noi
    /\ localWriteBufferSize < HeaderLen
    /\ faulted' = TRUE
    /\ UNCHANGED <<content, status, fileVars, callVars, bufferVars, byteQueue, out>>

(* Mutation: decompress is told the wrong size of the frame. *)
Decoded_ShortFrame(bytes) ==
    Decompress(header.uncompressed_size, SubSeq(bytes, 1, Len(bytes) - 1))

(* What the data of a record is decompressed to, nothing if that fails. *)
Decoded(bytes) == Decompress(header.uncompressed_size, bytes)

ReadData ==
    LET bytes == Fread(header.compressed_size) IN
    /\ pc = "data" /\ ~faulted
    /\ \/ /\ Len(bytes) < header.compressed_size
          /\ EndOfFile(Len(bytes))
          /\ UNCHANGED byteQueue
       \/ /\ Len(bytes) = header.compressed_size
          /\ byteQueue' = byteQueue \o Decoded(bytes)
          /\ d_fp' = [d_fp EXCEPT !.at = @ + header.compressed_size]
          /\ pc' = "loop"
          /\ UNCHANGED status
    /\ header' = NULL
    /\ UNCHANGED <<content, faulted, d_new_fp, d_updated, d_repeat, handles, noi,
                   bufferVars, out>>

(* The thread ends, at the end of the file and after an exception too, and *)
(* stop frees everything but byteQueue; it does not take fp_mutex.         *)
StopClose ==
    /\ status # "stopped" /\ pc = "idle" /\ ~faulted
    /\ pc' = "stopping"
    /\ handles' = handles - Count(d_fp)
    /\ UNCHANGED <<content, status, faulted, d_fp, d_new_fp, d_updated, d_repeat, noi,
                   header, bufferVars, byteQueue, out>>

FreeBuffers ==
    /\ localWriteBufferSize' = 0 /\ compressedBufferSize' = 0
    /\ status' = "stopped" /\ pc' = "idle"

(* It forgets the stream it has closed and closes the next, if there is one. *)
StopForget ==
    /\ pc = "stopping" /\ ~faulted
    /\ d_fp' = NULL
    /\ handles' = handles - Count(d_new_fp)
    /\ IF d_new_fp = NULL THEN FreeBuffers
       ELSE pc' = "clearing" /\ UNCHANGED <<status, bufferVars>>
    /\ UNCHANGED <<content, faulted, d_new_fp, d_updated, d_repeat, noi, header,
                   byteQueue, out>>

StopFree ==
    /\ pc = "clearing" /\ ~faulted
    /\ d_new_fp' = NULL
    /\ FreeBuffers
    /\ UNCHANGED <<content, faulted, d_fp, d_updated, d_repeat, handles, noi, header,
                   byteQueue, out>>

(* The flowgraph is started again. *)
Start ==
    /\ status = "stopped" /\ pc = "idle" /\ ~faulted
    /\ status' = "running"
    /\ UNCHANGED <<content, faulted, fileVars, callVars, bufferVars, byteQueue, out>>

Work == WorkBegin \/ Install \/ Lock \/ Return \/ ReadHeader \/ ReadHeaderFault \/ ReadData

Stop == StopClose \/ StopForget \/ StopFree

Application ==
    \/ \E name \in Names, repeat \in BOOLEAN : Open(name, repeat)
    \/ OpenFails \/ Close \/ ClosedTwice
    \/ \E seek_point \in SeekPoints, whence \in Whences : Seek(seek_point, whence)

Next == Work \/ Stop \/ Start \/ Application

Spec == Init /\ [][Next]_rvars

(* The thread calls work again and again, and a call of work or stop goes  *)
(* on to its end.                                                          *)
Fairness == WF_rvars(Work \/ StopForget \/ StopFree)

(* Types; work goes on only with a file, and reads data behind a header. *)
TypeOK ==
    /\ status \in {"running", "done", "threw", "stopped"}
    /\ pc \in {"idle", "updating", "locking", "loop", "data", "stopping", "clearing"}
    /\ \A fp \in {d_fp, d_new_fp} : fp # NULL => fp \in [name : Names, at : Nat]
    /\ pc \in {"locking", "loop", "data"} => d_fp # NULL
    /\ pc = "clearing" => d_fp = NULL /\ d_new_fp # NULL
    /\ byteQueue \in Seq(Nat) /\ out \in Seq(Nat)

(* Every stream that was opened is in use, waiting to be used, or closed,  *)
(* and none is closed that is already.                                     *)
NoStreamLeaks ==
    handles = (IF FpClosed THEN 0 ELSE Count(d_fp))
            + (IF NewFpClosed THEN 0 ELSE Count(d_new_fp))

=============================================================================
