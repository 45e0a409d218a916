---------------------------- MODULE FileSource_proofs ----------------------------
(***************************************************************************)
(* Type correctness and the accounting of streams for every behaviour of   *)
(* the file source and its callers, what can lead to undefined behaviour,  *)
(* when work throws, and which blocks are played in which order, for files *)
(* of any records.                                                         *)
(***************************************************************************)
EXTENDS MCFileSource, ZStd_proofs

Streams == [name : Names, at : Nat]
HeaderFields == [uncompressed_size : Nat, compressed_size : Nat]

(* A stream, or none. *)
Placed(fp) == fp = NULL \/ fp \in Streams

(* What TypeOK leaves open, and that a call of work is in a running block. *)
Details ==
    /\ content \in [Names -> Seq(Bytes)]
    /\ noi \in Nat
    /\ localWriteBufferSize \in Nat /\ compressedBufferSize \in Nat
    /\ pc = "data" => header \in HeaderFields
    /\ pc \in {"updating", "locking", "loop", "data"} => status = "running"

Kinds ==
    /\ status \in {"running", "done", "threw", "stopped"}
    /\ pc \in {"idle", "updating", "locking", "loop", "data", "stopping", "clearing"}

Files ==
    /\ Placed(d_fp) /\ Placed(d_new_fp)
    /\ pc \in {"locking", "loop", "data"} => d_fp # NULL
    /\ pc = "clearing" => d_fp = NULL /\ d_new_fp # NULL

Queues == byteQueue \in Seq(Nat) /\ out \in Seq(Nat)

IndInv == Kinds /\ Files /\ Queues /\ Details /\ NoStreamLeaks

-----------------------------------------------------------------------------
(* Reading. *)

LEMMA Moved ==
    ASSUME NEW fp \in Streams, NEW n \in Nat
    PROVE  /\ [fp EXCEPT !.at = n] \in Streams
           /\ [fp EXCEPT !.at = n].name = fp.name
           /\ [fp EXCEPT !.at = n].at = n
BY DEF Streams

LEMMA StreamIsThere ==
    ASSUME NEW fp \in Streams, FileSourceAssumption
    PROVE  fp # NULL
BY DEF FileSourceAssumption, Streams

(* What fread yields is a part of the file, and nothing behind its end;    *)
(* when it yields the bytes it was asked for, they lie in the file.        *)
LEMMA FreadPart ==
    ASSUME content \in [Names -> Seq(Bytes)], d_fp \in Streams, NEW n \in Nat
    PROVE  /\ Fread(n) \in Seq(Bytes)
           /\ Len(Fread(n)) = n => n = 0 \/ d_fp.at + n <= Len(content[d_fp.name])
<1> DEFINE file == content[d_fp.name]
           last == IF d_fp.at + n <= Len(file) THEN d_fp.at + n ELSE Len(file)
<1>1. file \in Seq(Bytes) /\ d_fp.at \in Nat BY DEF Streams
<1>2. Fread(n) = SubSeq(file, d_fp.at + 1, last) BY DEF Fread
<1> HIDE DEF file
<1>3. last \in Nat /\ last <= Len(file) BY <1>1 DEF file
<1>4. \A i \in (d_fp.at + 1)..last : file[i] \in Bytes BY <1>1, <1>3
<1>5. /\ SubSeq(file, d_fp.at + 1, last) \in Seq(Bytes)
      /\ Len(SubSeq(file, d_fp.at + 1, last))
           = IF d_fp.at + 1 <= last THEN last - d_fp.at ELSE 0
  BY <1>1, <1>3, <1>4, SubSeqProperties, SMTT(30)
<1>6. (IF d_fp.at + 1 <= last THEN last - d_fp.at ELSE 0) = n
        => n = 0 \/ d_fp.at + n <= Len(file)
  BY <1>1, <1>3
<1> QED BY <1>2, <1>5, <1>6 DEF file

LEMMA HeaderValuesType ==
    ASSUME ZStdAssumption, NEW bytes \in Seq(Bytes), Len(bytes) = HeaderLen
    PROVE  HeaderValues(bytes) \subseteq HeaderFields
<1>1. bytes[1] \in Bytes BY DEF ZStdAssumption
<1>2. 0..WordSize - 1 \subseteq Nat BY DEF ZStdAssumption
<1>3. CASE /\ bytes[1].kind = "header"
           /\ bytes = Header(bytes[1].uncompressed_size, bytes[1].compressed_size)
  <2>1. bytes[1].uncompressed_size \in Nat /\ bytes[1].compressed_size \in Nat
    BY <1>1, <1>3 DEF Bytes
  <2> QED BY <1>3, <2>1 DEF HeaderValues, HeaderFields
<1>4. CASE ~(/\ bytes[1].kind = "header"
             /\ bytes = Header(bytes[1].uncompressed_size, bytes[1].compressed_size))
  BY <1>2, <1>4 DEF HeaderValues, HeaderFields
<1> QED BY <1>3, <1>4

LEMMA DecompressType ==
    ASSUME NEW bytes \in Seq(Bytes), NEW capacity
    PROVE  Decompress(capacity, bytes) \in Seq(Nat)
<1>1. CASE IsFrame(bytes)
  <2>1. bytes[1] \in Bytes /\ bytes[1].kind = "frame" BY <1>1 DEF IsFrame
  <2>2. bytes[1].of \in Seq(Nat) BY <2>1 DEF Bytes
  <2> QED BY <2>2 DEF Decompress
<1>2. CASE ~IsFrame(bytes) BY <1>2 DEF Decompress
<1> QED BY <1>1, <1>2

-----------------------------------------------------------------------------
LEMMA InitEstablishes ==
    ASSUME FileSourceAssumption, ZStdAssumption, Init
    PROVE  IndInv
<1>1. Opened(File) \in Streams /\ Opened(File).at = 0
  BY DEF Opened, Streams, FileSourceAssumption
<1>2. Opened(File) # NULL BY <1>1, StreamIsThere
<1>3. Placed(d_fp) /\ Placed(d_new_fp) BY <1>1 DEF Init, Placed
<1> QED
  BY <1>2, <1>3 DEF Init, IndInv, Kinds, Files, Queues, Details, NoStreamLeaks, Count,
     FpClosed, NewFpClosed, FileSourceAssumption, ZStdAssumption

(* A step of the application that leaves the stream in use where it is, or *)
(* moves it.                                                               *)
LEMMA CallPreserves ==
    ASSUME IndInv, Placed(d_fp)', Placed(d_new_fp)', NoStreamLeaks',
           d_fp' = NULL => d_fp = NULL,
           pc = "clearing" => d_fp' = d_fp /\ d_new_fp' = d_new_fp,
           UNCHANGED <<content, status, callVars, bufferVars, byteQueue, out>>
    PROVE  IndInv'
BY DEF IndInv, Kinds, Files, Queues, Details, callVars, bufferVars

LEMMA OpenPreserves ==
    ASSUME FileSourceAssumption, IndInv, NEW n \in Names, NEW repeat, Open(n, repeat)
    PROVE  IndInv'
<1>1. Opened(n) \in Streams BY DEF Opened, Streams
<1>2. Opened(n) # NULL BY <1>1, StreamIsThere
<1>3. d_fp' = d_fp /\ d_new_fp' = Opened(n) /\ pc' = pc /\ pc # "clearing"
  BY DEF Open, Unlocked, callVars
<1>4. Placed(d_fp)' /\ Placed(d_new_fp)' BY <1>1, <1>3 DEF Placed, IndInv, Files
<1>5. NoStreamLeaks'
  BY <1>2, <1>3 DEF Open, IndInv, NoStreamLeaks, Count, FpClosed, NewFpClosed
<1> QED BY <1>3, <1>4, <1>5, CallPreserves DEF Open

LEMMA CloseOrFailPreserves ==
    ASSUME IndInv, Close \/ OpenFails
    PROVE  IndInv'
<1>1. d_fp' = d_fp /\ d_new_fp' = NULL /\ pc' = pc /\ pc # "clearing"
  BY DEF Close, OpenFails, Unlocked, callVars
<1>2. Placed(d_fp)' /\ Placed(d_new_fp)' BY <1>1 DEF Placed, IndInv, Files
<1>3. NoStreamLeaks'
  BY <1>1 DEF Close, OpenFails, IndInv, NoStreamLeaks, Count, FpClosed, NewFpClosed
<1> QED BY <1>1, <1>2, <1>3, CallPreserves DEF Close, OpenFails

(* Where a seek leaves the stream: nowhere else, or where it is told. *)
LEMMA SeekFacts ==
    ASSUME FileSourceAssumption, d_fp = NULL \/ d_fp \in Streams,
           content \in [Names -> Seq(Bytes)],
           NEW seek_point \in SeekPoints, NEW whence \in Whences, Seek(seek_point, whence)
    PROVE  \/ d_fp' = d_fp
           \/ /\ d_fp \in Streams /\ d_fp' \in Streams /\ d_fp'.name = d_fp.name
              /\ ~FpClosed
<1>1. CASE d_fp = NULL \/ FpClosed BY <1>1 DEF Seek
<1>2. CASE ~(d_fp = NULL \/ FpClosed)
  <2> DEFINE to == Target(seek_point, whence)
             scaled == seek_point * ItemSize
  <2>1. d_fp' = IF to < 0 THEN d_fp ELSE [d_fp EXCEPT !.at = to] BY <1>2 DEF Seek
  <2>2. seek_point \in Int /\ ItemSize \in Int BY DEF FileSourceAssumption
  <2>3. scaled \in Int BY <2>2
  <2>4. d_fp \in Streams BY <1>2
  <2>5. d_fp.at \in Int /\ Len(content[d_fp.name]) \in Int BY <2>4 DEF Streams
  <2>6. to = scaled + (CASE whence = "SEEK_SET" -> 0
                         [] whence = "SEEK_CUR" -> d_fp.at
                         [] whence = "SEEK_END" -> Len(content[d_fp.name]))
    BY DEF Target
  <2> HIDE DEF scaled
  <2>7. to \in Int BY <2>3, <2>5, <2>6 DEF Whences
  <2> HIDE DEF to
  <2>8. CASE to < 0 BY <2>1, <2>8
  <2>9. CASE ~(to < 0)
    <3>1. to \in Nat BY <2>7, <2>9
    <3> QED BY <1>2, <2>1, <2>4, <2>9, <3>1, Moved
  <2> QED BY <2>8, <2>9
<1> QED BY <1>1, <1>2

LEMMA SeekPreserves ==
    ASSUME FileSourceAssumption, IndInv, NEW seek_point \in SeekPoints,
           NEW whence \in Whences, Seek(seek_point, whence)
    PROVE  IndInv'
<1>1. /\ UNCHANGED <<d_new_fp, handles, content, status, callVars, bufferVars, byteQueue, out>>
      /\ pc' = pc
  BY DEF Seek, callVars
<1>2. \/ d_fp' = d_fp
      \/ d_fp \in Streams /\ d_fp' \in Streams
  BY SeekFacts DEF IndInv, Files, Placed, Details
<1>3. d_fp' = NULL <=> d_fp = NULL BY <1>2, StreamIsThere
<1>4. Placed(d_fp)' /\ Placed(d_new_fp)' BY <1>1, <1>2 DEF Placed, IndInv, Files
<1>5. NoStreamLeaks'
  BY <1>1, <1>3 DEF IndInv, NoStreamLeaks, Count, FpClosed, NewFpClosed
<1>6. pc = "clearing" => d_fp' = d_fp
  BY <1>3 DEF IndInv, Files
<1> QED BY <1>1, <1>3, <1>4, <1>5, <1>6, CallPreserves

-----------------------------------------------------------------------------
(* The steps of the block's thread. *)

LEMMA WorkBeginPreserves ==
    ASSUME FileSourceAssumption, IndInv, WorkBegin
    PROVE  IndInv'
<1>1. PICK n \in 1..MaxItems : noi' = n * ItemSize BY DEF WorkBegin
<1>2. n \in Nat /\ ItemSize \in Nat BY DEF FileSourceAssumption
<1>3. noi' \in Nat BY <1>1, <1>2
<1>4. /\ status = "running" /\ pc = "idle"
      /\ UNCHANGED <<content, d_fp, d_new_fp, header, localWriteBufferSize,
                     compressedBufferSize, byteQueue, out>>
      /\ \/ pc' = "updating" /\ handles' = handles - Count(d_fp) /\ status' = status
         \/ d_fp = NULL /\ status' = "threw" /\ pc' = "idle" /\ handles' = handles
         \/ d_fp # NULL /\ pc' = "locking" /\ status' = status /\ handles' = handles
  BY DEF WorkBegin, HandlesAfterUpdate, GoOn, bufferVars
<1>5. NoStreamLeaks'
  BY <1>4 DEF IndInv, NoStreamLeaks, Count, FpClosed, NewFpClosed
<1> QED BY <1>3, <1>4, <1>5 DEF IndInv, Kinds, Files, Placed, Queues, Details

LEMMA InstallPreserves ==
    ASSUME IndInv, Install
    PROVE  IndInv'
<1>1. /\ pc = "updating" /\ d_fp' = d_new_fp /\ d_new_fp' = NULL
      /\ UNCHANGED <<content, handles, noi, header, localWriteBufferSize,
                     compressedBufferSize, byteQueue, out>>
      /\ \/ d_new_fp = NULL /\ status' = "threw" /\ pc' = "idle"
         \/ d_new_fp # NULL /\ pc' = "locking" /\ status' = status
  BY DEF Install, GoOn, bufferVars
<1>2. NoStreamLeaks'
  BY <1>1 DEF IndInv, NoStreamLeaks, Count, FpClosed, NewFpClosed
<1> QED BY <1>1, <1>2 DEF IndInv, Kinds, Files, Placed, Queues, Details

LEMMA LockPreserves ==
    ASSUME IndInv, Lock
    PROVE  IndInv'
BY DEF Lock, IndInv, Kinds, Files, Placed, Queues, Details, NoStreamLeaks, Count,
   FpClosed, NewFpClosed, fileVars, bufferVars

LEMMA ReturnPreserves ==
    ASSUME IndInv, Return
    PROVE  IndInv'
<1>1. out' = out \o SubSeq(byteQueue, 1, noi)
      /\ byteQueue' = SubSeq(byteQueue, noi + 1, Len(byteQueue))
      /\ Len(byteQueue) >= noi
  BY DEF Return, Remainder
<1>2. byteQueue \in Seq(Nat) /\ out \in Seq(Nat) /\ noi \in Nat
  BY DEF IndInv, Queues, Details
<1>3. SubSeq(byteQueue, 1, noi) \in Seq(Nat) /\ byteQueue' \in Seq(Nat) BY <1>1, <1>2
<1>4. out' \in Seq(Nat) BY <1>1, <1>2, <1>3
<1> QED
  BY <1>3, <1>4 DEF Return, IndInv, Kinds, Files, Placed, Queues, Details, NoStreamLeaks,
     Count, FpClosed, NewFpClosed, fileVars, bufferVars

(* The end of the file. *)
LEMMA EndOfFileFacts ==
    ASSUME FileSourceAssumption, IndInv, pc \in {"loop", "data"}, NEW got \in Nat,
           EndOfFile(got)
    PROVE  /\ d_fp \in Streams /\ d_fp' \in Streams /\ d_fp'.name = d_fp.name
           /\ pc' = "idle" /\ status' \in {"running", "done"}
<1>1. d_fp \in Streams BY DEF IndInv, Files, Placed
<1>2. d_fp.at + got \in Nat BY <1>1 DEF Streams
<1>3. PICK n \in Nat : d_fp' = [d_fp EXCEPT !.at = n] BY <1>2 DEF EndOfFile
<1>4. d_fp' \in Streams /\ d_fp'.name = d_fp.name BY <1>1, <1>3, Moved
<1>5. pc' = "idle" /\ status' \in {"running", "done"}
  BY DEF EndOfFile, IndInv, Details
<1> QED BY <1>1, <1>4, <1>5

LEMMA ReadHeaderPreserves ==
    ASSUME FileSourceAssumption, ZStdAssumption, IndInv, ReadHeader
    PROVE  IndInv'
<1> DEFINE bytes == Fread(HeaderLen)
<1>1. d_fp \in Streams /\ HeaderLen \in Nat /\ content \in [Names -> Seq(Bytes)]
  BY DEF ReadHeader, IndInv, Files, Placed, Details, ZStdAssumption
<1>2. bytes \in Seq(Bytes) BY <1>1, FreadPart
<1>3. /\ pc = "loop"
      /\ UNCHANGED <<content, d_new_fp, handles, noi, byteQueue, out>>
      /\ \/ EndOfFile(Len(bytes)) /\ UNCHANGED <<header, bufferVars>>
         \/ /\ Len(bytes) = HeaderLen /\ header' \in HeaderValues(bytes)
            /\ localWriteBufferSize' = Larger(localWriteBufferSize, header'.uncompressed_size)
            /\ compressedBufferSize' = Larger(compressedBufferSize, header'.compressed_size)
            /\ d_fp' = [d_fp EXCEPT !.at = d_fp.at + HeaderLen]
            /\ pc' = "data" /\ status' = status
  BY DEF ReadHeader
<1>4. d_fp # NULL BY <1>1, StreamIsThere
<1> HIDE DEF bytes
<1>5. CASE EndOfFile(Len(bytes)) /\ UNCHANGED <<header, bufferVars>>
  <2>1. d_fp' \in Streams /\ pc' = "idle" /\ status' \in {"running", "done"}
    BY <1>2, <1>3, <1>5, EndOfFileFacts
  <2>2. d_fp' # NULL BY <2>1, StreamIsThere
  <2>3. NoStreamLeaks'
    BY <1>3, <1>4, <2>1, <2>2 DEF IndInv, NoStreamLeaks, Count, FpClosed, NewFpClosed
  <2>4. Placed(d_fp)' /\ Placed(d_new_fp)' BY <1>3, <2>1 DEF IndInv, Files, Placed
  <2> QED BY <1>3, <1>5, <2>1, <2>2, <2>3, <2>4
          DEF IndInv, Kinds, Files, Queues, Details, bufferVars
<1>6. CASE /\ Len(bytes) = HeaderLen /\ header' \in HeaderValues(bytes)
           /\ localWriteBufferSize' = Larger(localWriteBufferSize, header'.uncompressed_size)
           /\ compressedBufferSize' = Larger(compressedBufferSize, header'.compressed_size)
           /\ d_fp' = [d_fp EXCEPT !.at = d_fp.at + HeaderLen]
           /\ pc' = "data" /\ status' = status
  <2>1. header' \in HeaderFields BY <1>2, <1>6, HeaderValuesType
  <2>2. header'.uncompressed_size \in Nat /\ header'.compressed_size \in Nat
    BY <2>1 DEF HeaderFields
  <2>3. localWriteBufferSize' \in Nat /\ compressedBufferSize' \in Nat
    BY <1>6, <2>2 DEF Larger, IndInv, Details
  <2>4. d_fp.at + HeaderLen \in Nat BY <1>1 DEF Streams
  <2>5. d_fp' \in Streams /\ d_fp'.name = d_fp.name /\ d_fp'.at = d_fp.at + HeaderLen
    BY <1>1, <1>6, <2>4, Moved
  <2>6. d_fp' # NULL BY <2>5, StreamIsThere
  <2>7. Placed(d_fp)' BY <2>5 DEF Placed
  <2>8. Placed(d_new_fp)' BY <1>3 DEF IndInv, Files, Placed
  <2>9. NoStreamLeaks'
    BY <1>3, <1>4, <1>6, <2>6 DEF IndInv, NoStreamLeaks, Count, FpClosed, NewFpClosed
  <2> QED BY <1>3, <1>6, <2>1, <2>3, <2>6, <2>7, <2>8, <2>9
          DEF IndInv, Kinds, Files, Queues, Details
<1> QED BY <1>3, <1>5, <1>6

LEMMA ReadDataPreserves ==
    ASSUME FileSourceAssumption, IndInv, ReadData
    PROVE  IndInv'
<1> DEFINE size == header.compressed_size
           bytes == Fread(size)
<1>1. d_fp \in Streams /\ content \in [Names -> Seq(Bytes)] /\ size \in Nat
  BY DEF ReadData, IndInv, Files, Placed, Details, HeaderFields
<1> HIDE DEF size
<1>2. bytes \in Seq(Bytes) BY <1>1, FreadPart
<1>3. /\ pc = "data"
      /\ UNCHANGED <<content, d_new_fp, handles, noi, bufferVars, out>>
      /\ \/ EndOfFile(Len(bytes)) /\ byteQueue' = byteQueue
         \/ /\ Len(bytes) = size /\ byteQueue' = byteQueue \o Decoded(bytes)
            /\ d_fp' = [d_fp EXCEPT !.at = d_fp.at + size]
            /\ pc' = "loop" /\ status' = status
  BY DEF ReadData, size
<1>4. d_fp # NULL BY <1>1, StreamIsThere
<1> HIDE DEF bytes
<1>5. CASE EndOfFile(Len(bytes)) /\ byteQueue' = byteQueue
  <2>1. d_fp' \in Streams /\ pc' = "idle" /\ status' \in {"running", "done"}
    BY <1>2, <1>3, <1>5, EndOfFileFacts
  <2>2. d_fp' # NULL BY <2>1, StreamIsThere
  <2>3. NoStreamLeaks'
    BY <1>3, <1>4, <2>1, <2>2 DEF IndInv, NoStreamLeaks, Count, FpClosed, NewFpClosed
  <2>4. Placed(d_fp)' /\ Placed(d_new_fp)' BY <1>3, <2>1 DEF IndInv, Files, Placed
  <2> QED BY <1>3, <1>5, <2>1, <2>2, <2>3, <2>4
          DEF IndInv, Kinds, Files, Queues, Details, bufferVars
<1>6. CASE /\ Len(bytes) = size /\ byteQueue' = byteQueue \o Decoded(bytes)
           /\ d_fp' = [d_fp EXCEPT !.at = d_fp.at + size]
           /\ pc' = "loop" /\ status' = status
  <2>1. Decoded(bytes) \in Seq(Nat) BY <1>2, DecompressType DEF Decoded
  <2>2. byteQueue' \in Seq(Nat) BY <1>6, <2>1 DEF IndInv, Queues
  <2>3. d_fp.at + size \in Nat BY <1>1 DEF Streams
  <2>4. d_fp' \in Streams /\ d_fp'.name = d_fp.name /\ d_fp'.at = d_fp.at + size
    BY <1>1, <1>6, <2>3, Moved
  <2>5. d_fp' # NULL BY <2>4, StreamIsThere
  <2>6. Placed(d_fp)' BY <2>4 DEF Placed
  <2>7. Placed(d_new_fp)' BY <1>3 DEF IndInv, Files, Placed
  <2>8. NoStreamLeaks'
    BY <1>3, <1>4, <1>6, <2>5 DEF IndInv, NoStreamLeaks, Count, FpClosed, NewFpClosed
  <2> QED BY <1>3, <1>6, <2>2, <2>5, <2>6, <2>7, <2>8
          DEF IndInv, Kinds, Files, Queues, Details, bufferVars
<1> QED BY <1>3, <1>5, <1>6

LEMMA StopPreserves ==
    ASSUME IndInv, Stop
    PROVE  IndInv'
<1>1. CASE StopClose
  BY <1>1 DEF StopClose, IndInv, Kinds, Files, Placed, Queues, Details, NoStreamLeaks,
     Count, FpClosed, NewFpClosed, bufferVars
<1>2. CASE StopForget
  BY <1>2 DEF StopForget, FreeBuffers, IndInv, Kinds, Files, Placed, Queues, Details,
     NoStreamLeaks, Count, FpClosed, NewFpClosed, bufferVars
<1>3. CASE StopFree
  BY <1>3 DEF StopFree, FreeBuffers, IndInv, Kinds, Files, Placed, Queues, Details,
     NoStreamLeaks, Count, FpClosed, NewFpClosed
<1> QED BY <1>1, <1>2, <1>3 DEF Stop

LEMMA StartOrFaultPreserves ==
    ASSUME IndInv, Start \/ ReadHeaderFault \/ ClosedTwice \/ UNCHANGED rvars
    PROVE  IndInv'
BY DEF Start, ReadHeaderFault, ClosedTwice, rvars, IndInv, Kinds, Files, Placed, Queues,
   Details, NoStreamLeaks, Count, FpClosed, NewFpClosed, fileVars, callVars, bufferVars

LEMMA StepPreserves ==
    ASSUME FileSourceAssumption, ZStdAssumption, IndInv, [Next]_rvars
    PROVE  IndInv'
BY OpenPreserves, CloseOrFailPreserves, SeekPreserves, WorkBeginPreserves,
   InstallPreserves, LockPreserves, ReturnPreserves, ReadHeaderPreserves, ReadDataPreserves, StopPreserves,
   StartOrFaultPreserves DEF Next, Work, Application

LEMMA Invariance == Spec => []IndInv
<1>1. Init => IndInv BY InitEstablishes, FileSourceAssumption, ZStdAssumption
<1>2. IndInv /\ [Next]_rvars => IndInv'
  BY StepPreserves, FileSourceAssumption, ZStdAssumption
<1> QED BY <1>1, <1>2, PTL DEF Spec

(***************************************************************************)
(* The variables keep their types, work goes on with a file only and stop  *)
(* forgets every stream it has closed, whatever is called meanwhile.       *)
(***************************************************************************)
THEOREM TypeCorrect == Spec => []TypeOK
<1>1. IndInv => TypeOK
  BY DEF IndInv, Kinds, Files, Placed, Streams, Queues, Details, TypeOK
<1> QED BY <1>1, Invariance, PTL

(***************************************************************************)
(* Whatever open, close, stop and do_update are called in between, every   *)
(* stream that was opened is in use, waits to be used or has been closed.  *)
(***************************************************************************)
THEOREM StreamsAccounted == Spec => []NoStreamLeaks
<1>1. IndInv => NoStreamLeaks BY DEF IndInv
<1> QED BY <1>1, Invariance, PTL

-----------------------------------------------------------------------------
(* There is room for a header, or stop has freed the buffer; that is found *)
(* by work only in a block that was started again.                         *)
RoomInv ==
    \/ localWriteBufferSize >= HeaderLen
    \/ localWriteBufferSize = 0 /\ (status = "stopped" \/ restarted)

FaultInv ==
    IndInv /\ RoomInv /\ FaultsOnlyBy /\ restarted \in BOOLEAN /\ calls \in Nat

LEMMA MCStep ==
    ASSUME MCNext
    PROVE  Next
BY DEF MCNext, Thread, Caller, Next, Work, Application

LEMMA ThreadKeepsRoom ==
    ASSUME FaultInv, FileSourceAssumption, ZStdAssumption, Thread
    PROVE  RoomInv' /\ FaultsOnlyBy' /\ UNCHANGED <<restarted, calls>>
<1>1. restarted' = restarted /\ sought' = sought /\ calls' = calls BY DEF Thread
<1>2. CASE ReadHeader
  <2> DEFINE bytes == Fread(HeaderLen)
  <2>1. faulted' = faulted /\ ~faulted /\ pc = "loop" /\ localWriteBufferSize >= HeaderLen
    BY <1>2 DEF ReadHeader
  <2>2. localWriteBufferSize' >= localWriteBufferSize
    <3>1. CASE localWriteBufferSize' = localWriteBufferSize
      BY <3>1 DEF FaultInv, IndInv, Details
    <3>2. CASE /\ Len(bytes) = HeaderLen /\ header' \in HeaderValues(bytes)
               /\ localWriteBufferSize'
                    = Larger(localWriteBufferSize, header'.uncompressed_size)
      <4>1. d_fp \in Streams /\ HeaderLen \in Nat /\ content \in [Names -> Seq(Bytes)]
        BY <2>1 DEF FaultInv, IndInv, Files, Placed, Details, ZStdAssumption
      <4>2. bytes \in Seq(Bytes) BY <4>1, FreadPart
      <4> HIDE DEF bytes
      <4>3. header'.uncompressed_size \in Nat
        BY <3>2, <4>2, HeaderValuesType DEF HeaderFields
      <4> QED BY <3>2, <4>3 DEF Larger, FaultInv, IndInv, Details
    <3> QED BY <1>2, <3>1, <3>2 DEF ReadHeader, bufferVars
  <2>3. localWriteBufferSize \in Nat /\ localWriteBufferSize' \in Nat /\ HeaderLen \in Nat
    <3>1. IndInv' BY <1>2, ReadHeaderPreserves DEF FaultInv
    <3> QED BY <3>1 DEF FaultInv, IndInv, Details, ZStdAssumption
  <2> QED BY <1>1, <2>1, <2>2, <2>3 DEF RoomInv, FaultsOnlyBy
<1>3. CASE ReadHeaderFault
  <2>1. /\ pc = "loop" /\ localWriteBufferSize < HeaderLen
        /\ UNCHANGED <<status, pc, localWriteBufferSize>>
    BY <1>3 DEF ReadHeaderFault, bufferVars, callVars
  <2>2. status = "running" /\ localWriteBufferSize \in Nat /\ HeaderLen \in Nat
    BY <2>1 DEF FaultInv, IndInv, Details, ZStdAssumption
  <2>3. restarted /\ localWriteBufferSize = 0 BY <2>1, <2>2 DEF FaultInv, RoomInv
  <2> QED BY <1>1, <2>1, <2>3 DEF RoomInv, FaultsOnlyBy
<1>4. CASE WorkBegin \/ Install \/ Lock \/ Return \/ ReadData \/ StopClose
  <2>1. /\ ~faulted /\ faulted' = faulted
        /\ status = "stopped" => status' = "stopped"
        /\ localWriteBufferSize' = localWriteBufferSize
    BY <1>4 DEF WorkBegin, Install, Lock, Return, ReadData, StopClose, bufferVars, FaultInv,
       IndInv, Details
  <2> QED BY <1>1, <2>1 DEF FaultInv, RoomInv, FaultsOnlyBy
<1>5. CASE StopForget \/ StopFree
  <2>1. /\ ~faulted /\ faulted' = faulted
        /\ \/ localWriteBufferSize' = 0 /\ status' = "stopped"
           \/ localWriteBufferSize' = localWriteBufferSize /\ status' = status
    BY <1>5 DEF StopForget, StopFree, FreeBuffers, bufferVars
  <2> QED BY <1>1, <2>1 DEF FaultInv, RoomInv, FaultsOnlyBy
<1> QED BY <1>2, <1>3, <1>4, <1>5, <1>1 DEF Thread, Work, Stop

LEMMA CallerKeepsRoom ==
    ASSUME FaultInv, Caller
    PROVE  RoomInv' /\ FaultsOnlyBy' /\ restarted' \in BOOLEAN /\ calls' \in Nat
<1>1. restarted' = (restarted \/ status' # status) /\ calls' = calls + 1 BY DEF Caller
<1>2. calls' \in Nat /\ calls' > 0 BY <1>1 DEF FaultInv
<1>3. CASE Start
  <2>1. /\ status = "stopped" /\ status' = "running" /\ ~faulted /\ faulted' = faulted
        /\ localWriteBufferSize' = localWriteBufferSize
    BY <1>3 DEF Start, bufferVars
  <2> QED BY <1>1, <1>2, <2>1 DEF FaultInv, RoomInv, FaultsOnlyBy
<1>4. CASE (\E name \in Names, repeat \in BOOLEAN : Open(name, repeat))
             \/ OpenFails \/ Close
  <2>1. /\ ~faulted /\ faulted' = faulted
        /\ UNCHANGED <<status, localWriteBufferSize>>
    BY <1>4 DEF Open, OpenFails, Close, bufferVars
  <2> QED BY <1>1, <1>2, <2>1 DEF FaultInv, RoomInv, FaultsOnlyBy
<1>5. CASE ClosedTwice
  <2>1. pc = "clearing" /\ UNCHANGED <<status, pc, localWriteBufferSize>>
    BY <1>5 DEF ClosedTwice, NewFpClosed, bufferVars, callVars
  <2> QED BY <1>1, <1>2, <2>1 DEF FaultInv, RoomInv, FaultsOnlyBy, NewFpClosed
<1>6. CASE \E seek_point \in SeekPoints, whence \in Whences :
             Seek(seek_point, whence) /\ sought' = TRUE
  <2>1. /\ faulted' => (d_fp = NULL \/ FpClosed) /\ d_fp' = d_fp
        /\ UNCHANGED <<status, pc, localWriteBufferSize>>
    BY <1>6 DEF Seek, bufferVars, callVars
  <2> QED BY <1>1, <1>2, <1>6, <2>1 DEF FaultInv, RoomInv, FaultsOnlyBy, FpClosed
<1> QED BY <1>3, <1>4, <1>5, <1>6 DEF Caller

(***************************************************************************)
(* Undefined behaviour is reached only by a seek without a file, a seek    *)
(* between the fclose of a stream and what replaces it, an open or a close *)
(* in the middle of stop, and the first header that is read in a block     *)
(* started again after stop, for files of any content, sizes of buffers    *)
(* and requests and any number of calls.                                   *)
(***************************************************************************)
THEOREM FaultsExplained == MCSpec => []FaultsOnlyBy
<1>1. MCInit => FaultInv
  <2> SUFFICES ASSUME MCInit PROVE FaultInv OBVIOUS
  <2>1. Init /\ restarted = FALSE /\ calls = 0 BY DEF MCInit
  <2>2. IndInv BY <2>1, InitEstablishes, FileSourceAssumption, ZStdAssumption
  <2>3. RoomInv BY <2>1, FileSourceAssumption DEF Init, RoomInv, FileSourceAssumption
  <2>4. FaultsOnlyBy BY <2>1 DEF Init, FaultsOnlyBy
  <2> QED BY <2>1, <2>2, <2>3, <2>4 DEF FaultInv
<1>2. FaultInv /\ [MCNext]_mcvars => FaultInv'
  <2> SUFFICES ASSUME FaultInv, [MCNext]_mcvars PROVE FaultInv' OBVIOUS
  <2>1. CASE MCNext
    <3>1. IndInv' BY <2>1, MCStep, StepPreserves, FileSourceAssumption, ZStdAssumption
                  DEF FaultInv
    <3>2. CASE Thread
      BY <3>1, <3>2, ThreadKeepsRoom, FileSourceAssumption, ZStdAssumption DEF FaultInv
    <3>3. CASE Caller BY <3>1, <3>3, CallerKeepsRoom DEF FaultInv
    <3> QED BY <2>1, <3>2, <3>3 DEF MCNext
  <2>2. CASE UNCHANGED mcvars
    <3>1. UNCHANGED rvars /\ UNCHANGED <<sought, restarted, calls>> BY <2>2 DEF mcvars
    <3>2. IndInv' BY <3>1, StartOrFaultPreserves DEF FaultInv
    <3>3. UNCHANGED <<status, faulted, d_fp, pc, localWriteBufferSize>>
      BY <3>1 DEF rvars, fileVars, callVars, bufferVars
    <3> QED BY <3>1, <3>2, <3>3
            DEF FaultInv, RoomInv, FaultsOnlyBy, FpClosed, NewFpClosed
  <2> QED BY <2>1, <2>2
<1>3. FaultInv => FaultsOnlyBy BY DEF FaultInv
<1> QED BY <1>1, <1>2, <1>3, PTL DEF MCSpec

-----------------------------------------------------------------------------
(* The stream work will go on with. *)
Coming == IF d_updated THEN d_new_fp ELSE d_fp

(* After a call of open that succeeded there is a file for work to go on   *)
(* with, or one that do_update will install.                               *)
OpenInv ==
    /\ lastCall = "open" => Coming # NULL
    /\ d_new_fp # NULL \/ pc = "updating" => d_updated = TRUE

LEMMA ThreadKeepsOpen ==
    ASSUME FileSourceAssumption, ZStdAssumption, IndInv, OpenInv, Thread
    PROVE  OpenInv' /\ (status' = "threw" /\ status # "threw" => lastCall # "open")
<1>1. lastCall' = IF status' = "stopped" THEN "stop" ELSE lastCall BY DEF Thread
<1>2. CASE StopClose
  <2>1. UNCHANGED <<d_fp, d_new_fp, d_updated, status>> /\ pc' = "stopping"
    BY <1>2 DEF StopClose
  <2> QED BY <1>1, <2>1 DEF OpenInv, Coming
<1>3. CASE StopForget
  <2>1. /\ d_fp' = NULL /\ d_new_fp' = d_new_fp /\ d_updated' = d_updated
        /\ \/ d_new_fp = NULL /\ status' = "stopped" /\ pc' = "idle"
           \/ d_new_fp # NULL /\ status' = status /\ pc' = "clearing"
    BY <1>3 DEF StopForget, FreeBuffers
  <2> QED BY <1>1, <2>1 DEF OpenInv, Coming
<1>4. CASE StopFree BY <1>1, <1>4 DEF StopFree, FreeBuffers, OpenInv
<1>5. CASE WorkBegin
  <2>1. /\ UNCHANGED <<d_fp, d_new_fp, d_updated>> /\ status = "running"
        /\ \/ d_updated /\ pc' = "updating" /\ status' = status
           \/ ~d_updated /\ d_fp = NULL /\ pc' = "idle" /\ status' = "threw"
           \/ ~d_updated /\ d_fp # NULL /\ pc' = "locking" /\ status' = status
    BY <1>5 DEF WorkBegin, GoOn
  <2>2. Coming' = Coming BY <2>1 DEF Coming
  <2>3. lastCall' = lastCall BY <1>1, <2>1
  <2>4. d_updated => d_updated = TRUE \/ pc' = "updating" BY <2>1
  <2> QED BY <2>1, <2>2, <2>3 DEF OpenInv, Coming
<1>6. CASE Install
  <2>1. /\ pc = "updating" /\ d_fp' = d_new_fp /\ d_new_fp' = NULL /\ d_updated' = FALSE
        /\ \/ d_new_fp = NULL /\ pc' = "idle" /\ status' = "threw"
           \/ d_new_fp # NULL /\ pc' = "locking" /\ status' = status
    BY <1>6 DEF Install, GoOn
  <2>2. status = "running" /\ d_updated = TRUE BY <2>1 DEF IndInv, Details, OpenInv
  <2>3. Coming' = Coming BY <2>1, <2>2 DEF Coming
  <2>4. lastCall' = lastCall BY <1>1, <2>1, <2>2
  <2> QED BY <2>1, <2>2, <2>3, <2>4 DEF OpenInv, Coming
<1>7. CASE Lock \/ Return \/ ReadHeaderFault
  <2>1. UNCHANGED <<d_fp, d_new_fp, d_updated, status>> /\ pc' # "updating"
    BY <1>7 DEF Lock, Return, ReadHeaderFault, fileVars, callVars
  <2>2. Coming' = Coming BY <2>1 DEF Coming
  <2> QED BY <1>1, <2>1, <2>2 DEF OpenInv
<1>8. CASE ReadHeader \/ ReadData
  <2>1. UNCHANGED <<d_new_fp, d_updated>> /\ pc \in {"loop", "data"} /\ pc' # "updating"
    BY <1>8 DEF ReadHeader, ReadData, EndOfFile
  <2>2. status = "running" /\ d_fp # NULL BY <2>1 DEF IndInv, Details, Files
  <2>3. status' \in {"running", "done"}
    BY <1>8, <2>2 DEF ReadHeader, ReadData, EndOfFile
  <2>4. d_fp' # NULL
    <3>1. IndInv' BY <1>8, ReadHeaderPreserves, ReadDataPreserves
    <3>2. NoStreamLeaks' /\ NoStreamLeaks /\ handles' = handles
      BY <1>8, <3>1 DEF IndInv, ReadHeader, ReadData
    <3>3. pc' \in {"idle", "data", "loop"} BY <1>8 DEF ReadHeader, ReadData, EndOfFile
    <3> QED BY <2>1, <2>2, <3>2, <3>3 DEF NoStreamLeaks, Count, FpClosed, NewFpClosed
  <2>5. Coming # NULL => Coming' # NULL BY <2>1, <2>4 DEF Coming
  <2> QED BY <1>1, <2>1, <2>3, <2>5 DEF OpenInv
<1> QED BY <1>2, <1>3, <1>4, <1>5, <1>6, <1>7, <1>8 DEF Thread, Work, Stop

LEMMA CallerKeepsOpen ==
    ASSUME FileSourceAssumption, IndInv, OpenInv, Caller
    PROVE  OpenInv' /\ (status' = "threw" => status = "threw")
<1>1. CASE \E name \in Names, repeat \in BOOLEAN : Open(name, repeat)
  <2>1. PICK name \in Names : d_new_fp' = Opened(name) /\ d_updated' = TRUE /\ status' = status
    BY <1>1 DEF Open
  <2>2. Opened(name) # NULL BY StreamIsThere DEF Opened, Streams
  <2> QED BY <2>1, <2>2 DEF OpenInv, Coming
<1>2. CASE (OpenFails /\ lastCall' = "failed") \/ (Close /\ lastCall' = "close")
  BY <1>2 DEF OpenFails, Close, OpenInv, Unlocked, callVars
<1>3. CASE (Start \/ ClosedTwice) /\ UNCHANGED lastCall
  BY <1>3 DEF Start, ClosedTwice, fileVars, callVars, OpenInv, Coming
<1>4. CASE \E seek_point \in SeekPoints, whence \in Whences :
             Seek(seek_point, whence) /\ UNCHANGED lastCall
  <2>1. PICK seek_point \in SeekPoints, whence \in Whences :
               Seek(seek_point, whence) /\ UNCHANGED lastCall
    BY <1>4
  <2>2. UNCHANGED <<d_new_fp, d_updated, status, pc>> BY <2>1 DEF Seek, callVars
  <2>3. d_fp # NULL => d_fp' # NULL
    <3>1. \/ d_fp' = d_fp
          \/ d_fp \in Streams /\ d_fp' \in Streams
      BY <2>1, SeekFacts DEF IndInv, Files, Placed, Details
    <3> QED BY <3>1, StreamIsThere
  <2> QED BY <2>1, <2>2, <2>3 DEF OpenInv, Coming
<1> QED BY <1>1, <1>2, <1>3, <1>4 DEF Caller

(***************************************************************************)
(* work throws only if the file was closed, another call of open failed or *)
(* the block was stopped after the last call of open that succeeded,       *)
(* however the calls fall between the steps of work.                       *)
(***************************************************************************)
THEOREM ThrowsForLackOfFile == MCSpec => ThrowsOnlyWhenClosed
<1> DEFINE Inv == IndInv /\ OpenInv
<1> USE FileSourceAssumption, ZStdAssumption
<1>1. MCInit => Inv
  <2> SUFFICES ASSUME MCInit PROVE Inv OBVIOUS
  <2>1. Init BY DEF MCInit
  <2>2. IndInv BY <2>1, InitEstablishes
  <2>3. /\ d_fp = Opened(File) /\ d_updated = FALSE /\ Opened(File) \in Streams
        /\ d_new_fp = NULL /\ pc = "idle"
    BY <2>1 DEF Init, Opened, Streams, FileSourceAssumption
  <2> QED BY <2>2, <2>3, StreamIsThere DEF OpenInv, Coming
<1>2. Inv /\ [MCNext]_mcvars =>
        Inv' /\ (status' = "threw" /\ status # "threw" => lastCall # "open")
  <2> SUFFICES ASSUME Inv, [MCNext]_mcvars
               PROVE  Inv' /\ (status' = "threw" /\ status # "threw" => lastCall # "open")
    OBVIOUS
  <2>1. CASE MCNext
    <3>1. IndInv' BY <2>1, MCStep, StepPreserves
    <3>2. CASE Thread BY <3>1, <3>2, ThreadKeepsOpen
    <3>3. CASE Caller BY <3>1, <3>3, CallerKeepsOpen
    <3> QED BY <2>1, <3>2, <3>3 DEF MCNext
  <2>2. CASE UNCHANGED mcvars
    <3>1. UNCHANGED rvars /\ UNCHANGED lastCall BY <2>2 DEF mcvars
    <3>2. IndInv' BY <3>1, StartOrFaultPreserves
    <3>3. UNCHANGED <<status, d_fp, d_new_fp, d_updated, pc>>
      BY <3>1 DEF rvars, fileVars, callVars
    <3> QED BY <3>1, <3>2, <3>3 DEF OpenInv, Coming
  <2> QED BY <2>1, <2>2
<1> HIDE DEF Inv
<1> QED BY <1>1, <1>2, PTL DEF MCSpec, ThrowsOnlyWhenClosed

-----------------------------------------------------------------------------
(* How the files lie. *)
Entry(name, k) == recipe[name][k]
Records(name) == Len(recipe[name])
Offset(k) == k * RecordLen

(* Every byte of a file is one of a record, and the records lie one behind *)
(* the other.                                                              *)
FileOf(name) ==
    /\ Len(content[name]) =
         IF Records(name) = 0 THEN 0
         ELSE Offset(Records(name) - 1) + Entry(name, Records(name)).kept
    /\ \A k \in 1..Records(name) :
         /\ Offset(k - 1) + Entry(name, k).kept <= Len(content[name])
         /\ \A j \in 1..Entry(name, k).kept :
              content[name][Offset(k - 1) + j] = Record(<<name, k>>)[j]
    /\ \A p \in 1..Len(content[name]) :
         \E k \in 1..Records(name) : \E j \in 1..Entry(name, k).kept : p = Offset(k - 1) + j

Made == recipe \in Layouts /\ \A name \in Names : FileOf(name)

LEMMA Lengths ==
    /\ HeaderLen \in Nat \ {0} /\ FrameLen \in Nat \ {0} /\ FrameLen < WordSize
    /\ WordSize \in Nat \ {0} /\ RecordLen \in Nat \ {0} /\ RecordLen = HeaderLen + FrameLen
BY ZStdAssumption, LayoutsAssumption DEF ZStdAssumption, LayoutsAssumption, RecordLen

LEMMA Offsets ==
    ASSUME NEW k \in Nat
    PROVE  /\ Offset(k) \in Nat /\ Offset(0) = 0
           /\ Offset(k + 1) = Offset(k) + RecordLen
<1> DEFINE r == RecordLen
<1>1. r \in Nat BY Lengths
<1> HIDE DEF r
<1>2. k * r \in Nat /\ 0 * r = 0 BY <1>1
<1>3. (k + 1) * r = k * r + r BY <1>1
<1> QED BY <1>2, <1>3 DEF Offset, r

LEMMA RecordsCounted ==
    ASSUME recipe \in Layouts, NEW name \in Names
    PROVE  Records(name) \in Nat /\ DOMAIN recipe[name] = 1..Records(name)
<1>1. recipe \in [Names -> Seq(Entries)] BY LayoutsAssumption DEF LayoutsAssumption
<1>2. recipe[name] \in Seq(Entries) BY <1>1
<1> QED BY <1>2 DEF Records

LEMMA EntryFacts ==
    ASSUME recipe \in Layouts, NEW name \in Names, NEW k \in 1..Records(name)
    PROVE  /\ k \in Nat \ {0} /\ k <= Records(name) /\ Records(name) \in Nat
           /\ Entry(name, k).n \in Nat \ {0} /\ Entry(name, k).n < WordSize
           /\ Entry(name, k).intact \in BOOLEAN
           /\ Entry(name, k).kept \in 0..RecordLen
           /\ Entry(name, k).kept < RecordLen => k = Records(name)
           /\ Base(<<name, k>>) \in Nat
<1>1. recipe \in [Names -> Seq(Entries)] BY LayoutsAssumption DEF LayoutsAssumption
<1>2. recipe[name] \in Seq(Entries) BY <1>1
<1>3. Records(name) \in Nat /\ Entry(name, k) \in Entries BY <1>2 DEF Records, Entry
<1>7. k \in Nat \ {0} /\ k <= Records(name) BY <1>3
<1>4. <<name, k>> \in BlocksOf(recipe)
  <2>1. k \in DOMAIN recipe[name] BY <1>2 DEF Records
  <2>2. <<name, k>> \in {name} \X DOMAIN recipe[name] BY <2>1
  <2> QED BY <2>2 DEF BlocksOf
<1>5. /\ Base(<<name, k>>) \in Nat
      /\ Entry(name, k).kept < RecordLen => k = Records(name)
  BY <1>4, LayoutsAssumption DEF LayoutsAssumption, Entry, Records
<1>6. /\ Entry(name, k).n \in 1..WordSize - 1 /\ Entry(name, k).intact \in BOOLEAN
      /\ Entry(name, k).kept \in 0..RecordLen
  BY <1>3 DEF Entries
<1> QED BY <1>3, <1>5, <1>6, <1>7, Lengths

LEMMA BlockFacts ==
    ASSUME recipe \in Layouts, NEW name \in Names, NEW k \in 1..Records(name)
    PROVE  /\ Block(<<name, k>>) \in Seq(Nat)
           /\ Len(Block(<<name, k>>)) = Entry(name, k).n
           /\ \A i \in 1..Entry(name, k).n : Block(<<name, k>>)[i] = Base(<<name, k>>) + i
<1>1. Block(<<name, k>>) = Run(Base(<<name, k>>), Entry(name, k).n) BY DEF Block, Entry
<1>2. Base(<<name, k>>) \in Nat /\ Entry(name, k).n \in Nat BY EntryFacts
<1> QED BY <1>1, <1>2, RunIsSeq

LEMMA GoodFacts ==
    ASSUME recipe \in Layouts
    PROVE  /\ \A name \in Names : \A k \in GoodIn(name) :
                /\ k \in 1..Records(name) /\ <<name, k>> \in Good
                /\ Entry(name, k).intact /\ Entry(name, k).kept = RecordLen
           /\ \A name \in Names : \A k \in 1..Records(name) :
                Entry(name, k).intact /\ Entry(name, k).kept = RecordLen => k \in GoodIn(name)
           /\ \A b \in Good : \E name \in Names : \E k \in GoodIn(name) : b = <<name, k>>
<1>1. recipe \in [Names -> Seq(Entries)] BY LayoutsAssumption DEF LayoutsAssumption
<1>2. \A name \in Names : DOMAIN recipe[name] = 1..Records(name) BY <1>1 DEF Records
<1>3. ASSUME NEW name \in Names, NEW k \in GoodIn(name)
      PROVE  /\ k \in 1..Records(name) /\ <<name, k>> \in Good
             /\ Entry(name, k).intact /\ Entry(name, k).kept = RecordLen
  <2>1. k \in 1..Records(name) /\ Entry(name, k).intact /\ Entry(name, k).kept = RecordLen
    BY <1>2 DEF GoodIn, Entry
  <2>2. <<name, k>> \in {name} \X GoodIn(name) OBVIOUS
  <2> QED BY <2>1, <2>2 DEF Good
<1>4. ASSUME NEW name \in Names, NEW k \in 1..Records(name),
             Entry(name, k).intact, Entry(name, k).kept = RecordLen
      PROVE  k \in GoodIn(name)
  BY <1>2, <1>4 DEF GoodIn, Entry
<1>5. ASSUME NEW b \in Good
      PROVE  \E name \in Names : \E k \in GoodIn(name) : b = <<name, k>>
  <2>1. PICK name \in Names : b \in {name} \X GoodIn(name) BY DEF Good
  <2> QED BY <2>1
<1> QED BY <1>3, <1>4, <1>5

(* The bytes of different blocks have different numbers. *)
LEMMA NumbersApart ==
    ASSUME recipe \in Layouts, NEW b \in Good, NEW c \in Good,
           NEW i \in 1..Len(Block(b)), NEW j \in 1..Len(Block(c)), Base(b) + i = Base(c) + j
    PROVE  b = c /\ i = j
<1>1a. PICK m \in Names : \E k \in GoodIn(m) : b = <<m, k>> BY GoodFacts
<1>1. PICK k \in GoodIn(m) : b = <<m, k>> BY <1>1a
<1>2a. PICK n \in Names : \E l \in GoodIn(n) : c = <<n, l>> BY GoodFacts
<1>2. PICK l \in GoodIn(n) : c = <<n, l>> BY <1>2a
<1>3. k \in 1..Records(m) /\ l \in 1..Records(n) BY GoodFacts
<1>4. /\ Base(b) \in Nat /\ Base(c) \in Nat
      /\ Len(Block(b)) = Entry(m, k).n /\ Len(Block(c)) = Entry(n, l).n
      /\ Entry(m, k).n \in Nat /\ Entry(n, l).n \in Nat
  BY <1>1, <1>2, <1>3, EntryFacts, BlockFacts
<1>5. b \in BlocksOf(recipe) /\ c \in BlocksOf(recipe)
  <2>1. recipe \in [Names -> Seq(Entries)] BY LayoutsAssumption DEF LayoutsAssumption
  <2>2. k \in DOMAIN recipe[m] /\ l \in DOMAIN recipe[n] BY <1>3, <2>1 DEF Records
  <2>3. b \in {m} \X DOMAIN recipe[m] /\ c \in {n} \X DOMAIN recipe[n]
    BY <1>1, <1>2, <2>2
  <2> QED BY <2>3 DEF BlocksOf
<1>6. CASE b # c
  <2>1. Numbers(recipe, b) \cap Numbers(recipe, c) = {}
    BY <1>5, <1>6, LayoutsAssumption DEF LayoutsAssumption
  <2>2. /\ Numbers(recipe, b) = Base(b) + 1 .. Base(b) + Entry(m, k).n
        /\ Numbers(recipe, c) = Base(c) + 1 .. Base(c) + Entry(n, l).n
    BY <1>1, <1>2 DEF Numbers, Entry
  <2>3. Base(b) + i \in Numbers(recipe, b) BY <1>4, <2>2
  <2>4. Base(c) + j \in Numbers(recipe, c) BY <1>4, <2>2
  <2> QED BY <2>1, <2>3, <2>4
<1>7. CASE b = c BY <1>4, <1>7
<1> QED BY <1>6, <1>7

(* A record byte by byte. *)
LEMMA RecordBytes ==
    ASSUME recipe \in Layouts, NEW name \in Names, NEW k \in 1..Records(name)
    PROVE  LET e == Entry(name, k)
               r == Record(<<name, k>>)
               len == IF e.intact THEN FrameLen ELSE FrameLen + 1
           IN  /\ r \in Seq(Bytes) /\ Len(r) = e.kept
               /\ \A j \in 1..e.kept :
                    r[j] = IF j <= HeaderLen THEN Header(e.n, FrameLen)[j]
                           ELSE Frame(Block(<<name, k>>), len)[j - HeaderLen]
<1> DEFINE e == Entry(name, k)
           len == IF e.intact THEN FrameLen ELSE FrameLen + 1
           h == Header(e.n, FrameLen)
           f == Frame(Block(<<name, k>>), len)
           w == h \o f
           kept == e.kept
<1>1. Record(<<name, k>>) = SubSeq(w, 1, kept) BY DEF Record, Entry
<1>2. h \in Seq(Bytes) /\ Len(h) = HeaderLen
  BY ZStdAssumption, Lengths, EntryFacts, HeaderType
<1>3. len \in Nat /\ len >= FrameLen /\ FrameLen \in Nat BY Lengths
<1>4. f \in Seq(Bytes) /\ Len(f) = len BY <1>3, BlockFacts, FrameType
<1>5. kept \in 0..RecordLen /\ RecordLen = HeaderLen + FrameLen /\ HeaderLen \in Nat
  BY EntryFacts, Lengths
<1> HIDE DEF h, f, len, kept
<1>6. /\ w \in Seq(Bytes) /\ Len(w) = HeaderLen + len
      /\ \A j \in 1..(HeaderLen + len) : w[j] = IF j <= HeaderLen THEN h[j] ELSE f[j - HeaderLen]
  BY <1>2, <1>4, ConcatProperties
<1> HIDE DEF w
<1>7. kept \in Nat /\ kept <= HeaderLen + len BY <1>3, <1>5
<1>8. \A j \in 1..kept : w[j] \in Bytes /\ j \in 1..(HeaderLen + len) BY <1>3, <1>5, <1>6, <1>7
<1>9. /\ SubSeq(w, 1, kept) \in Seq(Bytes) /\ Len(SubSeq(w, 1, kept)) = kept
      /\ \A j \in 1..kept : SubSeq(w, 1, kept)[j] = w[j]
  BY <1>6, <1>7, <1>8, SubSeqProperties
<1>10. \A j \in 1..kept : SubSeq(w, 1, kept)[j] = IF j <= HeaderLen THEN h[j] ELSE f[j - HeaderLen]
  BY <1>6, <1>8, <1>9
<1> QED BY <1>1, <1>9, <1>10 DEF h, f, len, kept

(* The first m records of a file, as they lie one behind the other in s.  *)
Lies(s, name, m) ==
    /\ s \in Seq(Bytes)
    /\ Len(s) = IF m = 0 THEN 0 ELSE Offset(m - 1) + Entry(name, m).kept
    /\ \A k \in 1..m :
         /\ Offset(k - 1) + Entry(name, k).kept <= Len(s)
         /\ \A j \in 1..Entry(name, k).kept : s[Offset(k - 1) + j] = Record(<<name, k>>)[j]
    /\ \A p \in 1..Len(s) :
         \E k \in 1..m : \E j \in 1..Entry(name, k).kept : p = Offset(k - 1) + j

(* One record more lies behind the others, which are there to their ends. *)
LEMMA OneMoreLies ==
    ASSUME recipe \in Layouts, NEW name \in Names, NEW m \in Nat, m + 1 \in 1..Records(name),
           NEW s, Lies(s, name, m)
    PROVE  Lies(s \o Record(<<name, m + 1>>), name, m + 1)
<1>0. Records(name) \in Nat BY RecordsCounted
<1> DEFINE r == Record(<<name, m + 1>>)
           kept == Entry(name, m + 1).kept
           t == s \o r
           L == Len(s)
<1>1. r \in Seq(Bytes) /\ Len(r) = kept /\ kept \in Nat
  BY RecordBytes, EntryFacts
<1>2. s \in Seq(Bytes) /\ L \in Nat BY LenProperties DEF Lies
<1>3. L = Offset(m) /\ Offset(m) \in Nat
  <2>1. CASE m = 0 BY <2>1, Offsets DEF Lies
  <2>2. CASE m # 0
    <3>1. m \in 1..Records(name) /\ m # Records(name) /\ m - 1 \in Nat /\ (m - 1) + 1 = m
      BY <1>0, <2>2
    <3>2. Entry(name, m).kept = RecordLen
      <4>1. /\ Entry(name, m).kept \in 0..RecordLen /\ RecordLen \in Nat
            /\ ~(Entry(name, m).kept < RecordLen)
        BY <3>1, EntryFacts, Lengths
      <4> QED BY <4>1
    <3>3. Offset(m) = Offset(m - 1) + RecordLen /\ Offset(m) \in Nat BY <3>1, Offsets
    <3> QED BY <2>2, <3>2, <3>3 DEF Lies
  <2> QED BY <2>1, <2>2
<1> HIDE DEF r, kept, L
<1>4. /\ t \in Seq(Bytes) /\ Len(t) = L + kept
      /\ \A i \in 1..(L + kept) : t[i] = IF i <= L THEN s[i] ELSE r[i - L]
  <2>1. /\ t \in Seq(Bytes) /\ Len(t) = Len(s) + Len(r)
        /\ \A i \in 1..(Len(s) + Len(r)) :
             t[i] = IF i <= Len(s) THEN s[i] ELSE r[i - Len(s)]
    BY <1>1, <1>2, ConcatProperties
  <2> HIDE DEF t
  <2> QED BY <1>1, <2>1, Zenon DEF L
<1> HIDE DEF t
<1>5. (m + 1) - 1 = m /\ m + 1 # 0 OBVIOUS
<1>6. Len(t) = IF m + 1 = 0 THEN 0 ELSE Offset((m + 1) - 1) + Entry(name, m + 1).kept
  BY <1>3, <1>4, <1>5 DEF kept
<1>7. ASSUME NEW k \in 1..(m + 1)
      PROVE  /\ Offset(k - 1) + Entry(name, k).kept <= Len(t)
             /\ \A j \in 1..Entry(name, k).kept :
                  t[Offset(k - 1) + j] = Record(<<name, k>>)[j]
  <2>1. CASE k = m + 1
    <3>1. Offset(k - 1) = L /\ Entry(name, k).kept = kept /\ Record(<<name, k>>) = r
      BY <1>3, <1>5, <2>1 DEF kept, r
    <3>2. ASSUME NEW j \in 1..kept PROVE t[L + j] = r[j]
      <4>1. L + j \in 1..(L + kept) /\ ~(L + j <= L) /\ (L + j) - L = j BY <1>1, <1>2
      <4>2. t[L + j] = r[(L + j) - L] BY <1>4, <4>1
      <4> QED BY <4>1, <4>2
    <3> QED BY <1>1, <1>2, <1>4, <3>1, <3>2
  <2>2. CASE k # m + 1
    <3>1. k \in 1..m /\ k - 1 \in Nat /\ k \in 1..Records(name) BY <1>0, <2>2
    <3>2. /\ Offset(k - 1) + Entry(name, k).kept <= L
          /\ \A j \in 1..Entry(name, k).kept : s[Offset(k - 1) + j] = Record(<<name, k>>)[j]
      BY <3>1 DEF Lies, L
    <3>3. Offset(k - 1) \in Nat /\ Entry(name, k).kept \in Nat
      <4>1. Offset(k - 1) \in Nat BY <3>1, Offsets
      <4>2. Entry(name, k).kept \in 0..RecordLen BY <3>1, EntryFacts
      <4> QED BY <4>1, <4>2
    <3> DEFINE o == Offset(k - 1)
               e == Entry(name, k).kept
    <3>4. \A j \in 1..e : o + j \in 1..(L + kept) /\ o + j <= L
      <4>1. o \in Nat /\ e \in Nat /\ o + e <= L BY <3>2, <3>3
      <4> HIDE DEF o, e
      <4> QED BY <1>1, <1>2, <4>1
    <3>5. \A j \in 1..e : t[o + j] = s[o + j] BY <1>4, <3>4
    <3>6. o + e <= Len(t)
      <4>1. o \in Nat /\ e \in Nat /\ o + e <= L BY <3>2, <3>3
      <4> HIDE DEF o, e
      <4> QED BY <1>1, <1>2, <1>4, <4>1
    <3> QED BY <3>2, <3>5, <3>6
  <2> QED BY <2>1, <2>2
<1>8. ASSUME NEW p \in 1..Len(t)
      PROVE  \E k \in 1..(m + 1) : \E j \in 1..Entry(name, k).kept : p = Offset(k - 1) + j
  <2>1. CASE p <= L
    <3>1. p \in 1..L BY <1>1, <1>2, <1>4, <2>1
    <3>2. PICK k \in 1..m : \E j \in 1..Entry(name, k).kept : p = Offset(k - 1) + j
      BY <3>1 DEF Lies, L
    <3>3. k \in 1..(m + 1) OBVIOUS
    <3> QED BY <3>2, <3>3
  <2>2. CASE p > L
    <3>1. p - L \in 1..kept /\ p = L + (p - L) BY <1>1, <1>2, <1>4, <2>2
    <3>2. m + 1 \in 1..(m + 1) OBVIOUS
    <3>3. p - L \in 1..Entry(name, m + 1).kept /\ p = Offset((m + 1) - 1) + (p - L)
      BY <1>3, <1>5, <3>1 DEF kept
    <3> QED BY <3>2, <3>3
  <2> QED BY <1>1, <1>2, <1>4, <2>1, <2>2
<1> HIDE <1>7
<1>9. Lies(t, name, m + 1) BY <1>4, <1>6, <1>7, <1>8 DEF Lies
<1> QED BY <1>9 DEF t, r

(* The files are what the layout says. *)
LEMMA FilesMade ==
    ASSUME recipe \in Layouts, NEW name \in Names,
           content[name] = FlattenSeq([k \in DOMAIN recipe[name] |-> Record(<<name, k>>)])
    PROVE  FileOf(name)
<1> DEFINE n == Records(name)
           rs(m) == [k \in 1..m |-> Record(<<name, k>>)]
           S == {m \in Nat : m <= n => Lies(FlattenSeq(rs(m)), name, m)}
<1>1. recipe[name] \in Seq(Entries) /\ n \in Nat /\ DOMAIN recipe[name] = 1..n
  BY LayoutsAssumption DEF LayoutsAssumption, Records
<1>2. content[name] = FlattenSeq(rs(n)) BY <1>1
<1>3. \A m \in Nat : m <= n => rs(m) \in Seq(Seq(Bytes)) /\ Len(rs(m)) = m
  <2> SUFFICES ASSUME NEW m \in Nat, m <= n PROVE rs(m) \in Seq(Seq(Bytes)) /\ Len(rs(m)) = m
    OBVIOUS
  <2>1. \A k \in 1..m : Record(<<name, k>>) \in Seq(Bytes)
    <3> TAKE k \in 1..m
    <3>1. k \in 1..n BY <1>1
    <3> QED BY <3>1, RecordBytes
  <2>2. rs(m) \in [1..m -> Seq(Bytes)] BY <2>1
  <2> QED BY <2>2
<1>4. 0 \in S
  <2>1. rs(0) = <<>> BY <1>1, <1>3, EmptySeq
  <2>2. FlattenSeq(rs(0)) = <<>> BY <2>1, FlattenEmpty
  <2>3. <<>> \in Seq(Bytes) /\ Len(<<>>) = 0 OBVIOUS
  <2>4. Lies(<<>>, name, 0) BY <2>3 DEF Lies
  <2> QED BY <2>2, <2>4
<1>5. ASSUME NEW m \in Nat, m \in S PROVE m + 1 \in S
  <2> SUFFICES ASSUME m + 1 <= n PROVE Lies(FlattenSeq(rs(m + 1)), name, m + 1)
    OBVIOUS
  <2>1. m <= n /\ m + 1 \in 1..n /\ m + 1 \in Nat BY <1>1
  <2>2. Lies(FlattenSeq(rs(m)), name, m) BY <1>5, <2>1
  <2>3. /\ rs(m) \in Seq(Seq(Bytes)) /\ Len(rs(m)) = m
        /\ rs(m + 1) \in Seq(Seq(Bytes)) /\ Len(rs(m + 1)) = m + 1
    BY <1>3, <2>1
  <2>4. Record(<<name, m + 1>>) \in Seq(Bytes) BY <2>1, RecordBytes
  <2>5. rs(m + 1) = Append(rs(m), Record(<<name, m + 1>>))
    <3> DEFINE a == Append(rs(m), Record(<<name, m + 1>>))
    <3>1. /\ a \in Seq(Seq(Bytes)) /\ Len(a) = m + 1
          /\ \A i \in 1..m : a[i] = rs(m)[i]
          /\ a[m + 1] = Record(<<name, m + 1>>)
      <4> HIDE DEF rs
      <4> QED BY <2>3, <2>4, AppendProperties
    <3>2. \A i \in 1..(m + 1) : rs(m + 1)[i] = a[i]
      <4>1. \A i \in 1..(m + 1) : i \in 1..m \/ i = m + 1 OBVIOUS
      <4> HIDE DEF a
      <4> QED BY <3>1, <4>1
    <3> HIDE DEF a, rs
    <3>3. rs(m + 1) = a BY <2>3, <3>1, <3>2, SeqEqual
    <3> QED BY <3>3 DEF a
  <2> HIDE DEF rs
  <2>6. FlattenSeq(rs(m + 1)) = FlattenSeq(rs(m)) \o Record(<<name, m + 1>>)
    BY <2>3, <2>4, <2>5, FlattenAppend
  <2>7. Lies(FlattenSeq(rs(m)) \o Record(<<name, m + 1>>), name, m + 1)
    BY <2>1, <2>2, OneMoreLies
  <2> QED BY <2>6, <2>7
<1>6. n \in S
  <2> HIDE DEF S
  <2>1. Nat \subseteq S BY <1>4, <1>5, SetInduction
  <2> QED BY <1>1, <2>1
<1>7. Lies(content[name], name, n)
  <2>1. Lies(FlattenSeq(rs(n)), name, n) BY <1>1, <1>6
  <2> HIDE DEF rs
  <2> QED BY <1>2, <2>1
<1> QED BY <1>7 DEF Lies, FileOf

(* Files have a length. *)
LEMMA FileLength ==
    ASSUME recipe \in Layouts, NEW name \in Names, FileOf(name)
    PROVE  Len(content[name]) \in Nat
<1>1. CASE Records(name) = 0 BY <1>1 DEF FileOf
<1>2. CASE Records(name) # 0
  <2>1. Records(name) \in 1..Records(name) /\ Records(name) - 1 \in Nat
    BY <1>2, RecordsCounted
  <2>2. Entry(name, Records(name)).kept \in 0..RecordLen /\ Offset(Records(name) - 1) \in Nat
    BY <2>1, EntryFacts, Offsets
  <2> QED BY <1>2, <2>2 DEF FileOf
<1> QED BY <1>1, <1>2

(* What stands at a position of a file. *)
LEMMA ByteInRecord ==
    ASSUME recipe \in Layouts, NEW name \in Names, FileOf(name),
           NEW k \in 1..Records(name), NEW j \in 1..Entry(name, k).kept
    PROVE  LET byte == content[name][Offset(k - 1) + j]
               e == Entry(name, k)
           IN  IF j <= HeaderLen
               THEN byte = Header(e.n, FrameLen)[j] /\ byte.kind = "header"
               ELSE /\ byte.kind = "frame" /\ byte.of = Block(<<name, k>>)
                    /\ byte.len = (IF e.intact THEN FrameLen ELSE FrameLen + 1)
                    /\ byte.at = j - HeaderLen
                    /\ e.intact => byte = Frame(Block(<<name, k>>), FrameLen)[j - HeaderLen]
<1> DEFINE e == Entry(name, k)
           block == Block(<<name, k>>)
           len == IF e.intact THEN FrameLen ELSE FrameLen + 1
           byte == content[name][Offset(k - 1) + j]
<1>1. byte = IF j <= HeaderLen THEN Header(e.n, FrameLen)[j] ELSE Frame(block, len)[j - HeaderLen]
  <2>1. byte = Record(<<name, k>>)[j] BY DEF FileOf
  <2> QED BY <2>1, RecordBytes
<1>2. HeaderLen \in Nat /\ FrameLen \in Nat /\ RecordLen = HeaderLen + FrameLen BY Lengths
<1>3. e.kept \in 0..RecordLen /\ j \in Nat \ {0} /\ j <= RecordLen
  <2>1. e.kept \in 0..RecordLen BY EntryFacts
  <2> QED BY <1>2, <2>1
<1>4. CASE j <= HeaderLen
  <2>1. j \in 1..HeaderLen BY <1>2, <1>3, <1>4
  <2>2. Header(e.n, FrameLen)[j].kind = "header" BY <2>1 DEF Header
  <2> QED BY <1>1, <1>4, <2>2
<1>5. CASE ~(j <= HeaderLen)
  <2>1. j - HeaderLen \in 1..len BY <1>2, <1>3, <1>5
  <2> DEFINE i == j - HeaderLen
  <2> HIDE DEF block, i, len
  <2>2. Frame(block, len)[i] = [kind |-> "frame", of |-> block, len |-> len, at |-> i]
    BY <2>1 DEF Frame, i
  <2>3. byte = Frame(block, len)[i] BY <1>1, <1>5 DEF i
  <2> HIDE DEF byte
  <2>4. byte.kind = "frame" /\ byte.of = block /\ byte.len = len /\ byte.at = i
    BY <2>2, <2>3
  <2>5. e.intact => byte = Frame(block, FrameLen)[i] BY <2>3 DEF len
  <2> QED BY <1>5, <2>4, <2>5 DEF block, i, len, byte
<1> QED BY <1>4, <1>5

(* A position that lies in the file, and less than a record behind the     *)
(* start of one, lies in what there is of that record.                     *)
LEMMA RecordIsThere ==
    ASSUME recipe \in Layouts, NEW name \in Names, FileOf(name),
           NEW k \in 1..Records(name), NEW j \in 0..RecordLen,
           Offset(k - 1) + j <= Len(content[name])
    PROVE  j <= Entry(name, k).kept
<1> DEFINE kept == Entry(name, k).kept
           o == Offset(k - 1)
<1>1. kept \in 0..RecordLen /\ k \in Nat \ {0} BY EntryFacts
<1>2. o \in Nat /\ RecordLen \in Nat BY <1>1, Offsets, Lengths
<1>3. CASE kept < RecordLen
  <2>1. k = Records(name) /\ Records(name) # 0 BY <1>1, <1>3, EntryFacts
  <2>2. Len(content[name]) = o + kept BY <2>1 DEF FileOf
  <2> HIDE DEF o, kept
  <2>3. o + j <= o + kept BY <2>2 DEF o
  <2> QED BY <1>1, <1>2, <2>3 DEF kept
<1>4. CASE ~(kept < RecordLen)
  <2> HIDE DEF o, kept
  <2>1. kept = RecordLen BY <1>1, <1>2, <1>4
  <2> QED BY <1>2, <2>1 DEF kept
<1> QED BY <1>3, <1>4

(* Behind a record that is there to its end comes a header, or nothing. *)
LEMMA HeaderFollows ==
    ASSUME recipe \in Layouts, NEW name \in Names, FileOf(name),
           NEW k \in 1..Records(name), Entry(name, k).kept = RecordLen,
           Offset(k) + 1 <= Len(content[name])
    PROVE  content[name][Offset(k) + 1].kind = "header"
<1>1. k \in Nat \ {0} /\ Records(name) \in Nat /\ k <= Records(name) BY EntryFacts
<1>2. Offset(k) \in Nat /\ Offset(k) = Offset(k - 1) + RecordLen
  <2>1. k - 1 \in Nat /\ (k - 1) + 1 = k BY <1>1
  <2>2. Offset((k - 1) + 1) = Offset(k - 1) + RecordLen BY <2>1, Offsets
  <2> QED BY <1>1, <2>1, <2>2, Offsets
<1>3. k # Records(name)
  <2>1. ASSUME k = Records(name) PROVE FALSE
    <3>1. Len(content[name]) = Offset(k - 1) + RecordLen BY <1>1, <2>1 DEF FileOf
    <3>2. Len(content[name]) = Offset(k) BY <1>2, <3>1
    <3> QED BY <1>2, <3>2
  <2> QED BY <2>1
<1>4. k + 1 \in 1..Records(name) /\ (k + 1) - 1 = k BY <1>1, <1>3
<1>5. 1 \in 0..RecordLen /\ 1 <= HeaderLen BY Lengths
<1>6. Offset((k + 1) - 1) + 1 <= Len(content[name]) BY <1>4
<1>7. 1 <= Entry(name, k + 1).kept BY <1>4, <1>5, <1>6, RecordIsThere
<1>8. 1 \in 1..Entry(name, k + 1).kept
  <2>1. Entry(name, k + 1).kept \in 0..RecordLen BY <1>4, EntryFacts
  <2> QED BY <1>7, <2>1
<1>9. content[name][Offset((k + 1) - 1) + 1].kind = "header"
  BY <1>4, <1>5, <1>8, ByteInRecord
<1> QED BY <1>4, <1>9

(* Bytes behind the header of a record that are a frame are the frame of   *)
(* that record, which is a good one.                                       *)
LEMMA FrameOfRecord ==
    ASSUME recipe \in Layouts, NEW name \in Names, FileOf(name),
           NEW k \in 1..Records(name), NEW s \in Seq(Bytes), IsFrame(s),
           Offset(k - 1) + HeaderLen + Len(s) <= Len(content[name]),
           \A i \in 1..Len(s) : s[i] = content[name][Offset(k - 1) + HeaderLen + i]
    PROVE  k \in GoodIn(name) /\ Len(s) = FrameLen /\ s[1].of = Block(<<name, k>>)
<1> DEFINE o == Offset(k - 1)
           file == content[name]
           L == Len(s)
           kept == Entry(name, k).kept
           intact == Entry(name, k).intact
<1>1. /\ k \in Nat \ {0} /\ kept \in 0..RecordLen /\ intact \in BOOLEAN
      /\ RecordLen = HeaderLen + FrameLen /\ HeaderLen \in Nat /\ FrameLen \in Nat \ {0}
  BY EntryFacts, Lengths
<1>2. o \in Nat /\ Offset(k) = o + RecordLen /\ L \in Nat
  <2>1. k - 1 \in Nat /\ (k - 1) + 1 = k BY <1>1
  <2>2. Offset((k - 1) + 1) = Offset(k - 1) + RecordLen /\ Offset(k - 1) \in Nat BY <2>1, Offsets
  <2>3. L \in Nat BY LenProperties
  <2> QED BY <2>1, <2>2, <2>3
<1>3. L > 0 /\ s = Frame(s[1].of, L) /\ o + HeaderLen + L <= Len(file) /\ Len(file) \in Nat
  <2>1. Len(file) \in Nat BY FileLength
  <2> QED BY <2>1 DEF IsFrame
<1> HIDE DEF o, L, kept, intact
<1>4. \A i \in 1..L : s[i].kind = "frame" /\ s[i].len = L /\ s[i].at = i
  BY <1>3 DEF Frame
<1>5. \A i \in 1..L : s[i] = file[o + HeaderLen + i] BY DEF L, o
<1>6. HeaderLen + 1 \in 1..kept
  <2>1. HeaderLen + 1 \in 0..RecordLen /\ o + (HeaderLen + 1) <= Len(file)
    <3> DEFINE n == Len(file)
    <3>1. o + HeaderLen + L <= n /\ n \in Nat BY <1>3
    <3> HIDE DEF n
    <3>2. o + (HeaderLen + 1) <= n BY <1>1, <1>2, <1>3, <3>1
    <3> QED BY <1>1, <3>2 DEF n
  <2>2. HeaderLen + 1 <= kept BY <2>1, RecordIsThere DEF o, kept
  <2> QED BY <1>1, <2>2
<1>7. /\ s[1].of = Block(<<name, k>>)
      /\ s[1].len = IF intact THEN FrameLen ELSE FrameLen + 1
  <2>1. ~(HeaderLen + 1 <= HeaderLen) /\ o + (HeaderLen + 1) = o + HeaderLen + 1 BY <1>1, <1>2
  <2>2. /\ file[o + (HeaderLen + 1)].of = Block(<<name, k>>)
        /\ file[o + (HeaderLen + 1)].len = IF intact THEN FrameLen ELSE FrameLen + 1
    BY <1>6, <2>1, ByteInRecord DEF o, kept, intact
  <2>3. 1 \in 1..L BY <1>2, <1>3
  <2> QED BY <1>5, <2>1, <2>2, <2>3
<1>8. L = IF intact THEN FrameLen ELSE FrameLen + 1
  <2>1. 1 \in 1..L BY <1>2, <1>3
  <2>2. s[1].len = L BY <1>4, <2>1
  <2> QED BY <1>7, <2>2
<1>9. kept = RecordLen
  <2>1. FrameLen <= L BY <1>1, <1>8
  <2>2. RecordLen \in 0..RecordLen /\ o + RecordLen <= Len(file)
    <3> DEFINE n == Len(file)
    <3> HIDE DEF n
    <3>1. o + HeaderLen + L <= n /\ n \in Nat BY <1>3 DEF n
    <3>2. o + RecordLen <= n BY <1>1, <1>2, <2>1, <3>1
    <3> QED BY <1>1, <3>2 DEF n
  <2>3. RecordLen <= kept BY <2>2, RecordIsThere DEF o, kept
  <2> QED BY <1>1, <2>3
<1>10. ASSUME ~intact PROVE FALSE
  <2>1. L = FrameLen + 1 /\ FrameLen + 1 \in 1..L BY <1>1, <1>8, <1>10
  <2>2. s[FrameLen + 1].kind = "frame" BY <1>4, <2>1
  <2>3. o + HeaderLen + (FrameLen + 1) = Offset(k) + 1 BY <1>1, <1>2
  <2>4. Offset(k) + 1 <= Len(file) BY <1>1, <1>2, <1>3, <2>1
  <2>5. file[Offset(k) + 1].kind = "header" BY <1>9, <2>4, HeaderFollows DEF kept
  <2>6. s[FrameLen + 1] = file[Offset(k) + 1] BY <1>5, <2>1, <2>3
  <2> QED BY <2>2, <2>5, <2>6
<1>11. k \in GoodIn(name) BY <1>1, <1>9, <1>10, GoodFacts DEF kept, intact
<1>12. L = FrameLen BY <1>8, <1>10
<1> QED BY <1>7, <1>11, <1>12 DEF L

(* Bytes of a file that are a frame stand for one of its good blocks. *)
LEMMA FrameFound ==
    ASSUME recipe \in Layouts, NEW name \in Names, FileOf(name),
           NEW at \in Nat, NEW s \in Seq(Bytes), IsFrame(s), at + Len(s) <= Len(content[name]),
           \A i \in 1..Len(s) : s[i] = content[name][at + i]
    PROVE  \E k \in GoodIn(name) : s[1].of = Block(<<name, k>>)
<1> DEFINE L == Len(s)
<1>1. L \in Nat /\ L > 0 /\ s = Frame(s[1].of, L) BY LenProperties DEF IsFrame
<1>2. 1 \in 1..L /\ s[1].kind = "frame" /\ s[1].at = 1 BY <1>1 DEF Frame
<1>3. s[1] = content[name][at + 1] /\ at + 1 <= Len(content[name])
  <2>1. s[1] = content[name][at + 1] BY <1>2
  <2>2. at + 1 <= at + L BY <1>1
  <2> QED BY <1>1, <2>1, <2>2, RecordsCounted, FileLength
<1>4. at + 1 \in 1..Len(content[name]) BY <1>3, FileLength
<1>5. PICK k \in 1..Records(name) : \E j \in 1..Entry(name, k).kept : at + 1 = Offset(k - 1) + j
  BY <1>4 DEF FileOf
<1>6. PICK j \in 1..Entry(name, k).kept : at + 1 = Offset(k - 1) + j BY <1>5
<1>7. ~(j <= HeaderLen) /\ j - HeaderLen = 1
  <2> DEFINE byte == content[name][Offset(k - 1) + j]
  <2>1. byte = s[1] BY <1>3, <1>6
  <2>2. IF j <= HeaderLen THEN byte.kind = "header" ELSE byte.at = j - HeaderLen
    BY ByteInRecord
  <2> HIDE DEF byte
  <2> QED BY <1>2, <2>1, <2>2
<1>8. at = Offset(k - 1) + HeaderLen
  <2>1. k \in Nat \ {0} /\ HeaderLen \in Nat /\ Entry(name, k).kept \in 0..RecordLen
    BY EntryFacts, Lengths
  <2>2. k - 1 \in Nat BY <2>1
  <2>3. Offset(k - 1) \in Nat BY <2>2, Offsets
  <2>4. j \in Nat BY <2>1
  <2> QED BY <1>6, <1>7, <2>1, <2>3, <2>4
<1>9. s[1].of = Block(<<name, k>>) /\ k \in GoodIn(name) BY <1>8, FrameOfRecord
<1> QED BY <1>9

-----------------------------------------------------------------------------
(* What has been played, and where the stream stands in its file. *)

(* What is queued last is the end of block b. *)
EndsWith(b) ==
    \E i \in 1..Len(Got) : Begins(i, b) /\ i + Len(Block(b)) = Len(Got) + 1

(* The next good block of the file behind its first k records is j. *)
IsNext(name, k, j) == j > k /\ \A g \in GoodIn(name) : g <= k \/ j <= g

(* The stream has left k records of its file behind, and in a call of work *)
(* that is to read its data the header of the next one.                    *)
Behind(name, k) ==
    /\ d_fp.at <= Len(content[name])
    /\ IF pc = "data"
       THEN /\ k < Records(name) /\ d_fp.at = Offset(k) + HeaderLen
            /\ header = [uncompressed_size |-> Entry(name, k + 1).n,
                         compressed_size |-> FrameLen]
       ELSE d_fp.at = IF k = Records(name) THEN Len(content[name]) ELSE Offset(k)

(* The block that is played next from there may follow the last one, those *)
(* of the records left behind have been played, and until there is a call  *)
(* the last one is of the same file and not before them.                   *)
Ready(name, k) ==
    /\ \A b \in Good, j \in GoodIn(name) :
         EndsWith(b) /\ IsNext(name, k, j) => MayFollow(b, <<name, j>>)
    /\ calls = 0 =>
         /\ name = File
         /\ \A b \in Good : EndsWith(b) =>
              b[1] = File /\ \A g \in GoodIn(File) : g <= k => g <= b[2]
    /\ \A g \in GoodIn(name) : g <= k => \E i \in 1..Len(Got) : Begins(i, <<name, g>>)

Stands(name, k) ==
    /\ Behind(name, k) /\ Ready(name, k)
    /\ status = "done" => k = Records(name)

PositionInv ==
    ~sought /\ d_fp # NULL => \E k \in 0..Records(d_fp.name) : Stands(d_fp.name, k)

(* A stream that waits to be installed has not been read from. *)
WaitingInv ==
    /\ calls \in Nat
    /\ d_new_fp # NULL => d_new_fp.at = 0
    /\ calls = 0 => d_new_fp = NULL /\ ~d_updated

(* work reads on only while less is queued than it was asked for. *)
RequestInv ==
    /\ noi <= MaxItems * ItemSize
    /\ pc = "data" \/ status = "done" => Len(byteQueue) < noi
    /\ status = "done" /\ pc = "idle" => d_fp # NULL

PlayInv == IndInv /\ Made /\ PlaysInOrder /\ PositionInv /\ WaitingInv /\ RequestInv

(* The layout does not change. *)
LEMMA SameLayout ==
    ASSUME UNCHANGED <<recipe, content>>
    PROVE  /\ Good' = Good
           /\ \A name : /\ GoodIn(name)' = GoodIn(name)
                        /\ Records(name)' = Records(name)
                        /\ \A k : Entry(name, k)' = Entry(name, k)
           /\ \A b : Block(b)' = Block(b)
           /\ Made => Made'
<1>1. \A name : GoodIn(name)' = GoodIn(name) BY DEF GoodIn
<1>2. Good' = Good BY <1>1 DEF Good
<1>3. \A name : Records(name)' = Records(name) /\ \A k : Entry(name, k)' = Entry(name, k)
  BY DEF Records, Entry
<1>4. \A b : Block(b)' = Block(b) BY DEF Block
<1>5. \A b : Record(b)' = Record(b) BY <1>4 DEF Record
<1>6. Made => Made' BY <1>3, <1>5 DEF Made, FileOf
<1> QED BY <1>1, <1>2, <1>3, <1>4, <1>6

LEMMA SamePlayed ==
    ASSUME UNCHANGED <<recipe, content, Got>>, calls \in Nat, calls' \in Nat, calls <= calls'
    PROVE  /\ \A i, b : Begins(i, b)' <=> Begins(i, b)
           /\ \A b : EndsWith(b)' <=> EndsWith(b)
           /\ \A b, c : MayFollow(b, c) => MayFollow(b, c)'
<1>1. \A i, b : Begins(i, b)' <=> Begins(i, b) BY DEF Begins
<1>2. \A b : EndsWith(b)' <=> EndsWith(b) BY <1>1, SameLayout DEF EndsWith
<1>3. ASSUME NEW b, NEW c, MayFollow(b, c) PROVE MayFollow(b, c)'
  <2>1. calls > 0 => calls' > 0 OBVIOUS
  <2>2. GoodIn(b[1])' = GoodIn(b[1]) /\ GoodIn(c[1])' = GoodIn(c[1]) BY SameLayout
  <2> QED BY <1>3, <2>1, <2>2 DEF MayFollow
<1> QED BY <1>1, <1>2, <1>3

(* Nothing is played: the order stays. *)
LEMMA OrderStays ==
    ASSUME PlaysInOrder, UNCHANGED <<recipe, content, Got>>,
           calls \in Nat, calls' \in Nat, calls <= calls', sought => sought'
    PROVE  PlaysInOrder'
<1>1. (Got # <<>> => \E b \in Good : Begins(1, b))'
  BY SameLayout, SamePlayed DEF PlaysInOrder
<1>2. ASSUME NEW b \in Good, NEW i \in 1..Len(Got), Begins(i, b)
      PROVE  WholeFrom(i, b)'
  <2> DEFINE next == i + Len(Block(b))
  <2>1. WholeFrom(i, b) BY <1>2 DEF PlaysInOrder
  <2>2. Block(b)' = Block(b) /\ Good' = Good BY SameLayout
  <2>3. next' = next BY <2>2
  <2>4. SubSeq(Got, i, next - 1)' = Block(b)' BY <2>1, <2>2, <2>3 DEF WholeFrom
  <2>5. CASE next = Len(Got) + 1
    <3>1. next' = Len(Got)' + 1 BY <2>3, <2>5
    <3> QED BY <2>4, <3>1 DEF WholeFrom
  <2>6. CASE \E c \in Good : Begins(next, c) /\ (sought \/ MayFollow(b, c))
    <3>1. PICK c \in Good : Begins(next, c) /\ (sought \/ MayFollow(b, c)) BY <2>6
    <3>2. (Begins(next, c) /\ (sought \/ MayFollow(b, c)))'
      <4>1. MayFollow(b, c) => MayFollow(b, c)' BY SamePlayed
      <4>2. Begins(next, c)' BY <2>3, <3>1 DEF Begins
      <4> QED BY <3>1, <4>1, <4>2
    <3> HIDE DEF next
    <3>3. (\E d \in Good : Begins(next, d) /\ (sought \/ MayFollow(b, d)))' BY <2>2, <3>2
    <3> QED BY <2>4, <3>3 DEF WholeFrom, next
  <2> QED BY <2>1, <2>5, <2>6 DEF WholeFrom
<1>3. (\A b \in Good, i \in 1..Len(Got) : Begins(i, b) => WholeFrom(i, b))'
  BY <1>2, SameLayout, SamePlayed
<1> QED BY <1>1, <1>3 DEF PlaysInOrder

LEMMA ReadyStays ==
    ASSUME NEW name, NEW k, Ready(name, k), UNCHANGED <<recipe, content, Got>>,
           calls \in Nat, calls' \in Nat, calls <= calls'
    PROVE  Ready(name, k)'
<1>1. Good' = Good /\ GoodIn(name)' = GoodIn(name) /\ GoodIn(File)' = GoodIn(File)
  BY SameLayout DEF GoodIn
<1>2. (\A b \in Good, j \in GoodIn(name) :
         EndsWith(b) /\ IsNext(name, k, j) => MayFollow(b, <<name, j>>))'
  <2>1. ASSUME NEW b \in Good, NEW j \in GoodIn(name), (EndsWith(b) /\ IsNext(name, k, j))'
        PROVE  MayFollow(b, <<name, j>>)'
    <3>1. EndsWith(b) BY <2>1, SamePlayed
    <3>2. IsNext(name, k, j) BY <1>1, <2>1 DEF IsNext
    <3>3. MayFollow(b, <<name, j>>) BY <3>1, <3>2 DEF Ready
    <3> QED BY <3>3, SamePlayed
  <2> QED BY <1>1, <2>1
<1>3. (calls = 0 =>
         /\ name = File
         /\ \A b \in Good : EndsWith(b) =>
              b[1] = File /\ \A g \in GoodIn(File) : g <= k => g <= b[2])'
  <2>1. calls' = 0 => calls = 0 OBVIOUS
  <2> QED BY <1>1, <2>1, SamePlayed DEF Ready
<1>4. (\A g \in GoodIn(name) : g <= k => \E i \in 1..Len(Got) : Begins(i, <<name, g>>))'
  BY <1>1 DEF Ready, Begins
<1> QED BY <1>2, <1>3, <1>4 DEF Ready

(* The stream stays where it is, and nothing is played. *)
LEMMA PositionStays ==
    ASSUME PositionInv, UNCHANGED <<recipe, content, Got, d_fp, header>>,
           calls \in Nat, calls' \in Nat, calls <= calls', sought => sought',
           pc' = "data" <=> pc = "data", status' = "done" => status = "done"
    PROVE  PositionInv'
<1> SUFFICES ASSUME ~sought', d_fp # NULL
             PROVE  (\E k \in 0..Records(d_fp.name) : Stands(d_fp.name, k))'
  BY DEF PositionInv
<1>1. PICK k \in 0..Records(d_fp.name) : Stands(d_fp.name, k) BY DEF PositionInv
<1>2. PICK name : name = d_fp.name OBVIOUS
<1>3. Records(name)' = Records(name) /\ Entry(name, k + 1)' = Entry(name, k + 1)
  BY SameLayout DEF Records, Entry
<1>4. Behind(name, k)' BY <1>1, <1>2, <1>3 DEF Stands, Behind
<1>5. Ready(name, k)' BY <1>1, <1>2, ReadyStays DEF Stands
<1>6. (status = "done" => k = Records(name))' BY <1>1, <1>2, <1>3 DEF Stands
<1>7. Stands(name, k)' BY <1>4, <1>5, <1>6 DEF Stands
<1> QED BY <1>1, <1>2, <1>3, <1>7

LEMMA CutFrom ==
    ASSUME NEW s \in Seq(Nat), NEW l \in Nat, NEW m \in Nat, l + m <= Len(s)
    PROVE  LET t == SubSeq(s, l + 1, l + m) IN
           t \in Seq(Nat) /\ Len(t) = m /\ \A j \in 1..m : t[j] = s[l + j]
<1> DEFINE t == SubSeq(s, l + 1, l + m)
<1>1. \A j \in (l + 1)..(l + m) : s[j] \in Nat BY LenProperties
<1>2. t \in Seq(Nat) /\ Len(t) = m /\ \A j \in 1..m : t[j] = s[l + j]
  BY <1>1, SubSeqProperties, SMTT(30)
<1> QED BY <1>2

(* Sequences that agree there have the same piece. *)
LEMMA SameCut ==
    ASSUME NEW s \in Seq(Nat), NEW t \in Seq(Nat), NEW l \in Nat, NEW m \in Nat,
           l + m <= Len(s), l + m <= Len(t), \A j \in 1..m : s[l + j] = t[l + j]
    PROVE  SubSeq(s, l + 1, l + m) = SubSeq(t, l + 1, l + m)
<1> DEFINE u == SubSeq(s, l + 1, l + m)
           v == SubSeq(t, l + 1, l + m)
<1>1. u \in Seq(Nat) /\ Len(u) = m /\ \A j \in 1..m : u[j] = s[l + j] BY CutFrom
<1>2. v \in Seq(Nat) /\ Len(v) = m /\ \A j \in 1..m : v[j] = t[l + j] BY CutFrom
<1> HIDE DEF u, v
<1>3. u = v BY <1>1, <1>2, SeqEqual
<1> QED BY <1>3 DEF u, v

(* A good block has bytes, numbered one after the other. *)
LEMMA SomeBlock ==
    ASSUME recipe \in Layouts, NEW b \in Good
    PROVE  /\ Block(b) \in Seq(Nat) /\ Len(Block(b)) \in Nat \ {0} /\ Base(b) \in Nat
           /\ \A i \in 1..Len(Block(b)) : Block(b)[i] = Base(b) + i
<1>1. PICK name \in Names : \E k \in GoodIn(name) : b = <<name, k>> BY GoodFacts
<1>2. PICK k \in GoodIn(name) : b = <<name, k>> BY <1>1
<1>3. k \in 1..Records(name) BY GoodFacts
<1>4. Entry(name, k).n \in Nat \ {0} /\ Base(<<name, k>>) \in Nat BY <1>3, EntryFacts
<1>5. /\ Block(<<name, k>>) \in Seq(Nat) /\ Len(Block(<<name, k>>)) = Entry(name, k).n
      /\ \A i \in 1..Entry(name, k).n : Block(<<name, k>>)[i] = Base(<<name, k>>) + i
  BY <1>3, BlockFacts
<1> QED BY <1>2, <1>4, <1>5

(* A block that may follow the last one is played. *)
LEMMA BlockJoins ==
    ASSUME recipe \in Layouts, PlaysInOrder, Got \in Seq(Nat), NEW c \in Good,
           Got' = Got \o Block(c), UNCHANGED <<recipe, content, sought, calls>>,
           sought \/ \A b \in Good : EndsWith(b) => MayFollow(b, c)
    PROVE  /\ PlaysInOrder'
           /\ \A b \in Good : EndsWith(b)' => b = c
           /\ \A i, b : Begins(i, b) => Begins(i, b)'
           /\ \E i \in 1..Len(Got)' : Begins(i, c)'
<1>3. PICK L \in Nat : L = Len(Got) BY LenProperties
<1> DEFINE B == Block(c)
           M == Len(B)
<1>2. /\ B \in Seq(Nat) /\ M \in Nat \ {0} /\ Base(c) \in Nat
      /\ \A i \in 1..M : B[i] = Base(c) + i
  BY SomeBlock
<1>4. /\ Got' \in Seq(Nat) /\ Len(Got') = L + M
      /\ \A i \in 1..(L + M) : Got'[i] = IF i <= L THEN Got[i] ELSE B[i - L]
  <2>1. /\ Got \o B \in Seq(Nat) /\ Len(Got \o B) = Len(Got) + Len(B)
        /\ \A i \in 1..(Len(Got) + Len(B)) :
             (Got \o B)[i] = IF i <= Len(Got) THEN Got[i] ELSE B[i - Len(Got)]
    BY <1>2, ConcatProperties
  <2>2. Got' = Got \o B OBVIOUS
  <2>3. Len(Got) = L BY <1>3
  <2> HIDE DEF B
  <2> QED BY <2>1, <2>2, <2>3, Zenon
<1>5. Good' = Good /\ \A b : Block(b)' = Block(b) BY SameLayout
<1>6. \A b, d : MayFollow(b, d)' <=> MayFollow(b, d) BY SameLayout DEF MayFollow
<1> HIDE DEF B
<1>7. ASSUME NEW b, NEW i PROVE Begins(i, b)' <=> (Begins(i, b) \/ (i \in L + 1 .. L + M /\ Got'[i] = Base(b) + 1))
  <2>1. i \in 1..(L + M) <=> i \in 1..L \/ i \in L + 1 .. L + M BY <1>2, <1>3
  <2>2. i \in 1..L => i \in 1..(L + M) /\ i <= L BY <1>2, <1>3
  <2> QED BY <1>3, <1>4, <2>1, <2>2 DEF Begins
<1>8. Begins(L + 1, c)'
  <2>1. L + 1 \in L + 1 .. L + M /\ L + 1 \in 1..(L + M) /\ ~(L + 1 <= L) /\ (L + 1) - L = 1 /\ 1 \in 1..M
    BY <1>2, <1>3
  <2>2. Got'[L + 1] = B[1] BY <1>4, <2>1
  <2>3. B[1] = Base(c) + 1 BY <1>2, <2>1
  <2> QED BY <1>7, <2>1, <2>2, <2>3
<1>9. ASSUME NEW b \in Good, NEW i \in L + 1 .. L + M, Got'[i] = Base(b) + 1
      PROVE  b = c /\ i = L + 1
  <2>1. i \in 1..(L + M) /\ ~(i <= L) /\ i - L \in 1..M BY <1>2, <1>3
  <2>2. Got'[i] = B[i - L] BY <1>4, <2>1
  <2>3. Base(b) + 1 = Base(c) + (i - L) BY <1>2, <1>9, <2>1, <2>2
  <2>4. 1 \in 1..Len(Block(b))
    <3>1. Len(Block(b)) \in Nat \ {0} BY SomeBlock
    <3> QED BY <3>1
  <2>5. b = c /\ 1 = i - L BY <2>1, <2>3, <2>4, NumbersApart DEF B
  <2> QED BY <1>3, <2>1, <2>5
<1>10. ASSUME NEW b \in Good, NEW i \in 1..L, Begins(i, b)
       PROVE  /\ WholeFrom(i, b)
              /\ i + Len(Block(b)) \in 1..(L + 1)
  <2>1. WholeFrom(i, b) BY <1>3, <1>10 DEF PlaysInOrder
  <2>2. i + Len(Block(b)) = L + 1 \/ i + Len(Block(b)) \in 1..L
    BY <1>3, <2>1 DEF WholeFrom, Begins
  <2> QED BY <1>3, <2>1, <2>2
<1>11. ASSUME NEW b \in Good, NEW i \in 1..(L + M), Begins(i, b)'
       PROVE  WholeFrom(i, b)'
  <2> DEFINE next == i + Len(Block(b))
  <2>1. next' = next /\ Block(b)' = Block(b) BY <1>5
  <2>4. next \in Nat /\ i <= next
    <3>1. Len(Block(b)) \in Nat BY SomeBlock
    <3> QED BY <1>2, <1>3, <3>1
  <2>2. CASE Begins(i, b)
    <3>1. i \in 1..L /\ WholeFrom(i, b) /\ next \in 1..(L + 1) BY <1>3, <1>10, <2>2 DEF Begins
    <3>2. SubSeq(Got', i, next - 1) = SubSeq(Got, i, next - 1)
      <4> HIDE DEF next
      <4> DEFINE l == i - 1
                 m == next - i
      <4>1. /\ l \in Nat /\ m \in Nat /\ l + 1 = i /\ l + m = next - 1
            /\ l + m <= L /\ l + m <= L + M
            /\ \A j \in 1..m : l + j \in 1..(L + M) /\ l + j <= L
        BY <1>2, <1>3, <3>1, <2>4
      <4> HIDE DEF l, m
      <4>2. \A j \in 1..m : Got'[l + j] = Got[l + j] BY <1>4, <4>1
      <4>3. SubSeq(Got', l + 1, l + m) = SubSeq(Got, l + 1, l + m)
        BY <1>3, <1>4, <4>1, <4>2, SameCut
      <4> QED BY <4>1, <4>3
    <3>3. SubSeq(Got, i, next - 1)' = Block(b)' BY <2>1, <3>1, <3>2 DEF WholeFrom
    <3>4. CASE next = L + 1
      <4>1. Begins(next, c)' BY <1>8, <2>1, <3>4 DEF Begins
      <4>2. EndsWith(b) BY <1>3, <2>2, <3>1, <3>4 DEF EndsWith
      <4>3. (Begins(next, c) /\ (sought \/ MayFollow(b, c)))' BY <1>6, <4>1, <4>2
      <4> HIDE DEF next
      <4>4. (\E d \in Good : Begins(next, d) /\ (sought \/ MayFollow(b, d)))' BY <1>5, <4>3
      <4> QED BY <3>3, <4>4 DEF WholeFrom, next
    <3>5. CASE next # L + 1
      <4>1. PICK d \in Good : Begins(next, d) /\ (sought \/ MayFollow(b, d))
        BY <1>3, <3>1, <3>5 DEF WholeFrom
      <4>2. Begins(next, d)'
        <5>1. ASSUME NEW n, Begins(n, d) PROVE Begins(n, d)' BY <1>7, <5>1
        <5> HIDE DEF next
        <5>2. next \in 1..L /\ Got[next] = Base(d) + 1 BY <1>3, <4>1 DEF Begins
        <5>3. next \in 1..(L + M) /\ Got'[next] = Base(d) + 1 BY <1>2, <1>3, <1>4, <5>2
        <5> QED BY <1>4, <2>1, <5>3 DEF Begins
      <4>3. (Begins(next, d) /\ (sought \/ MayFollow(b, d)))' BY <1>6, <4>1, <4>2
      <4> HIDE DEF next
      <4>4. (\E e \in Good : Begins(next, e) /\ (sought \/ MayFollow(b, e)))' BY <1>5, <4>1, <4>3
      <4> QED BY <3>3, <4>4 DEF WholeFrom, next
    <3> QED BY <3>4, <3>5
  <2>3. CASE i \in L + 1 .. L + M /\ Got'[i] = Base(b) + 1
    <3>1. b = c /\ i = L + 1 BY <1>9, <2>3
    <3>2. next = L + M + 1 BY <1>2, <1>3, <3>1 DEF B
    <3>3. next' = Len(Got)' + 1 BY <1>4, <2>1, <3>2
    <3>4. SubSeq(Got', i, next - 1) = B
      <4> DEFINE t == SubSeq(Got', L + 1, L + M)
      <4>1. next - 1 = L + M BY <1>2, <1>3, <3>2
      <4>3. t \in Seq(Nat) /\ Len(t) = M /\ \A j \in 1..M : t[j] = Got'[L + j]
        <5>1. Got' \in Seq(Nat) /\ L \in Nat /\ M \in Nat /\ L + M <= Len(Got')
          BY <1>2, <1>3, <1>4
        <5> HIDE DEF B
        <5> QED BY <5>1, CutFrom
      <4>4. \A j \in 1..M : Got'[L + j] = B[j]
        <5> TAKE j \in 1..M
        <5>1. L + j \in 1..(L + M) /\ ~(L + j <= L) /\ (L + j) - L = j BY <1>2, <1>3
        <5>2. Got'[L + j] = B[(L + j) - L] BY <1>4, <5>1
        <5> QED BY <5>1, <5>2
      <4> HIDE DEF t
      <4>5. t = B BY <1>2, <4>3, <4>4, SeqEqual
      <4> QED BY <3>1, <4>1, <4>5 DEF t
    <3>5. SubSeq(Got, i, next - 1)' = Block(b)' BY <2>1, <3>1, <3>4 DEF B
    <3> QED BY <3>3, <3>5 DEF WholeFrom
  <2> QED BY <1>7, <1>11, <2>2, <2>3
<1>12. (Got # <<>> => \E b \in Good : Begins(1, b))'
  <2>1. CASE Got = <<>>
    <3>1. L + 1 = 1 BY <1>3, <2>1
    <3>2. Begins(1, c)' BY <1>8, <3>1 DEF Begins
    <3> QED BY <1>5, <3>2
  <2>2. CASE Got # <<>>
    <3>1. PICK b \in Good : Begins(1, b) BY <2>2 DEF PlaysInOrder
    <3>2. Begins(1, b)' BY <1>7, <3>1
    <3> QED BY <1>5, <3>2
  <2> QED BY <2>1, <2>2
<1>13. PlaysInOrder'
  <2>1. (\A b \in Good, i \in 1..Len(Got) : Begins(i, b) => WholeFrom(i, b))'
    BY <1>4, <1>5, <1>11
  <2> QED BY <1>12, <2>1 DEF PlaysInOrder
<1>14. ASSUME NEW b \in Good, EndsWith(b)' PROVE b = c
  <2>1. PICK i \in 1..Len(Got') : Begins(i, b)' /\ i + Len(Block(b)) = L + M + 1
    BY <1>4, <1>5, <1>14 DEF EndsWith
  <2>2. CASE Begins(i, b)
    <3>1. i \in 1..L BY <1>3, <2>2 DEF Begins
    <3>2. i + Len(Block(b)) \in 1..(L + 1) BY <1>10, <2>2, <3>1
    <3> QED BY <1>2, <1>3, <2>1, <3>2
  <2>3. CASE i \in L + 1 .. L + M /\ Got'[i] = Base(b) + 1 BY <1>9, <2>3
  <2> QED BY <1>7, <2>1, <2>2, <2>3
<1>15. \A i, b : Begins(i, b) => Begins(i, b)' BY <1>7
<1>16. \E i \in 1..Len(Got)' : Begins(i, c)'
  <2>1. L + 1 \in 1..Len(Got') BY <1>2, <1>3, <1>4
  <2> QED BY <1>8, <2>1
<1> QED BY <1>13, <1>14, <1>15, <1>16

-----------------------------------------------------------------------------
(* What the next record means for the order. *)

(* A record is left behind of which nothing comes. *)
LEMMA ReadyPast ==
    ASSUME NEW name, NEW k \in Nat, Ready(name, k), GoodIn(name) \subseteq Nat,
           GoodIn(File) \subseteq Nat, k + 1 \notin GoodIn(name)
    PROVE  Ready(name, k + 1)
<1>1. \A j \in GoodIn(name) : IsNext(name, k + 1, j) => IsNext(name, k, j)
  <2> SUFFICES ASSUME NEW j \in GoodIn(name), IsNext(name, k + 1, j) PROVE IsNext(name, k, j)
    OBVIOUS
  <2>1. j > k /\ \A g \in GoodIn(name) : g <= k + 1 \/ j <= g BY DEF IsNext
  <2>2. \A g \in GoodIn(name) : g <= k + 1 => g <= k OBVIOUS
  <2> QED BY <2>1, <2>2 DEF IsNext
<1>2. \A g \in GoodIn(name) : g <= k + 1 => g <= k OBVIOUS
<1> QED BY <1>1, <1>2 DEF Ready

(* The end of the file: it may be played again from its beginning. *)
LEMMA ReadyAgain ==
    ASSUME NEW name, NEW k \in Nat, Ready(name, k), calls \in Nat,
           GoodIn(name) \subseteq Nat \ {0}, \A g \in GoodIn(name) : g <= k
    PROVE  Ready(name, 0)
<1>1. ASSUME NEW b \in Good, NEW j \in GoodIn(name), EndsWith(b), IsNext(name, 0, j)
      PROVE  MayFollow(b, <<name, j>>)
  <2>1. \A g \in GoodIn(name) : j <= g BY <1>1 DEF IsNext
  <2>2. calls > 0 \/ \A g \in GoodIn(b[1]) : g <= b[2]
    <3>1. CASE calls = 0
      <4>1. name = File /\ b[1] = File BY <1>1, <3>1 DEF Ready
      <4> QED BY <1>1, <3>1, <4>1 DEF Ready
    <3> QED BY <3>1
  <2> QED BY <2>1, <2>2 DEF MayFollow
<1>2. \A g \in GoodIn(name) : ~(g <= 0) OBVIOUS
<1>3. calls = 0 => name = File BY DEF Ready
<1> QED BY <1>1, <1>2, <1>3 DEF Ready

LEMMA ReadyAtEnd ==
    ASSUME NEW name, NEW k \in Nat, Ready(name, k),
           \A g \in GoodIn(name) : g <= k,
           NEW n \in Nat, k <= n, GoodIn(name) \subseteq Nat
    PROVE  Ready(name, n)
<1>1. \A j \in GoodIn(name) : ~IsNext(name, n, j) BY DEF IsNext
<1>2. calls = 0 => name = File BY DEF Ready
<1> QED BY <1>1, <1>2 DEF Ready

(* A file that was opened by a call is played from its beginning. *)
LEMMA ReadyOpened ==
    ASSUME NEW name, calls \in Nat \ {0}, GoodIn(name) \subseteq Nat \ {0}
    PROVE  Ready(name, 0)
<1>1. ASSUME NEW b \in Good, NEW j \in GoodIn(name), IsNext(name, 0, j)
      PROVE  MayFollow(b, <<name, j>>)
  <2>1. \A g \in GoodIn(name) : j <= g BY <1>1 DEF IsNext
  <2> QED BY <2>1 DEF MayFollow
<1>2. \A g \in GoodIn(name) : ~(g <= 0) OBVIOUS
<1> QED BY <1>1, <1>2 DEF Ready

(* The next block has been played. *)
LEMMA ReadyPlayed ==
    ASSUME recipe \in Layouts, PlaysInOrder, Got \in Seq(Nat), calls \in Nat,
           NEW name \in Names, NEW k \in Nat, Ready(name, k), k + 1 \in GoodIn(name),
           GoodIn(name) \subseteq Nat \ {0},
           Got' = Got \o Block(<<name, k + 1>>), UNCHANGED <<recipe, content, sought, calls>>
    PROVE  PlaysInOrder' /\ Ready(name, k + 1)'
<1> DEFINE c == <<name, k + 1>>
<1>1. c \in Good /\ c[1] = name /\ c[2] = k + 1 BY GoodFacts
<1>2. \A b \in Good : EndsWith(b) => MayFollow(b, c)
  <2>1. IsNext(name, k, k + 1) BY DEF IsNext
  <2> QED BY <2>1 DEF Ready
<1>3. /\ PlaysInOrder'
      /\ \A b \in Good : EndsWith(b)' => b = c
      /\ \A i, b : Begins(i, b) => Begins(i, b)'
      /\ \E i \in 1..Len(Got)' : Begins(i, c)'
  BY <1>1, <1>2, BlockJoins
<1>4. Good' = Good /\ \A n : GoodIn(n)' = GoodIn(n) BY SameLayout
<1> HIDE DEF c
<1>5. (\A b \in Good, j \in GoodIn(name) :
         EndsWith(b) /\ IsNext(name, k + 1, j) => MayFollow(b, <<name, j>>))'
  <2>1. ASSUME NEW b \in Good, NEW j \in GoodIn(name), (EndsWith(b) /\ IsNext(name, k + 1, j))'
        PROVE  MayFollow(b, <<name, j>>)'
    <3>1. b[1] = name /\ b[2] = k + 1 BY <1>1, <1>3, <2>1
    <3>2. j > k + 1 /\ \A g \in GoodIn(name) : g <= k + 1 \/ j <= g
      BY <1>4, <2>1 DEF IsNext
    <3>3. GoodIn(b[1])' = GoodIn(name) BY <1>4, <3>1
    <3> QED BY <3>1, <3>2, <3>3 DEF MayFollow
  <2> QED BY <1>4, <2>1
<1>6. (calls = 0 =>
         /\ name = File
         /\ \A b \in Good : EndsWith(b) =>
              b[1] = File /\ \A g \in GoodIn(File) : g <= k + 1 => g <= b[2])'
  BY <1>1, <1>3, <1>4 DEF Ready
<1>7. (\A g \in GoodIn(name) : g <= k + 1 => \E i \in 1..Len(Got) : Begins(i, <<name, g>>))'
  <2>1. ASSUME NEW g \in GoodIn(name), g <= k + 1
        PROVE  (\E i \in 1..Len(Got) : Begins(i, <<name, g>>))'
    <3>1. CASE g = k + 1 BY <1>3, <3>1 DEF c
    <3>2. CASE g <= k
      <4>1. PICK i \in 1..Len(Got) : Begins(i, <<name, g>>) BY <3>2 DEF Ready
      <4>2. Begins(i, <<name, g>>)' BY <1>3, <4>1
      <4> QED BY <4>2 DEF Begins
    <3>3. g = k + 1 \/ g <= k BY <2>1
    <3> QED BY <3>1, <3>2, <3>3
  <2> QED BY <1>4, <2>1
<1> QED BY <1>3, <1>5, <1>6, <1>7 DEF Ready

-----------------------------------------------------------------------------
(* What work reads. *)

(* The file that a call of work has, and the facts about its layout. *)
LEMMA FileAtHand ==
    ASSUME IndInv, Made, d_fp # NULL
    PROVE  /\ d_fp \in Streams /\ d_fp.name \in Names /\ d_fp.at \in Nat
           /\ content \in [Names -> Seq(Bytes)]
           /\ recipe \in Layouts /\ FileOf(d_fp.name)
           /\ Records(d_fp.name) \in Nat
           /\ GoodIn(d_fp.name) \subseteq 1..Records(d_fp.name)
           /\ GoodIn(d_fp.name) \subseteq Nat \ {0}
<1>1. d_fp \in Streams /\ content \in [Names -> Seq(Bytes)]
  BY DEF IndInv, Files, Placed, Details
<1>2. d_fp.name \in Names /\ d_fp.at \in Nat BY <1>1 DEF Streams
<1>3. recipe \in Layouts /\ FileOf(d_fp.name) BY <1>2 DEF Made
<1>4. Records(d_fp.name) \in Nat BY <1>2, <1>3, RecordsCounted
<1>5. GoodIn(d_fp.name) \subseteq 1..Records(d_fp.name) BY <1>2, <1>3, GoodFacts
<1> QED BY <1>1, <1>2, <1>3, <1>4, <1>5

(* fread yields the bytes at the position, all of them if there are enough, *)
(* and up to the end of the file if there are not.                         *)
LEMMA FreadBytes ==
    ASSUME content \in [Names -> Seq(Bytes)], d_fp \in Streams, NEW n \in Nat
    PROVE  /\ Fread(n) \in Seq(Bytes) /\ Len(Fread(n)) \in Nat /\ Len(Fread(n)) <= n
           /\ Len(Fread(n)) = n =>
                \A i \in 1..n : Fread(n)[i] = content[d_fp.name][d_fp.at + i]
           /\ Len(Fread(n)) = n => n = 0 \/ d_fp.at + n <= Len(content[d_fp.name])
           /\ d_fp.at <= Len(content[d_fp.name]) =>
                \/ Len(Fread(n)) = n /\ d_fp.at + n <= Len(content[d_fp.name])
                \/ /\ Len(Fread(n)) < n /\ ~(d_fp.at + n <= Len(content[d_fp.name]))
                   /\ d_fp.at + Len(Fread(n)) = Len(content[d_fp.name])
<1> DEFINE file == content[d_fp.name]
           at == d_fp.at
           last == IF at + n <= Len(file) THEN at + n ELSE Len(file)
           s == SubSeq(file, at + 1, last)
           got == IF at + 1 <= last THEN last - at ELSE 0
<1>1. file \in Seq(Bytes) /\ at \in Nat /\ Len(file) \in Nat BY DEF Streams
<1>2. Fread(n) = s BY DEF Fread
<1> HIDE DEF file, at
<1>3. last \in Nat /\ last <= Len(file) BY <1>1
<1>4. \A i \in (at + 1)..last : file[i] \in Bytes BY <1>1, <1>3
<1>5. got \in Nat /\ got <= n BY <1>1
<1>6. got = n => n = 0 \/ at + n <= Len(file) BY <1>1
<1>7. at <= Len(file) =>
        \/ got = n /\ at + n <= Len(file)
        \/ got < n /\ ~(at + n <= Len(file)) /\ at + got = Len(file)
  BY <1>1
<1> HIDE DEF last
<1>8. /\ s \in Seq(Bytes) /\ Len(s) = got
      /\ \A i \in 1..got : s[i] = file[at + i]
  BY <1>1, <1>3, <1>4, SubSeqProperties, SMTT(30)
<1> HIDE DEF s, got
<1> QED BY <1>2, <1>5, <1>6, <1>7, <1>8 DEF file, at

(* A file whose end comes within a record holds no good one from there.    *)
LEMMA NothingBehind ==
    ASSUME recipe \in Layouts, NEW name \in Names, FileOf(name), NEW k \in 0..Records(name),
           NEW j \in 1..RecordLen, k < Records(name) => Offset(k) + j > Len(content[name])
    PROVE  \A g \in GoodIn(name) : g <= k
<1> SUFFICES ASSUME NEW g \in GoodIn(name), ~(g <= k) PROVE FALSE OBVIOUS
<1>1. /\ g \in 1..Records(name) /\ Entry(name, g).kept = RecordLen
      /\ Records(name) \in Nat /\ k \in Nat /\ RecordLen \in Nat
  <2>1. Records(name) \in Nat BY RecordsCounted
  <2>2. g \in 1..Records(name) /\ Entry(name, g).kept = RecordLen BY GoodFacts
  <2> QED BY <2>1, <2>2, Lengths
<1>2. k < Records(name) /\ k + 1 \in 1..Records(name) /\ (k + 1) - 1 = k BY <1>1
<1>3. /\ Offset(k) + Entry(name, k + 1).kept <= Len(content[name])
      /\ Entry(name, k + 1).kept \in 0..RecordLen
      /\ Entry(name, k + 1).kept < RecordLen => k + 1 = Records(name)
      /\ Offset(k) \in Nat /\ Len(content[name]) \in Nat
  <2>1. Offset((k + 1) - 1) + Entry(name, k + 1).kept <= Len(content[name])
    BY <1>2 DEF FileOf
  <2> QED BY <1>1, <1>2, <2>1, EntryFacts, Offsets, FileLength
<1>4. Entry(name, k + 1).kept < RecordLen BY <1>1, <1>2, <1>3
<1>5. g = k + 1 BY <1>1, <1>3, <1>4
<1> QED BY <1>1, <1>4, <1>5

(* The header of a record, as it stands in the file, has its sizes. *)
LEMMA HeaderOfRecord ==
    ASSUME recipe \in Layouts, NEW name \in Names, FileOf(name), NEW k \in 1..Records(name),
           Offset(k - 1) + HeaderLen <= Len(content[name]),
           NEW s \in Seq(Bytes), Len(s) = HeaderLen,
           \A i \in 1..HeaderLen : s[i] = content[name][Offset(k - 1) + i]
    PROVE  HeaderValues(s) = {[uncompressed_size |-> Entry(name, k).n,
                               compressed_size |-> FrameLen]}
<1> DEFINE n == Entry(name, k).n
           h == Header(n, FrameLen)
<1>1. /\ n \in Nat /\ n < WordSize /\ Entry(name, k).kept \in 0..RecordLen
      /\ HeaderLen \in Nat \ {0} /\ FrameLen \in Nat /\ FrameLen < WordSize
      /\ WordSize \in Nat \ {0} /\ RecordLen = HeaderLen + FrameLen
  BY EntryFacts, Lengths
<1> HIDE DEF n
<1>2. HeaderLen <= Entry(name, k).kept
  <2>1. HeaderLen \in 0..RecordLen BY <1>1
  <2> QED BY <2>1, RecordIsThere
<1>3. h \in Seq(Bytes) /\ Len(h) = HeaderLen BY <1>1, ZStdAssumption, HeaderType
<1>4. \A i \in 1..HeaderLen : s[i] = h[i]
  <2> TAKE i \in 1..HeaderLen
  <2>1. i \in 1..Entry(name, k).kept /\ i <= HeaderLen BY <1>1, <1>2
  <2> QED BY <2>1, ByteInRecord DEF n
<1> HIDE DEF h
<1>5. s = h BY <1>3, <1>4, SeqEqual
<1>6. n % WordSize = n /\ FrameLen % WordSize = FrameLen BY <1>1, SMTT(30)
<1>7. h = Header(n, FrameLen) BY DEF h
<1>8. /\ h[1].kind = "header" /\ h[1].uncompressed_size = n /\ h[1].compressed_size = FrameLen
  BY <1>1, <1>6, <1>7 DEF Header
<1>9. HeaderValues(h) = {[uncompressed_size |-> n, compressed_size |-> FrameLen]}
  BY <1>7, <1>8 DEF HeaderValues
<1> QED BY <1>5, <1>9 DEF n

(* What is read as the data of a record decompresses to a good block of    *)
(* the file, or to nothing.                                                *)
LEMMA DecodesToBlock ==
    ASSUME IndInv, Made, d_fp # NULL, NEW n \in Nat, Len(Fread(n)) = n, NEW capacity
    PROVE  \/ Decompress(capacity, Fread(n)) = <<>>
           \/ \E c \in Good : Decompress(capacity, Fread(n)) = Block(c)
<1> DEFINE s == Fread(n)
           name == d_fp.name
<1>1. /\ name \in Names /\ d_fp.at \in Nat /\ recipe \in Layouts /\ FileOf(name)
      /\ s \in Seq(Bytes) /\ (Len(s) = 0 \/ d_fp.at + Len(s) <= Len(content[name]))
      /\ \A i \in 1..Len(s) : s[i] = content[name][d_fp.at + i]
  BY FileAtHand, FreadBytes
<1> HIDE DEF s, name
<1>2. CASE IsFrame(s)
  <2>0. d_fp.at + Len(s) <= Len(content[name]) BY <1>1, <1>2 DEF IsFrame
  <2>1. PICK k \in GoodIn(name) : s[1].of = Block(<<name, k>>)
    BY <1>1, <1>2, <2>0, FrameFound
  <2>2. <<name, k>> \in Good BY <1>1, GoodFacts
  <2> QED BY <2>1, <2>2 DEF Decompress, s
<1>3. CASE ~IsFrame(s) BY <1>3 DEF Decompress, s
<1> QED BY <1>2, <1>3

(* Behind the header of a record, with its sizes, it is the record's block *)
(* that comes, or nothing if the record is not a good one.                 *)
LEMMA DecodesRecord ==
    ASSUME IndInv, Made, d_fp # NULL, NEW k \in Nat, k + 1 \in 1..Records(d_fp.name),
           d_fp.at = Offset(k) + HeaderLen, Len(Fread(FrameLen)) = FrameLen
    PROVE  Decompress(Entry(d_fp.name, k + 1).n, Fread(FrameLen)) =
             IF k + 1 \in GoodIn(d_fp.name) THEN Block(<<d_fp.name, k + 1>>) ELSE <<>>
<1> DEFINE s == Fread(FrameLen)
           name == d_fp.name
           block == Block(<<name, k + 1>>)
<1>1. /\ name \in Names /\ d_fp.at \in Nat /\ recipe \in Layouts /\ FileOf(name)
      /\ FrameLen \in Nat \ {0} /\ HeaderLen \in Nat /\ RecordLen = HeaderLen + FrameLen
      /\ s \in Seq(Bytes) /\ Len(s) = FrameLen /\ d_fp.at + Len(s) <= Len(content[name])
      /\ \A i \in 1..FrameLen : s[i] = content[name][d_fp.at + i]
  BY FileAtHand, FreadBytes, Lengths
<1>2. (k + 1) - 1 = k /\ Offset(k) \in Nat BY Offsets
<1>3. block \in Seq(Nat) /\ Len(block) = Entry(name, k + 1).n BY <1>1, BlockFacts
<1> HIDE DEF s, name, block
<1>4. CASE k + 1 \in GoodIn(name)
  <2>1. Entry(name, k + 1).kept = RecordLen /\ Entry(name, k + 1).intact
        /\ k + 1 \in 1..Records(name)
    BY <1>1, <1>4, GoodFacts
  <2>2. \A i \in 1..FrameLen : s[i] = Frame(block, FrameLen)[i]
    <3> TAKE i \in 1..FrameLen
    <3> DEFINE j == HeaderLen + i
    <3>1. /\ j \in 1..RecordLen /\ ~(j <= HeaderLen) /\ j - HeaderLen = i
          /\ Offset(k) + j = d_fp.at + i
      BY <1>1, <1>2
    <3> HIDE DEF j
    <3>2. j \in 1..Entry(name, k + 1).kept BY <2>1, <3>1
    <3>3. content[name][Offset((k + 1) - 1) + j] = Frame(block, FrameLen)[j - HeaderLen]
      BY <1>1, <2>1, <3>1, <3>2, ByteInRecord DEF block
    <3>4. content[name][d_fp.at + i] = Frame(block, FrameLen)[i] BY <1>2, <3>1, <3>3
    <3> QED BY <1>1, <3>4
  <2>3. Frame(block, FrameLen) \in Seq(Bytes) /\ Len(Frame(block, FrameLen)) = FrameLen
    BY <1>1, <1>3, FrameType
  <2>4. s = Frame(block, FrameLen)
    <3> DEFINE f == Frame(block, FrameLen)
    <3>1. f \in Seq(Bytes) /\ Len(f) = FrameLen /\ \A i \in 1..FrameLen : s[i] = f[i]
      BY <2>2, <2>3
    <3> HIDE DEF f
    <3>2. s = f BY <1>1, <3>1, SeqEqual
    <3> QED BY <3>2 DEF f
  <2>5. Decompress(Len(block), Frame(block, FrameLen)) = block BY <1>1, <1>3, DecompressFrame
  <2> QED BY <1>3, <1>4, <2>4, <2>5 DEF s, name, block
<1>5. CASE k + 1 \notin GoodIn(name)
  <2>1. ~IsFrame(s)
    <3> SUFFICES ASSUME IsFrame(s) PROVE FALSE OBVIOUS
    <3>1. /\ Offset((k + 1) - 1) + HeaderLen + Len(s) <= Len(content[name])
          /\ \A i \in 1..Len(s) : s[i] = content[name][Offset((k + 1) - 1) + HeaderLen + i]
      BY <1>1, <1>2
    <3>2. k + 1 \in 1..Records(name) BY DEF name
    <3>3. k + 1 \in GoodIn(name) BY <1>1, <3>1, <3>2, FrameOfRecord
    <3> QED BY <1>5, <3>3
  <2> QED BY <1>5, <2>1 DEF Decompress, s, name
<1> QED BY <1>4, <1>5

-----------------------------------------------------------------------------
(* The steps. *)

LEMMA GotType ==
    ASSUME IndInv
    PROVE  Got \in Seq(Nat)
BY ConcatProperties DEF IndInv, Queues, Got

(* A step that plays nothing and leaves the stream where it is. *)
LEMMA QuietStep ==
    ASSUME PlayInv, IndInv', WaitingInv', RequestInv',
           UNCHANGED <<recipe, content, Got, d_fp, header>>,
           calls <= calls', sought => sought',
           pc' = "data" <=> pc = "data", status' = "done" => status = "done"
    PROVE  PlayInv'
<1>1. calls \in Nat /\ calls' \in Nat BY DEF PlayInv, WaitingInv
<1>2. PlaysInOrder' BY <1>1, OrderStays DEF PlayInv
<1>3. PositionInv' BY <1>1, PositionStays DEF PlayInv
<1>4. Made' BY SameLayout DEF PlayInv
<1> QED BY <1>2, <1>3, <1>4 DEF PlayInv

(* A step that plays nothing and after which there is no stream, or seek   *)
(* has been called.                                                        *)
LEMMA LosesTrack ==
    ASSUME PlayInv, IndInv', WaitingInv', RequestInv',
           UNCHANGED <<recipe, content, Got>>, calls <= calls', sought => sought',
           sought' \/ d_fp' = NULL
    PROVE  PlayInv'
<1>1. calls \in Nat /\ calls' \in Nat BY DEF PlayInv, WaitingInv
<1>2. PlaysInOrder' BY <1>1, OrderStays DEF PlayInv
<1>3. PositionInv' BY DEF PositionInv
<1>4. Made' BY SameLayout DEF PlayInv
<1> QED BY <1>2, <1>3, <1>4 DEF PlayInv

(* Whether there is a stream does not change when it is only moved. *)
LEMMA StillThere ==
    ASSUME IndInv, IndInv', UNCHANGED <<handles, d_new_fp>>,
           pc \in {"loop", "data"}, pc' = "idle"
    PROVE  d_fp' = NULL <=> d_fp = NULL
BY DEF IndInv, NoStreamLeaks, Count, FpClosed, NewFpClosed

LEMMA ProductGrows ==
    ASSUME NEW m \in Nat, NEW n \in Nat, NEW s \in Nat, m <= n
    PROVE  m * s <= n * s
<1>1. n = m + (n - m) /\ n - m \in Nat OBVIOUS
<1>2. n * s = m * s + (n - m) * s BY SMTT(30)
<1>3. (n - m) * s \in Nat /\ m * s \in Nat BY <1>1
<1> QED BY <1>2, <1>3

LEMMA BeginKeepsPlay ==
    ASSUME PlayInv, IndInv', WorkBegin, UNCHANGED <<recipe, calls, sought>>
    PROVE  PlayInv'
<1>1. /\ status = "running" /\ pc = "idle" /\ status' # "done" /\ pc' # "data"
      /\ UNCHANGED <<content, d_fp, d_new_fp, d_updated, header, byteQueue, out>>
  BY DEF WorkBegin, GoOn
<1>2. PICK n \in 1..MaxItems : noi' = n * ItemSize BY DEF WorkBegin
<1>3. noi' <= MaxItems * ItemSize
  <2>1. n \in Nat /\ n <= MaxItems /\ MaxItems \in Nat /\ ItemSize \in Nat
    BY FileSourceAssumption DEF FileSourceAssumption
  <2>2. n * ItemSize <= MaxItems * ItemSize BY <2>1, ProductGrows
  <2> QED BY <1>2, <2>2
<1>4. Got' = Got BY <1>1 DEF Got
<1>5. RequestInv' BY <1>1, <1>3 DEF RequestInv
<1>6. WaitingInv' BY <1>1 DEF PlayInv, WaitingInv
<1>7. calls <= calls' BY DEF PlayInv, WaitingInv
<1> QED BY <1>1, <1>4, <1>5, <1>6, <1>7, QuietStep

(* do_update installs the stream that was opened: it is at its beginning.  *)
LEMMA InstallKeepsPlay ==
    ASSUME PlayInv, IndInv', Install, UNCHANGED <<recipe, calls, sought>>
    PROVE  PlayInv'
<1>1. /\ pc = "updating" /\ status' # "done" /\ pc' # "data"
      /\ d_fp' = d_new_fp /\ d_new_fp' = NULL /\ d_updated' = FALSE
      /\ UNCHANGED <<content, noi, header, byteQueue, out>>
  <2>1. pc = "updating" BY DEF Install
  <2>2. status = "running" BY <2>1 DEF PlayInv, IndInv, Details
  <2> QED BY <2>1, <2>2 DEF Install, GoOn
<1>2. Got' = Got BY <1>1 DEF Got
<1>3. RequestInv' BY <1>1 DEF PlayInv, RequestInv
<1>4. WaitingInv' BY <1>1 DEF PlayInv, WaitingInv
<1>5. calls \in Nat /\ calls <= calls' BY DEF PlayInv, WaitingInv
<1>6. CASE sought \/ d_new_fp = NULL
  <2>1. sought' \/ d_fp' = NULL BY <1>1, <1>6
  <2> QED BY <1>1, <1>2, <1>3, <1>4, <1>5, <2>1, LosesTrack
<1>7. CASE ~sought /\ d_new_fp # NULL
  <2>1. d_new_fp.at = 0 /\ calls \in Nat \ {0} BY <1>7 DEF PlayInv, WaitingInv
  <2>2. Made' BY <1>1, SameLayout DEF PlayInv
  <2>3. PICK name : name = d_new_fp.name OBVIOUS
  <2>4. name \in Names
    BY <1>7, <2>3 DEF PlayInv, IndInv, Files, Placed, Streams
  <2>5. /\ recipe \in Layouts /\ FileOf(name) /\ Records(name) \in Nat
        /\ GoodIn(name) \subseteq Nat \ {0} /\ Len(content[name]) \in Nat
    <3>1. recipe \in Layouts /\ FileOf(name) BY <2>4 DEF PlayInv, Made
    <3>2. Records(name) \in Nat /\ GoodIn(name) \subseteq 1..Records(name)
      BY <2>4, <3>1, RecordsCounted, GoodFacts
    <3> QED BY <2>4, <3>1, <3>2, FileLength
  <2>6. Ready(name, 0) BY <2>1, <2>5, ReadyOpened
  <2>7. Ready(name, 0)' BY <1>1, <1>2, <1>5, <2>6, ReadyStays
  <2>8. Behind(name, 0)'
    <3>1. d_fp'.at = 0 /\ Offset(0) = 0 BY <1>1, <2>1, Offsets
    <3>2. Records(name) = 0 => Len(content[name]) = 0 BY <2>5 DEF FileOf
    <3>3. Records(name)' = Records(name) BY DEF Records
    <3> QED BY <1>1, <2>5, <3>1, <3>2, <3>3 DEF Behind
  <2>9. Stands(name, 0)' BY <1>1, <2>7, <2>8 DEF Stands
  <2>10. PositionInv'
    <3>1. d_fp'.name = name BY <1>1, <2>3
    <3>2. 0 \in 0..Records(name)' BY <2>5 DEF Records
    <3> QED BY <2>9, <3>1, <3>2 DEF PositionInv
  <2>11. PlaysInOrder' BY <1>1, <1>2, <1>5, OrderStays DEF PlayInv
  <2> QED BY <1>3, <1>4, <2>2, <2>10, <2>11 DEF PlayInv
<1> QED BY <1>6, <1>7

(* The request is given up at the end of the file. *)
LEMMA EndKeepsPlay ==
    ASSUME PlayInv, IndInv', NEW got \in Nat, EndOfFile(got), pc \in {"loop", "data"},
           Len(byteQueue) < noi,
           UNCHANGED <<content, d_new_fp, d_updated, handles, noi, byteQueue, out,
                       recipe, calls, sought>>,
           ~sought => \E k \in 0..Records(d_fp.name) :
                        Ready(d_fp.name, k) /\ \A g \in GoodIn(d_fp.name) : g <= k,
           ~sought => d_fp.at + got = Len(content[d_fp.name])
    PROVE  PlayInv'
<1>1. Got' = Got BY DEF Got
<1>2. d_fp # NULL /\ status = "running" BY DEF PlayInv, IndInv, Files, Details
<1>3. d_fp' # NULL
  <2>1. pc' = "idle" BY DEF EndOfFile
  <2> QED BY <1>2, <2>1, StillThere DEF PlayInv
<1>4. calls \in Nat /\ calls <= calls' BY DEF PlayInv, WaitingInv
<1>5. WaitingInv' BY DEF PlayInv, WaitingInv
<1>6. pc' = "idle" BY DEF EndOfFile
<1>7. RequestInv' BY <1>3, <1>6 DEF PlayInv, RequestInv
<1>8. CASE sought
  BY <1>1, <1>4, <1>5, <1>7, <1>8, LosesTrack
<1>9. CASE ~sought
  <2>1. /\ d_fp \in Streams /\ d_fp.name \in Names /\ recipe \in Layouts /\ FileOf(d_fp.name)
        /\ Records(d_fp.name) \in Nat /\ GoodIn(d_fp.name) \subseteq Nat \ {0}
    BY <1>2, FileAtHand DEF PlayInv
  <2>2. PICK name : name = d_fp.name OBVIOUS
  <2>3. PICK k \in 0..Records(name) : Ready(name, k) /\ \A g \in GoodIn(name) : g <= k
    BY <1>9, <2>2
  <2>4. Records(name)' = Records(name) BY DEF Records
  <2>5. CASE d_repeat
    <3>1. d_fp' = [d_fp EXCEPT !.at = 0] /\ status' = status BY <2>5 DEF EndOfFile
    <3>2. d_fp'.name = name /\ d_fp'.at = 0 BY <2>1, <2>2, <3>1, Moved
    <3>3. Ready(name, 0) BY <1>4, <2>1, <2>2, <2>3, ReadyAgain
    <3>4. Ready(name, 0)' BY <1>1, <1>4, <3>3, ReadyStays
    <3>5. Behind(name, 0)'
      <4>1. Offset(0) = 0 BY Offsets
      <4>2. Records(name) = 0 => Len(content[name]) = 0 BY <2>1, <2>2 DEF FileOf
      <4>3. Len(content[name]) \in Nat BY <2>1, <2>2, FileLength
      <4> QED BY <1>6, <2>4, <3>2, <4>1, <4>2, <4>3 DEF Behind
    <3>6. Stands(name, 0)' BY <1>2, <3>1, <3>4, <3>5 DEF Stands
    <3>7. 0 \in 0..Records(name)' BY <2>1, <2>2, <2>4
    <3>8. PositionInv' BY <3>2, <3>6, <3>7 DEF PositionInv
    <3> QED BY <1>1, <1>4, <1>5, <1>7, <3>8, OrderStays, SameLayout DEF PlayInv
  <2>6. CASE ~d_repeat
    <3> DEFINE L == Len(content[d_fp.name])
    <3>1. d_fp' = [d_fp EXCEPT !.at = L]
      <4>1. d_fp' = [d_fp EXCEPT !.at = d_fp.at + got] BY <2>6 DEF EndOfFile
      <4> QED BY <1>9, <4>1
    <3>2. L \in Nat BY <2>1, FileLength
    <3> HIDE DEF L
    <3>3. d_fp'.name = name /\ d_fp'.at = L BY <2>1, <2>2, <3>1, <3>2, Moved
    <3>4. PICK n \in Nat : n = Records(name) BY <2>1, <2>2
    <3>5. Ready(name, n) BY <2>1, <2>2, <2>3, <3>4, ReadyAtEnd
    <3>6. Ready(name, n)' BY <1>1, <1>4, <3>5, ReadyStays
    <3>7. Behind(name, n)'
      <4>1. content[name] = content'[name] /\ L = Len(content[name]) BY <2>2 DEF L
      <4>2. L <= L BY <3>2
      <4> QED BY <1>6, <2>4, <3>3, <3>4, <4>1, <4>2 DEF Behind
    <3>8. Stands(name, n)' BY <2>4, <3>4, <3>6, <3>7 DEF Stands
    <3>9. n \in 0..Records(name)' BY <2>4, <3>4
    <3>10. PositionInv' BY <3>3, <3>8, <3>9 DEF PositionInv
    <3> QED BY <1>1, <1>4, <1>5, <1>7, <3>10, OrderStays, SameLayout DEF PlayInv
  <2> QED BY <2>5, <2>6
<1> QED BY <1>8, <1>9

LEMMA HeaderKeepsPlay ==
    ASSUME PlayInv, IndInv', ReadHeader, UNCHANGED <<recipe, calls, sought>>
    PROVE  PlayInv'
<1> DEFINE bytes == Fread(HeaderLen)
<1>1. /\ pc = "loop" /\ Len(byteQueue) < noi
      /\ UNCHANGED <<content, d_new_fp, d_updated, handles, noi, byteQueue, out>>
      /\ \/ Len(bytes) < HeaderLen /\ EndOfFile(Len(bytes))
         \/ /\ Len(bytes) = HeaderLen /\ header' \in HeaderValues(bytes)
            /\ d_fp' = [d_fp EXCEPT !.at = d_fp.at + HeaderLen]
            /\ pc' = "data" /\ status' = status
  BY DEF ReadHeader
<1>2. d_fp # NULL /\ status = "running" BY <1>1 DEF PlayInv, IndInv, Files, Details
<1>3. /\ d_fp \in Streams /\ d_fp.name \in Names /\ d_fp.at \in Nat
      /\ content \in [Names -> Seq(Bytes)]
      /\ recipe \in Layouts /\ FileOf(d_fp.name) /\ Records(d_fp.name) \in Nat
  BY <1>2, FileAtHand DEF PlayInv
<1>4. HeaderLen \in Nat \ {0} /\ RecordLen = HeaderLen + FrameLen /\ FrameLen \in Nat BY Lengths
<1>5. /\ bytes \in Seq(Bytes) /\ Len(bytes) \in Nat
      /\ Len(bytes) = HeaderLen =>
           /\ d_fp.at + HeaderLen <= Len(content[d_fp.name])
           /\ \A i \in 1..HeaderLen : bytes[i] = content[d_fp.name][d_fp.at + i]
      /\ d_fp.at <= Len(content[d_fp.name]) /\ Len(bytes) < HeaderLen =>
           /\ ~(d_fp.at + HeaderLen <= Len(content[d_fp.name]))
           /\ d_fp.at + Len(bytes) = Len(content[d_fp.name])
  <2>1. /\ bytes \in Seq(Bytes) /\ Len(bytes) \in Nat
        /\ Len(bytes) = HeaderLen =>
             \A i \in 1..HeaderLen : bytes[i] = content[d_fp.name][d_fp.at + i]
        /\ Len(bytes) = HeaderLen =>
             HeaderLen = 0 \/ d_fp.at + HeaderLen <= Len(content[d_fp.name])
        /\ d_fp.at <= Len(content[d_fp.name]) =>
             \/ Len(bytes) = HeaderLen /\ d_fp.at + HeaderLen <= Len(content[d_fp.name])
             \/ /\ Len(bytes) < HeaderLen
                /\ ~(d_fp.at + HeaderLen <= Len(content[d_fp.name]))
                /\ d_fp.at + Len(bytes) = Len(content[d_fp.name])
    BY <1>3, <1>4, FreadBytes
  <2> HIDE DEF bytes
  <2> QED BY <1>4, <2>1
<1> HIDE DEF bytes
<1>6. PICK name : name = d_fp.name OBVIOUS
<1>7. ASSUME ~sought
      PROVE  \E k \in 0..Records(name) :
               /\ Ready(name, k) /\ d_fp.at <= Len(content[name])
               /\ d_fp.at = IF k = Records(name) THEN Len(content[name]) ELSE Offset(k)
  <2>1. PICK k \in 0..Records(name) : Stands(name, k)
    BY <1>2, <1>6, <1>7 DEF PlayInv, PositionInv
  <2> QED BY <1>1, <2>1 DEF Stands, Behind
<1>8. CASE Len(bytes) < HeaderLen /\ EndOfFile(Len(bytes))
  <2>1. ASSUME ~sought
        PROVE  \E k \in 0..Records(d_fp.name) :
                 Ready(d_fp.name, k) /\ \A g \in GoodIn(d_fp.name) : g <= k
    <3>1. PICK k \in 0..Records(name) :
            /\ Ready(name, k) /\ d_fp.at <= Len(content[name])
            /\ d_fp.at = IF k = Records(name) THEN Len(content[name]) ELSE Offset(k)
      BY <1>7, <2>1
    <3>2. k < Records(name) => Offset(k) + HeaderLen > Len(content[name])
      <4>1. ~(d_fp.at + HeaderLen <= Len(content[name])) BY <1>5, <1>6, <1>8, <3>1
      <4>2. Len(content[name]) \in Nat BY <1>3, <1>6, FileLength
      <4>3. k \in Nat BY <1>3, <1>6
      <4>4. Offset(k) \in Nat BY <4>3, Offsets
      <4> QED BY <1>3, <1>4, <1>6, <3>1, <4>1, <4>2, <4>3, <4>4
    <3>3. HeaderLen \in 1..RecordLen BY <1>4
    <3>4. \A g \in GoodIn(name) : g <= k BY <1>3, <1>6, <3>2, <3>3, NothingBehind
    <3> QED BY <1>6, <3>1, <3>4
  <2>2. ~sought => d_fp.at + Len(bytes) = Len(content[d_fp.name])
    BY <1>5, <1>6, <1>7, <1>8
  <2> QED BY <1>1, <1>5, <1>8, <2>1, <2>2, EndKeepsPlay
<1>9. CASE /\ Len(bytes) = HeaderLen /\ header' \in HeaderValues(bytes)
           /\ d_fp' = [d_fp EXCEPT !.at = d_fp.at + HeaderLen]
           /\ pc' = "data" /\ status' = status
  <2>1. Got' = Got BY <1>1 DEF Got
  <2>2. calls \in Nat /\ calls <= calls' BY DEF PlayInv, WaitingInv
  <2>3. WaitingInv' BY <1>1 DEF PlayInv, WaitingInv
  <2>4. RequestInv' BY <1>1, <1>2, <1>9 DEF PlayInv, RequestInv
  <2>5. CASE sought BY <1>1, <2>1, <2>2, <2>3, <2>4, <2>5, LosesTrack
  <2>6. CASE ~sought
    <3>1. PICK k \in 0..Records(name) :
            /\ Ready(name, k)
            /\ d_fp.at = IF k = Records(name) THEN Len(content[name]) ELSE Offset(k)
      BY <1>7, <2>6
    <3>2. /\ k \in Nat /\ Records(name) \in Nat /\ Len(content[name]) \in Nat
          /\ d_fp.at + HeaderLen <= Len(content[name])
      BY <1>3, <1>5, <1>6, <1>9, FileLength
    <3>3. k < Records(name) /\ d_fp.at = Offset(k)
      <4>1. k # Records(name) BY <1>3, <1>4, <3>1, <3>2
      <4> QED BY <3>1, <3>2, <4>1
    <3>4. k + 1 \in 1..Records(name) /\ (k + 1) - 1 = k BY <3>2, <3>3
    <3>5. header' = [uncompressed_size |-> Entry(name, k + 1).n, compressed_size |-> FrameLen]
      <4>1. PICK j : j = k + 1 OBVIOUS
      <4>2. j \in 1..Records(name) /\ j - 1 = k BY <3>4, <4>1
      <4>3. recipe \in Layouts /\ name \in Names /\ FileOf(name) BY <1>3, <1>6
      <4>4. bytes \in Seq(Bytes) /\ Len(bytes) = HeaderLen BY <1>5, <1>9
      <4>5. \A i \in 1..HeaderLen : bytes[i] = content[name][Offset(j - 1) + i]
        BY <1>5, <1>6, <3>3, <4>2, <4>4, Zenon
      <4>6. Offset(j - 1) + HeaderLen <= Len(content[name]) BY <3>2, <3>3, <4>2
      <4>7. HeaderValues(bytes) = {[uncompressed_size |-> Entry(name, j).n,
                                    compressed_size |-> FrameLen]}
        BY <4>2, <4>3, <4>4, <4>5, <4>6, HeaderOfRecord
      <4> QED BY <1>9, <4>1, <4>7
    <3>6. Ready(name, k)' BY <1>1, <2>1, <2>2, <3>1, ReadyStays
    <3>7. d_fp'.name = name /\ d_fp'.at = Offset(k) + HeaderLen
      <4>1. d_fp.at + HeaderLen \in Nat BY <1>3, <1>4
      <4> QED BY <1>3, <1>6, <1>9, <3>3, <4>1, Moved
    <3>8. Records(name)' = Records(name) /\ Entry(name, k + 1)' = Entry(name, k + 1)
      BY DEF Records, Entry
    <3>9. Behind(name, k)'
      <4>1. d_fp'.at <= Len(content'[name]) BY <1>1, <3>2, <3>3, <3>7
      <4> QED BY <1>9, <3>3, <3>5, <3>7, <3>8, <4>1 DEF Behind
    <3>10. Stands(name, k)' BY <1>2, <1>9, <3>6, <3>9 DEF Stands
    <3>11. PositionInv' BY <3>1, <3>7, <3>8, <3>10 DEF PositionInv
    <3> QED BY <1>1, <2>1, <2>2, <2>3, <2>4, <3>11, OrderStays, SameLayout DEF PlayInv
  <2> QED BY <2>5, <2>6
<1> QED BY <1>1, <1>8, <1>9


(* The stream of a record that was read to its end stands behind it. *)
LEMMA RecordEnd ==
    ASSUME recipe \in Layouts, NEW name \in Names, FileOf(name), NEW k \in Nat,
           k + 1 \in 1..Records(name), Offset(k) + RecordLen <= Len(content[name])
    PROVE  Offset(k) + RecordLen = IF k + 1 = Records(name) THEN Len(content[name])
                                   ELSE Offset(k + 1)
<1>1. (k + 1) - 1 = k /\ RecordLen \in Nat /\ RecordLen \in 0..RecordLen BY Lengths
<1>2. Offset(k + 1) = Offset(k) + RecordLen BY Offsets
<1>3. RecordLen <= Entry(name, k + 1).kept BY <1>1, RecordIsThere
<1>4. Entry(name, k + 1).kept = RecordLen
  <2>1. Entry(name, k + 1).kept \in 0..RecordLen BY EntryFacts
  <2> QED BY <1>1, <1>3, <2>1
<1>5. CASE k + 1 = Records(name)
  <2>1. Records(name) # 0 BY <1>5
  <2>2. Len(content[name]) = Offset((k + 1) - 1) + Entry(name, k + 1).kept
    BY <1>5, <2>1 DEF FileOf
  <2> QED BY <1>1, <1>4, <1>5, <2>2
<1> QED BY <1>2, <1>5

LEMMA DataKeepsPlay ==
    ASSUME PlayInv, IndInv', ReadData, UNCHANGED <<recipe, calls, sought>>
    PROVE  PlayInv'
<1> DEFINE size == header.compressed_size
           bytes == Fread(size)
           B == Decompress(header.uncompressed_size, bytes)
<1>1. /\ pc = "data"
      /\ UNCHANGED <<content, d_new_fp, d_updated, handles, noi, out>>
      /\ \/ Len(bytes) < size /\ EndOfFile(Len(bytes)) /\ byteQueue' = byteQueue
         \/ /\ Len(bytes) = size /\ byteQueue' = byteQueue \o B
            /\ d_fp' = [d_fp EXCEPT !.at = d_fp.at + size]
            /\ pc' = "loop" /\ status' = status
  BY DEF ReadData, Decoded
<1>2. /\ d_fp # NULL /\ status = "running" /\ header \in HeaderFields
      /\ Len(byteQueue) < noi /\ out \in Seq(Nat) /\ byteQueue \in Seq(Nat)
  BY <1>1 DEF PlayInv, IndInv, Files, Details, Queues, RequestInv
<1>3. /\ d_fp \in Streams /\ d_fp.name \in Names /\ d_fp.at \in Nat
      /\ content \in [Names -> Seq(Bytes)]
      /\ recipe \in Layouts /\ FileOf(d_fp.name) /\ Records(d_fp.name) \in Nat
      /\ GoodIn(d_fp.name) \subseteq Nat \ {0} /\ size \in Nat
  BY <1>2, FileAtHand DEF PlayInv, HeaderFields
<1>4. /\ bytes \in Seq(Bytes) /\ Len(bytes) \in Nat
      /\ d_fp.at <= Len(content[d_fp.name]) =>
           \/ Len(bytes) = size /\ d_fp.at + size <= Len(content[d_fp.name])
           \/ /\ Len(bytes) < size /\ ~(d_fp.at + size <= Len(content[d_fp.name]))
              /\ d_fp.at + Len(bytes) = Len(content[d_fp.name])
  BY <1>3, FreadBytes
<1>5. PICK name : name = d_fp.name OBVIOUS
<1>6. Len(bytes) = size => B = <<>> \/ \E c \in Good : B = Block(c)
  <2> SUFFICES ASSUME Len(bytes) = size PROVE B = <<>> \/ \E c \in Good : B = Block(c)
    OBVIOUS
  <2>1. IndInv /\ Made BY DEF PlayInv
  <2> HIDE DEF size
  <2> QED BY <1>2, <1>3, <2>1, DecodesToBlock
<1>7. B \in Seq(Nat) BY <1>4, DecompressType
<1>8. ASSUME ~sought
      PROVE  \E k \in 0..Records(name) :
               /\ Ready(name, k) /\ k + 1 \in 1..Records(name)
               /\ d_fp.at = Offset(k) + HeaderLen /\ d_fp.at <= Len(content[name])
               /\ size = FrameLen
               /\ B = Decompress(Entry(name, k + 1).n, Fread(FrameLen))
  <2>1. PICK k \in 0..Records(name) : Stands(name, k)
    BY <1>2, <1>5, <1>8 DEF PlayInv, PositionInv
  <2>2. /\ Ready(name, k) /\ k < Records(name) /\ d_fp.at = Offset(k) + HeaderLen
        /\ d_fp.at <= Len(content[name])
        /\ header = [uncompressed_size |-> Entry(name, k + 1).n, compressed_size |-> FrameLen]
    BY <1>1, <2>1 DEF Stands, Behind
  <2>3. k + 1 \in 1..Records(name) BY <1>3, <1>5, <2>2
  <2>4. size = FrameLen /\ B = Decompress(Entry(name, k + 1).n, Fread(FrameLen)) BY <2>2
  <2> QED BY <2>2, <2>3, <2>4
<1> HIDE DEF size, bytes, B
<1>9. CASE Len(bytes) < size /\ EndOfFile(Len(bytes)) /\ byteQueue' = byteQueue
  <2>1. ASSUME ~sought
        PROVE  \E k \in 0..Records(d_fp.name) :
                 Ready(d_fp.name, k) /\ \A g \in GoodIn(d_fp.name) : g <= k
    <3>1. PICK k \in 0..Records(name) :
            /\ Ready(name, k) /\ k + 1 \in 1..Records(name)
            /\ d_fp.at = Offset(k) + HeaderLen /\ d_fp.at <= Len(content[name])
            /\ size = FrameLen
      BY <1>8, <2>1
    <3>2. Offset(k) + RecordLen > Len(content[name])
      <4>1. ~(d_fp.at + size <= Len(content[name])) BY <1>3, <1>4, <1>5, <1>9, <3>1
      <4>2. Len(content[name]) \in Nat BY <1>3, <1>5, FileLength
      <4>3. k \in Nat BY <1>3, <1>5
      <4>4. Offset(k) \in Nat BY <4>3, Offsets
      <4> QED BY <3>1, <4>1, <4>2, <4>4, Lengths
    <3>3. RecordLen \in 1..RecordLen BY Lengths
    <3>4. \A g \in GoodIn(name) : g <= k BY <1>3, <1>5, <3>2, <3>3, NothingBehind
    <3> QED BY <1>5, <3>1, <3>4
  <2>2. ~sought => d_fp.at + Len(bytes) = Len(content[d_fp.name])
    BY <1>3, <1>4, <1>5, <1>8, <1>9
  <2> QED BY <1>1, <1>2, <1>4, <1>9, <2>1, <2>2, EndKeepsPlay
<1>10. CASE /\ Len(bytes) = size /\ byteQueue' = byteQueue \o B
            /\ d_fp' = [d_fp EXCEPT !.at = d_fp.at + size]
            /\ pc' = "loop" /\ status' = status
  <2>1. Got' = Got \o B
    <3>1. (out \o byteQueue) \o B = out \o (byteQueue \o B)
      <4>1. out \in Seq(Nat) /\ byteQueue \in Seq(Nat) /\ B \in Seq(Nat) BY <1>2, <1>7
      <4> QED BY <4>1, NatsRegrouped, ZenonT(60)
    <3> QED BY <1>1, <1>10, <3>1 DEF Got
  <2>2. Got \in Seq(Nat) /\ PlaysInOrder BY GotType DEF PlayInv
  <2>3. calls \in Nat /\ calls <= calls' BY DEF PlayInv, WaitingInv
  <2>4. WaitingInv' BY <1>1 DEF PlayInv, WaitingInv
  <2>5. RequestInv' BY <1>1, <1>2, <1>10 DEF PlayInv, RequestInv
  <2>6. Made' BY <1>1, SameLayout DEF PlayInv
  <2>7. B = <<>> => Got' = Got
    <3> SUFFICES ASSUME B = <<>> PROVE Got' = Got OBVIOUS
    <3>1. Got \o <<>> = Got BY <2>2, ConcatEmptySeq
    <3> QED BY <2>1, <3>1
  <2>8. CASE sought
    <3>1. CASE B = <<>> BY <1>1, <2>3, <2>4, <2>5, <2>7, <2>8, <3>1, LosesTrack
    <3>2. CASE \E c \in Good : B = Block(c)
      <4>1. PICK c \in Good : B = Block(c) BY <3>2
      <4>2. PlaysInOrder' BY <1>1, <1>3, <2>1, <2>2, <2>8, <4>1, BlockJoins
      <4>3. PositionInv' BY <2>8 DEF PositionInv
      <4> QED BY <2>4, <2>5, <2>6, <4>2, <4>3 DEF PlayInv
    <3> QED BY <1>6, <1>10, <3>1, <3>2
  <2>9. CASE ~sought
    <3>1. PICK k \in 0..Records(name) :
            /\ Ready(name, k) /\ k + 1 \in 1..Records(name)
            /\ d_fp.at = Offset(k) + HeaderLen /\ d_fp.at <= Len(content[name])
            /\ size = FrameLen
            /\ B = Decompress(Entry(name, k + 1).n, Fread(FrameLen))
      BY <1>8, <2>9
    <3>2. k \in Nat /\ RecordLen = HeaderLen + FrameLen /\ HeaderLen \in Nat /\ FrameLen \in Nat
          /\ Offset(k) \in Nat
      <4>1. k \in Nat BY <1>3, <1>5
      <4> QED BY <4>1, Lengths, Offsets
    <3>3. B = IF k + 1 \in GoodIn(name) THEN Block(<<name, k + 1>>) ELSE <<>>
      <4>1. Len(Fread(FrameLen)) = FrameLen BY <1>10, <3>1 DEF bytes
      <4>2. IndInv /\ Made BY DEF PlayInv
      <4> QED BY <1>2, <1>5, <3>1, <3>2, <4>1, <4>2, DecodesRecord
    <3>4. Ready(name, k + 1)' /\ PlaysInOrder'
      <4>1. CASE k + 1 \in GoodIn(name)
        <5>1. Got' = Got \o Block(<<name, k + 1>>) BY <2>1, <3>3, <4>1
        <5> QED BY <1>1, <1>3, <1>5, <2>2, <2>3, <3>1, <3>2, <4>1, <5>1, ReadyPlayed
      <4>2. CASE k + 1 \notin GoodIn(name)
        <5>1. Got' = Got BY <2>7, <3>3, <4>2
        <5>2. GoodIn(name) \subseteq Nat /\ GoodIn(File) \subseteq Nat
          <6>1. File \in Names BY FileSourceAssumption DEF FileSourceAssumption
          <6>2. FileOf(File) BY <6>1 DEF PlayInv, Made
          <6>3. Records(File) \in Nat /\ GoodIn(File) \subseteq 1..Records(File)
            BY <1>3, <6>1, RecordsCounted, GoodFacts
          <6> QED BY <1>3, <1>5, <6>3
        <5>3. PICK m \in Nat : m = k + 1 BY <3>2
        <5>4. Ready(name, m) BY <3>1, <3>2, <4>2, <5>2, <5>3, ReadyPast
        <5>5. Ready(name, m)' BY <1>1, <2>3, <5>1, <5>4, ReadyStays
        <5>6. PlaysInOrder' BY <1>1, <2>2, <2>3, <5>1, OrderStays
        <5> QED BY <5>3, <5>5, <5>6
      <4> QED BY <4>1, <4>2
    <3>5. d_fp'.name = name /\ d_fp'.at = Offset(k) + RecordLen
      <4>1. d_fp.at + size \in Nat BY <1>3
      <4>2. d_fp.at + size = Offset(k) + RecordLen BY <3>1, <3>2
      <4> QED BY <1>3, <1>5, <1>10, <4>1, <4>2, Moved
    <3>6. Offset(k) + RecordLen <= Len(content[name])
      <4>1. d_fp.at + size <= Len(content[name]) BY <1>3, <1>4, <1>5, <1>10, <3>1
      <4>2. d_fp.at + size = Offset(k) + RecordLen BY <3>1, <3>2
      <4> QED BY <4>1, <4>2
    <3>7. d_fp'.at = IF k + 1 = Records(name) THEN Len(content[name]) ELSE Offset(k + 1)
      BY <1>3, <1>5, <3>1, <3>2, <3>5, <3>6, RecordEnd
    <3>8. Records(name)' = Records(name) BY DEF Records
    <3>9. Behind(name, k + 1)'
      <4>1. d_fp'.at <= Len(content'[name]) BY <1>1, <3>5, <3>6
      <4> QED BY <1>1, <1>10, <3>7, <3>8, <4>1 DEF Behind
    <3>10. Stands(name, k + 1)' BY <1>2, <1>10, <3>4, <3>9 DEF Stands
    <3>11. k + 1 \in 0..Records(name)' BY <3>1, <3>8
    <3>12. PositionInv' BY <3>5, <3>10, <3>11 DEF PositionInv
    <3> QED BY <2>4, <2>5, <2>6, <3>4, <3>12 DEF PlayInv
  <2> QED BY <2>8, <2>9
<1> QED BY <1>1, <1>9, <1>10

LEMMA ReturnKeepsPlay ==
    ASSUME PlayInv, IndInv', Return, UNCHANGED <<recipe, calls, sought>>
    PROVE  PlayInv'
<1>1. /\ pc = "loop" /\ pc' = "idle" /\ Len(byteQueue) >= noi
      /\ out' = out \o SubSeq(byteQueue, 1, noi)
      /\ byteQueue' = SubSeq(byteQueue, noi + 1, Len(byteQueue))
      /\ UNCHANGED <<content, status, d_fp, d_new_fp, d_updated, noi, header>>
  BY DEF Return, Remainder, fileVars
<1>2. /\ byteQueue \in Seq(Nat) /\ out \in Seq(Nat) /\ noi \in Nat /\ status = "running"
  BY <1>1 DEF PlayInv, IndInv, Queues, Details
<1>3. Got' = Got
  <2> DEFINE first == SubSeq(byteQueue, 1, noi)
             rest == SubSeq(byteQueue, noi + 1, Len(byteQueue))
  <2>1. noi \in 0..Len(byteQueue) BY <1>1, <1>2
  <2>2. first \in Seq(Nat) /\ rest \in Seq(Nat) /\ first \o rest = byteQueue
    BY <1>2, <2>1, CutInTwo
  <2>3. out' = out \o first /\ byteQueue' = rest BY <1>1
  <2> HIDE DEF first, rest
  <2>4. (out \o first) \o rest = out \o (first \o rest)
    <3>1. out \in Seq(Nat) /\ first \in Seq(Nat) /\ rest \in Seq(Nat) BY <1>2, <2>2
    <3> QED BY <3>1, NatsRegrouped, ZenonT(60)
  <2> QED BY <2>2, <2>3, <2>4 DEF Got
<1>4. WaitingInv' BY <1>1 DEF PlayInv, WaitingInv
<1>5. RequestInv' BY <1>1, <1>2 DEF PlayInv, RequestInv
<1>6. calls <= calls' BY DEF PlayInv, WaitingInv
<1> QED BY <1>1, <1>2, <1>3, <1>4, <1>5, <1>6, QuietStep

LEMMA ThreadKeepsPlay ==
    ASSUME PlayInv, IndInv', Thread
    PROVE  PlayInv'
<1>1. UNCHANGED <<recipe, calls, sought>> BY DEF Thread
<1>2. calls <= calls' BY <1>1 DEF PlayInv, WaitingInv
<1>3. CASE Lock \/ ReadHeaderFault
  <2>1. /\ UNCHANGED <<content, status, d_fp, d_new_fp, d_updated, noi, header, byteQueue, out>>
        /\ (pc' = "data" <=> pc = "data") /\ (pc' = "idle" => pc = "idle")
    BY <1>3 DEF Lock, ReadHeaderFault, fileVars, callVars
  <2>2. Got' = Got BY <2>1 DEF Got
  <2>3. WaitingInv' BY <1>1, <2>1 DEF PlayInv, WaitingInv
  <2>4. RequestInv' BY <2>1 DEF PlayInv, RequestInv
  <2> QED BY <1>1, <1>2, <2>1, <2>2, <2>3, <2>4, QuietStep
<1>4. CASE StopClose
  <2>1. /\ UNCHANGED <<content, status, d_fp, d_new_fp, d_updated, noi, header, byteQueue, out>>
        /\ pc = "idle" /\ pc' = "stopping"
    BY <1>4 DEF StopClose
  <2>2. Got' = Got BY <2>1 DEF Got
  <2>3. WaitingInv' BY <1>1, <2>1 DEF PlayInv, WaitingInv
  <2>4. RequestInv' BY <2>1 DEF PlayInv, RequestInv
  <2> QED BY <1>1, <1>2, <2>1, <2>2, <2>3, <2>4, QuietStep
<1>5. CASE StopForget \/ StopFree
  <2>1. /\ UNCHANGED <<content, d_updated, noi, byteQueue, out>>
        /\ d_fp' = NULL /\ d_new_fp' \in {NULL, d_new_fp} /\ pc' # "data"
        /\ status' = "stopped" \/ (status' = status /\ pc' = "clearing")
    BY <1>5 DEF StopForget, StopFree, FreeBuffers, PlayInv, IndInv, Files
  <2>2. Got' = Got BY <2>1 DEF Got
  <2>3. WaitingInv' BY <1>1, <2>1 DEF PlayInv, WaitingInv
  <2>4. RequestInv' BY <2>1 DEF PlayInv, RequestInv
  <2> QED BY <1>1, <1>2, <2>1, <2>2, <2>3, <2>4, LosesTrack
<1> QED BY <1>1, <1>3, <1>4, <1>5, BeginKeepsPlay, InstallKeepsPlay, ReturnKeepsPlay,
           HeaderKeepsPlay, DataKeepsPlay
        DEF Thread, Work, Stop

LEMMA CallerKeepsPlay ==
    ASSUME PlayInv, IndInv', Caller
    PROVE  PlayInv'
<1>1. calls \in Nat /\ calls' = calls + 1 /\ recipe' = recipe
  BY DEF Caller, PlayInv, WaitingInv
<1>2. calls' \in Nat /\ calls' # 0 /\ calls <= calls' BY <1>1
<1>3. CASE ((\E name \in Names, repeat \in BOOLEAN : Open(name, repeat))
              \/ OpenFails \/ Close \/ Start \/ ClosedTwice) /\ UNCHANGED sought
  <2>1. /\ UNCHANGED <<content, d_fp, pc, noi, header, byteQueue, out>>
        /\ status' = "done" => status = "done"
    BY <1>3 DEF Open, OpenFails, Close, Start, ClosedTwice, fileVars, callVars
  <2>2. d_new_fp' # NULL => d_new_fp'.at = 0
    BY <1>3 DEF Open, OpenFails, Close, Start, ClosedTwice, Opened, fileVars, PlayInv,
       WaitingInv
  <2>3. Got' = Got BY <2>1 DEF Got
  <2>4. WaitingInv' BY <1>2, <2>2 DEF WaitingInv
  <2>5. RequestInv' BY <2>1 DEF PlayInv, RequestInv
  <2> QED BY <1>1, <1>2, <1>3, <2>1, <2>3, <2>4, <2>5, QuietStep
<1>4. CASE \E seek_point \in SeekPoints, whence \in Whences :
             Seek(seek_point, whence) /\ sought' = TRUE
  <2>0. PICK seek_point \in SeekPoints, whence \in Whences :
               Seek(seek_point, whence) /\ sought' = TRUE
    BY <1>4
  <2>1. /\ UNCHANGED <<content, status, d_new_fp, handles, pc, noi, byteQueue, out>>
        /\ sought' = TRUE
    BY <2>0 DEF Seek, callVars
  <2>2. d_fp' = NULL <=> d_fp = NULL
    <3>1. \/ d_fp' = d_fp
          \/ d_fp \in Streams /\ d_fp' \in Streams
      BY <2>0, SeekFacts, FileSourceAssumption DEF PlayInv, IndInv, Files, Placed, Details
    <3> QED BY <3>1, StreamIsThere, FileSourceAssumption
  <2>3. Got' = Got BY <2>1 DEF Got
  <2>4. WaitingInv' BY <1>2, <2>1 DEF PlayInv, WaitingInv
  <2>5. RequestInv' BY <2>1, <2>2 DEF PlayInv, RequestInv
  <2> QED BY <1>1, <1>2, <2>1, <2>3, <2>4, <2>5, LosesTrack
<1> QED BY <1>3, <1>4 DEF Caller

LEMMA InitPlays ==
    ASSUME MCInit
    PROVE  PlayInv
<1>1. /\ recipe \in Layouts /\ Init /\ calls = 0 /\ sought = FALSE
      /\ \A name \in Names :
           content[name] = FlattenSeq([k \in DOMAIN recipe[name] |-> Record(<<name, k>>)])
  BY DEF MCInit
<1>2. IndInv BY <1>1, InitEstablishes, FileSourceAssumption, ZStdAssumption
<1>3. Made BY <1>1, FilesMade DEF Made
<1>4. /\ status = "running" /\ pc = "idle" /\ noi = 0 /\ d_updated = FALSE /\ d_new_fp = NULL
      /\ d_fp = Opened(File) /\ byteQueue = <<>> /\ out = <<>>
  BY <1>1 DEF Init
<1>5. Got = <<>> /\ Len(Got) = 0
  <2>1. <<>> \in Seq(Nat) /\ Len(<<>>) = 0 OBVIOUS
  <2>2. <<>> \o <<>> = <<>> BY <2>1, ConcatEmptySeq
  <2> QED BY <1>4, <2>1, <2>2 DEF Got
<1>6. PlaysInOrder BY <1>5 DEF PlaysInOrder
<1>7. WaitingInv BY <1>1, <1>4 DEF WaitingInv
<1>8. RequestInv
  <2>1. MaxItems \in Nat /\ ItemSize \in Nat BY FileSourceAssumption DEF FileSourceAssumption
  <2>2. MaxItems * ItemSize \in Nat BY <2>1
  <2> QED BY <1>4, <2>2 DEF RequestInv
<1>9. PositionInv
  <2>1. d_fp.name = File /\ d_fp.at = 0 /\ File \in Names
    BY <1>4, FileSourceAssumption DEF Opened, FileSourceAssumption
  <2>2. FileOf(File) /\ Records(File) \in Nat /\ GoodIn(File) \subseteq Nat \ {0}
    <3>1. FileOf(File) /\ Records(File) \in Nat BY <1>1, <1>3, <2>1, RecordsCounted DEF Made
    <3>2. GoodIn(File) \subseteq 1..Records(File) BY <1>1, <2>1, GoodFacts
    <3> QED BY <3>1, <3>2
  <2>3. Behind(File, 0)
    <3>1. Offset(0) = 0 BY Offsets
    <3>2. Records(File) = 0 => Len(content[File]) = 0 BY <2>2 DEF FileOf
    <3>3. Len(content[File]) \in Nat BY <1>1, <2>1, <2>2, FileLength
    <3> QED BY <1>4, <2>1, <3>1, <3>2, <3>3 DEF Behind
  <2>4. \A b : ~EndsWith(b) BY <1>5 DEF EndsWith
  <2>5. \A g \in GoodIn(File) : ~(g <= 0) BY <2>2
  <2>6. Ready(File, 0) BY <2>4, <2>5 DEF Ready
  <2>7. Stands(File, 0) BY <1>4, <2>3, <2>6 DEF Stands
  <2>8. 0 \in 0..Records(File) BY <2>2
  <2> QED BY <2>1, <2>7, <2>8 DEF PositionInv
<1> QED BY <1>2, <1>3, <1>6, <1>7, <1>8, <1>9 DEF PlayInv

LEMMA Playing == MCSpec => []PlayInv
<1>1. MCInit => PlayInv BY InitPlays
<1>2. PlayInv /\ [MCNext]_mcvars => PlayInv'
  <2> SUFFICES ASSUME PlayInv, [MCNext]_mcvars PROVE PlayInv' OBVIOUS
  <2>1. IndInv' BY MCStep, StepPreserves, StartOrFaultPreserves, FileSourceAssumption,
                   ZStdAssumption DEF PlayInv, mcvars
  <2>2. CASE MCNext BY <2>1, <2>2, ThreadKeepsPlay, CallerKeepsPlay DEF MCNext
  <2>3. CASE UNCHANGED mcvars
    <3>1. UNCHANGED <<recipe, calls, sought, content, d_fp, d_new_fp, d_updated, header, pc,
                      noi, status, byteQueue, out>>
      BY <2>3 DEF mcvars, rvars, fileVars, callVars
    <3>2. Got' = Got BY <3>1 DEF Got
    <3>3. WaitingInv' /\ RequestInv' BY <3>1 DEF PlayInv, WaitingInv, RequestInv
    <3>4. calls <= calls' BY <3>1 DEF PlayInv, WaitingInv
    <3> QED BY <2>1, <3>1, <3>2, <3>3, <3>4, QuietStep
  <2> QED BY <2>2, <2>3
<1> QED BY <1>1, <1>2, PTL DEF MCSpec

(***************************************************************************)
(* Only whole blocks of the files are played, however open, close, seek,   *)
(* stop and start fall between the steps of work and whatever records are  *)
(* cut short or do not decompress; without a seek each is followed by the  *)
(* next one of its file, or by the first of one played from its beginning. *)
(***************************************************************************)
THEOREM BlocksInOrder == MCSpec => []PlaysInOrder
<1>1. PlayInv => PlaysInOrder BY DEF PlayInv
<1> QED BY <1>1, Playing, PTL

(***************************************************************************)
(* A source that ends has read every block of its file that decompresses,  *)
(* and gives up less than the largest request of one call of work.         *)
(***************************************************************************)
THEOREM EndsWithinACall == MCSpec => []LosesLessThanACall
<1>1. PlayInv => LosesLessThanACall
  <2> SUFFICES ASSUME PlayInv, status = "done", pc = "idle", ~sought
               PROVE  /\ Len(byteQueue) < MaxItems * ItemSize
                      /\ \A k \in GoodIn(d_fp.name) :
                           \E i \in 1..Len(Got) : Begins(i, <<d_fp.name, k>>)
    BY DEF LosesLessThanACall
  <2>1. d_fp # NULL /\ Len(byteQueue) < noi /\ noi <= MaxItems * ItemSize
    BY DEF PlayInv, RequestInv
  <2>2. Len(byteQueue) < MaxItems * ItemSize
    <3>1. Len(byteQueue) \in Nat /\ noi \in Nat
      BY LenProperties DEF PlayInv, IndInv, Queues, Details
    <3>2. MaxItems \in Nat /\ ItemSize \in Nat BY FileSourceAssumption DEF FileSourceAssumption
    <3>3. MaxItems * ItemSize \in Nat BY <3>2
    <3> QED BY <2>1, <3>1, <3>3
  <2>3. PICK name : name = d_fp.name OBVIOUS
  <2>4. Records(name) \in Nat /\ GoodIn(name) \subseteq 1..Records(name)
    BY <2>1, <2>3, FileAtHand DEF PlayInv
  <2>5. Ready(name, Records(name))
    <3>1. PICK k \in 0..Records(name) : Stands(name, k)
      BY <2>1, <2>3 DEF PlayInv, PositionInv
    <3> QED BY <3>1 DEF Stands
  <2>6. \A g \in GoodIn(name) : g <= Records(name) BY <2>4
  <2> QED BY <2>2, <2>3, <2>5, <2>6 DEF Ready
<1> QED BY <1>1, Playing, PTL
=============================================================================
