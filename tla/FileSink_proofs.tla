---------------------------- MODULE FileSink_proofs ----------------------------
(***************************************************************************)
(* Type correctness, the accounting of streams and what is in the file,    *)
(* written out or still in a stream's buffer, for the file sink with any   *)
(* sender and any calls of the application.                                *)
(***************************************************************************)
EXTENDS MCFileSink, ZStd_proofs

Streams == [name : Names, at : Nat, buffer : Seq(Bytes)]

Kinds ==
    /\ process \in {"alive", "destroyed", "killed"} /\ running \in BOOLEAN
    /\ d_updated \in BOOLEAN /\ d_append \in BOOLEAN /\ d_unbuffered \in BOOLEAN

(* What waits to be installed has not been written to. *)
Files ==
    /\ d_fp \in Streams \cup {NULL}
    /\ d_new_fp \in Streams \cup {NULL}
    /\ d_new_fp # NULL => d_new_fp.buffer = <<>>

(* What the theorems below need of a state, and every step keeps. *)
IndInv ==
    /\ Kinds /\ Files /\ NoStreamLeaks
    /\ compressedin \in Seq(Messages)

-----------------------------------------------------------------------------
LEMMA StreamIsThere ==
    ASSUME FileSinkAssumption, NEW fp \in Streams
    PROVE  fp # NULL
BY DEF FileSinkAssumption, Streams

LEMMA OpenedType ==
    ASSUME FileSinkAssumption, NEW name \in Names
    PROVE  /\ Opened(name) \in Streams /\ Opened(name) # NULL
           /\ Opened(name).buffer = <<>>
<1>1. Opened(name) \in Streams BY DEF Opened, Streams
<1> QED BY <1>1, StreamIsThere DEF Opened

(* A record is made of bytes, whatever the message says of itself. *)
LEMMA RecordType ==
    ASSUME ZStdAssumption, NEW msg \in Messages
    PROVE  Record(msg) \in Seq(Bytes)
<1>1. /\ msg.blob \in Seq(Bytes) /\ msg.uncompressedsize \in Nat /\ msg.compressedsize \in Nat
  BY DEF Messages
<1>2. Header(msg.uncompressedsize, msg.compressedsize) \in Seq(Bytes) BY <1>1, HeaderType
<1> QED BY <1>1, <1>2 DEF Record

LEMMA InitEstablishes ==
    ASSUME FileSinkAssumption, Init
    PROVE  IndInv
<1>1. Opened(File) \in Streams /\ Opened(File) # NULL
  BY OpenedType DEF FileSinkAssumption
<1>2. Kinds /\ d_fp \in {Opened(File), NULL} /\ d_new_fp = NULL /\ handles = Count(d_fp)
      /\ compressedin = <<>>
  BY DEF Init, Kinds
<1>3. Files BY <1>1, <1>2 DEF Files
<1>4. NoStreamLeaks BY <1>2 DEF NoStreamLeaks, Count
<1>5. compressedin \in Seq(Messages) BY <1>2
<1> QED BY <1>2, <1>3, <1>4, <1>5 DEF IndInv

-----------------------------------------------------------------------------
LEMMA CompressedInPreserves ==
    ASSUME FileSinkAssumption, ZStdAssumption, IndInv, CompressedIn
    PROVE  IndInv'
<1>1. /\ compressedin \in Seq(Messages) /\ compressedin # <<>>
      /\ compressedin' = Tail(compressedin)
      /\ UNCHANGED <<process, running, d_new_fp, d_updated, d_append, d_unbuffered, handles>>
  BY DEF IndInv, CompressedIn
<1>2. compressedin' \in Seq(Messages) /\ Head(compressedin) \in Messages BY <1>1
<1>3. CASE d_fp' = d_fp
  BY <1>1, <1>2, <1>3 DEF IndInv, Kinds, Files, NoStreamLeaks
<1>4. CASE d_fp' # d_fp
  <2> DEFINE buffer == d_fp.buffer \o Record(Head(compressedin))
  <2>1. d_fp # NULL BY <1>4 DEF CompressedIn
  <2>2. d_fp \in Streams BY <2>1 DEF IndInv, Files
  <2>3. PICK n \in Pending(buffer) :
           d_fp' = [d_fp EXCEPT !.at = d_fp.at + n,
                                !.buffer = SubSeq(buffer, n + 1, Len(buffer))]
    BY <1>4 DEF CompressedIn
  <2>4. d_fp.buffer \in Seq(Bytes) /\ d_fp.at \in Nat BY <2>2 DEF Streams
  <2>5. buffer \in Seq(Bytes) BY <2>4, <1>2, RecordType
  <2> HIDE DEF buffer
  <2>6. n \in 0..Len(buffer) BY <2>5 DEF Pending
  <2>7. SubSeq(buffer, n + 1, Len(buffer)) \in Seq(Bytes) /\ d_fp.at + n \in Nat
    BY <2>4, <2>5, <2>6
  <2>8. d_fp' \in Streams BY <2>2, <2>3, <2>7 DEF Streams
  <2>9. d_fp' # NULL BY <2>8, StreamIsThere
  <2> QED BY <1>1, <1>2, <2>1, <2>8, <2>9 DEF IndInv, Kinds, Files, NoStreamLeaks, Count
<1> QED BY <1>3, <1>4

LEMMA OpenPreserves ==
    ASSUME FileSinkAssumption, IndInv, NEW name \in Names, Open(name)
    PROVE  IndInv'
<1>1. Opened(name) \in Streams /\ Opened(name) # NULL /\ Opened(name).buffer = <<>>
  BY OpenedType
<1>2. /\ d_new_fp' \in {Opened(name), NULL}
      /\ handles' = handles - Count(d_new_fp) + Count(d_new_fp')
      /\ d_fp' = d_fp
  BY DEF Open, HandlesAfterOpen
<1>3. Files' BY <1>1, <1>2 DEF IndInv, Files
<1>4. NoStreamLeaks' BY <1>2 DEF IndInv, NoStreamLeaks, Count
<1> QED BY <1>3, <1>4 DEF Open, IndInv, Kinds

(* The steps that close streams, or touch none. *)
LEMMA OtherPreserves ==
    ASSUME IndInv,
           Close \/ SetUnbuffered \/ Stop \/ Start \/ Destroy \/ Kill \/ UNCHANGED kvars
    PROVE  IndInv'
<1>1. d_fp' \in {d_fp, NULL} /\ d_new_fp' \in {d_new_fp, NULL}
      /\ compressedin' = compressedin
  BY DEF Close, SetUnbuffered, Stop, Start, Destroy, Kill, kvars, CloseEffect
<1>2. Files' BY <1>1 DEF IndInv, Files
<1>3. NoStreamLeaks'
  <2>1. CASE Close \/ Stop
    <3>1. d_new_fp' = NULL /\ handles' = handles - Count(d_new_fp) /\ d_fp' = d_fp
      BY <2>1 DEF Close, Stop, CloseEffect
    <3> QED BY <3>1 DEF IndInv, NoStreamLeaks, Count
  <2>2. CASE SetUnbuffered \/ Start \/ UNCHANGED kvars
    BY <2>2 DEF SetUnbuffered, Start, kvars, IndInv, NoStreamLeaks
  <2>3. CASE Destroy
    <3>1. d_fp' = NULL /\ d_new_fp' = NULL /\ handles' = handles - Count(d_fp) - Count(d_new_fp)
      BY <2>3 DEF Destroy
    <3> QED BY <3>1 DEF IndInv, NoStreamLeaks, Count
  <2>4. CASE Kill
    <3>1. d_fp' = NULL /\ d_new_fp' = NULL /\ handles' = 0 BY <2>4 DEF Kill
    <3> QED BY <3>1 DEF NoStreamLeaks, Count
  <2> QED BY <2>1, <2>2, <2>3, <2>4
<1>4. Kinds'
  BY DEF IndInv, Kinds, Close, SetUnbuffered, Stop, Start, Destroy, Kill, kvars, CloseEffect
<1> QED BY <1>1, <1>2, <1>3, <1>4 DEF IndInv

LEMMA StepPreserves ==
    ASSUME FileSinkAssumption, ZStdAssumption, IndInv, [Next]_kvars
    PROVE  IndInv'
BY CompressedInPreserves, OpenPreserves, OtherPreserves DEF Next, Application

(* A message that arrives is a message. *)
LEMMA ArrivePreserves ==
    ASSUME ZStdAssumption, FrameLen \in Nat \ {0}, IndInv, sent \in Nat, Arrive
    PROVE  IndInv' /\ sent' \in Nat
<1>1. PICK hasheader \in BOOLEAN :
        compressedin' = Append(compressedin, BlockMessage(Run(sent, 1), FrameLen, hasheader))
  BY DEF Arrive
<1>2. Run(sent, 1) \in Seq(Nat) BY RunIsSeq
<1>3. BlockMessage(Run(sent, 1), FrameLen, hasheader) \in Messages
  BY <1>2, BlockMessagePayload
<1>4. compressedin' \in Seq(Messages) BY <1>1, <1>3 DEF IndInv
<1> QED BY <1>4 DEF Arrive, IndInv, Kinds, Files, NoStreamLeaks

LEMMA Invariance ==
    ASSUME FrameLen \in Nat \ {0}
    PROVE  MCSpec => [](IndInv /\ sent \in Nat)
<1>1. MCInit => IndInv /\ sent \in Nat
  BY InitEstablishes, FileSinkAssumption DEF MCInit
<1>2. (IndInv /\ sent \in Nat) /\ [MCNext]_mcvars => (IndInv /\ sent \in Nat)'
  <2> SUFFICES ASSUME IndInv, sent \in Nat, [MCNext]_mcvars
               PROVE  IndInv' /\ sent' \in Nat
    OBVIOUS
  <2>1. CASE Arrive BY <2>1, ArrivePreserves, ZStdAssumption
  <2>2. CASE Thread \/ Caller \/ UNCHANGED mcvars
    <3>1. [Next]_kvars /\ sent' = sent
      BY <2>2 DEF Thread, Caller, mcvars, Next, Application
    <3> QED BY <3>1, StepPreserves, FileSinkAssumption, ZStdAssumption
  <2> QED BY <2>1, <2>2 DEF MCNext
<1> QED BY <1>1, <1>2, PTL DEF MCSpec

(***************************************************************************)
(* The variables keep their types, a waiting stream has an empty buffer.   *)
(***************************************************************************)
THEOREM TypeCorrect == ASSUME FrameLen \in Nat \ {0} PROVE MCSpec => []TypeOK
<1>1. IndInv => TypeOK BY DEF IndInv, Kinds, Files, Streams, TypeOK
<1> QED BY <1>1, Invariance, PTL

(***************************************************************************)
(* However open, close, set_unbuffered, stop, a restart, the destructor    *)
(* and a kill follow one another, every stream that was opened is in use,  *)
(* waits to be used or has been closed.                                    *)
(***************************************************************************)
THEOREM StreamsAccounted == ASSUME FrameLen \in Nat \ {0} PROVE MCSpec => []NoStreamLeaks
<1>1. IndInv => NoStreamLeaks BY DEF IndInv
<1> QED BY <1>1, Invariance, PTL

-----------------------------------------------------------------------------
(***************************************************************************)
(* The contents of the file.  What was handled is in the file or in the    *)
(* buffer of the stream on it; nothing else writes there, unless the file  *)
(* is opened again and truncated.                                          *)
(***************************************************************************)
Whole == Old \o Chained(handled)

(* A record as the file format has it. *)
Listed(msg) ==
    Header(msg.uncompressedsize, msg.compressedsize)
      \o SubSeq(msg.blob, Skip(msg) + 1, Len(msg.blob))

(* The handler writes just that for the messages that arrive. *)
Proper(msg) == msg \in Messages /\ Record(msg) = Listed(msg)

HistoryInv ==
    /\ \A k \in 1..Len(compressedin) : Proper(compressedin[k])
    /\ handled \in Seq(Messages)
    /\ durable \in 0..Len(handled)
    /\ truncated \in BOOLEAN
    /\ process = "alive" => IF d_fp = NULL THEN handled = <<>> ELSE d_fp.name = File

(* The stream writes behind all that the file holds. *)
AtEnd == d_append \/ d_fp.at = Len(disk[File])

ContentInv ==
    /\ disk[File] \in Seq(Bytes)
    /\ process = "alive" /\ d_fp # NULL => AtEnd /\ disk[File] \o d_fp.buffer = Whole
    /\ process = "alive" /\ d_fp = NULL => disk[File] = Whole
    /\ process = "destroyed" => disk[File] = Whole
    /\ process = "killed" => FileIsChain
    /\ Durable

ChainInv == HistoryInv /\ DOMAIN disk = Names /\ (~truncated => ContentInv)

-----------------------------------------------------------------------------
LEMMA ListedType ==
    ASSUME ZStdAssumption, NEW msg \in Messages
    PROVE  Listed(msg) \in Seq(Bytes)
<1>1. /\ msg.blob \in Seq(Bytes) /\ msg.uncompressedsize \in Nat /\ msg.compressedsize \in Nat
  BY DEF Messages
<1>2. Header(msg.uncompressedsize, msg.compressedsize) \in Seq(Bytes) BY <1>1, HeaderType
<1>3. SubSeq(msg.blob, Skip(msg) + 1, Len(msg.blob)) \in Seq(Bytes)
  BY <1>1 DEF Skip, ZStdAssumption
<1> QED BY <1>2, <1>3, ConcatProperties DEF Listed

Listing(msgs) == [k \in 1..Len(msgs) |-> Listed(msgs[k])]

LEMMA ListingType ==
    ASSUME ZStdAssumption, NEW msgs \in Seq(Messages)
    PROVE  /\ Listing(msgs) \in Seq(Seq(Bytes)) /\ Len(Listing(msgs)) = Len(msgs)
           /\ Chained(msgs) = FlattenSeq(Listing(msgs))
<1>1. \A k \in 1..Len(msgs) : Listed(msgs[k]) \in Seq(Bytes) BY ListedType
<1>2. Len(msgs) \in Nat /\ Listing(msgs) \in [1..Len(msgs) -> Seq(Bytes)]
  BY <1>1 DEF Listing
<1>3. Chained(msgs) = FlattenSeq(Listing(msgs)) BY DEF Chained, Listing, Listed
<1> QED BY <1>2, <1>3

(* The format of a file with one message more. *)
LEMMA ChainedAppend ==
    ASSUME ZStdAssumption, NEW msgs \in Seq(Messages), NEW msg \in Messages
    PROVE  Chained(Append(msgs, msg)) = Chained(msgs) \o Listed(msg)
<1> DEFINE new == Append(msgs, msg)
           n == Len(msgs)
           long == Append(Listing(msgs), Listed(msg))
<1>1. /\ new \in Seq(Messages) /\ Len(new) = n + 1 /\ n \in Nat
      /\ \A k \in 1..n : new[k] = msgs[k]
      /\ new[n + 1] = msg
  BY AppendProperties, LenProperties
<1>2. Listing(msgs) \in Seq(Seq(Bytes)) /\ Len(Listing(msgs)) = n /\ Listed(msg) \in Seq(Bytes)
  BY ListingType, ListedType
<1>3. /\ long \in Seq(Seq(Bytes)) /\ Len(long) = n + 1
      /\ \A k \in 1..n : long[k] = Listing(msgs)[k]
      /\ long[n + 1] = Listed(msg)
  BY <1>2, AppendProperties
<1>4. Listing(new) \in Seq(Seq(Bytes)) /\ Len(Listing(new)) = n + 1
  BY <1>1, ListingType
<1> HIDE DEF new, n, long
<1>5. ASSUME NEW k \in 1..(n + 1) PROVE long[k] = Listing(new)[k]
  <2>1. Listing(new)[k] = Listed(new[k]) BY <1>1 DEF Listing
  <2>2. CASE k \in 1..n
    <3>1. Listing(msgs)[k] = Listed(msgs[k]) BY <2>2 DEF Listing, n
    <3> QED BY <1>1, <1>3, <2>1, <2>2, <3>1
  <2>3. CASE k \notin 1..n
    <3>1. k = n + 1 BY <1>1, <2>3
    <3> QED BY <1>1, <1>3, <2>1, <3>1
  <2> QED BY <2>2, <2>3
<1>6. long = Listing(new) BY <1>3, <1>4, <1>5, SeqEqual
<1>7. FlattenSeq(long) = FlattenSeq(Listing(msgs)) \o Listed(msg)
  BY <1>2, FlattenAppend DEF long
<1>8. Chained(msgs) = FlattenSeq(Listing(msgs)) BY ListingType
<1>9. Chained(new) = FlattenSeq(Listing(new)) BY <1>1, ListingType
<1> QED BY <1>6, <1>7, <1>8, <1>9 DEF new

LEMMA ChainedType ==
    ASSUME ZStdAssumption
    PROVE  /\ Chained(<<>>) = <<>>
           /\ \A msgs \in Seq(Messages) : Chained(msgs) \in Seq(Bytes)
<1>1. ASSUME NEW msgs \in Seq(Messages) PROVE Chained(msgs) \in Seq(Bytes)
  BY ListingType, FlattenType
<1>2. Chained(<<>>) = <<>>
  <2>1. <<>> \in Seq(Messages) /\ Len(<<>>) = 0 BY EmptySeq
  <2>2. Len(Listing(<<>>)) = 0 /\ Listing(<<>>) \in Seq(Seq(Bytes)) BY <2>1, ListingType
  <2>3. Listing(<<>>) = <<>> BY <2>2, EmptySeq
  <2> QED BY <2>1, <2>3, ListingType, FlattenEmpty
<1> QED BY <1>1, <1>2

LEMMA OldType == ASSUME FileSinkAssumption PROVE Old \in Seq(Bytes)
BY EmptySeq DEF Old, FileSinkAssumption

(* The beginning of a sequence, and the beginning of what follows it. *)
LEMMA PrefixOfConcat ==
    ASSUME NEW T, NEW s \in Seq(T), NEW t \in Seq(T), NEW n \in 0..Len(t)
    PROVE  IsPrefix(s \o SubSeq(t, 1, n), s \o t)
<1> DEFINE u == SubSeq(t, 1, n)
           a == s \o u
           b == s \o t
<1>1. Len(t) \in Nat /\ Len(s) \in Nat /\ n \in Nat /\ n <= Len(t) OBVIOUS
<1>2. u \in Seq(T) /\ Len(u) = n /\ \A i \in 1..n : u[i] = t[i]
  <2>1. \A i \in 1..n : t[i] \in T BY <1>1
  <2> QED BY <1>1, <2>1, SubSeqProperties
<1>3. /\ b \in Seq(T) /\ Len(b) = Len(s) + Len(t)
      /\ \A i \in 1..(Len(s) + Len(t)) : b[i] = IF i <= Len(s) THEN s[i] ELSE t[i - Len(s)]
  BY ConcatProperties
<1> HIDE DEF u
<1>4. /\ a \in Seq(T) /\ Len(a) = Len(s) + n
      /\ \A i \in 1..(Len(s) + n) : a[i] = IF i <= Len(s) THEN s[i] ELSE u[i - Len(s)]
  <2>1. /\ a \in Seq(T) /\ Len(a) = Len(s) + Len(u)
        /\ \A i \in 1..(Len(s) + Len(u)) : a[i] = IF i <= Len(s) THEN s[i] ELSE u[i - Len(s)]
    BY <1>2, ConcatProperties
  <2> HIDE DEF a
  <2>2. Len(u) = n BY <1>2
  <2> QED BY <2>1, <2>2, Zenon
<1> HIDE DEF a, b
<1>5. Len(a) <= Len(b) /\ Len(a) \in Nat BY <1>1, <1>3, <1>4
<1>6. ASSUME NEW i \in 1..Len(a) PROVE b[i] = a[i]
  <2>1. i \in 1..(Len(s) + n) /\ i \in 1..(Len(s) + Len(t)) BY <1>1, <1>4
  <2>2. CASE i <= Len(s) BY <1>3, <1>4, <2>1, <2>2
  <2>3. CASE ~(i <= Len(s))
    <3>1. i - Len(s) \in 1..n BY <1>1, <2>1, <2>3
    <3> QED BY <1>2, <1>3, <1>4, <2>1, <2>3, <3>1
  <2> QED BY <2>2, <2>3
<1>7. SubSeq(a, 1, Len(a)) = a BY <1>4, SubSeqFull
<1>8. SubSeq(b, 1, Len(a)) = a
  <2> DEFINE c == SubSeq(b, 1, Len(a))
  <2>1. \A i \in 1..Len(a) : b[i] \in T BY <1>3, <1>5
  <2>2. c \in Seq(T) /\ Len(c) = Len(a) /\ \A i \in 1..Len(a) : c[i] = b[i]
    BY <1>5, <2>1, SubSeqProperties
  <2> HIDE DEF c
  <2>3. \A i \in 1..Len(c) : c[i] = a[i] BY <1>6, <2>2
  <2>4. c = a BY <1>4, <2>2, <2>3, SeqEqual
  <2> QED BY <2>4 DEF c
<1>9. IsPrefix(a, b) BY <1>5, <1>7, <1>8 DEF IsPrefix
<1> QED BY <1>9 DEF a, b, u

(* Parts of a file, put together. *)
LEMMA BytesRegrouped ==
    ASSUME NEW s \in Seq(Bytes), NEW t \in Seq(Bytes), NEW u \in Seq(Bytes)
    PROVE  (s \o t) \o u = s \o (t \o u)
BY Regrouped

(* What is written at the end of a file is behind its bytes. *)
LEMMA WrittenAtEnd ==
    ASSUME NEW bytes \in Seq(Bytes), NEW new \in Seq(Bytes), NEW at,
           d_append \/ at = Len(bytes)
    PROVE  Written(bytes, at, new) = bytes \o new
<1> DEFINE L == Len(bytes)
           m == Len(new)
           w == Written(bytes, at, new)
           both == bytes \o new
<1>1. L \in Nat /\ m \in Nat OBVIOUS
<1>2. /\ both \in Seq(Bytes) /\ Len(both) = L + m
      /\ \A i \in 1..(L + m) : both[i] = IF i <= L THEN bytes[i] ELSE new[i - L]
  BY ConcatProperties
<1>3. (IF d_append THEN Len(bytes) ELSE at) = L OBVIOUS
<1>4. (IF L + m > L THEN L + m ELSE L) = L + m BY <1>1
<1>5. w = [i \in 1..(L + m) |->
             IF i \in L + 1 .. L + m THEN new[i - L]
             ELSE IF i <= L THEN bytes[i] ELSE [kind |-> "zero"]]
  BY <1>3, <1>4, Zenon DEF Written
<1> HIDE DEF both, w
<1>6. ASSUME NEW i \in 1..(L + m) PROVE w[i] = both[i]
  <2>1. CASE i <= L
    <3>1. i \notin L + 1 .. L + m BY <1>1, <2>1
    <3> QED BY <1>2, <1>5, <2>1, <3>1
  <2>2. CASE ~(i <= L)
    <3>1. i \in L + 1 .. L + m BY <1>1, <2>2
    <3> QED BY <1>2, <1>5, <2>2, <3>1
  <2> QED BY <2>1, <2>2
<1>7. \A i \in 1..(L + m) : both[i] \in Bytes BY <1>2
<1>8. w \in [1..(L + m) -> Bytes]
  <2>1. \A i \in 1..(L + m) : w[i] \in Bytes BY <1>6, <1>7
  <2>2. w = [i \in 1..(L + m) |-> w[i]] BY <1>5, Zenon
  <2> QED BY <2>1, <2>2
<1>9. w \in Seq(Bytes) /\ Len(w) = L + m BY <1>1, <1>8
<1>10. w = both BY <1>2, <1>6, <1>9, SeqEqual
<1> QED BY <1>10 DEF w, both

(* What a flush does to the file. *)
LEMMA FlushedFile ==
    ASSUME FileSinkAssumption, DOMAIN disk = Names, disk[File] \in Seq(Bytes),
           d_fp.name = File, AtEnd, NEW buffer \in Seq(Bytes), NEW n \in 0..Len(buffer)
    PROVE  LET d == Flushed(buffer, n) IN
           /\ DOMAIN d = Names
           /\ d[File] = disk[File] \o SubSeq(buffer, 1, n)
           /\ d[File] \in Seq(Bytes)
           /\ Len(d[File]) = Len(disk[File]) + n
<1> DEFINE d == Flushed(buffer, n)
           part == SubSeq(buffer, 1, n)
<1>1. part \in Seq(Bytes) /\ Len(part) = n
  <2>1. \A i \in 1..n : buffer[i] \in Bytes OBVIOUS
  <2> QED BY <2>1, SubSeqProperties
<1>2. DOMAIN d = Names /\ d[File] = Written(disk[File], d_fp.at, part)
  BY DEF Flushed, FileSinkAssumption
<1> HIDE DEF part, d
<1>3. Written(disk[File], d_fp.at, part) = disk[File] \o part BY <1>1, WrittenAtEnd DEF AtEnd
<1>4. disk[File] \o part \in Seq(Bytes) /\ Len(disk[File] \o part) = Len(disk[File]) + Len(part)
  BY <1>1, ConcatProperties, ZenonT(30)
<1>5. Len(d[File]) = Len(disk[File]) + n BY <1>1, <1>2, <1>3, <1>4, Zenon
<1> QED BY <1>2, <1>3, <1>4, <1>5 DEF part, d

(* A message that arrives is written as the format has it: if its blob     *)
(* begins with a header, the header is the one of its sizes.               *)
LEMMA ArrivingIsProper ==
    ASSUME ZStdAssumption, NEW content \in Seq(Nat), NEW csize \in Nat \ {0},
           NEW hasheader \in BOOLEAN
    PROVE  Proper(BlockMessage(content, csize, hasheader))
<1> DEFINE msg == BlockMessage(content, csize, hasheader)
           h == Header(Len(content), csize)
           f == Frame(content, csize)
           rest == SubSeq(msg.blob, Skip(msg) + 1, Len(msg.blob))
           proper == Record(msg) = h \o f /\ rest = f
<1>1. msg \in Messages /\ Len(msg.blob) = Skip(msg) + csize BY BlockMessagePayload
<1>2. /\ msg.uncompressedsize = Len(content) /\ msg.compressedsize = csize
      /\ msg.hasheader = hasheader
      /\ msg.blob = (IF hasheader THEN h ELSE <<>>) \o f
  BY DEF BlockMessage
<1>3. h \in Seq(Bytes) /\ Len(h) = HeaderLen /\ f \in Seq(Bytes) /\ Len(f) = csize
      /\ HeaderLen \in Nat
  BY HeaderType, FrameType DEF ZStdAssumption
<1>6. Header(msg.uncompressedsize, msg.compressedsize) = h BY <1>2
<1> HIDE DEF msg, h, f
<1>4. ASSUME hasheader PROVE proper
  <2>1. Record(msg) = <<>> \o (h \o f) BY <1>2, <1>4 DEF Record
  <2>2. h \o f \in Seq(Bytes) BY <1>3
  <2>3. Record(msg) = h \o f BY <2>1, <2>2, ConcatEmptySeq
  <2>4. rest = f
    <3> DEFINE b == h \o f
    <3>1. /\ b \in Seq(Bytes) /\ Len(b) = HeaderLen + csize
          /\ \A i \in 1..(HeaderLen + csize) : b[i] = IF i <= HeaderLen THEN h[i] ELSE f[i - HeaderLen]
      <4>1. /\ b \in Seq(Bytes) /\ Len(b) = Len(h) + Len(f)
            /\ \A i \in 1..(Len(h) + Len(f)) : b[i] = IF i <= Len(h) THEN h[i] ELSE f[i - Len(h)]
        BY <1>3, ConcatProperties
      <4> HIDE DEF b
      <4>2. Len(h) = HeaderLen /\ Len(f) = csize BY <1>3
      <4> QED BY <4>1, <4>2, Zenon
    <3> HIDE DEF b
    <3> DEFINE t == SubSeq(b, HeaderLen + 1, HeaderLen + csize)
    <3>2. \A i \in (HeaderLen + 1)..(HeaderLen + csize) : b[i] \in Bytes BY <1>3, <3>1
    <3>3. /\ t \in Seq(Bytes) /\ Len(t) = csize
          /\ \A i \in 1..csize : t[i] = b[HeaderLen + i]
      BY <1>3, <3>2, SubSeqProperties, SMTT(30)
    <3> HIDE DEF t
    <3>4. \A i \in 1..csize : t[i] = f[i] BY <1>3, <3>1, <3>3
    <3>5. t = f BY <1>3, <3>3, <3>4, SeqEqual
    <3>6. Skip(msg) = HeaderLen BY <1>2, <1>4 DEF Skip
    <3>7. msg.blob = b /\ Len(b) = HeaderLen + csize BY <1>2, <1>4, <3>1 DEF b
    <3> QED BY <3>5, <3>6, <3>7 DEF t
  <2> QED BY <2>3, <2>4
<1>5. ASSUME ~hasheader PROVE proper
  <2>1. msg.blob = f /\ Skip(msg) = 0
    BY <1>2, <1>3, <1>5, ConcatEmptySeq DEF Skip
  <2>2. rest = f BY <1>3, <2>1, SubSeqFull
  <2>3. Record(msg) = h \o f BY <1>2, <1>5, <1>6, <2>1 DEF Record
  <2> QED BY <2>2, <2>3
<1>7. proper BY <1>4, <1>5
<1>8. Proper(msg) BY <1>1, <1>6, <1>7 DEF Proper, Listed
<1> QED BY <1>8 DEF msg

-----------------------------------------------------------------------------
SinkInv == IndInv /\ ChainInv

(* The chain so far, and with the message that is handled next. *)
LEMMA WholeType ==
    ASSUME FileSinkAssumption, ZStdAssumption, SinkInv
    PROVE  /\ Whole \in Seq(Bytes) /\ Old \in Seq(Bytes) /\ Chained(handled) \in Seq(Bytes)
           /\ handled \in Seq(Messages) /\ compressedin \in Seq(Messages)
           /\ \A msg \in Messages :
                Whole \o Listed(msg) = Old \o Chained(Append(handled, msg))
<1>1. handled \in Seq(Messages) /\ compressedin \in Seq(Messages)
  BY DEF SinkInv, IndInv, ChainInv, HistoryInv
<1>2. Old \in Seq(Bytes) /\ Chained(handled) \in Seq(Bytes) BY <1>1, OldType, ChainedType
<1>3. Whole \in Seq(Bytes) BY <1>2 DEF Whole
<1>4. ASSUME NEW msg \in Messages
      PROVE  Whole \o Listed(msg) = Old \o Chained(Append(handled, msg))
  <2>1. Listed(msg) \in Seq(Bytes) BY ListedType
  <2>2. (Old \o Chained(handled)) \o Listed(msg) = Old \o (Chained(handled) \o Listed(msg))
    <3>1. /\ Old \in Seq(Bytes) /\ Chained(handled) \in Seq(Bytes)
          /\ Listed(msg) \in Seq(Bytes)
      BY <1>2, <2>1
    <3> QED BY <3>1, BytesRegrouped, ZenonT(60)
  <2>3. Chained(Append(handled, msg)) = Chained(handled) \o Listed(msg)
    BY <1>1, ChainedAppend
  <2> QED BY <2>2, <2>3 DEF Whole
<1> QED BY <1>1, <1>2, <1>3, <1>4

(* A file that holds a beginning of what follows is a chain of records. *)
LEMMA BrokenOff ==
    ASSUME FileSinkAssumption, ZStdAssumption, SinkInv, compressedin # <<>>,
           NEW b \in Seq(Bytes), NEW n \in 0..Len(b), disk[File] \in Seq(Bytes),
           disk[File] \o b = Whole \o Listed(Head(compressedin)),
           disk'[File] = disk[File] \o SubSeq(b, 1, n),
           UNCHANGED <<handled, compressedin, d_append>>
    PROVE  FileIsChain'
<1> DEFINE head == Head(compressedin)
           next == <<head>>
<1>1. handled \in Seq(Messages) /\ head \in Messages /\ head = compressedin[1]
      /\ 1 \in {1} \cap DOMAIN compressedin
  BY WholeType
<1>2. Whole \o Listed(head) = Old \o Chained(Append(handled, head))
  BY <1>1, WholeType
<1>3. Append(handled, head) = handled \o next BY <1>1, AppendIsConcat
<1>4. IsPrefix(disk[File] \o SubSeq(b, 1, n), disk[File] \o b) BY PrefixOfConcat
<1>5. IsPrefix(disk'[File], Old \o Chained(handled \o next)) BY <1>2, <1>3, <1>4
<1>6. next \in {<<compressedin[k]>> : k \in {1} \cap DOMAIN compressedin} BY <1>1
<1>7. Old' = Old BY DEF Old
<1> HIDE DEF next, head
<1>8. \E nxt \in {<<>>} \cup {<<compressedin[k]>> : k \in {1} \cap DOMAIN compressedin} :
        IsPrefix(disk'[File], Old \o Chained(handled \o nxt))
  BY <1>5, <1>6, Zenon
<1> QED BY <1>7, <1>8 DEF FileIsChain

(* So is one that holds all of the chain but what the buffer has. *)
LEMMA NothingBroken ==
    ASSUME handled \in Seq(Messages), Whole \in Seq(Bytes), disk[File] \in Seq(Bytes),
           NEW b \in Seq(Bytes), disk[File] \o b = Whole
    PROVE  FileIsChain
<1>1. handled \o <<>> = handled BY ConcatEmptySeq
<1>2. 0 \in 0..Len(b) OBVIOUS
<1>3. SubSeq(b, 1, 0) = <<>> BY SubSeqEmpty
<1>4. disk[File] \o <<>> = disk[File] BY ConcatEmptySeq
<1>5. IsPrefix(disk[File] \o SubSeq(b, 1, 0), disk[File] \o b) BY <1>2, PrefixOfConcat
<1>6. IsPrefix(disk[File], Old \o Chained(handled \o <<>>))
  BY <1>1, <1>3, <1>4, <1>5 DEF Whole
<1> QED BY <1>6 DEF FileIsChain

-----------------------------------------------------------------------------
Handles ==
    /\ CompressedIn
    /\ handled' = IF d_fp = NULL THEN handled ELSE Append(handled, Head(compressedin))
    /\ durable' = IF d_unbuffered THEN Len(handled') ELSE durable
    /\ UNCHANGED truncated

(* What was durable before, or all of the chain when the stream is not     *)
(* buffered.                                                               *)
LEMMA StillDurable ==
    ASSUME Durable, ~truncated, handled \in Seq(Messages), durable \in 0..Len(handled),
           UNCHANGED <<durable, d_append>>,
           \/ handled' = handled
           \/ \E msg \in Messages : handled' = Append(handled, msg),
           Len(disk'[File]) >= Len(disk[File]), Len(disk[File]) \in Nat,
           Len(disk'[File]) \in Nat, FileSinkAssumption, ZStdAssumption
    PROVE  Durable'
<1>1. SubSeq(handled', 1, durable) = SubSeq(handled, 1, durable)
  <2>1. CASE handled' = handled BY <2>1
  <2>2. ASSUME NEW msg \in Messages, handled' = Append(handled, msg)
        PROVE  SubSeq(handled', 1, durable) = SubSeq(handled, 1, durable)
    <3> DEFINE new == Append(handled, msg)
               s == SubSeq(handled, 1, durable)
               t == SubSeq(new, 1, durable)
    <3>1. durable \in Nat /\ durable <= Len(handled) OBVIOUS
    <3>2. /\ new \in Seq(Messages) /\ Len(new) = Len(handled) + 1
          /\ \A i \in 1..Len(handled) : new[i] = handled[i]
      BY AppendProperties
    <3> HIDE DEF new
    <3>3. \A i \in 1..durable : new[i] = handled[i] /\ new[i] \in Messages /\ handled[i] \in Messages
      BY <3>1, <3>2
    <3>4. s \in Seq(Messages) /\ Len(s) = durable /\ \A i \in 1..durable : s[i] = handled[i]
      BY <3>1, <3>3, SubSeqProperties
    <3>5. t \in Seq(Messages) /\ Len(t) = durable /\ \A i \in 1..durable : t[i] = new[i]
      BY <3>1, <3>3, SubSeqProperties
    <3> HIDE DEF s, t
    <3>6. s = t BY <3>3, <3>4, <3>5, SeqEqual
    <3> QED BY <2>2, <3>6 DEF s, t, new
  <2> QED BY <2>1, <2>2
<1>2. Old' = Old BY DEF Old
<1> DEFINE old == Len(Old \o Chained(SubSeq(handled, 1, durable)))
<1>3. Old \o Chained(SubSeq(handled, 1, durable)) \in Seq(Bytes)
  <2>1. SubSeq(handled, 1, durable) \in Seq(Messages) OBVIOUS
  <2>2. Chained(SubSeq(handled, 1, durable)) \in Seq(Bytes) /\ Old \in Seq(Bytes)
    BY <2>1, OldType, ChainedType
  <2> QED BY <2>2, ConcatProperties
<1>4. old \in Nat BY <1>3
<1>5. Len(disk[File]) >= old BY DEF Durable
<1>6. Len(Old' \o Chained(SubSeq(handled', 1, durable'))) = old BY <1>1, <1>2
<1> HIDE DEF old
<1>7. Len(disk'[File]) >= old BY <1>4, <1>5
<1> QED BY <1>6, <1>7 DEF Durable

LEMMA AllDurable ==
    ASSUME handled' \in Seq(Messages), durable' = Len(handled'), disk'[File] = Whole',
           Whole' \in Seq(Bytes)
    PROVE  Durable'
<1>1. SubSeq(handled', 1, durable') = handled' BY SubSeqFull
<1>2. Len(disk'[File]) = Len(Old' \o Chained(SubSeq(handled', 1, durable')))
  BY <1>1, Zenon DEF Whole
<1>3. Len(disk'[File]) \in Nat OBVIOUS
<1> QED BY <1>2, <1>3 DEF Durable

LEMMA HandlerKeepsChain ==
    ASSUME FileSinkAssumption, ZStdAssumption, SinkInv, Handles
    PROVE  ChainInv'
<1> DEFINE h == Head(compressedin)
<1>1. /\ compressedin \in Seq(Messages) /\ compressedin # <<>>
      /\ compressedin' = Tail(compressedin)
      /\ UNCHANGED <<process, running, d_append, d_unbuffered, truncated>>
      /\ process = "alive"
      /\ handled \in Seq(Messages) /\ durable \in 0..Len(handled)
      /\ DOMAIN disk = Names /\ truncated \in BOOLEAN
      /\ \A k \in 1..Len(compressedin) : Proper(compressedin[k])
      /\ IF d_fp = NULL THEN handled = <<>> ELSE d_fp.name = File
  BY DEF Handles, CompressedIn, SinkInv, IndInv, ChainInv, HistoryInv
<1>2. h \in Messages /\ Proper(h) /\ h = compressedin[1]
  BY <1>1
<1>3. \A k \in 1..Len(compressedin') : Proper(compressedin'[k])
  <2>1. Len(Tail(compressedin)) = Len(compressedin) - 1
        /\ \A k \in 1..Len(Tail(compressedin)) : Tail(compressedin)[k] = compressedin[k + 1]
    BY <1>1, HeadTailProperties
  <2>2. Len(compressedin) \in Nat BY <1>1
  <2> QED BY <1>1, <2>1, <2>2
<1>4. CASE d_fp = NULL
  <2>1. UNCHANGED <<disk, d_fp, handled>> /\ handled = <<>>
    BY <1>1, <1>4 DEF Handles, CompressedIn
  <2>2. Len(<<>>) = 0 OBVIOUS
  <2>3. durable' = durable BY <1>1, <2>1, <2>2 DEF Handles
  <2>4. HistoryInv' BY <1>1, <1>3, <2>1, <2>3 DEF HistoryInv
  <2>5. Durable' = Durable BY <1>1, <2>1, <2>3 DEF Durable, Old
  <2>6. Whole' = Whole BY <1>1, <2>1 DEF Whole, Old
  <2>7. ASSUME ~truncated PROVE ContentInv'
    BY <1>1, <1>4, <2>1, <2>5, <2>6, <2>7 DEF SinkInv, ChainInv, ContentInv
  <2> QED BY <1>1, <2>1, <2>4, <2>7 DEF ChainInv
<1>5. CASE d_fp # NULL
  <2> DEFINE b == d_fp.buffer \o Record(h)
  <2>0. d_fp.buffer \in Seq(Bytes) /\ d_fp \in Streams /\ d_fp.name = File
    BY <1>1, <1>5 DEF SinkInv, IndInv, Files, Streams
  <2>1. Listed(h) \in Seq(Bytes) /\ Record(h) = Listed(h) BY <1>2, ListedType DEF Proper
  <2>2. b \in Seq(Bytes) BY <2>0, <2>1, ConcatProperties
  <2>3. PICK n \in Pending(b) :
          /\ disk' = Flushed(b, n)
          /\ d_fp' = [d_fp EXCEPT !.at = @ + n, !.buffer = SubSeq(b, n + 1, Len(b))]
    BY <1>5 DEF Handles, CompressedIn
  <2>4. handled' = Append(handled, h)
    BY <1>5 DEF Handles
  <2>5. handled' \in Seq(Messages) /\ Len(handled') = Len(handled) + 1
    BY <1>1, <1>2, <2>4, AppendProperties
  <2>6. durable' \in 0..Len(handled')
    BY <1>1, <2>5 DEF Handles
  <2>9. Whole \o Listed(h) = Whole' /\ Whole \in Seq(Bytes)
    <3>1. Old' = Old BY <1>1 DEF Old
    <3>2. Whole \o Listed(h) = Old \o Chained(Append(handled, h)) BY <1>2, WholeType
    <3> QED BY <2>4, <3>1, <3>2, WholeType DEF Whole
  <2> HIDE DEF b, h
  <2>7. n \in 0..Len(b) /\ (d_unbuffered => n = Len(b)) BY <2>2, <2>3 DEF Pending
  <2>8. /\ d_fp' \in Streams /\ d_fp'.name = File /\ d_fp' # NULL
        /\ d_fp'.at = d_fp.at + n /\ d_fp'.buffer = SubSeq(b, n + 1, Len(b))
    <3>1. SubSeq(b, n + 1, Len(b)) \in Seq(Bytes) /\ d_fp.at + n \in Nat
      BY <2>0, <2>2, <2>7 DEF Streams
    <3>2. d_fp' \in Streams BY <2>0, <2>3, <3>1 DEF Streams
    <3> QED BY <2>0, <2>3, <3>2, StreamIsThere DEF Streams
  <2>10. HistoryInv' BY <1>1, <1>3, <2>5, <2>6, <2>8 DEF HistoryInv
  <2>11. DOMAIN disk' = Names BY <1>1, <2>3 DEF Flushed
  <2>12. ASSUME ~truncated PROVE ContentInv'
    <3>1. disk[File] \in Seq(Bytes) /\ AtEnd /\ disk[File] \o d_fp.buffer = Whole /\ Durable
      BY <1>1, <1>5, <2>12 DEF SinkInv, ChainInv, ContentInv
    <3>2. /\ disk'[File] = disk[File] \o SubSeq(b, 1, n)
          /\ disk'[File] \in Seq(Bytes)
          /\ Len(disk'[File]) = Len(disk[File]) + n
      BY <1>1, <2>0, <2>2, <2>3, <2>7, <3>1, FlushedFile
    <3>3. AtEnd'
      <4>1. d_append' = d_append /\ (d_append \/ d_fp.at = Len(disk[File])) BY <1>1, <3>1 DEF AtEnd
      <4> QED BY <2>8, <3>2, <4>1 DEF AtEnd
    <3>4. disk[File] \o b = Whole'
      <4>1. (disk[File] \o d_fp.buffer) \o Listed(h) = disk[File] \o (d_fp.buffer \o Listed(h))
        <5>1. /\ disk[File] \in Seq(Bytes) /\ d_fp.buffer \in Seq(Bytes)
              /\ Listed(h) \in Seq(Bytes)
          BY <2>0, <2>1, <3>1
        <5> QED BY <5>1, BytesRegrouped, ZenonT(60)
      <4> QED BY <2>1, <2>9, <3>1, <4>1, Zenon DEF b
    <3>5. disk'[File] \o d_fp'.buffer = Whole'
      <4> DEFINE s == SubSeq(b, 1, n)
                 t == SubSeq(b, n + 1, Len(b))
      <4>1. s \in Seq(Bytes) /\ t \in Seq(Bytes) /\ s \o t = b BY <2>2, <2>7, CutInTwo
      <4> HIDE DEF s, t
      <4>3. (disk[File] \o s) \o t = disk[File] \o (s \o t)
        <5>1. disk[File] \in Seq(Bytes) /\ s \in Seq(Bytes) /\ t \in Seq(Bytes)
          BY <3>1, <4>1
        <5> QED BY <5>1, BytesRegrouped, ZenonT(60)
      <4>4. d_fp'.buffer = t /\ disk'[File] = disk[File] \o s BY <2>8, <3>2 DEF s, t
      <4> QED BY <3>4, <4>1, <4>3, <4>4, Zenon
    <3>6. Durable'
      <4>1. CASE d_unbuffered
        <5>1. SubSeq(b, 1, n) = b BY <2>2, <2>7, <4>1, SubSeqFull
        <5>2. disk'[File] = Whole' BY <3>2, <3>4, <5>1
        <5>3. durable' = Len(handled') BY <4>1 DEF Handles
        <5>4. Whole' \in Seq(Bytes) BY <3>2, <5>2
        <5> QED BY <2>5, <5>2, <5>3, <5>4, AllDurable
      <4>2. CASE ~d_unbuffered
        <5>1. durable' = durable BY <4>2 DEF Handles
        <5>2. Len(disk[File]) \in Nat /\ n \in Nat BY <2>7, <3>1
        <5>3. Len(disk'[File]) >= Len(disk[File]) /\ Len(disk'[File]) \in Nat
          <6> DEFINE x == Len(disk'[File])
                     y == Len(disk[File])
          <6>1. x = y + n /\ y \in Nat BY <3>2, <5>2
          <6> HIDE DEF x, y
          <6>2. x >= y /\ x \in Nat BY <5>2, <6>1
          <6> QED BY <6>2 DEF x, y
        <5> QED BY <1>1, <1>2, <2>4, <2>12, <3>1, <5>1, <5>2, <5>3, StillDurable
      <4> QED BY <4>1, <4>2
    <3> QED BY <1>1, <2>8, <3>2, <3>3, <3>5, <3>6 DEF ContentInv
  <2> QED BY <1>1, <2>10, <2>11, <2>12 DEF ChainInv
<1> QED BY <1>4, <1>5

-----------------------------------------------------------------------------
(* What each state with the invariant holds in File, when it may be read.  *)
LEMMA FileHolds ==
    ASSUME FileSinkAssumption, SinkInv, ~truncated, process = "alive"
    PROVE  /\ disk[File] \in Seq(Bytes) /\ Durable
           /\ d_fp = NULL => disk[File] = Whole
           /\ d_fp # NULL => /\ d_fp \in Streams /\ d_fp.name = File /\ AtEnd
                             /\ d_fp.buffer \in Seq(Bytes)
                             /\ disk[File] \o d_fp.buffer = Whole
BY DEF SinkInv, IndInv, Files, Streams, ChainInv, HistoryInv, ContentInv

(* The file of a block that is alive is a chain. *)
LEMMA AliveChain ==
    ASSUME FileSinkAssumption, ZStdAssumption, SinkInv, ~truncated, process = "alive"
    PROVE  FileIsChain
<1>1. handled \in Seq(Messages) /\ Whole \in Seq(Bytes) BY WholeType
<1>2. CASE d_fp = NULL
  <2>1. disk[File] = Whole BY <1>2, FileHolds
  <2>2. <<>> \in Seq(Bytes) /\ disk[File] \o <<>> = Whole BY <1>1, <2>1, ConcatEmptySeq
  <2> QED BY <1>1, <2>1, <2>2, NothingBroken
<1>3. CASE d_fp # NULL BY <1>1, <1>3, FileHolds, NothingBroken
<1> QED BY <1>2, <1>3

LEMMA KillKeepsChain ==
    ASSUME FileSinkAssumption, ZStdAssumption, SinkInv, Kill,
           UNCHANGED <<handled, durable, truncated>>
    PROVE  ChainInv'
<1>1. /\ process = "alive" /\ process' = "killed" /\ DOMAIN disk = Names
      /\ UNCHANGED <<compressedin, d_append, handled, durable, truncated>>
      /\ \A k \in 1..Len(compressedin) : Proper(compressedin[k])
      /\ handled \in Seq(Messages) /\ durable \in 0..Len(handled) /\ truncated \in BOOLEAN
      /\ compressedin \in Seq(Messages)
  BY DEF Kill, SinkInv, IndInv, ChainInv, HistoryInv
<1>2. HistoryInv' BY <1>1 DEF HistoryInv
<1>3. DOMAIN disk' = Names BY <1>1 DEF Kill, Flushed
<1>4. ASSUME ~truncated, disk' = disk PROVE ContentInv'
  <2>1. disk[File] \in Seq(Bytes) /\ Durable BY <1>1, <1>4, FileHolds
  <2>2. FileIsChain BY <1>1, <1>4, AliveChain
  <2>3. FileIsChain' BY <1>1, <1>4, <2>2 DEF FileIsChain, Old
  <2>4. Durable' BY <1>1, <1>4, <2>1 DEF Durable, Old
  <2> QED BY <1>1, <1>4, <2>1, <2>3, <2>4 DEF ContentInv
<1>5. ASSUME ~truncated, disk' # disk PROVE ContentInv'
  <2> DEFINE h == Head(compressedin)
             b == d_fp.buffer \o Record(h)
  <2>1. d_fp # NULL /\ compressedin # <<>> BY <1>5 DEF Kill
  <2>2. PICK n \in 0..Len(b) : disk' = Flushed(b, n) BY <1>5 DEF Kill
  <2>3. /\ disk[File] \in Seq(Bytes) /\ Durable /\ d_fp \in Streams /\ d_fp.name = File
        /\ AtEnd /\ d_fp.buffer \in Seq(Bytes) /\ disk[File] \o d_fp.buffer = Whole
    BY <1>1, <1>5, <2>1, FileHolds
  <2>4. h \in Messages /\ Proper(h) BY <1>1, <2>1
  <2>5. Listed(h) \in Seq(Bytes) /\ Record(h) = Listed(h) BY <2>4, ListedType DEF Proper
  <2>6. b \in Seq(Bytes) BY <2>3, <2>5, ConcatProperties
  <2>7. disk[File] \o b = Whole \o Listed(h)
    <3>1. (disk[File] \o d_fp.buffer) \o Listed(h) = disk[File] \o (d_fp.buffer \o Listed(h))
      <4>1. /\ disk[File] \in Seq(Bytes) /\ d_fp.buffer \in Seq(Bytes)
            /\ Listed(h) \in Seq(Bytes)
        BY <2>3, <2>5
      <4> QED BY <4>1, BytesRegrouped, ZenonT(60)
    <3> QED BY <2>3, <2>5, <3>1, Zenon
  <2> HIDE DEF b
  <2>8. /\ disk'[File] = disk[File] \o SubSeq(b, 1, n)
        /\ disk'[File] \in Seq(Bytes)
        /\ Len(disk'[File]) = Len(disk[File]) + n
    BY <1>1, <2>2, <2>3, <2>6, FlushedFile
  <2>9. FileIsChain' BY <1>1, <2>1, <2>3, <2>6, <2>7, <2>8, BrokenOff
  <2>10. Len(disk'[File]) >= Len(disk[File]) /\ Len(disk'[File]) \in Nat
         /\ Len(disk[File]) \in Nat
    <3> DEFINE x == Len(disk'[File])
               y == Len(disk[File])
    <3>1. x = y + n BY <2>8
    <3>2. y \in Nat BY <2>3
    <3>3. n \in Nat BY <2>6
    <3> HIDE DEF x, y
    <3>4. x >= y /\ x \in Nat BY <3>1, <3>2, <3>3
    <3> QED BY <3>2, <3>4 DEF x, y
  <2>11. Durable' BY <1>1, <1>5, <2>3, <2>10, StillDurable
  <2> QED BY <1>1, <2>8, <2>9, <2>11 DEF ContentInv
<1> QED BY <1>1, <1>2, <1>3, <1>4, <1>5 DEF ChainInv

(* fclose writes the rest. *)
LEMMA DestroyKeepsChain ==
    ASSUME FileSinkAssumption, ZStdAssumption, SinkInv, Destroy,
           durable' = Len(handled), UNCHANGED <<handled, truncated>>
    PROVE  ChainInv'
<1>1. /\ process = "alive" /\ process' = "destroyed" /\ DOMAIN disk = Names
      /\ UNCHANGED <<compressedin, d_append, handled, truncated>>
      /\ \A k \in 1..Len(compressedin) : Proper(compressedin[k])
      /\ handled \in Seq(Messages) /\ truncated \in BOOLEAN /\ Len(handled) \in Nat
      /\ disk' = IF d_fp = NULL THEN disk ELSE Flushed(d_fp.buffer, Len(d_fp.buffer))
  BY DEF Destroy, SinkInv, IndInv, ChainInv, HistoryInv
<1>2. HistoryInv' BY <1>1 DEF HistoryInv
<1>3. DOMAIN disk' = Names BY <1>1 DEF Flushed
<1>4. Whole' = Whole /\ Whole \in Seq(Bytes) BY <1>1, WholeType DEF Whole, Old
<1>5. ASSUME ~truncated PROVE disk'[File] = Whole
  <2>1. CASE d_fp = NULL BY <1>1, <1>5, <2>1, FileHolds
  <2>2. CASE d_fp # NULL
    <3>1. /\ disk[File] \in Seq(Bytes) /\ d_fp \in Streams /\ d_fp.name = File
          /\ AtEnd /\ d_fp.buffer \in Seq(Bytes) /\ disk[File] \o d_fp.buffer = Whole
      BY <1>1, <1>5, <2>2, FileHolds
    <3>2. Len(d_fp.buffer) \in 0..Len(d_fp.buffer) BY <3>1
    <3>3. disk'[File] = disk[File] \o SubSeq(d_fp.buffer, 1, Len(d_fp.buffer))
      BY <1>1, <2>2, <3>1, <3>2, FlushedFile
    <3>4. SubSeq(d_fp.buffer, 1, Len(d_fp.buffer)) = d_fp.buffer BY <3>1, SubSeqFull
    <3> QED BY <3>1, <3>3, <3>4
  <2> QED BY <2>1, <2>2
<1>6. ASSUME ~truncated PROVE ContentInv'
  <2>1. Durable' BY <1>1, <1>4, <1>5, <1>6, AllDurable
  <2> QED BY <1>1, <1>4, <1>5, <1>6, <2>1 DEF ContentInv
<1> QED BY <1>1, <1>2, <1>3, <1>6 DEF ChainInv

(* A step that does not touch the stream in use, nor what File holds,      *)
(* unless it truncates it.                                                 *)
LEMMA QuietKeepsChain ==
    ASSUME SinkInv, UNCHANGED <<process, d_fp, d_append, handled, durable, compressedin>>,
           truncated' \in BOOLEAN, truncated => truncated', DOMAIN disk' = Names,
           ~truncated' => disk'[File] = disk[File]
    PROVE  ChainInv'
<1>1. HistoryInv' BY DEF SinkInv, ChainInv, HistoryInv
<1>2. ASSUME ~truncated' PROVE ContentInv'
  <2>1. ~truncated /\ ContentInv /\ disk'[File] = disk[File]
    BY <1>2 DEF SinkInv, ChainInv, HistoryInv
  <2>2. Whole' = Whole /\ Old' = Old /\ d_fp' = d_fp /\ process' = process BY DEF Whole, Old
  <2>3. AtEnd' = AtEnd BY <2>1 DEF AtEnd
  <2>4. Durable' BY <1>2, <2>1, <2>2 DEF ContentInv, Durable
  <2>5. process' = "killed" => FileIsChain' BY <1>2, <2>1, <2>2 DEF ContentInv, FileIsChain
  <2>6. ContentInv BY <2>1
  <2> QED BY <2>1, <2>2, <2>3, <2>4, <2>5 DEF ContentInv
<1> QED BY <1>1, <1>2 DEF ChainInv

LEMMA OpenKeepsChain ==
    ASSUME FileSinkAssumption, SinkInv, NEW name \in Names, Open(name),
           truncated' = (truncated \/ (name = File /\ ~d_append)),
           UNCHANGED <<handled, durable>>
    PROVE  ChainInv'
<1>1. DOMAIN disk = Names /\ truncated \in BOOLEAN BY DEF SinkInv, ChainInv, HistoryInv
<1>2. /\ disk' = IF d_append THEN disk ELSE [disk EXCEPT ![name] = <<>>]
      /\ UNCHANGED <<process, d_fp, d_append, compressedin>>
  BY DEF Open
<1>3. DOMAIN disk' = Names BY <1>1, <1>2
<1>4. ASSUME ~truncated' PROVE disk'[File] = disk[File]
  BY <1>1, <1>2, <1>4 DEF FileSinkAssumption
<1> QED BY <1>1, <1>2, <1>3, <1>4, QuietKeepsChain

LEMMA ArriveKeepsChain ==
    ASSUME ZStdAssumption, FrameLen \in Nat \ {0}, SinkInv, sent \in Nat, Arrive
    PROVE  ChainInv'
<1>1. PICK hasheader \in BOOLEAN :
        compressedin' = Append(compressedin, BlockMessage(Run(sent, 1), FrameLen, hasheader))
  BY DEF Arrive
<1> DEFINE msg == BlockMessage(Run(sent, 1), FrameLen, hasheader)
           n == Len(compressedin)
<1>2. Run(sent, 1) \in Seq(Nat) BY RunIsSeq
<1>3. msg \in Messages /\ Proper(msg) BY <1>2, BlockMessagePayload, ArrivingIsProper
<1>4. /\ compressedin \in Seq(Messages) /\ process = "alive"
      /\ UNCHANGED <<process, running, disk, d_fp, d_append, handled, durable, truncated>>
      /\ \A k \in 1..n : Proper(compressedin[k])
  BY DEF Arrive, SinkInv, IndInv, ChainInv, HistoryInv
<1> HIDE DEF msg
<1>5. \A k \in 1..Len(compressedin') : Proper(compressedin'[k])
  <2>1. /\ Len(compressedin') = n + 1 /\ n \in Nat
        /\ \A k \in 1..n : compressedin'[k] = compressedin[k]
        /\ compressedin'[n + 1] = msg
    BY <1>1, <1>3, <1>4, AppendProperties DEF msg
  <2> HIDE DEF n
  <2>2. ASSUME NEW k \in 1..(n + 1) PROVE Proper(compressedin'[k])
    <3>1. CASE k \in 1..n BY <1>4, <2>1, <3>1
    <3>2. CASE k \notin 1..n
      <4>1. k = n + 1 BY <2>1, <3>2
      <4> QED BY <1>3, <2>1, <4>1
    <3> QED BY <3>1, <3>2
  <2> QED BY <2>1, <2>2
<1>6. HistoryInv' BY <1>4, <1>5 DEF SinkInv, ChainInv, HistoryInv
<1>7. ASSUME ~truncated PROVE ContentInv'
  <2>1. ContentInv BY <1>7 DEF SinkInv, ChainInv
  <2>2. Whole' = Whole /\ Old' = Old BY <1>4 DEF Whole, Old
  <2>3. AtEnd' = AtEnd BY <1>4 DEF AtEnd
  <2>4. Durable' BY <1>4, <2>1, <2>2 DEF ContentInv, Durable
  <2> QED BY <1>4, <2>1, <2>2, <2>3, <2>4 DEF ContentInv
<1> QED BY <1>4, <1>6, <1>7 DEF SinkInv, ChainInv

LEMMA InitEstablishesChain ==
    ASSUME FileSinkAssumption, ZStdAssumption, MCInit
    PROVE  ChainInv
<1>1. /\ process = "alive" /\ handled = <<>> /\ durable = 0 /\ truncated = FALSE
      /\ d_fp \in {Opened(File), NULL} /\ compressedin = <<>>
      /\ disk = [name \in Names |-> IF name = File /\ d_append THEN Before ELSE <<>>]
      /\ File \in Names
  BY DEF MCInit, Init, FileSinkAssumption
<1>2. <<>> \in Seq(Messages) /\ Len(<<>>) = 0 /\ <<>> \in Seq(Bytes) OBVIOUS
<1>3. Opened(File).name = File /\ Opened(File).at = 0 /\ Opened(File).buffer = <<>>
  BY DEF Opened
<1>4. HistoryInv
  <2>1. \A k \in 1..Len(compressedin) : Proper(compressedin[k]) BY <1>1, <1>2
  <2>2. durable \in 0..Len(handled) BY <1>1, <1>2
  <2>3. d_fp # NULL => d_fp.name = File BY <1>1, <1>3
  <2> QED BY <1>1, <1>2, <2>1, <2>2, <2>3 DEF HistoryInv
<1>5. disk[File] = Old BY <1>1 DEF Old
<1>6. Old \in Seq(Bytes) BY OldType
<1>7. Whole = Old
  <2>1. Chained(handled) = <<>> BY <1>1, ChainedType
  <2> QED BY <1>6, <2>1, ConcatEmptySeq DEF Whole
<1>8. Durable
  <2>1. SubSeq(handled, 1, durable) = <<>> BY <1>1, <1>2, SubSeqEmpty
  <2>2. Old \o Chained(SubSeq(handled, 1, durable)) = Old
    BY <1>6, <2>1, ChainedType, ConcatEmptySeq
  <2>3. Len(Old) \in Nat BY <1>6
  <2> QED BY <1>5, <2>2, <2>3 DEF Durable
<1>9. d_fp # NULL => AtEnd /\ disk[File] \o d_fp.buffer = Whole
  <2> SUFFICES ASSUME d_fp # NULL PROVE AtEnd /\ disk[File] \o d_fp.buffer = Whole
    OBVIOUS
  <2>1. d_fp.at = 0 /\ d_fp.buffer = <<>> BY <1>1, <1>3
  <2>2. AtEnd
    <3>1. ~d_append => disk[File] = <<>> BY <1>5 DEF Old
    <3> QED BY <1>2, <2>1, <3>1 DEF AtEnd
  <2>3. disk[File] \o <<>> = Whole BY <1>5, <1>6, <1>7, ConcatEmptySeq
  <2> QED BY <2>1, <2>2, <2>3
<1>10. ContentInv BY <1>1, <1>5, <1>6, <1>7, <1>8, <1>9 DEF ContentInv
<1> QED BY <1>1, <1>4, <1>10 DEF ChainInv

LEMMA ChainInvariance ==
    ASSUME FrameLen \in Nat \ {0}
    PROVE  MCSpec => []SinkInv
<1>1. MCInit => SinkInv /\ sent \in Nat
  <2> SUFFICES ASSUME MCInit PROVE SinkInv /\ sent \in Nat
    OBVIOUS
  <2>1. Init /\ sent = 0 BY DEF MCInit
  <2>2. IndInv BY <2>1, InitEstablishes, FileSinkAssumption
  <2>3. ChainInv BY InitEstablishesChain, FileSinkAssumption, ZStdAssumption
  <2> QED BY <2>1, <2>2, <2>3 DEF SinkInv
<1>2. (IndInv /\ sent \in Nat) /\ ChainInv /\ [MCNext]_mcvars => ChainInv'
  <2> SUFFICES ASSUME IndInv, sent \in Nat, ChainInv, [MCNext]_mcvars
               PROVE  ChainInv'
    OBVIOUS
  <2> USE FileSinkAssumption, ZStdAssumption
  <2>1. SinkInv BY DEF SinkInv
  <2>2. /\ DOMAIN disk = Names /\ truncated \in BOOLEAN BY DEF ChainInv, HistoryInv
  <2>3. CASE Arrive BY <2>1, <2>3, ArriveKeepsChain
  <2>4. CASE Thread
    <3>1. ASSUME CompressedIn,
                 handled' = IF d_fp = NULL THEN handled ELSE Append(handled, Head(compressedin)),
                 durable' = IF d_unbuffered THEN Len(handled') ELSE durable
          PROVE  ChainInv'
      <4>1. Handles BY <2>4, <3>1 DEF Handles, Thread
      <4> QED BY <2>1, <4>1, HandlerKeepsChain
    <3>2. ASSUME Destroy, durable' = Len(handled), UNCHANGED handled PROVE ChainInv'
      <4>1. UNCHANGED truncated BY <2>4 DEF Thread
      <4> QED BY <2>1, <3>2, <4>1, DestroyKeepsChain
    <3>3. ASSUME Kill, UNCHANGED <<handled, durable>> PROVE ChainInv'
      <4>1. UNCHANGED truncated BY <2>4 DEF Thread
      <4> QED BY <2>1, <3>3, <4>1, KillKeepsChain
    <3>4. ASSUME Stop, UNCHANGED <<handled, durable>> PROVE ChainInv'
      <4>1. UNCHANGED truncated BY <2>4 DEF Thread
      <4>2. UNCHANGED <<process, d_fp, d_append, compressedin, disk>>
        BY <3>4 DEF Stop, CloseEffect
      <4> QED BY <2>1, <2>2, <3>4, <4>1, <4>2, QuietKeepsChain
    <3> QED BY <2>4, <3>1, <3>2, <3>3, <3>4 DEF Thread
  <2>5. CASE Caller
    <3>1. UNCHANGED <<handled, durable>> BY <2>5 DEF Caller
    <3>2. ASSUME NEW name \in Names, Open(name),
                 truncated' = (truncated \/ (name = File /\ ~d_append))
          PROVE  ChainInv'
      BY <2>1, <3>1, <3>2, OpenKeepsChain
    <3>3. ASSUME Close \/ SetUnbuffered \/ Start, UNCHANGED truncated PROVE ChainInv'
      <4>1. UNCHANGED <<process, d_fp, d_append, compressedin, disk>>
        BY <3>3 DEF Close, SetUnbuffered, Start, CloseEffect
      <4> QED BY <2>1, <2>2, <3>1, <3>3, <4>1, QuietKeepsChain
    <3> QED BY <2>5, <3>2, <3>3 DEF Caller
  <2>6. CASE UNCHANGED mcvars
    <3>1. UNCHANGED <<process, d_fp, d_append, compressedin, disk, handled, durable, truncated>>
      BY <2>6 DEF mcvars, kvars
    <3> QED BY <2>1, <2>2, <3>1, QuietKeepsChain
  <2> QED BY <2>3, <2>4, <2>5, <2>6 DEF MCNext
<1>3. (IndInv /\ sent \in Nat) /\ ChainInv => SinkInv BY DEF SinkInv
<1>4. SinkInv => ChainInv BY DEF SinkInv
<1> QED BY <1>1, <1>2, <1>3, <1>4, Invariance, PTL DEF MCSpec

(***************************************************************************)
(* As far as it has been written, the file is the chain of the records of  *)
(* the messages handled, in order, behind what was there before, and at    *)
(* most one more record broken off at the end: whatever the application    *)
(* calls, wherever stdio empties its buffer, and if the process is killed  *)
(* between any two bytes of a write.                                       *)
(***************************************************************************)
THEOREM FileIsAlwaysAChain == ASSUME FrameLen \in Nat \ {0} PROVE MCSpec => []FileIsChain
<1>1. SinkInv => FileIsChain
  <2> SUFFICES ASSUME SinkInv, ~truncated PROVE FileIsChain
    BY DEF FileIsChain
  <2> USE FileSinkAssumption, ZStdAssumption
  <2>1. process \in {"alive", "destroyed", "killed"} /\ ContentInv
    BY DEF SinkInv, IndInv, Kinds, ChainInv
  <2>2. CASE process = "alive" BY <2>2, AliveChain
  <2>3. CASE process = "destroyed"
    <3>1. disk[File] = Whole BY <2>1, <2>3 DEF ContentInv
    <3>2. handled \in Seq(Messages) /\ Whole \in Seq(Bytes) BY WholeType
    <3>3. <<>> \in Seq(Bytes) /\ disk[File] \o <<>> = Whole BY <3>1, <3>2, ConcatEmptySeq
    <3> QED BY <3>1, <3>2, <3>3, NothingBroken
  <2>4. CASE process = "killed" BY <2>1, <2>4 DEF ContentInv
  <2> QED BY <2>1, <2>2, <2>3, <2>4
<1> QED BY <1>1, ChainInvariance, PTL

(***************************************************************************)
(* What was handled while the block was unbuffered is in the file when the *)
(* handler returns and stays there, killed or not; and so is everything    *)
(* once the block has been destroyed.                                      *)
(***************************************************************************)
THEOREM HandledIsDurable == ASSUME FrameLen \in Nat \ {0} PROVE MCSpec => []Durable
<1>1. SinkInv => Durable
  <2> SUFFICES ASSUME SinkInv, ~truncated PROVE Durable
    BY DEF Durable
  <2> QED BY DEF SinkInv, ChainInv, ContentInv
<1> QED BY <1>1, ChainInvariance, PTL

=============================================================================
