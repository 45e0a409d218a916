-------------------------- MODULE StreamLink_proofs --------------------------
(***************************************************************************)
(* The parser of StreamToDecompressionMsg stays in step with the records   *)
(* of CompressedMsgToStream, so that the two blocks implement a FIFO       *)
(* channel: for every size of a header, of the messages and of the calls   *)
(* of work, and however often the receiving block is stopped and started.  *)
(*                                                                         *)
(* The argument is about the whole of the bytes that were ever put on the  *)
(* stream.  The two queues and the stream between them are windows of it   *)
(* that lie side by side, and every record has its place in it.            *)
(***************************************************************************)
EXTENDS StreamLink, ZStd_proofs

-----------------------------------------------------------------------------
(* Windows: s is what T holds behind its first a and up to its first c     *)
(* elements.                                                               *)
IsWindow(s, T, a, c) ==
    /\ s \in Seq(Bytes)
    /\ a \in Nat /\ c \in Nat /\ a <= c /\ c <= Len(T)
    /\ Len(s) = c - a
    /\ \A i \in 1..Len(s) : s[i] = T[a + i]

(* A stretch of T has one window. *)
LEMMA WindowUnique ==
    ASSUME NEW T \in Seq(Bytes), NEW a, NEW c, NEW s, NEW u, IsWindow(s, T, a, c), IsWindow(u, T, a, c)
    PROVE  s = u
<1>1. s \in Seq(Bytes) /\ u \in Seq(Bytes) /\ Len(s) = Len(u) BY DEF IsWindow
<1>2. \A i \in 1..Len(s) : s[i] = u[i] BY <1>1 DEF IsWindow
<1> QED BY <1>1, <1>2, SeqEqual

(* The first n elements of a window, and the others. *)
LEMMA WindowCut ==
    ASSUME NEW T \in Seq(Bytes), NEW a, NEW c, NEW s, IsWindow(s, T, a, c), NEW n \in 0..Len(s)
    PROVE  /\ IsWindow(SubSeq(s, 1, n), T, a, a + n)
           /\ IsWindow(SubSeq(s, n + 1, Len(s)), T, a + n, c)
<1>1. /\ s \in Seq(Bytes) /\ a \in Nat /\ c \in Nat /\ a <= c /\ c <= Len(T)
      /\ Len(s) = c - a /\ n \in Nat /\ n <= c - a
      /\ \A i \in 1..Len(s) : s[i] = T[a + i]
  BY DEF IsWindow
<1>2. \A i \in 1..n : s[i] \in Bytes BY <1>1
<1>3. \A i \in (n + 1)..Len(s) : s[i] \in Bytes BY <1>1
<1> DEFINE u == SubSeq(s, 1, n)
           v == SubSeq(s, n + 1, Len(s))
<1>4. /\ u \in Seq(Bytes) /\ Len(u) = n
      /\ \A i \in 1..n : u[i] = s[i]
  BY <1>1, <1>2, SubSeqProperties
<1>5. /\ v \in Seq(Bytes) /\ Len(v) = (c - a) - n
      /\ \A i \in 1..((c - a) - n) : v[i] = s[n + i]
  BY <1>1, <1>3, SubSeqProperties
<1> HIDE DEF u, v
<1>6. a + n \in Nat /\ a <= a + n /\ a + n <= c /\ (a + n) - a = n /\ c - (a + n) = (c - a) - n
  BY <1>1
<1>7. IsWindow(u, T, a, a + n)
  <2>1. \A i \in 1..n : i \in 1..Len(s) BY <1>1
  <2>2. \A i \in 1..Len(u) : u[i] = T[a + i] BY <1>1, <1>4, <2>1
  <2>3. a + n <= Len(T) BY <1>1, <1>6
  <2> QED BY <1>1, <1>4, <1>6, <2>2, <2>3 DEF IsWindow
<1>8. ASSUME NEW i \in 1..((c - a) - n)
      PROVE  v[i] = T[(a + n) + i]
  <2>1. n + i \in 1..Len(s) /\ a + (n + i) = (a + n) + i BY <1>1
  <2>2. s[n + i] = T[a + (n + i)] BY <1>1, <2>1
  <2> QED BY <1>5, <2>1, <2>2
<1>9. IsWindow(v, T, a + n, c) BY <1>1, <1>5, <1>6, <1>8 DEF IsWindow
<1> QED BY <1>7, <1>9 DEF u, v

(* Two windows side by side are one. *)
LEMMA WindowJoin ==
    ASSUME NEW T \in Seq(Bytes), NEW a, NEW c, NEW e, NEW s, NEW u,
           IsWindow(s, T, a, c), IsWindow(u, T, c, e)
    PROVE  IsWindow(s \o u, T, a, e)
<1>1. /\ s \in Seq(Bytes) /\ u \in Seq(Bytes)
      /\ a \in Nat /\ c \in Nat /\ e \in Nat /\ a <= c /\ c <= e /\ e <= Len(T)
      /\ Len(s) = c - a /\ Len(u) = e - c
      /\ \A i \in 1..Len(s) : s[i] = T[a + i]
      /\ \A i \in 1..Len(u) : u[i] = T[c + i]
  BY DEF IsWindow
<1> DEFINE w == s \o u
<1>2. /\ w \in Seq(Bytes) /\ Len(w) = Len(s) + Len(u)
      /\ \A i \in 1..(Len(s) + Len(u)) : w[i] = IF i <= Len(s) THEN s[i] ELSE u[i - Len(s)]
  BY <1>1, ConcatProperties
<1> HIDE DEF w
<1>3. ASSUME NEW i \in 1..Len(w) PROVE w[i] = T[a + i]
  <2>1. CASE i <= Len(s) BY <1>1, <1>2, <2>1, SMTT(30)
  <2>2. CASE ~(i <= Len(s))
    <3>1. i - Len(s) \in 1..Len(u) /\ c + (i - Len(s)) = a + i BY <1>1, <1>2, <2>2
    <3>2. w[i] = u[i - Len(s)] BY <1>2, <2>2
    <3> QED BY <1>1, <3>1, <3>2
  <2> QED BY <2>1, <2>2
<1>4. IsWindow(w, T, a, e) BY <1>1, <1>2, <1>3 DEF IsWindow
<1> QED BY <1>4 DEF w

(* Windows stay when something is added behind all, which is one itself.   *)
LEMMA WindowStays ==
    ASSUME NEW T \in Seq(Bytes), NEW x \in Seq(Bytes), NEW a, NEW c, NEW s,
           IsWindow(s, T, a, c)
    PROVE  IsWindow(s, T \o x, a, c)
<1>1. Len(T \o x) = Len(T) + Len(x)
      /\ \A i \in 1..(Len(T) + Len(x)) : (T \o x)[i] = IF i <= Len(T) THEN T[i] ELSE x[i - Len(T)]
  BY ConcatProperties
<1> DEFINE w == T \o x
<1>2. Len(T) \in Nat /\ Len(x) \in Nat OBVIOUS
<1> HIDE DEF w
<1>3. Len(w) = Len(T) + Len(x)
      /\ \A i \in 1..(Len(T) + Len(x)) : w[i] = IF i <= Len(T) THEN T[i] ELSE x[i - Len(T)]
  BY <1>1 DEF w
<1>4. ASSUME NEW i \in 1..Len(s) PROVE s[i] = w[a + i]
  <2>1. a + i \in 1..(Len(T) + Len(x)) /\ a + i <= Len(T) BY <1>2 DEF IsWindow
  <2> QED BY <1>3, <2>1 DEF IsWindow
<1>5. IsWindow(s, w, a, c) BY <1>2, <1>3, <1>4 DEF IsWindow
<1> QED BY <1>5 DEF w

(* What is added is a window at the end. *)
LEMMA WindowNew ==
    ASSUME NEW T \in Seq(Bytes), NEW x \in Seq(Bytes)
    PROVE  IsWindow(x, T \o x, Len(T), Len(T \o x))
<1> DEFINE w == T \o x
<1>1. Len(w) = Len(T) + Len(x)
      /\ \A i \in 1..(Len(T) + Len(x)) : w[i] = IF i <= Len(T) THEN T[i] ELSE x[i - Len(T)]
  BY ConcatProperties
<1>2. Len(T) \in Nat /\ Len(x) \in Nat OBVIOUS
<1> HIDE DEF w
<1>3. ASSUME NEW i \in 1..Len(x) PROVE x[i] = w[Len(T) + i]
  <2>1. Len(T) + i \in 1..(Len(T) + Len(x)) /\ ~(Len(T) + i <= Len(T))
        /\ (Len(T) + i) - Len(T) = i
    BY <1>2
  <2> QED BY <1>1, <2>1
<1>4. IsWindow(x, w, Len(T), Len(w)) BY <1>1, <1>2, <1>3 DEF IsWindow
<1> QED BY <1>4 DEF w

-----------------------------------------------------------------------------
(* The blocks' modules are instances: their operators are those of ZStd.   *)
LEMMA SameOperators ==
    /\ \A msg : M!RecordData(msg) = SubSeq(msg.blob, Skip(msg) + 1, Len(msg.blob))
    /\ \A msg : M!RecordHeader(msg) = IF msg.hasheader THEN SubSeq(msg.blob, 1, HeaderLen)
                                      ELSE Header(msg.uncompressedsize, msg.compressedsize)
    /\ \A bytes : S!HeaderValues(bytes) = HeaderValues(bytes)
    /\ M!Messages = Messages /\ S!Messages = Messages
    /\ M!Bytes = Bytes /\ S!Bytes = Bytes
<1>1. \A msg : M!RecordData(msg) = SubSeq(msg.blob, Skip(msg) + 1, Len(msg.blob))
  BY DEF M!RecordData, M!Skip, Skip
<1>2. \A msg : M!RecordHeader(msg) = IF msg.hasheader THEN SubSeq(msg.blob, 1, HeaderLen)
                                     ELSE Header(msg.uncompressedsize, msg.compressedsize)
  BY DEF M!RecordHeader, M!Header, Header
<1>3. \A bytes : S!HeaderValues(bytes) = HeaderValues(bytes)
  BY DEF S!HeaderValues, HeaderValues, S!Header, Header
<1>4. M!Bytes = Bytes /\ S!Bytes = Bytes BY DEF M!Bytes, S!Bytes, Bytes
<1>5. M!Messages = Messages /\ S!Messages = Messages
  BY <1>4 DEF M!Messages, S!Messages, Messages
<1> QED BY <1>1, <1>2, <1>3, <1>4, <1>5

(* What both sides need of a message: its sizes fit the header's fields,   *)
(* and its blob is laid out as it says.                                    *)
IsBlock(msg) ==
    /\ msg \in Messages
    /\ msg.uncompressedsize < WordSize /\ msg.compressedsize < WordSize
    /\ Len(msg.blob) = Skip(msg) + msg.compressedsize
    /\ msg.hasheader => SubSeq(msg.blob, 1, HeaderLen)
                          = Header(msg.uncompressedsize, msg.compressedsize)

(* The two parts of a message's record on the stream. *)
HeaderOf(msg) == Header(msg.uncompressedsize, msg.compressedsize)
DataOf(msg) == SubSeq(msg.blob, Skip(msg) + 1, Len(msg.blob))

(* The record of a message, and what of the message arrives. *)
LEMMA RecordParts ==
    ASSUME ZStdAssumption, NEW msg, IsBlock(msg)
    PROVE  /\ M!RecordHeader(msg) = HeaderOf(msg) /\ M!RecordData(msg) = DataOf(msg)
           /\ HeaderOf(msg) \in Seq(Bytes) /\ Len(HeaderOf(msg)) = HeaderLen
           /\ DataOf(msg) \in Seq(Bytes) /\ Len(DataOf(msg)) = msg.compressedsize
           /\ Plain(msg) = [uncompressedsize |-> msg.uncompressedsize,
                            compressedsize |-> msg.compressedsize,
                            hasheader |-> FALSE, blob |-> DataOf(msg)]
           /\ Plain(msg) \in Messages
<1>1. /\ msg.uncompressedsize \in Nat /\ msg.compressedsize \in Nat
      /\ msg.hasheader \in BOOLEAN /\ msg.blob \in Seq(Bytes)
      /\ msg = [uncompressedsize |-> msg.uncompressedsize,
                compressedsize |-> msg.compressedsize,
                hasheader |-> msg.hasheader, blob |-> msg.blob]
  BY DEF IsBlock, Messages
<1>2. M!RecordHeader(msg) = HeaderOf(msg) /\ M!RecordData(msg) = DataOf(msg)
  BY SameOperators DEF IsBlock, HeaderOf, DataOf
<1>3. HeaderOf(msg) \in Seq(Bytes) /\ Len(HeaderOf(msg)) = HeaderLen
  BY <1>1, HeaderType DEF HeaderOf
<1>4. DataOf(msg) \in Seq(Bytes) /\ Len(DataOf(msg)) = msg.compressedsize
  <2> DEFINE blob == msg.blob
             skip == Skip(msg)
  <2>1. /\ skip \in Nat /\ blob \in Seq(Bytes)
        /\ Len(blob) = skip + msg.compressedsize
    BY <1>1 DEF IsBlock, Skip, ZStdAssumption
  <2> HIDE DEF blob, skip
  <2>2. \A i \in (skip + 1)..Len(blob) : blob[i] \in Bytes BY <2>1
  <2>3. /\ SubSeq(blob, skip + 1, Len(blob)) \in Seq(Bytes)
        /\ Len(SubSeq(blob, skip + 1, Len(blob))) = msg.compressedsize
    BY <1>1, <2>1, <2>2, SubSeqProperties
  <2> QED BY <2>3 DEF DataOf, blob, skip
<1>5. Plain(msg) = [uncompressedsize |-> msg.uncompressedsize,
                    compressedsize |-> msg.compressedsize,
                    hasheader |-> FALSE, blob |-> DataOf(msg)]
  <2> DEFINE plain == Plain(msg)
  <2>1. msg \in Messages /\ DataOf(msg) \in Seq(Bytes) BY <1>4 DEF IsBlock
  <2>2. plain \in Messages BY <2>1 DEF Plain, DataOf, Messages
  <2>3. /\ plain.uncompressedsize = msg.uncompressedsize
        /\ plain.compressedsize = msg.compressedsize
        /\ plain.hasheader = FALSE /\ plain.blob = DataOf(msg)
    BY <2>1 DEF Plain, DataOf, Messages
  <2> HIDE DEF plain
  <2>4. plain = [uncompressedsize |-> msg.uncompressedsize,
                 compressedsize |-> msg.compressedsize,
                 hasheader |-> FALSE, blob |-> DataOf(msg)]
    BY <2>2, <2>3 DEF Messages
  <2> QED BY <2>4 DEF plain
<1>6. Plain(msg) \in Messages BY <1>1, <1>4, <1>5 DEF Messages
<1> QED BY <1>2, <1>3, <1>4, <1>5, <1>6

(* What a compress block publishes is such a message. *)
LEMMA SentIsBlock ==
    ASSUME ZStdAssumption, StreamLinkAssumption, NEW lo \in Nat, NEW u \in 1..MaxBlock,
           NEW csize \in 1..MaxFrame, NEW hasheader \in BOOLEAN
    PROVE  LET msg == BlockMessage(Run(lo, u), csize, hasheader) IN
           IsBlock(msg) /\ Carries(msg)
<1> DEFINE content == Run(lo, u)
           msg == BlockMessage(content, csize, hasheader)
<1>1. /\ u \in Nat \ {0} /\ csize \in Nat \ {0}
      /\ u < WordSize /\ csize < WordSize
  BY DEF StreamLinkAssumption, ZStdAssumption
<1>2. content \in Seq(Nat) /\ Len(content) = u BY <1>1, RunIsSeq
<1> HIDE DEF content
<1>3. msg \in Messages /\ Len(msg.blob) = Skip(msg) + csize /\ Payload(msg) = content
  BY <1>1, <1>2, BlockMessagePayload
<1>4. /\ msg.uncompressedsize = u /\ msg.compressedsize = csize
      /\ msg.hasheader = hasheader
      /\ hasheader => msg.blob = Header(u, csize) \o Frame(content, csize)
  BY <1>2 DEF BlockMessage
<1>5. ASSUME hasheader PROVE SubSeq(msg.blob, 1, HeaderLen) = Header(u, csize)
  <2> DEFINE h == Header(u, csize)
             f == Frame(content, csize)
             b == h \o f
  <2>1. /\ h \in Seq(Bytes) /\ Len(h) = HeaderLen /\ f \in Seq(Bytes) /\ Len(f) = csize
        /\ HeaderLen \in Nat
    BY <1>1, <1>2, HeaderType, FrameType DEF ZStdAssumption
  <2> HIDE DEF h, f
  <2>2. /\ b \in Seq(Bytes) /\ Len(b) = HeaderLen + csize
        /\ \A i \in 1..(HeaderLen + csize) : b[i] = IF i <= HeaderLen THEN h[i] ELSE f[i - HeaderLen]
    <3>1. /\ b \in Seq(Bytes) /\ Len(b) = Len(h) + Len(f)
          /\ \A i \in 1..(Len(h) + Len(f)) : b[i] = IF i <= Len(h) THEN h[i] ELSE f[i - Len(h)]
      BY <2>1, ConcatProperties
    <3> HIDE DEF b
    <3>2. Len(h) = HeaderLen /\ Len(f) = csize BY <2>1
    <3> QED BY <3>1, <3>2, Zenon
  <2> HIDE DEF b
  <2> DEFINE t == SubSeq(b, 1, HeaderLen)
  <2>3. \A i \in 1..HeaderLen : b[i] \in Bytes /\ b[i] = h[i] BY <1>1, <2>1, <2>2
  <2>4. t \in Seq(Bytes) /\ Len(t) = HeaderLen /\ \A i \in 1..HeaderLen : t[i] = b[i]
    BY <2>1, <2>3, SubSeqProperties
  <2> HIDE DEF t
  <2>5. t = h BY <2>1, <2>3, <2>4, SeqEqual
  <2> QED BY <1>4, <1>5, <2>5 DEF t, b, h, f
<1>6. IsBlock(msg) BY <1>1, <1>3, <1>4, <1>5 DEF IsBlock
<1>7. Carries(msg) BY <1>1, <1>3, RunMessageCarries DEF content
<1> QED BY <1>6, <1>7 DEF content

-----------------------------------------------------------------------------
(***************************************************************************)
(* The inductive invariant.  T stands for all bytes that the sending       *)
(* block's handler ever queued, and off[k] for how many of them are before *)
(* the record of message k.                                                *)
(***************************************************************************)
Handled == Len(sent) - Len(mailbox)
Got == Len(published)

SentInv ==
    /\ sent \in Seq(Messages)
    /\ \A k \in 1..Len(sent) : IsBlock(sent[k]) /\ Carries(sent[k])

MailInv ==
    /\ mailbox \in Seq(Messages) /\ Len(mailbox) <= Len(sent)
    /\ \A i \in 1..Len(mailbox) : mailbox[i] = sent[Handled + i]

BlockInv ==
    /\ running \in BOOLEAN /\ inWork \in BOOLEAN /\ faulted = FALSE
    /\ headerValid \in BOOLEAN
    /\ currentHeader \in [uncompressed_size : Nat, compressed_size : Nat]
    /\ localWriteBufferSize \in Nat
    /\ published \in Seq(Messages) /\ Got <= Handled

(* A header that is held is that of the next message. *)
HeldInv ==
    headerValid =>
      /\ Got < Handled
      /\ currentHeader = [uncompressed_size |-> sent[Got + 1].uncompressedsize,
                          compressed_size |-> sent[Got + 1].compressedsize]

(* The records of the messages follow one another in T. *)
Laid(T, off) ==
    /\ off[Handled + 1] = Len(T)
    /\ \A k \in 1..Handled :
         /\ IsWindow(HeaderOf(sent[k]), T, off[k], off[k] + HeaderLen)
         /\ IsWindow(DataOf(sent[k]), T, off[k] + HeaderLen, off[k + 1])

(* How many bytes the parser has taken: whole records, and a held header.  *)
Parsed(off) == off[Got + 1] + (IF headerValid THEN HeaderLen ELSE 0)

(* The queues and the stream hold the other bytes, in order. *)
InTransit(T, off, a, b) ==
    /\ IsWindow(receiveQueue, T, Parsed(off), a)
    /\ IsWindow(stream, T, a, b)
    /\ IsWindow(sendQueue, T, b, Len(T))

Wire(T, off, a, b) == Laid(T, off) /\ InTransit(T, off, a, b)

WireInv ==
    \E T \in Seq(Bytes), off \in [1..(Handled + 1) -> Nat], a \in Nat, b \in Nat :
        Wire(T, off, a, b)

IndInv == SentInv /\ MailInv /\ BlockInv /\ HeldInv /\ WireInv

(* The counters the proofs below reckon with. *)
LEMMA Counts ==
    ASSUME IndInv
    PROVE  /\ Handled \in Nat /\ Got \in Nat /\ Got <= Handled /\ Handled <= Len(sent)
           /\ Len(sent) \in Nat /\ Len(mailbox) \in Nat
           /\ Handled + Len(mailbox) = Len(sent)
<1>1. Len(sent) \in Nat /\ Len(mailbox) \in Nat /\ Len(mailbox) <= Len(sent)
      /\ Got \in Nat
  BY LenProperties DEF IndInv, SentInv, MailInv, BlockInv, Got
<1> QED BY <1>1 DEF IndInv, BlockInv, Handled

(* An empty stretch of T is a window. *)
LEMMA WindowEmpty ==
    ASSUME NEW T \in Seq(Bytes), NEW a \in 0..Len(T)
    PROVE  IsWindow(<<>>, T, a, a)
<1>1. <<>> \in Seq(Bytes) /\ Len(<<>>) = 0 BY EmptySeq
<1> QED BY <1>1 DEF IsWindow

(* The constructors establish the invariant: T is empty. *)
LEMMA InitInv ==
    ASSUME StreamLinkAssumption, Init
    PROVE  IndInv
<1>1. /\ sent = <<>> /\ mailbox = <<>> /\ sendQueue = <<>> /\ stream = <<>>
      /\ running = TRUE /\ inWork = FALSE /\ faulted = FALSE
      /\ receiveQueue = <<>> /\ headerValid = FALSE
      /\ currentHeader = [uncompressed_size |-> 0, compressed_size |-> 0]
      /\ localWriteBufferSize = BufferSize /\ published = <<>>
  BY DEF Init, M!Init, S!Init
<1>2. <<>> \in Seq(Messages) /\ <<>> \in Seq(Bytes) /\ Len(<<>>) = 0 BY EmptySeq
<1>3. Handled = 0 /\ Got = 0 BY <1>1, <1>2 DEF Handled, Got
<1>4. SentInv /\ MailInv /\ HeldInv BY <1>1, <1>2 DEF SentInv, MailInv, HeldInv
<1>5. BlockInv
  <2>1. currentHeader \in [uncompressed_size : Nat, compressed_size : Nat] BY <1>1
  <2>2. localWriteBufferSize \in Nat BY <1>1 DEF StreamLinkAssumption
  <2>3. published \in Seq(Messages) /\ Got <= Handled BY <1>1, <1>2, <1>3
  <2>4. /\ running \in BOOLEAN /\ inWork \in BOOLEAN /\ faulted = FALSE
        /\ headerValid \in BOOLEAN
    BY <1>1
  <2> QED BY <2>1, <2>2, <2>3, <2>4 DEF BlockInv
<1>6. WireInv
  <2> DEFINE off == [k \in 1..(Handled + 1) |-> 0]
  <2>1. off \in [1..(Handled + 1) -> Nat] /\ off[1] = 0 BY <1>3
  <2> HIDE DEF off
  <2>2. IsWindow(<<>>, <<>>, 0, 0)
    <3>1. 0 \in 0..Len(<<>>) BY <1>2
    <3> QED BY <1>2, <3>1, WindowEmpty
  <2>3. Laid(<<>>, off) BY <1>2, <1>3, <2>1 DEF Laid
  <2>4. Parsed(off) = 0 BY <1>1, <1>3, <2>1 DEF Parsed
  <2>5. InTransit(<<>>, off, 0, 0) BY <1>1, <1>2, <2>2, <2>4 DEF InTransit
  <2> QED BY <1>2, <2>1, <2>3, <2>5 DEF WireInv, Wire
<1> QED BY <1>4, <1>5, <1>6 DEF IndInv

(* The parser is in step with the records. *)
LEMMA HeaderRead ==
    ASSUME ZStdAssumption, IndInv, S!HeaderAvailable,
           NEW T \in Seq(Bytes), NEW off \in [1..(Handled + 1) -> Nat],
           NEW a \in Nat, NEW b \in Nat, Wire(T, off, a, b)
    PROVE  /\ Got < Handled
           /\ S!Headers = {[uncompressed_size |-> sent[Got + 1].uncompressedsize,
                            compressed_size |-> sent[Got + 1].compressedsize]}
           /\ IsWindow(S!AfterHeader, T, off[Got + 1] + HeaderLen, a)
<1> DEFINE msg == sent[Got + 1]
           h == [uncompressed_size |-> msg.uncompressedsize,
                 compressed_size |-> msg.compressedsize]
           o == off[Got + 1]
<1>1. /\ Got \in Nat /\ Handled \in Nat /\ Got <= Handled /\ Handled <= Len(sent)
      /\ Len(sent) \in Nat /\ Got + 1 \in 1..(Handled + 1)
      /\ o \in Nat /\ HeaderLen \in Nat /\ HeaderLen > 0
      /\ Len(T) \in Nat
  BY Counts DEF ZStdAssumption
<1>2. IsWindow(receiveQueue, T, Parsed(off), a) BY DEF Wire, InTransit
<1>3. CASE headerValid
  <2>1. Got < Handled /\ currentHeader = h BY <1>3 DEF IndInv, HeldInv
  <2>2. S!Headers = {h} /\ S!AfterHeader = receiveQueue BY <1>3, <2>1 DEF S!Headers, S!AfterHeader
  <2>3. Parsed(off) = o + HeaderLen BY <1>3 DEF Parsed
  <2> QED BY <1>2, <2>1, <2>2, <2>3
<1>4. CASE ~headerValid
  <2>1. Parsed(off) = o BY <1>1, <1>4 DEF Parsed
  <2>2. /\ receiveQueue \in Seq(Bytes) /\ Len(receiveQueue) = a - o /\ o <= a /\ a <= Len(T)
    BY <1>2, <2>1 DEF IsWindow
  <2>3. Len(receiveQueue) >= HeaderLen BY <1>4 DEF S!HeaderAvailable
  <2>4. Got < Handled
    <3>1. CASE Got = Handled
      <4>1. o = Len(T) BY <3>1 DEF Wire, Laid
      <4>2. FALSE BY <1>1, <2>2, <2>3, <4>1
      <4> QED BY <4>2
    <3> QED BY <1>1, <3>1
  <2>5. Got + 1 \in 1..Handled /\ Got + 1 \in 1..Len(sent) BY <1>1, <2>4
  <2>6. IsBlock(msg) BY <2>5 DEF IndInv, SentInv
  <2>7. IsWindow(HeaderOf(msg), T, o, o + HeaderLen) BY <2>5 DEF Wire, Laid
  <2>8. HeaderLen \in 0..Len(receiveQueue) BY <1>1, <2>2, <2>3
  <2>9. /\ IsWindow(SubSeq(receiveQueue, 1, HeaderLen), T, o, o + HeaderLen)
        /\ IsWindow(SubSeq(receiveQueue, HeaderLen + 1, Len(receiveQueue)), T, o + HeaderLen, a)
    BY <1>2, <2>1, <2>8, WindowCut
  <2>10. SubSeq(receiveQueue, 1, HeaderLen) = HeaderOf(msg) BY <2>7, <2>9, WindowUnique
  <2>11. HeaderValues(HeaderOf(msg)) = {h}
    <3> DEFINE u == msg.uncompressedsize
               c == msg.compressedsize
               bytes == Header(u, c)
    <3>1. u \in Nat /\ c \in Nat /\ u < WordSize /\ c < WordSize
      BY <2>6 DEF IsBlock, Messages
    <3> HIDE DEF u, c
    <3>2. u % WordSize = u /\ c % WordSize = c
      <4>1. WordSize \in Nat \ {0} BY DEF ZStdAssumption
      <4>2. u % WordSize = u BY <3>1, <4>1
      <4>3. c % WordSize = c BY <3>1, <4>1
      <4> QED BY <4>2, <4>3
    <3>3. 1 \in 1..HeaderLen BY <1>1
    <3>4. /\ bytes[1].kind = "header"
          /\ bytes[1].uncompressed_size = u /\ bytes[1].compressed_size = c
      BY <3>2, <3>3 DEF Header
    <3> HIDE DEF bytes
    <3>5. bytes = Header(bytes[1].uncompressed_size, bytes[1].compressed_size)
      BY <3>4 DEF bytes
    <3>6. HeaderValues(bytes) = {[uncompressed_size |-> u, compressed_size |-> c]}
      BY <3>4, <3>5 DEF HeaderValues
    <3> QED BY <3>6 DEF bytes, u, c, HeaderOf
  <2>12. S!Headers = {h} BY <1>4, <2>10, <2>11, SameOperators DEF S!Headers
  <2>13. S!AfterHeader = SubSeq(receiveQueue, HeaderLen + 1, Len(receiveQueue))
    BY <1>4 DEF S!AfterHeader
  <2> QED BY <2>4, <2>9, <2>12, <2>13
<1> QED BY <1>3, <1>4 DEF IndInv, BlockInv

-----------------------------------------------------------------------------
(* What a step that leaves the messages alone leaves true. *)
LEMMA SameMessages ==
    ASSUME IndInv, UNCHANGED <<sent, mailbox>>
    PROVE  /\ SentInv' /\ MailInv' /\ Handled' = Handled
           /\ \A T, off : Laid(T, off) => Laid(T, off)'
<1>1. sent' = sent /\ mailbox' = mailbox OBVIOUS
<1>2. Handled' = Handled BY <1>1 DEF Handled
<1>3. SentInv' BY <1>1 DEF IndInv, SentInv
<1>4. MailInv' BY <1>1, <1>2 DEF IndInv, MailInv
<1>5. ASSUME NEW T, NEW off, Laid(T, off) PROVE Laid(T, off)'
  BY <1>1, <1>2, <1>5 DEF Laid
<1> QED BY <1>2, <1>3, <1>4, <1>5

(* What a step that leaves the parser alone leaves true. *)
LEMMA SameParser ==
    ASSUME IndInv, Handled' = Handled, sent' = sent,
           UNCHANGED <<running, faulted, headerValid, currentHeader, localWriteBufferSize,
                       published>>,
           inWork' \in BOOLEAN
    PROVE  BlockInv' /\ HeldInv' /\ \A off : Parsed(off)' = Parsed(off)
<1>1. Got' = Got BY DEF Got
<1>2. BlockInv' BY <1>1 DEF IndInv, BlockInv
<1>3. HeldInv' BY <1>1 DEF IndInv, HeldInv
<1>4. \A off : Parsed(off)' = Parsed(off) BY <1>1 DEF Parsed
<1> QED BY <1>2, <1>3, <1>4

(* A message is sent: it waits in the mailbox. *)
LEMMA SendStep ==
    ASSUME ZStdAssumption, StreamLinkAssumption, IndInv, Send
    PROVE  IndInv'
<1> PICK u \in 1..MaxBlock, csize \in 1..MaxFrame, hasheader \in BOOLEAN :
        LET msg == BlockMessage(Run(SentBytes, u), csize, hasheader) IN
        /\ sent' = Append(sent, msg) /\ mailbox' = Append(mailbox, msg)
        /\ UNCHANGED <<sendQueue, stream, sOnly>>
  BY DEF Send
<1> DEFINE msg == BlockMessage(Run(SentBytes, u), csize, hasheader)
           n == Len(sent)
           m == Len(mailbox)
<1>1. sent' = Append(sent, msg) /\ mailbox' = Append(mailbox, msg)
      /\ UNCHANGED <<sendQueue, stream, sOnly>>
  OBVIOUS
<1>2. n \in Nat /\ m \in Nat /\ m <= n /\ Handled \in Nat /\ Handled = n - m
  BY Counts DEF IndInv, MailInv, Handled
<1>3. SentBytes \in Nat
  <2>1. CASE sent = <<>> BY <2>1 DEF SentBytes
  <2>2. CASE sent # <<>>
    <3>1. n \in 1..Len(sent) BY <1>2, <2>2 DEF IndInv, SentInv
    <3>2. Carries(sent[n]) BY <3>1 DEF IndInv, SentInv
    <3>3. End(sent[n]) \in Nat
      <4>1. Begin(sent[n]) \in Nat /\ Payload(sent[n]) \in Seq(Nat) BY <3>2 DEF Carries
      <4> QED BY <4>1, LenProperties DEF End
    <3> QED BY <2>2, <3>3 DEF SentBytes
  <2> QED BY <2>1, <2>2
<1>4. IsBlock(msg) /\ Carries(msg) /\ msg \in Messages
  BY <1>3, SentIsBlock DEF IsBlock
<1> HIDE DEF msg
<1>5. /\ sent' \in Seq(Messages) /\ Len(sent') = n + 1
      /\ \A k \in 1..n : sent'[k] = sent[k]
      /\ sent'[n + 1] = msg
  BY <1>1, <1>2, <1>4, AppendProperties DEF IndInv, SentInv
<1>6. /\ mailbox' \in Seq(Messages) /\ Len(mailbox') = m + 1
      /\ \A k \in 1..m : mailbox'[k] = mailbox[k]
      /\ mailbox'[m + 1] = msg
  BY <1>1, <1>2, <1>4, AppendProperties DEF IndInv, MailInv
<1>7. Handled' = Handled BY <1>2, <1>5, <1>6 DEF Handled
<1>8. SentInv'
  <2>1. ASSUME NEW k \in 1..(n + 1) PROVE IsBlock(sent'[k]) /\ Carries(sent'[k])
    <3>1. CASE k \in 1..n BY <1>5, <3>1 DEF IndInv, SentInv
    <3>2. CASE k = n + 1 BY <1>4, <1>5, <3>2
    <3> QED BY <1>2, <3>1, <3>2
  <2> QED BY <1>5, <2>1 DEF SentInv
<1>9. MailInv'
  <2>1. ASSUME NEW i \in 1..(m + 1) PROVE mailbox'[i] = sent'[Handled + i]
    <3>1. CASE i \in 1..m
      <4>1. Handled + i \in 1..n BY <1>2, <3>1
      <4>2. mailbox[i] = sent[Handled + i] BY <3>1 DEF IndInv, MailInv
      <4> QED BY <1>5, <1>6, <3>1, <4>1, <4>2
    <3>2. CASE i = m + 1
      <4>1. Handled + i = n + 1 BY <1>2, <3>2
      <4> QED BY <1>5, <1>6, <3>2, <4>1
    <3>3. i \in 1..m \/ i = m + 1 BY <1>2
    <3> QED BY <3>1, <3>2, <3>3
  <2> QED BY <1>2, <1>5, <1>6, <1>7, <2>1 DEF MailInv
<1>10. /\ UNCHANGED <<running, inWork, faulted, receiveQueue, headerValid, currentHeader,
                      localWriteBufferSize, published, sendQueue, stream>>
       /\ Got' = Got
  BY <1>1 DEF sOnly, Got
<1>11. BlockInv' BY <1>7, <1>10 DEF IndInv, BlockInv
<1>12. HeldInv'
  <2>1. ASSUME headerValid PROVE Got < Handled /\ sent'[Got + 1] = sent[Got + 1]
    <3>1. Got < Handled BY <2>1 DEF IndInv, HeldInv
    <3>2. Got + 1 \in 1..n BY <1>2, <3>1, Counts
    <3> QED BY <1>5, <3>1, <3>2
  <2> QED BY <1>7, <1>10, <2>1 DEF IndInv, HeldInv
<1>13. WireInv'
  <2> PICK T \in Seq(Bytes), off \in [1..(Handled + 1) -> Nat], a \in Nat, b \in Nat :
          Wire(T, off, a, b)
    BY DEF IndInv, WireInv
  <2>1. \A k \in 1..Handled : sent'[k] = sent[k] BY <1>2, <1>5
  <2>2. Laid(T, off)' BY <1>7, <2>1 DEF Wire, Laid
  <2>3. Parsed(off)' = Parsed(off) BY <1>10 DEF Parsed
  <2>4. InTransit(T, off, a, b)' BY <1>10, <2>3 DEF Wire, InTransit
  <2> QED BY <1>7, <2>2, <2>4 DEF WireInv, Wire
<1> QED BY <1>8, <1>9, <1>11, <1>12, <1>13 DEF IndInv

(* work of the sending block moves bytes from its queue to the stream. *)
LEMMA WorkStep ==
    ASSUME IndInv, M!Work, UNCHANGED <<sent, sOnly>>
    PROVE  IndInv'
<1> PICK T \in Seq(Bytes), off \in [1..(Handled + 1) -> Nat], a \in Nat, b \in Nat :
        Wire(T, off, a, b)
  BY DEF IndInv, WireInv
<1>1. sendQueue \in Seq(Bytes) /\ Len(sendQueue) \in Nat
  BY LenProperties DEF Wire, InTransit, IsWindow
<1>2. PICK n \in 0..Len(sendQueue) :
        /\ stream' = stream \o SubSeq(sendQueue, 1, n)
        /\ sendQueue' = SubSeq(sendQueue, n + 1, Len(sendQueue))
  <2>1. PICK i \in 1..MaxItems :
          LET n == IF Len(sendQueue) < i THEN Len(sendQueue) ELSE i IN
          /\ stream' = stream \o SubSeq(sendQueue, 1, n)
          /\ sendQueue' = SubSeq(sendQueue, n + 1, Len(sendQueue))
    BY DEF M!Work
  <2> DEFINE n == IF Len(sendQueue) < i THEN Len(sendQueue) ELSE i
  <2>2. n \in 0..Len(sendQueue) BY <1>1
  <2>3. /\ stream' = stream \o SubSeq(sendQueue, 1, n)
        /\ sendQueue' = SubSeq(sendQueue, n + 1, Len(sendQueue))
    BY <2>1
  <2> HIDE DEF n
  <2> QED BY <2>2, <2>3
<1>3. /\ UNCHANGED <<sent, mailbox, running, inWork, faulted, receiveQueue, headerValid,
                     currentHeader, localWriteBufferSize, published>>
  BY DEF M!Work, sOnly
<1>4. SentInv' /\ MailInv' /\ Handled' = Handled /\ Laid(T, off)'
  BY <1>3, SameMessages DEF Wire
<1>5. BlockInv' /\ HeldInv' /\ Parsed(off)' = Parsed(off)
  <2>1. inWork' \in BOOLEAN BY <1>3 DEF IndInv, BlockInv
  <2> QED BY <1>3, <1>4, <2>1, SameParser
<1>6. /\ IsWindow(SubSeq(sendQueue, 1, n), T, b, b + n)
      /\ IsWindow(SubSeq(sendQueue, n + 1, Len(sendQueue)), T, b + n, Len(T))
  BY WindowCut DEF Wire, InTransit
<1>7. IsWindow(stream', T, a, b + n)
  BY <1>2, <1>6, WindowJoin DEF Wire, InTransit
<1>8. InTransit(T, off, a, b + n)'
  BY <1>2, <1>3, <1>5, <1>6, <1>7 DEF Wire, InTransit
<1>9. WireInv' BY <1>4, <1>8 DEF WireInv, Wire
<1> QED BY <1>4, <1>5, <1>9 DEF IndInv

(* work of the receiving block begins: it takes bytes of the stream. *)
LEMMA BeginStep ==
    ASSUME IndInv, S!WorkBegin, UNCHANGED <<sent, mOnly>>
    PROVE  IndInv'
<1> PICK T \in Seq(Bytes), off \in [1..(Handled + 1) -> Nat], a \in Nat, b \in Nat :
        Wire(T, off, a, b)
  BY DEF IndInv, WireInv
<1>1. stream \in Seq(Bytes) /\ Len(stream) \in Nat
  BY LenProperties DEF Wire, InTransit, IsWindow
<1>2. PICK n \in 0..Len(stream) :
        /\ receiveQueue' = receiveQueue \o SubSeq(stream, 1, n)
        /\ stream' = SubSeq(stream, n + 1, Len(stream))
  <2>1. PICK n \in 1..MaxItems :
          /\ n <= Len(stream)
          /\ receiveQueue' = receiveQueue \o SubSeq(stream, 1, n)
          /\ stream' = SubSeq(stream, n + 1, Len(stream))
    BY DEF S!WorkBegin
  <2>2. n \in 0..Len(stream) BY <1>1, <2>1
  <2> QED BY <2>1, <2>2
<1>3. /\ UNCHANGED <<sent, mailbox, sendQueue, running, faulted, headerValid,
                     currentHeader, localWriteBufferSize, published>>
      /\ inWork' \in BOOLEAN
  BY DEF S!WorkBegin, mOnly
<1>4. SentInv' /\ MailInv' /\ Handled' = Handled /\ Laid(T, off)'
  BY <1>3, SameMessages DEF Wire
<1>5. BlockInv' /\ HeldInv' /\ Parsed(off)' = Parsed(off)
  BY <1>3, <1>4, SameParser
<1>6. /\ IsWindow(SubSeq(stream, 1, n), T, a, a + n)
      /\ IsWindow(SubSeq(stream, n + 1, Len(stream)), T, a + n, b)
  BY WindowCut DEF Wire, InTransit
<1>7. IsWindow(receiveQueue', T, Parsed(off), a + n)
  BY <1>2, <1>6, WindowJoin DEF Wire, InTransit
<1>8. InTransit(T, off, a + n, b)'
  BY <1>2, <1>3, <1>5, <1>6, <1>7 DEF Wire, InTransit
<1>9. WireInv' BY <1>4, <1>8 DEF WireInv, Wire
<1> QED BY <1>4, <1>5, <1>9 DEF IndInv

(* The handler of the sending block puts the record of the next message    *)
(* behind all bytes that it queued before.                                 *)
LEMMA HandleStep ==
    ASSUME ZStdAssumption, IndInv, M!CompressedIn, UNCHANGED <<sent, sOnly>>
    PROVE  IndInv'
<1> PICK T \in Seq(Bytes), off \in [1..(Handled + 1) -> Nat], a \in Nat, b \in Nat :
        Wire(T, off, a, b)
  BY DEF IndInv, WireInv
<1> DEFINE H == Handled
           msg == sent[H + 1]
           hdr == HeaderOf(msg)
           data == DataOf(msg)
           T1 == T \o hdr
           longer == T1 \o data
<1>1. /\ H \in Nat /\ Len(sent) \in Nat /\ Len(mailbox) \in Nat
      /\ H + Len(mailbox) = Len(sent) /\ Got \in Nat /\ Got <= H
      /\ mailbox \in Seq(Messages)
  BY Counts DEF IndInv, MailInv
<1>2. /\ mailbox # <<>> /\ mailbox' = Tail(mailbox)
      /\ sendQueue' = sendQueue \o M!RecordHeader(Head(mailbox)) \o M!RecordData(Head(mailbox))
      /\ UNCHANGED <<sent, stream, running, inWork, faulted, receiveQueue, headerValid,
                     currentHeader, localWriteBufferSize, published>>
  BY DEF M!CompressedIn, sOnly
<1>3. /\ Len(mailbox) >= 1 /\ Head(mailbox) = mailbox[1]
      /\ mailbox' \in Seq(Messages) /\ Len(mailbox') = Len(mailbox) - 1
      /\ \A i \in 1..(Len(mailbox) - 1) : mailbox'[i] = mailbox[i + 1]
  BY <1>1, <1>2, HeadTailProperties
<1>4. Handled' = H + 1 /\ H + 1 \in 1..Len(sent)
  BY <1>1, <1>2, <1>3 DEF Handled
<1>5. Head(mailbox) = msg /\ IsBlock(msg)
  <2>1. 1 \in 1..Len(mailbox) BY <1>1, <1>3
  <2> QED BY <1>3, <1>4, <2>1 DEF IndInv, MailInv, SentInv
<1>6. /\ hdr \in Seq(Bytes) /\ Len(hdr) = HeaderLen /\ HeaderLen \in Nat
      /\ data \in Seq(Bytes) /\ Len(data) = msg.compressedsize
      /\ M!RecordHeader(msg) = hdr /\ M!RecordData(msg) = data
  BY <1>5, RecordParts DEF ZStdAssumption
<1>7. sendQueue' = (sendQueue \o hdr) \o data BY <1>2, <1>5, <1>6
<1> HIDE DEF hdr, data
<1>8. T1 \in Seq(Bytes) /\ Len(T1) = Len(T) + HeaderLen /\ Len(T) \in Nat
  BY <1>6, ConcatProperties, LenProperties
<1>9. IsWindow(hdr, T1, Len(T), Len(T1)) BY <1>6, WindowNew
<1>10. \A s, x, y : IsWindow(s, T, x, y) => IsWindow(s, T1, x, y) BY <1>6, WindowStays
<1> HIDE DEF T1
<1>11. PICK T2 \in Seq(Bytes) : T2 = longer
  <2>1. longer \in Seq(Bytes) BY <1>6, <1>8, ConcatProperties
  <2> HIDE DEF longer
  <2> QED BY <2>1
<1>12. IsWindow(data, T2, Len(T1), Len(T2)) BY <1>6, <1>8, <1>11, WindowNew
<1>13. \A s, x, y : IsWindow(s, T1, x, y) => IsWindow(s, T2, x, y)
  BY <1>6, <1>8, <1>11, WindowStays
<1>14. Len(T2) \in Nat /\ \A s, x, y : IsWindow(s, T, x, y) => IsWindow(s, T2, x, y)
  BY <1>10, <1>13, LenProperties
<1>15. PICK off2 \in [1..(H + 2) -> Nat] :
          off2[H + 2] = Len(T2) /\ \A k \in 1..(H + 1) : off2[k] = off[k]
  <2> DEFINE f == [k \in 1..(H + 2) |-> IF k <= H + 1 THEN off[k] ELSE Len(T2)]
  <2>1. \A k \in 1..(H + 2) : k <= H + 1 => k \in 1..(H + 1) BY <1>1
  <2>2. f \in [1..(H + 2) -> Nat] BY <1>14, <2>1
  <2>3. H + 2 \in 1..(H + 2) /\ ~(H + 2 <= H + 1) BY <1>1
  <2>4. \A k \in 1..(H + 1) : k \in 1..(H + 2) /\ k <= H + 1 BY <1>1
  <2>5. f[H + 2] = Len(T2) /\ \A k \in 1..(H + 1) : f[k] = off[k] BY <2>3, <2>4
  <2> HIDE DEF f
  <2> QED BY <2>2, <2>5
<1>16. H + 1 \in 1..(H + 1) /\ off[H + 1] = Len(T) BY <1>1 DEF Wire, Laid
<1>17. Laid(T2, off2)'
  <2>1. ASSUME NEW k \in 1..(H + 1)
        PROVE  /\ IsWindow(HeaderOf(sent[k]), T2, off2[k], off2[k] + HeaderLen)
               /\ IsWindow(DataOf(sent[k]), T2, off2[k] + HeaderLen, off2[k + 1])
    <3>1. CASE k \in 1..H
      <4>1. k + 1 \in 1..(H + 1) BY <1>1, <3>1
      <4>2. off2[k] = off[k] /\ off2[k + 1] = off[k + 1] BY <1>15, <4>1
      <4>3. /\ IsWindow(HeaderOf(sent[k]), T, off[k], off[k] + HeaderLen)
            /\ IsWindow(DataOf(sent[k]), T, off[k] + HeaderLen, off[k + 1])
        BY <3>1 DEF Wire, Laid
      <4> QED BY <1>14, <4>2, <4>3
    <3>2. CASE k = H + 1
      <4>1. (H + 1) + 1 = H + 2 BY <1>1
      <4>2. off2[k] = Len(T) /\ off2[k + 1] = Len(T2) BY <1>15, <1>16, <3>2, <4>1
      <4>3. IsWindow(hdr, T2, Len(T), Len(T) + HeaderLen) BY <1>8, <1>9, <1>13
      <4>4. IsWindow(data, T2, Len(T) + HeaderLen, Len(T2)) BY <1>8, <1>12
      <4> QED BY <3>2, <4>2, <4>3, <4>4 DEF hdr, data
    <3>3. k \in 1..H \/ k = H + 1 BY <1>1
    <3> QED BY <3>1, <3>2, <3>3
  <2>2. Handled' + 1 = H + 2 BY <1>1, <1>4
  <2> QED BY <1>2, <1>4, <1>15, <2>1, <2>2 DEF Laid
<1>18. Got' = Got /\ Got + 1 \in 1..(H + 1) BY <1>1, <1>2 DEF Got
<1>19. Parsed(off2)' = Parsed(off) BY <1>2, <1>15, <1>18 DEF Parsed
<1>20. InTransit(T2, off2, a, b)'
  <2>1. IsWindow(sendQueue \o hdr, T1, b, Len(T1))
    <3>1. IsWindow(sendQueue, T1, b, Len(T)) BY <1>10 DEF Wire, InTransit
    <3> QED BY <1>8, <1>9, <3>1, WindowJoin
  <2>2. IsWindow(sendQueue', T2, b, Len(T2))
    <3>1. IsWindow(sendQueue \o hdr, T2, b, Len(T1)) BY <1>13, <2>1
    <3> QED BY <1>7, <1>11, <1>12, <3>1, WindowJoin
  <2> QED BY <1>2, <1>14, <1>19, <2>2 DEF Wire, InTransit
<1>21. WireInv'
  <2>1. Handled' + 1 = H + 2 BY <1>1, <1>4
  <2> QED BY <1>11, <1>15, <1>17, <1>20, <2>1 DEF WireInv, Wire
<1>22. SentInv' BY <1>2 DEF IndInv, SentInv
<1>23. MailInv'
  <2>1. ASSUME NEW i \in 1..(Len(mailbox) - 1) PROVE mailbox'[i] = sent[(H + 1) + i]
    <3>1. i + 1 \in 1..Len(mailbox) /\ H + (i + 1) = (H + 1) + i BY <1>1
    <3>2. mailbox[i + 1] = sent[H + (i + 1)] BY <3>1 DEF IndInv, MailInv
    <3> QED BY <1>3, <3>1, <3>2
  <2>2. Len(mailbox') <= Len(sent) BY <1>1, <1>3
  <2> QED BY <1>2, <1>3, <1>4, <2>1, <2>2 DEF MailInv
<1>24. BlockInv' BY <1>1, <1>2, <1>4, <1>18 DEF IndInv, BlockInv
<1>25. HeldInv' BY <1>1, <1>2, <1>4, <1>18 DEF IndInv, HeldInv
<1> QED BY <1>21, <1>22, <1>23, <1>24, <1>25 DEF IndInv

(* work returns with a header that it keeps for the next call.             *)
LEMMA KeepHeaderStep ==
    ASSUME ZStdAssumption, IndInv, S!ReturnWithHeader, UNCHANGED <<sent, mOnly>>
    PROVE  IndInv'
<1> PICK T \in Seq(Bytes), off \in [1..(Handled + 1) -> Nat], a \in Nat, b \in Nat :
        Wire(T, off, a, b)
  BY DEF IndInv, WireInv
<1> DEFINE msg == sent[Got + 1]
           h == [uncompressed_size |-> msg.uncompressedsize,
                 compressed_size |-> msg.compressedsize]
<1>1. Got < Handled /\ S!Headers = {h} /\ IsWindow(S!AfterHeader, T, off[Got + 1] + HeaderLen, a)
  BY HeaderRead DEF S!ReturnWithHeader
<1>2. /\ currentHeader' = h /\ headerValid' = TRUE /\ inWork' = FALSE
      /\ receiveQueue' = S!AfterHeader
      /\ UNCHANGED <<sent, mailbox, sendQueue, running, faulted, stream,
                     localWriteBufferSize, published>>
  BY <1>1 DEF S!ReturnWithHeader, mOnly
<1>3. SentInv' /\ MailInv' /\ Handled' = Handled /\ Laid(T, off)'
  BY <1>2, SameMessages DEF Wire
<1>4. h \in [uncompressed_size : Nat, compressed_size : Nat]
  <2>1. Got + 1 \in 1..Len(sent) BY <1>1, Counts
  <2>2. msg \in Messages BY <2>1 DEF IndInv, SentInv, IsBlock
  <2> QED BY <2>2 DEF Messages
<1>5. Got' = Got BY <1>2 DEF Got
<1>6. BlockInv' BY <1>2, <1>3, <1>4, <1>5 DEF IndInv, BlockInv
<1>7. HeldInv' BY <1>1, <1>2, <1>3, <1>5 DEF HeldInv
<1>8. Parsed(off)' = off[Got + 1] + HeaderLen BY <1>2, <1>5 DEF Parsed
<1>9. InTransit(T, off, a, b)' BY <1>1, <1>2, <1>8 DEF Wire, InTransit
<1>10. WireInv' BY <1>3, <1>9 DEF WireInv, Wire
<1> QED BY <1>3, <1>6, <1>7, <1>10 DEF IndInv

(* An iteration with a whole record publishes the next message as it was   *)
(* sent.                                                                   *)
LEMMA PublishNext ==
    ASSUME ZStdAssumption, IndInv, S!PublishRecord, UNCHANGED <<sent, mOnly>>
    PROVE  IndInv' /\ Got < Handled /\ published' = Append(published, Plain(sent[Got + 1]))
<1> PICK T \in Seq(Bytes), off \in [1..(Handled + 1) -> Nat], a \in Nat, b \in Nat :
        Wire(T, off, a, b)
  BY DEF IndInv, WireInv
<1> DEFINE msg == sent[Got + 1]
           h == [uncompressed_size |-> msg.uncompressedsize,
                 compressed_size |-> msg.compressedsize]
           size == msg.compressedsize
           queue == S!AfterHeader
           o == off[Got + 1] + HeaderLen
<1>1. Got < Handled /\ S!Headers = {h} /\ IsWindow(queue, T, o, a)
  BY HeaderRead DEF S!PublishRecord
<1>2. /\ Got \in Nat /\ Handled \in Nat /\ Got + 1 \in 1..Handled /\ Got + 1 \in 1..Len(sent)
      /\ (Got + 1) + 1 \in 1..(Handled + 1)
  <2>1. Got \in Nat /\ Handled \in Nat /\ Len(sent) \in Nat /\ Handled <= Len(sent) BY Counts
  <2>2. Got < Handled BY <1>1
  <2> HIDE DEF msg, h, size, queue, o
  <2> QED BY <2>1, <2>2
<1>3. IsBlock(msg) /\ msg \in Messages /\ size \in Nat BY <1>2 DEF IndInv, SentInv, IsBlock, Messages
<1>4. /\ size <= Len(queue)
      /\ currentHeader' = h
      /\ receiveQueue' = SubSeq(queue, size + 1, Len(queue))
      /\ localWriteBufferSize' = S!BufferFor(size)
      /\ faulted' = (size > S!BufferFor(size))
      /\ published' = Append(published,
            [uncompressedsize |-> msg.uncompressedsize, compressedsize |-> size,
             hasheader |-> FALSE, blob |-> SubSeq(queue, 1, size)])
  <2>1. PICK header \in S!Headers :
          /\ header.compressed_size <= Len(queue)
          /\ currentHeader' = header
          /\ receiveQueue' = SubSeq(queue, header.compressed_size + 1, Len(queue))
          /\ localWriteBufferSize' = S!BufferFor(header.compressed_size)
          /\ faulted' = (header.compressed_size > S!BufferFor(header.compressed_size))
          /\ published' = Append(published,
                [uncompressedsize |-> header.uncompressed_size,
                 compressedsize |-> header.compressed_size,
                 hasheader |-> FALSE, blob |-> SubSeq(queue, 1, header.compressed_size)])
    BY DEF S!PublishRecord
  <2>2. header = h BY <1>1
  <2>3. header.compressed_size = size /\ header.uncompressed_size = msg.uncompressedsize
    BY <2>2
  <2> HIDE DEF queue, size
  <2> QED BY <2>1, <2>2, <2>3
<1>5. /\ headerValid' = FALSE /\ inWork' \in BOOLEAN
      /\ UNCHANGED <<sent, mailbox, sendQueue, running, stream>>
  BY DEF S!PublishRecord, S!MoreData, mOnly
<1> HIDE DEF queue
<1>6. size \in 0..Len(queue) BY <1>1, <1>3, <1>4 DEF IsWindow
<1>7. /\ IsWindow(SubSeq(queue, 1, size), T, o, o + size)
      /\ IsWindow(SubSeq(queue, size + 1, Len(queue)), T, o + size, a)
  BY <1>1, <1>6, WindowCut
<1>8. /\ DataOf(msg) \in Seq(Bytes) /\ Len(DataOf(msg)) = size
      /\ Plain(msg) = [uncompressedsize |-> msg.uncompressedsize, compressedsize |-> size,
                       hasheader |-> FALSE, blob |-> DataOf(msg)]
      /\ Plain(msg) \in Messages
  BY <1>3, RecordParts
<1>9. IsWindow(DataOf(msg), T, o, off[(Got + 1) + 1]) BY <1>2 DEF Wire, Laid
<1>10. off[(Got + 1) + 1] = o + size
  <2>1. o \in Nat /\ off[(Got + 1) + 1] \in Nat /\ size = off[(Got + 1) + 1] - o
    BY <1>2, <1>8, <1>9 DEF IsWindow
  <2> QED BY <1>3, <2>1
<1>11. SubSeq(queue, 1, size) = DataOf(msg) BY <1>7, <1>9, <1>10, WindowUnique
<1>12. published' = Append(published, Plain(msg)) BY <1>4, <1>8, <1>11
<1>13. published' \in Seq(Messages) /\ Got' = Got + 1
  BY <1>8, <1>12, AppendProperties DEF IndInv, BlockInv, Got
<1>14. SentInv' /\ MailInv' /\ Handled' = Handled /\ Laid(T, off)'
  BY <1>5, SameMessages DEF Wire
<1>15. BlockInv'
  <2>1. localWriteBufferSize \in Nat /\ running \in BOOLEAN BY DEF IndInv, BlockInv
  <2>2. localWriteBufferSize' \in Nat /\ size <= localWriteBufferSize'
    BY <1>3, <1>4, <2>1 DEF S!BufferFor
  <2>3. faulted' = FALSE
    <3>1. S!BufferFor(size) \in Nat /\ size <= S!BufferFor(size) BY <1>4, <2>2
    <3>2. (size > S!BufferFor(size)) = FALSE BY <1>3, <3>1
    <3> QED BY <1>4, <3>2, Zenon
  <2>4. currentHeader' \in [uncompressed_size : Nat, compressed_size : Nat]
    BY <1>3, <1>4 DEF Messages
  <2>5. Got' <= Handled' BY <1>1, <1>2, <1>13, <1>14
  <2> QED BY <1>5, <1>13, <2>1, <2>2, <2>3, <2>4, <2>5 DEF BlockInv
<1>16. HeldInv' BY <1>5 DEF HeldInv
<1>17. Parsed(off)' = o + size BY <1>2, <1>5, <1>10, <1>13 DEF Parsed
<1>18. InTransit(T, off, a, b)' BY <1>4, <1>5, <1>7, <1>17 DEF Wire, InTransit
<1>19. WireInv' BY <1>14, <1>18 DEF WireInv, Wire
<1>20. IndInv' BY <1>14, <1>15, <1>16, <1>19 DEF IndInv
<1> QED BY <1>1, <1>12, <1>20

(* The other steps touch neither the messages nor the bytes. *)
LEMMA QuietStep ==
    ASSUME IndInv, running' \in BOOLEAN, inWork' \in BOOLEAN, localWriteBufferSize' \in Nat,
           UNCHANGED <<sent, mOnly, faulted, stream, receiveQueue, headerValid,
                       currentHeader, published>>
    PROVE  IndInv'
<1>1. UNCHANGED <<sent, mailbox, sendQueue, faulted, stream, receiveQueue, headerValid,
                  currentHeader, published>>
  BY DEF mOnly
<1> PICK T \in Seq(Bytes), off \in [1..(Handled + 1) -> Nat], a \in Nat, b \in Nat :
        Wire(T, off, a, b)
  BY DEF IndInv, WireInv
<1>2. SentInv' /\ MailInv' /\ Handled' = Handled /\ Laid(T, off)'
  BY <1>1, SameMessages DEF Wire
<1>3. Got' = Got BY <1>1 DEF Got
<1>4. BlockInv' BY <1>1, <1>2, <1>3 DEF IndInv, BlockInv
<1>5. HeldInv' BY <1>1, <1>2, <1>3 DEF IndInv, HeldInv
<1>6. InTransit(T, off, a, b)' BY <1>1, <1>3 DEF Wire, InTransit, Parsed
<1>7. WireInv' BY <1>2, <1>6 DEF WireInv, Wire
<1> QED BY <1>2, <1>4, <1>5, <1>7 DEF IndInv

(* Every step preserves the invariant. *)
LEMMA StepInv ==
    ASSUME ZStdAssumption, StreamLinkAssumption, IndInv, [Next]_vars
    PROVE  IndInv'
<1>1. CASE Send BY <1>1, SendStep
<1>2. CASE ToStream
  <2>1. CASE M!CompressedIn BY <1>2, <2>1, HandleStep DEF ToStream
  <2>2. CASE M!Work BY <1>2, <2>2, WorkStep DEF ToStream
  <2> QED BY <1>2, <2>1, <2>2 DEF ToStream, M!Next
<1>3. CASE FromStream
  <2> UNCHANGED <<sent, mOnly>> BY <1>3 DEF FromStream
  <2>1. CASE S!WorkBegin BY <2>1, BeginStep
  <2>2. CASE S!ReturnWithHeader BY <2>2, KeepHeaderStep
  <2>3. CASE S!PublishRecord BY <2>3, PublishNext
  <2>4. /\ running \in BOOLEAN /\ inWork \in BOOLEAN /\ localWriteBufferSize \in Nat
        /\ TRUE \in BOOLEAN /\ FALSE \in BOOLEAN
    BY DEF IndInv, BlockInv
  <2>5. CASE S!ReturnWithoutHeader BY <2>4, <2>5, QuietStep DEF S!ReturnWithoutHeader
  <2>6. CASE S!Stop BY <2>4, <2>6, QuietStep DEF S!Stop
  <2>7. CASE S!Start BY <2>4, <2>7, QuietStep DEF S!Start
  <2> QED BY <1>3, <2>1, <2>2, <2>3, <2>5, <2>6, <2>7 DEF FromStream, S!Next, S!Iterate
<1>4. CASE UNCHANGED vars
  <2>1. UNCHANGED <<running, inWork, localWriteBufferSize>>
        /\ UNCHANGED <<sent, mOnly, faulted, stream, receiveQueue, headerValid,
                       currentHeader, published>>
    BY <1>4 DEF vars, sOnly
  <2>2. running' \in BOOLEAN /\ inWork' \in BOOLEAN /\ localWriteBufferSize' \in Nat
    BY <2>1 DEF IndInv, BlockInv
  <2> QED BY <2>1, <2>2, QuietStep
<1> QED BY <1>1, <1>2, <1>3, <1>4 DEF Next

-----------------------------------------------------------------------------
(* The invariant holds in every behaviour of the two blocks. *)
THEOREM Invariance == Spec => []IndInv
<1>1. Init => IndInv BY InitInv, StreamLinkAssumption
<1>2. IndInv /\ [Next]_vars => IndInv' BY StepInv, ZStdAssumption, StreamLinkAssumption
<1> QED BY <1>1, <1>2, PTL DEF Spec

(* The variables of both blocks keep their types. *)
THEOREM TypeCorrect == Spec => []TypeOK
<1>1. ASSUME IndInv PROVE TypeOK
  <2>1. sent \in Seq(Messages) /\ mailbox \in Seq(M!Messages) /\ published \in Seq(S!Messages)
    BY <1>1, SameOperators DEF IndInv, SentInv, MailInv, BlockInv
  <2>2. PICK T \in Seq(Bytes), off \in [1..(Handled + 1) -> Nat], a \in Nat, b \in Nat :
          Wire(T, off, a, b)
    BY <1>1 DEF IndInv, WireInv
  <2>3. /\ sendQueue \in Seq(M!Bytes) /\ stream \in Seq(M!Bytes)
        /\ stream \in Seq(S!Bytes) /\ receiveQueue \in Seq(S!Bytes)
    BY <2>2, SameOperators DEF Wire, InTransit, IsWindow
  <2>4. M!TypeOK BY <2>1, <2>3 DEF M!TypeOK
  <2>5. S!TypeOK BY <1>1, <2>1, <2>3 DEF S!TypeOK, IndInv, BlockInv
  <2> QED BY <2>1, <2>4, <2>5 DEF TypeOK
<1> QED BY <1>1, Invariance, PTL

(* The parser never loses the place of the records, and stays in its       *)
(* buffer.                                                                 *)
THEOREM ParserInStep == Spec => []InStep
<1>1. ASSUME IndInv PROVE InStep
  <2>1. PICK T \in Seq(Bytes), off \in [1..(Handled + 1) -> Nat], a \in Nat, b \in Nat :
          Wire(T, off, a, b)
    BY <1>1 DEF IndInv, WireInv
  <2>2. ASSUME S!HeaderAvailable
        PROVE  /\ Len(published) < Len(sent)
               /\ S!Headers =
                    {[uncompressed_size |-> sent[Len(published) + 1].uncompressedsize,
                      compressed_size |-> sent[Len(published) + 1].compressedsize]}
    <3>1. Got < Handled
          /\ S!Headers = {[uncompressed_size |-> sent[Got + 1].uncompressedsize,
                           compressed_size |-> sent[Got + 1].compressedsize]}
      BY <1>1, <2>1, <2>2, HeaderRead, ZStdAssumption
    <3>2. Got < Len(sent) BY <1>1, <3>1, Counts
    <3> QED BY <3>1, <3>2 DEF Got
  <2>3. ~faulted BY <1>1 DEF IndInv, BlockInv
  <2> QED BY <2>2, <2>3 DEF InStep
<1> QED BY <1>1, Invariance, PTL

(* The messages as the channel sees them. *)
Channel == [k \in 1..Len(sent) |-> Plain(sent[k])]

(* The channel holds a message for each that was sent. *)
LEMMA ChannelIsSeq ==
    ASSUME ZStdAssumption, SentInv
    PROVE  /\ Channel \in Seq(Messages) /\ Len(Channel) = Len(sent) /\ Len(sent) \in Nat
           /\ \A k \in 1..Len(sent) : Channel[k] = Plain(sent[k])
<1>1. Len(sent) \in Nat BY LenProperties DEF SentInv
<1>2. \A k \in 1..Len(sent) : Plain(sent[k]) \in Messages BY RecordParts DEF SentInv
<1>3. Channel \in [1..Len(sent) -> Messages] BY <1>2 DEF Channel
<1>4. \A k \in 1..Len(sent) : Channel[k] = Plain(sent[k]) BY DEF Channel
<1> HIDE DEF Channel
<1>5. Channel \in Seq(Messages) /\ Len(Channel) = Len(sent) BY <1>1, <1>3
<1> QED BY <1>1, <1>4, <1>5

(* A Send of the link is a Send of the channel. *)
LEMMA SendIsFifoSend ==
    ASSUME ZStdAssumption, IndInv, IndInv', Send
    PROVE  /\ Len(Channel') = Len(Channel) + 1
           /\ Channel' = Append(Channel, Channel'[Len(Channel')])
           /\ Channel'[Len(Channel')] \in Messages
           /\ published' = published
<1> DEFINE n == Len(sent)
<1>1. PICK msg : sent' = Append(sent, msg) BY DEF Send
<1>2. /\ sent \in Seq(Messages) /\ sent' \in Seq(Messages) /\ n \in Nat
      /\ SentInv /\ SentInv'
  BY LenProperties DEF IndInv, SentInv
<1>3. Len(sent') = n + 1 /\ \A k \in 1..n : sent'[k] = sent[k] BY <1>1, <1>2
<1>4. /\ Channel \in Seq(Messages) /\ Len(Channel) = n
      /\ \A k \in 1..n : Channel[k] = Plain(sent[k])
  BY <1>2, ChannelIsSeq
<1>5. /\ Channel' \in Seq(Messages) /\ Len(Channel') = n + 1
      /\ \A k \in 1..(n + 1) : Channel'[k] = Plain(sent'[k])
  <2>1. Channel' = [k \in 1..Len(sent') |-> Plain(sent'[k])] BY DEF Channel
  <2>2. \A k \in 1..(n + 1) : Plain(sent'[k]) \in Messages
    BY <1>2, <1>3, RecordParts DEF SentInv
  <2>3. Channel' \in [1..(n + 1) -> Messages] BY <1>3, <2>1, <2>2
  <2>4. \A k \in 1..(n + 1) : Channel'[k] = Plain(sent'[k]) BY <1>3, <2>1
  <2> HIDE DEF Channel
  <2> QED BY <1>2, <2>3, <2>4
<1> HIDE DEF Channel
<1> DEFINE last == Channel'[n + 1]
           longer == Append(Channel, last)
<1>6. last \in Messages BY <1>2, <1>5
<1> HIDE DEF last
<1>7. /\ longer \in Seq(Messages) /\ Len(longer) = n + 1
      /\ \A k \in 1..n : longer[k] = Channel[k]
      /\ longer[n + 1] = last
  BY <1>2, <1>4, <1>6, AppendProperties
<1> HIDE DEF longer
<1>8. ASSUME NEW k \in 1..(n + 1) PROVE Channel'[k] = longer[k]
  <2>1. CASE k \in 1..n BY <1>3, <1>4, <1>5, <1>7, <2>1
  <2>2. CASE k = n + 1 BY <1>7, <2>2 DEF last
  <2>3. k \in 1..n \/ k = n + 1 BY <1>2
  <2> QED BY <2>1, <2>2, <2>3
<1>9. Channel' = longer BY <1>5, <1>7, <1>8, SeqEqual
<1>10. published' = published BY DEF Send, sOnly
<1> QED BY <1>4, <1>5, <1>6, <1>9, <1>10 DEF longer, last

(* The two blocks implement the FIFO channel: an initial state is one of   *)
(* the channel, and a step is a step of the channel or leaves it alone.    *)
THEOREM ImplementsFifo == Spec => FifoSpec
<1>1. Init => Fifo!Init
  <2> SUFFICES ASSUME Init PROVE Fifo!Init OBVIOUS
  <2>1. sent = <<>> /\ published = <<>> BY DEF Init, S!Init
  <2>2. [k \in 1..Len(sent) |-> Plain(sent[k])] = <<>> BY <2>1
  <2> QED BY <2>1, <2>2 DEF Fifo!Init
<1>2. IndInv /\ IndInv' /\ [Next]_vars => [Fifo!Send \/ Fifo!Receive]_Fifo!fvars
  <2> SUFFICES ASSUME IndInv, IndInv', [Next]_vars
               PROVE  [Fifo!Send \/ Fifo!Receive]_Fifo!fvars
    OBVIOUS
  <2> USE DEF Fifo!fvars
  <2>1. CASE Send
    BY <2>1, SendIsFifoSend, ZStdAssumption DEF Channel, Fifo!Send
  <2>2. CASE FromStream /\ S!PublishRecord
    <3>1. UNCHANGED <<sent, mOnly>> BY <2>2 DEF FromStream
    <3>2. Got < Handled /\ published' = Append(published, Plain(sent[Got + 1]))
      BY <2>2, <3>1, PublishNext, ZStdAssumption
    <3>3. Got < Len(sent) /\ Got + 1 \in 1..Len(sent) BY <3>2, Counts
    <3>4. /\ Len(Channel) = Len(sent) /\ Channel[Got + 1] = Plain(sent[Got + 1])
          /\ Channel' = Channel
      BY <3>1, <3>3, ChannelIsSeq, ZStdAssumption DEF IndInv, Channel
    <3> QED BY <3>2, <3>3, <3>4 DEF Channel, Got, Fifo!Receive
  <2>3. CASE (FromStream /\ ~S!PublishRecord) \/ ToStream \/ UNCHANGED vars
    <3>1. sent' = sent /\ published' = published
      BY <2>3 DEF FromStream, ToStream, vars, sOnly, S!Next, S!Iterate, S!WorkBegin,
                  S!ReturnWithHeader, S!ReturnWithoutHeader, S!Stop, S!Start
    <3> QED BY <3>1
  <2> QED BY <2>1, <2>2, <2>3 DEF Next
<1> QED BY <1>1, <1>2, Invariance, PTL DEF Spec, FifoSpec, Fifo!Spec
=============================================================================
