---------------------------- MODULE Decompress_proofs ----------------------------
(***************************************************************************)
(* Proofs about the decompress block and its sender, for any sizes of      *)
(* items, buffers and blocks, any number of messages, intact or spoilt,    *)
(* and any stops and starts.                                               *)
(***************************************************************************)
EXTENDS MCDecompress, ZStd_proofs

Types ==
    /\ running \in BOOLEAN /\ faulted \in BOOLEAN /\ localWriteBufferSize \in Nat
    /\ byteQueue \in Seq(Nat) /\ out \in Seq(Nat)
    /\ compressedin \in Seq(Messages)
    /\ uncompressed \in Seq(Seq(Nat))
    /\ sent \in Nat

(* What the handler will queue for a message that waits. *)
Data(k) == Payload(compressedin[k])

(* Bytes of the stream in order, none of them beyond what has been sent.   *)
Increasing(s) == \A i, j \in 1..Len(s) : i < j => s[i] < s[j]
Before(s, t) == \A i \in 1..Len(s), j \in 1..Len(t) : s[i] < t[j]
Upto(s, n) == \A i \in 1..Len(s) : s[i] <= n
Sound(s, n) == s \in Seq(Nat) /\ Increasing(s) /\ Upto(s, n)

(* The bytes that were queued come before those that wait, which come in   *)
(* the order of their messages; together they are those of intact blocks.  *)
OrderInv ==
    /\ Sound(Got, sent)
    /\ \A k \in 1..Len(compressedin) : Sound(Data(k), sent) /\ Before(Got, Data(k))
    /\ \A k, l \in 1..Len(compressedin) : k < l => Before(Data(k), Data(l))
    /\ intact = Range(Got) \cup Waiting

IndInv == Types /\ NeverOverruns /\ OrderInv /\ MessagesMatchStream

-----------------------------------------------------------------------------
(* The payloads of the sender's messages. *)

(* The frame of a block's message, byte by byte. *)
LEMMA BlobHoldsFrame ==
    ASSUME ZStdAssumption, NEW content \in Seq(Nat), NEW csize \in Nat \ {0},
           NEW hasheader \in BOOLEAN
    PROVE  LET m == BlockMessage(content, csize, hasheader) IN
           /\ m.blob \in Seq(Bytes) /\ Skip(m) \in Nat /\ Len(m.blob) = Skip(m) + csize
           /\ \A i \in 1..csize : m.blob[Skip(m) + i] = Frame(content, csize)[i]
           /\ SubSeq(m.blob, Skip(m) + 1, Skip(m) + csize) = Frame(content, csize)
<1> DEFINE m == BlockMessage(content, csize, hasheader)
           h == IF hasheader THEN Header(Len(content), csize) ELSE <<>>
           f == Frame(content, csize)
           skip == Skip(m)
<1>1. m.blob = h \o f /\ m.hasheader = hasheader BY DEF BlockMessage
<1>2. skip \in Nat /\ Len(h) = skip /\ h \in Seq(Bytes)
  BY <1>1, HeaderType DEF Skip, ZStdAssumption
<1>3. f \in Seq(Bytes) /\ Len(f) = csize BY FrameType
<1> HIDE DEF m, h, f, skip
<1>4. /\ h \o f \in Seq(Bytes) /\ Len(h \o f) = Len(h) + Len(f)
      /\ \A i \in 1..(Len(h) + Len(f)) :
           (h \o f)[i] = IF i <= Len(h) THEN h[i] ELSE f[i - Len(h)]
  BY <1>2, <1>3, ConcatProperties
<1>5. /\ m.blob \in Seq(Bytes) /\ Len(m.blob) = skip + csize
      /\ \A i \in 1..(skip + csize) : m.blob[i] = IF i <= skip THEN h[i] ELSE f[i - skip]
  BY <1>1, <1>2, <1>3, <1>4, Zenon
<1>6. ASSUME NEW i \in 1..csize PROVE m.blob[skip + i] = f[i]
  <2>1. skip + i \in 1..(skip + csize) /\ ~(skip + i <= skip) /\ (skip + i) - skip = i
    BY <1>2
  <2>2. m.blob[skip + i] = f[(skip + i) - skip] BY <1>5, <2>1
  <2> QED BY <2>1, <2>2
<1>7. SubSeq(m.blob, skip + 1, skip + csize) = f
  <2> DEFINE t == SubSeq(m.blob, skip + 1, skip + csize)
  <2>1. \A i \in (skip + 1)..(skip + csize) : m.blob[i] \in Bytes BY <1>2, <1>5
  <2>2. t \in Seq(Bytes) /\ Len(t) = csize /\ \A i \in 1..csize : t[i] = m.blob[skip + i]
    BY <1>2, <2>1, SubSeqProperties, SMTT(30)
  <2> HIDE DEF t
  <2>3. \A i \in 1..csize : t[i] = f[i] BY <1>6, <2>2
  <2>4. t = f BY <1>3, <2>2, <2>3, SeqEqual
  <2> QED BY <2>4 DEF t
<1> QED BY <1>2, <1>5, <1>6, <1>7 DEF m, f, skip

(* Nothing comes of a frame that is cut short. *)
LEMMA CutShortPayload ==
    ASSUME ZStdAssumption, NEW content \in Seq(Nat), NEW csize \in Nat \ {0},
           NEW hasheader \in BOOLEAN
    PROVE  LET m == CutShort(BlockMessage(content, csize, hasheader)) IN
           m \in Messages /\ Payload(m) = <<>>
<1> DEFINE msg == BlockMessage(content, csize, hasheader)
           m == CutShort(msg)
           skip == Skip(msg)
           s == SubSeq(m.blob, skip + 1, skip + (csize - 1))
<1>1. msg \in Messages /\ msg.compressedsize = csize /\ msg.hasheader = hasheader
  BY BlockMessagePayload DEF BlockMessage
<1>2. /\ msg.blob \in Seq(Bytes) /\ skip \in Nat /\ Len(msg.blob) = skip + csize
      /\ \A i \in 1..csize : msg.blob[skip + i] = Frame(content, csize)[i]
  BY BlobHoldsFrame
<1> HIDE DEF msg
<1>3. /\ m.compressedsize = csize - 1 /\ m.hasheader = hasheader
      /\ m.uncompressedsize = msg.uncompressedsize
      /\ m.blob = SubSeq(msg.blob, 1, Len(msg.blob) - 1)
  BY <1>1 DEF CutShort, Front, Messages
<1>4. Skip(m) = skip BY <1>1, <1>3 DEF Skip
<1> HIDE DEF skip
<1>5. /\ m.blob \in Seq(Bytes) /\ Len(m.blob) = skip + (csize - 1)
      /\ \A i \in 1..(skip + (csize - 1)) : m.blob[i] = msg.blob[i]
  <2>1. skip + csize - 1 = skip + (csize - 1) /\ skip + (csize - 1) \in Nat BY <1>2
  <2>2. \A i \in 1..(skip + (csize - 1)) : msg.blob[i] \in Bytes BY <1>2
  <2>3. m.blob = SubSeq(msg.blob, 1, skip + (csize - 1)) BY <1>2, <1>3, <2>1
  <2> HIDE DEF m
  <2> DEFINE n == skip + (csize - 1)
  <2> HIDE DEF n
  <2>4. /\ SubSeq(msg.blob, 1, n) \in Seq(Bytes) /\ Len(SubSeq(msg.blob, 1, n)) = n
        /\ \A i \in 1..n : SubSeq(msg.blob, 1, n)[i] = msg.blob[i]
    BY <2>1, <2>2, SubSeqProperties DEF n
  <2> QED BY <2>3, <2>4 DEF n
<1>6. m \in Messages
  <2>1. csize - 1 \in Nat OBVIOUS
  <2>2. m = [msg EXCEPT !.compressedsize = csize - 1, !.blob = m.blob]
    BY <1>1, <1>3 DEF CutShort, Front
  <2> HIDE DEF m
  <2> DEFINE blob == m.blob
             c == csize - 1
  <2>3. m = [msg EXCEPT !.compressedsize = c, !.blob = blob] BY <2>2
  <2>4. blob \in Seq(Bytes) /\ c \in Nat BY <1>5, <2>1
  <2> HIDE DEF blob, c
  <2> QED BY <1>1, <2>3, <2>4 DEF Messages
<1>7. Payload(m) = Decompress(m.uncompressedsize, s) BY <1>3, <1>4 DEF Payload
<1> HIDE DEF m
<1>8. ~IsFrame(s)
  <2>1. \A i \in (skip + 1)..(skip + (csize - 1)) : m.blob[i] \in Bytes BY <1>2, <1>5
  <2>2. /\ s \in Seq(Bytes) /\ Len(s) = csize - 1
        /\ \A i \in 1..(csize - 1) : s[i] = m.blob[skip + i]
    BY <1>2, <2>1, SubSeqProperties, SMTT(30)
  <2> HIDE DEF s
  <2> SUFFICES ASSUME IsFrame(s) PROVE FALSE OBVIOUS
  <2>3. Len(s) > 0 /\ s = Frame(s[1].of, Len(s)) BY DEF IsFrame
  <2>4. 1 \in 1..(csize - 1) /\ 1 \in 1..csize /\ 1 \in 1..Len(s) BY <2>2, <2>3
  <2>5. skip + 1 \in 1..(skip + (csize - 1)) BY <1>2, <2>4
  <2>6. s[1] = Frame(content, csize)[1]
    <3>1. s[1] = m.blob[skip + 1] BY <2>2, <2>4
    <3>2. m.blob[skip + 1] = msg.blob[skip + 1] BY <1>5, <2>5
    <3>3. msg.blob[skip + 1] = Frame(content, csize)[1] BY <1>2, <2>4
    <3> QED BY <3>1, <3>2, <3>3
  <2>7. s[1].len = csize BY <2>4, <2>6 DEF Frame
  <2>8. Frame(s[1].of, Len(s))[1].len = Len(s) BY <2>4 DEF Frame
  <2>9. s[1].len = Len(s) BY <2>3, <2>8
  <2> QED BY <2>2, <2>7, <2>9
<1>9. Payload(m) = <<>> BY <1>7, <1>8 DEF Decompress
<1> QED BY <1>6, <1>9 DEF m, msg

(* Nor of one that is announced to be of no bytes. *)
LEMMA UnlabelledPayload ==
    ASSUME ZStdAssumption, NEW content \in Seq(Nat), NEW csize \in Nat \ {0},
           NEW hasheader \in BOOLEAN
    PROVE  LET m == Unlabelled(BlockMessage(content, csize, hasheader)) IN
           m \in Messages /\ Payload(m) = <<>>
<1> DEFINE msg == BlockMessage(content, csize, hasheader)
           m == Unlabelled(msg)
           f == Frame(content, csize)
<1>1. msg \in Messages /\ msg.compressedsize = csize
  BY BlockMessagePayload DEF BlockMessage
<1>2. SubSeq(msg.blob, Skip(msg) + 1, Skip(msg) + csize) = f BY BlobHoldsFrame
<1> HIDE DEF msg
<1>3. /\ m \in Messages /\ m.uncompressedsize = 0 /\ m.compressedsize = csize
      /\ m.blob = msg.blob /\ m.hasheader = msg.hasheader
  BY <1>1 DEF Unlabelled, Messages
<1> HIDE DEF m
<1>4. Skip(m) = Skip(msg) BY <1>3 DEF Skip
<1>5. Payload(m) = Decompress(0, f) BY <1>2, <1>3, <1>4 DEF Payload
<1>6. f[1].of = content BY DEF Frame
<1> HIDE DEF f
<1>7. (Payload(m) = content /\ Len(content) <= 0) \/ Payload(m) = <<>>
  BY <1>5, <1>6 DEF Decompress
<1>8. Payload(m) = <<>> BY <1>7, EmptySeq
<1> QED BY <1>3, <1>8 DEF m, msg

-----------------------------------------------------------------------------
(* Sequences that continue one another. *)

LEMMA SoundConcat ==
    ASSUME NEW n, NEW s, NEW t, Sound(s, n), Sound(t, n), Before(s, t)
    PROVE  Sound(s \o t, n) /\ Range(s \o t) = Range(s) \cup Range(t)
<1> DEFINE L == Len(s)
           M == Len(t)
           u == s \o t
<1>1. s \in Seq(Nat) /\ t \in Seq(Nat) /\ L \in Nat /\ M \in Nat BY DEF Sound
<1>2. /\ u \in Seq(Nat) /\ Len(u) = L + M
      /\ \A i \in 1..(L + M) : u[i] = IF i <= L THEN s[i] ELSE t[i - L]
  BY <1>1, ConcatProperties
<1>3. DOMAIN s = 1..L /\ DOMAIN t = 1..M /\ DOMAIN u = 1..Len(u) BY <1>1, <1>2
<1>4. /\ \A i, j \in 1..L : i < j => s[i] < s[j]
      /\ \A i, j \in 1..M : i < j => t[i] < t[j]
      /\ \A i \in 1..L, j \in 1..M : s[i] < t[j]
      /\ \A i \in 1..L : s[i] <= n
      /\ \A i \in 1..M : t[i] <= n
  BY DEF Sound, Increasing, Before, Upto
<1> HIDE DEF u, L, M
<1>5. ASSUME NEW i \in 1..(L + M)
      PROVE  \/ i \in 1..L /\ u[i] = s[i]
             \/ i \notin 1..L /\ i - L \in 1..M /\ u[i] = t[i - L]
  <2>1. \/ i \in 1..L /\ i <= L
        \/ i \notin 1..L /\ ~(i <= L) /\ i - L \in 1..M
    BY <1>1
  <2> QED BY <1>2, <2>1
<1>6. ASSUME NEW i \in 1..(L + M), NEW j \in 1..(L + M), i < j PROVE u[i] < u[j]
  <2>1. CASE i \in 1..L /\ j \in 1..L
    <3>1. u[i] = s[i] /\ u[j] = s[j] BY <1>5, <2>1
    <3> QED BY <1>4, <1>6, <2>1, <3>1
  <2>2. CASE i \in 1..L /\ j \notin 1..L
    <3>1. u[i] = s[i] /\ u[j] = t[j - L] /\ j - L \in 1..M BY <1>5, <2>2
    <3> QED BY <1>4, <2>2, <3>1
  <2>3. CASE i \notin 1..L
    <3>1. u[i] = t[i - L] /\ i - L \in 1..M BY <1>5, <2>3
    <3>2. j \notin 1..L BY <1>1, <1>6, <2>3
    <3>3. u[j] = t[j - L] /\ j - L \in 1..M BY <1>5, <3>2
    <3>4. i - L < j - L BY <1>1, <1>6
    <3> QED BY <1>4, <3>1, <3>3, <3>4
  <2> QED BY <2>1, <2>2, <2>3
<1>7. ASSUME NEW i \in 1..(L + M) PROVE u[i] <= n
  <2>1. CASE i \in 1..L BY <1>4, <1>5, <2>1
  <2>2. CASE i \notin 1..L
    <3>1. u[i] = t[i - L] /\ i - L \in 1..M BY <1>5, <2>2
    <3> QED BY <1>4, <3>1
  <2> QED BY <2>1, <2>2
<1>8. Sound(u, n) BY <1>2, <1>6, <1>7 DEF Sound, Increasing, Upto
<1>9. Range(u) = Range(s) \cup Range(t)
  <2>1. ASSUME NEW i \in 1..(L + M) PROVE u[i] \in Range(s) \cup Range(t)
    <3>1. CASE i \in 1..L BY <1>3, <1>5, <3>1 DEF Range
    <3>2. CASE i \notin 1..L
      <4>1. u[i] = t[i - L] /\ i - L \in 1..M BY <1>5, <3>2
      <4> QED BY <1>3, <4>1 DEF Range
    <3> QED BY <3>1, <3>2
  <2>2. ASSUME NEW i \in 1..L PROVE s[i] \in Range(u)
    <3>1. i \in 1..(L + M) BY <1>1
    <3>2. u[i] = s[i] BY <1>5, <3>1
    <3> QED BY <1>2, <1>3, <3>1, <3>2 DEF Range
  <2>3. ASSUME NEW i \in 1..M PROVE t[i] \in Range(u)
    <3>1. L + i \in 1..(L + M) /\ L + i \notin 1..L /\ (L + i) - L = i BY <1>1
    <3>2. u[L + i] = t[(L + i) - L] BY <1>5, <3>1
    <3>3. u[L + i] = t[i] BY <3>1, <3>2
    <3> QED BY <1>2, <1>3, <3>1, <3>3 DEF Range
  <2>4. Range(u) \subseteq Range(s) \cup Range(t) BY <1>2, <1>3, <2>1 DEF Range
  <2>5. Range(s) \subseteq Range(u) BY <1>3, <2>2 DEF Range
  <2>6. Range(t) \subseteq Range(u) BY <1>3, <2>3 DEF Range
  <2> QED BY <2>4, <2>5, <2>6
<1> QED BY <1>8, <1>9 DEF u

LEMMA BeforeConcat ==
    ASSUME NEW s \in Seq(Nat), NEW t \in Seq(Nat), NEW u, Before(s, u), Before(t, u)
    PROVE  Before(s \o t, u)
<1> DEFINE L == Len(s)
           M == Len(t)
           v == s \o t
<1>1. /\ v \in Seq(Nat) /\ Len(v) = L + M /\ L \in Nat /\ M \in Nat
      /\ \A i \in 1..(L + M) : v[i] = IF i <= L THEN s[i] ELSE t[i - L]
  BY ConcatProperties
<1>2. /\ \A i \in 1..L, j \in 1..Len(u) : s[i] < u[j]
      /\ \A i \in 1..M, j \in 1..Len(u) : t[i] < u[j]
  BY DEF Before
<1> HIDE DEF v, L, M
<1>3. ASSUME NEW i \in 1..(L + M), NEW j \in 1..Len(u) PROVE v[i] < u[j]
  <2>1. CASE i <= L
    <3>1. v[i] = s[i] /\ i \in 1..L BY <1>1, <2>1
    <3> QED BY <1>2, <3>1
  <2>2. CASE ~(i <= L)
    <3>1. v[i] = t[i - L] /\ i - L \in 1..M BY <1>1, <2>2
    <3> QED BY <1>2, <3>1
  <2> QED BY <2>1, <2>2
<1>4. Before(v, u) BY <1>1, <1>3 DEF Before
<1> QED BY <1>4 DEF v

(* A message that carries nothing. *)
LEMMA NothingIsSound ==
    ASSUME NEW n, NEW s
    PROVE  Sound(<<>>, n) /\ Before(<<>>, s) /\ Before(s, <<>>) /\ Range(<<>>) = {}
<1>1. <<>> \in Seq(Nat) /\ Len(<<>>) = 0 /\ DOMAIN <<>> = {} OBVIOUS
<1> QED BY <1>1 DEF Sound, Increasing, Upto, Before, Range

(* The bytes of a block that is sent follow all that were sent before.     *)
LEMMA RunIsSound ==
    ASSUME NEW lo \in Nat, NEW n \in Nat
    PROVE  /\ Sound(Run(lo, n), lo + n) /\ Range(Run(lo, n)) = (lo + 1)..(lo + n)
           /\ \A s : Sound(s, lo) => Before(s, Run(lo, n)) /\ Sound(s, lo + n)
<1> DEFINE r == Run(lo, n)
<1>1. r \in Seq(Nat) /\ Len(r) = n /\ \A i \in 1..n : r[i] = lo + i BY RunIsSeq
<1>2. DOMAIN r = 1..n BY <1>1
<1> HIDE DEF r
<1>3. Sound(r, lo + n) BY <1>1 DEF Sound, Increasing, Upto
<1>4. Range(r) = (lo + 1)..(lo + n)
  <2>1. ASSUME NEW i \in 1..n PROVE r[i] \in (lo + 1)..(lo + n) BY <1>1
  <2>2. ASSUME NEW x \in (lo + 1)..(lo + n) PROVE x \in Range(r)
    <3>1. x - lo \in 1..n /\ lo + (x - lo) = x OBVIOUS
    <3>2. r[x - lo] = x BY <1>1, <3>1
    <3> QED BY <1>2, <3>1, <3>2 DEF Range
  <2>3. Range(r) \subseteq (lo + 1)..(lo + n) BY <1>2, <2>1 DEF Range
  <2> QED BY <2>2, <2>3
<1>5. ASSUME NEW s, Sound(s, lo) PROVE Before(s, r) /\ Sound(s, lo + n)
  <2>1. s \in Seq(Nat) /\ \A i \in 1..Len(s) : s[i] <= lo BY <1>5 DEF Sound, Upto
  <2>2. \A i \in 1..Len(s) : s[i] \in Nat BY <2>1
  <2>3. \A i \in 1..Len(s), j \in 1..n : s[i] < r[j] BY <1>1, <2>1, <2>2
  <2>4. \A i \in 1..Len(s) : s[i] <= lo + n BY <2>1, <2>2
  <2> QED BY <1>1, <1>5, <2>3, <2>4 DEF Before, Sound, Upto
<1> QED BY <1>3, <1>4, <1>5 DEF r

-----------------------------------------------------------------------------
(* What a message may bring that is sent when lo bytes have been sent, and *)
(* hi are then.                                                            *)
Follows(data, lo, hi) ==
    /\ Sound(data, hi)
    /\ \A s : Sound(s, lo) => Before(s, data) /\ Sound(s, hi)

LEMMA SentFollows ==
    ASSUME NEW lo \in Nat, NEW n \in Nat
    PROVE  Follows(Run(lo, n), lo, lo + n) /\ Follows(<<>>, lo, lo + n)
<1>1. Follows(Run(lo, n), lo, lo + n) BY RunIsSound DEF Follows
<1>2. ASSUME NEW s, Sound(s, lo) PROVE Sound(s, lo + n) BY <1>2, RunIsSound
<1>3. Follows(<<>>, lo, lo + n) BY <1>2, NothingIsSound DEF Follows
<1> QED BY <1>1, <1>3

LEMMA ArrivalKeepsOrder ==
    ASSUME Types, OrderInv, NEW msg \in Messages, Follows(Payload(msg), sent, sent'),
           compressedin' = Append(compressedin, msg), UNCHANGED <<out, byteQueue>>,
           intact' = intact \cup Range(Payload(msg))
    PROVE  OrderInv'
<1>0. PICK n \in Nat : n = Len(compressedin) BY DEF Types
<1> DEFINE new == Payload(msg)
<1>1. /\ Len(compressedin') = n + 1
      /\ \A k \in 1..n : compressedin'[k] = compressedin[k]
      /\ compressedin'[n + 1] = msg
  BY <1>0, AppendProperties DEF Types
<1>2. /\ \A k \in 1..n : Data(k)' = Data(k)
      /\ Data(n + 1)' = new
  BY <1>1 DEF Data
<1>3. Got' = Got BY DEF Got
<1>4. ASSUME NEW s, Sound(s, sent) PROVE Before(s, new) /\ Sound(s, sent')
  BY <1>4 DEF Follows
<1>5. Sound(new, sent') BY DEF Follows
<1> HIDE DEF new
<1>6. ASSUME NEW k \in 1..(n + 1) PROVE k \in 1..n \/ k = n + 1 BY <1>1
<1>7. Sound(Got, sent) /\ \A k \in 1..n : Sound(Data(k), sent) /\ Before(Got, Data(k))
  BY <1>0 DEF OrderInv
<1>8. \A k, l \in 1..n : k < l => Before(Data(k), Data(l)) BY <1>0 DEF OrderInv
<1>9. ASSUME NEW k \in 1..(n + 1) PROVE Sound(Data(k)', sent') /\ Before(Got', Data(k)')
  <2>1. CASE k \in 1..n BY <1>2, <1>3, <1>4, <1>7, <2>1
  <2>2. CASE k = n + 1 BY <1>2, <1>3, <1>4, <1>5, <1>7, <2>2
  <2> QED BY <1>6, <2>1, <2>2
<1>10. ASSUME NEW k \in 1..(n + 1), NEW l \in 1..(n + 1), k < l
       PROVE  Before(Data(k)', Data(l)')
  <2>1. k \in 1..n BY <1>1, <1>10
  <2>2. CASE l \in 1..n BY <1>2, <1>8, <1>10, <2>1, <2>2
  <2>3. CASE l = n + 1 BY <1>2, <1>4, <1>7, <2>1, <2>3
  <2> QED BY <1>6, <2>2, <2>3
<1>11. Waiting' = Waiting \cup Range(new)
  <2>1. Waiting = UNION {Range(Data(k)) : k \in 1..n} BY <1>0 DEF Waiting, Data
  <2>2. Waiting' = UNION {Range(Data(k)') : k \in 1..(n + 1)} BY <1>1 DEF Waiting, Data
  <2>3. 1..(n + 1) = (1..n) \cup {n + 1} BY <1>1
  <2> QED BY <1>2, <2>1, <2>2, <2>3
<1>12. intact' = Range(Got') \cup Waiting' BY <1>3, <1>11 DEF OrderInv, new
<1> QED BY <1>1, <1>3, <1>4, <1>7, <1>9, <1>10, <1>12 DEF OrderInv

LEMMA HandlerKeepsOrder ==
    ASSUME Types, OrderInv, compressedin # <<>>, compressedin' = Tail(compressedin),
           byteQueue' = byteQueue \o Payload(Head(compressedin)),
           UNCHANGED <<out, sent, intact>>
    PROVE  OrderInv' /\ Got' = Got \o Payload(Head(compressedin))
           /\ Payload(Head(compressedin)) \in Seq(Nat)
<1>0. PICK n \in Nat : n = Len(compressedin) BY DEF Types
<1> DEFINE data == Payload(Head(compressedin))
<1>1. /\ n \in Nat \ {0} /\ Len(compressedin') = n - 1
      /\ \A k \in 1..(n - 1) : compressedin'[k] = compressedin[k + 1]
      /\ Head(compressedin) = compressedin[1]
  BY <1>0, HeadTailProperties, EmptySeq DEF Types
<1>2. /\ \A k \in 1..(n - 1) : Data(k)' = Data(k + 1)
      /\ Data(1) = data
  BY <1>1 DEF Data
<1> HIDE DEF data
<1>3. Sound(Got, sent) /\ \A k \in 1..n : Sound(Data(k), sent) /\ Before(Got, Data(k))
  BY <1>0 DEF OrderInv
<1>4. \A k, l \in 1..n : k < l => Before(Data(k), Data(l)) BY <1>0 DEF OrderInv
<1>5. 1 \in 1..n BY <1>1
<1>6. Sound(data, sent) /\ Before(Got, data) BY <1>2, <1>3, <1>5
<1>7. data \in Seq(Nat) /\ Got \in Seq(Nat) BY <1>3, <1>6 DEF Sound
<1>8. Got' = Got \o data
  <2>1. out \in Seq(Nat) /\ byteQueue \in Seq(Nat) BY DEF Types
  <2>2. (out \o byteQueue) \o data = out \o (byteQueue \o data)
    <3>1. out \in Seq(Nat) /\ byteQueue \in Seq(Nat) /\ data \in Seq(Nat) BY <1>7, <2>1
    <3> QED BY <3>1, Regrouped, SMTT(30)
  <2> QED BY <2>2 DEF Got, data
<1>9. Sound(Got', sent) /\ Range(Got') = Range(Got) \cup Range(data)
  BY <1>3, <1>6, <1>8, SoundConcat
<1>10. ASSUME NEW k \in 1..(n - 1) PROVE Sound(Data(k)', sent) /\ Before(Got', Data(k)')
  <2>1. k + 1 \in 1..n /\ 1 < k + 1 BY <1>1
  <2>2. Before(data, Data(k + 1)) BY <1>2, <1>4, <1>5, <2>1
  <2>3. Before(Got, Data(k + 1)) /\ Sound(Data(k + 1), sent) BY <1>3, <2>1
  <2>4. Before(Got \o data, Data(k + 1)) BY <1>7, <2>2, <2>3, BeforeConcat
  <2> QED BY <1>2, <1>8, <2>3, <2>4
<1>11. ASSUME NEW k \in 1..(n - 1), NEW l \in 1..(n - 1), k < l
       PROVE  Before(Data(k)', Data(l)')
  <2>1. k + 1 \in 1..n /\ l + 1 \in 1..n /\ k + 1 < l + 1 BY <1>1, <1>11
  <2>2. Before(Data(k + 1), Data(l + 1)) BY <1>4, <2>1
  <2> QED BY <1>2, <2>2
<1>12. Waiting = Range(data) \cup Waiting'
  <2>1. Waiting = UNION {Range(Data(k)) : k \in 1..n} BY <1>0 DEF Waiting, Data
  <2>2. Waiting' = UNION {Range(Data(k)') : k \in 1..(n - 1)} BY <1>1 DEF Waiting, Data
  <2>3. \A k \in 1..(n - 1) : k + 1 \in 1..n BY <1>1
  <2>4. \A k \in 1..n : k = 1 \/ (k - 1 \in 1..(n - 1) /\ (k - 1) + 1 = k) BY <1>1
  <2>5. ASSUME NEW x \in Waiting PROVE x \in Range(data) \cup Waiting'
    <3>1. PICK k \in 1..n : x \in Range(Data(k)) BY <2>1
    <3>2. CASE k = 1 BY <1>2, <3>1, <3>2
    <3>3. CASE k # 1
      <4>1. k - 1 \in 1..(n - 1) /\ (k - 1) + 1 = k BY <2>4, <3>3
      <4>2. Data(k - 1)' = Data(k) BY <1>2, <4>1
      <4> QED BY <2>2, <3>1, <4>1, <4>2
    <3> QED BY <3>2, <3>3
  <2>6. Range(data) \subseteq Waiting BY <1>2, <1>5, <2>1
  <2>7. Waiting' \subseteq Waiting BY <1>2, <2>1, <2>2, <2>3
  <2> QED BY <2>5, <2>6, <2>7
<1>13. intact' = Range(Got') \cup Waiting'
  <2>1. intact = Range(Got) \cup Waiting /\ intact' = intact BY DEF OrderInv
  <2> QED BY <1>9, <1>12, <2>1
<1>14. OrderInv' BY <1>1, <1>9, <1>10, <1>11, <1>13 DEF OrderInv
<1> QED BY <1>7, <1>8, <1>14 DEF data

-----------------------------------------------------------------------------
(* The steps. *)

LEMMA InitEstablishes ==
    ASSUME DecompressAssumption, MCInit
    PROVE  IndInv
<1>1. /\ running = TRUE /\ faulted = FALSE /\ localWriteBufferSize = BufferSize
      /\ byteQueue = <<>> /\ compressedin = <<>> /\ uncompressed = <<>> /\ out = <<>>
      /\ sent = 0 /\ intact = {} /\ BufferSize \in Nat
  BY DEF MCInit, Init, DecompressAssumption
<1>2. /\ <<>> \in Seq(Nat) /\ <<>> \in Seq(Messages) /\ <<>> \in Seq(Seq(Nat))
      /\ Len(<<>>) = 0
  BY EmptySeq
<1>3. Types BY <1>1, <1>2 DEF Types
<1>4. Got = <<>> BY <1>1, <1>2, ConcatEmptySeq DEF Got
<1>5. Waiting = {} BY <1>1, <1>2 DEF Waiting
<1>6. OrderInv BY <1>1, <1>2, <1>4, <1>5, NothingIsSound DEF OrderInv
<1>7. MessagesMatchStream BY <1>1, <1>4, FlattenEmpty DEF MessagesMatchStream
<1> QED BY <1>1, <1>3, <1>6, <1>7 DEF IndInv, NeverOverruns

(* What the handler is given fits the buffer it has made ready. *)
LEMMA CompressedInPreserves ==
    ASSUME DecompressAssumption, IndInv, CompressedIn, UNCHANGED <<sent, intact>>
    PROVE  IndInv'
<1> DEFINE msg == Head(compressedin)
           data == Payload(msg)
<1>1. /\ Types /\ OrderInv /\ compressedin # <<>> /\ compressedin' = Tail(compressedin)
      /\ UNCHANGED <<running, out>> /\ compressedin \in Seq(Messages)
  BY DEF IndInv, CompressedIn, Types
<1>2. msg \in Messages /\ Tail(compressedin) \in Seq(Messages) BY <1>1
<1>3. msg.uncompressedsize \in Nat BY <1>2 DEF Messages
<1>4. Len(data) <= msg.uncompressedsize BY <1>3, DecompressBounded
<1>5. /\ localWriteBufferSize' = BufferFor(msg)
      /\ faulted' = (Len(data) > BufferFor(msg))
      /\ IF Len(data) > msg.uncompressedsize
         THEN UNCHANGED <<byteQueue, uncompressed>>
         ELSE byteQueue' = byteQueue \o data /\ uncompressed' = Republished(data)
  BY DEF CompressedIn
<1>6. data \in Seq(Nat)
  <2>1. 1 \in 1..Len(compressedin) /\ msg = compressedin[1] BY <1>1, EmptySeq
  <2> HIDE DEF msg
  <2>2. Sound(Data(1), sent) BY <1>1, <2>1 DEF OrderInv
  <2> QED BY <2>1, <2>2 DEF Sound, Data
<1> HIDE DEF data, msg
<1>7. Len(data) \in Nat BY <1>6
<1>8. byteQueue' = byteQueue \o data /\ uncompressed' = Republished(data)
  BY <1>3, <1>4, <1>5, <1>7
<1>9. BufferFor(msg) \in Nat /\ BufferFor(msg) >= msg.uncompressedsize
  BY <1>1, <1>3 DEF BufferFor, Types
<1>10. faulted' = FALSE
  <2>1. ~(Len(data) > BufferFor(msg)) BY <1>3, <1>4, <1>7, <1>9
  <2>2. faulted' = (Len(data) > BufferFor(msg)) BY <1>5
  <2> DEFINE over == Len(data) > BufferFor(msg)
  <2>3. over = FALSE BY <2>1
  <2> QED BY <2>2, <2>3
<1>11. OrderInv' /\ Got' = Got \o data
  BY <1>1, <1>8, HandlerKeepsOrder DEF data, msg
<1>12. byteQueue' \in Seq(Nat) BY <1>1, <1>6, <1>8 DEF Types
<1>13. uncompressed' \in Seq(Seq(Nat)) /\ MessagesMatchStream'
  <2>1. uncompressed \in Seq(Seq(Nat)) /\ FlattenSeq(uncompressed) = IF SendMsg THEN Got ELSE <<>>
    BY <1>1 DEF IndInv, Types, MessagesMatchStream
  <2>2. CASE SendMsg
    <3>1. uncompressed' = Append(uncompressed, data) BY <1>8, <2>2 DEF Republished
    <3>2. FlattenSeq(Append(uncompressed, data)) = FlattenSeq(uncompressed) \o data
      BY <1>6, <2>1, FlattenAppend
    <3>3. Append(uncompressed, data) \in Seq(Seq(Nat)) BY <1>6, <2>1, AppendProperties
    <3> QED BY <1>11, <2>1, <2>2, <3>1, <3>2, <3>3, Zenon DEF MessagesMatchStream
  <2>3. CASE ~SendMsg
    <3>1. uncompressed' = uncompressed BY <1>8, <2>3 DEF Republished
    <3> QED BY <2>1, <2>3, <3>1 DEF MessagesMatchStream
  <2> QED BY <2>2, <2>3
<1>14. Types' BY <1>1, <1>2, <1>5, <1>9, <1>10, <1>12, <1>13 DEF Types
<1> QED BY <1>10, <1>11, <1>13, <1>14 DEF IndInv, NeverOverruns

(* work takes whole items, no more than there are. *)
LEMMA ProducibleBounds ==
    ASSUME DecompressAssumption, NEW n \in 1..MaxItems, byteQueue \in Seq(Nat),
           Producible(n) > 0
    PROVE  Producible(n) \in 0..Len(byteQueue)
<1> DEFINE L == Len(byteQueue)
           a == L \div ItemSize
<1>1. L \in Nat /\ n \in Nat /\ ItemSize \in Nat \ {0} BY DEF DecompressAssumption
<1>2. a \in Nat /\ ItemSize * a <= L BY <1>1
<1>3. ASSUME n <= a PROVE ItemSize * n <= ItemSize * a BY <1>1, <1>2, <1>3, SMTT(30)
<1>4. Producible(n) = ItemSize * (IF a >= n THEN n ELSE a) BY DEF Producible
<1> QED BY <1>1, <1>2, <1>3, <1>4

(* A step that leaves what is queued and what waits as it was. *)
LEMMA QuietPreserves ==
    ASSUME IndInv, Types', Got' = Got, UNCHANGED <<faulted, compressedin, uncompressed, sent, intact>>
    PROVE  IndInv'
<1>1. OrderInv' BY DEF IndInv, OrderInv, Data, Waiting
<1>2. MessagesMatchStream' BY DEF IndInv, MessagesMatchStream
<1> QED BY <1>1, <1>2 DEF IndInv, NeverOverruns

LEMMA WorkPreserves ==
    ASSUME DecompressAssumption, IndInv, Work, UNCHANGED <<sent, intact>>
    PROVE  IndInv'
<1>1. Types BY DEF IndInv
<1>2. PICK n \in 1..MaxItems :
        /\ Producible(n) > 0
        /\ out' = out \o SubSeq(byteQueue, 1, Producible(n))
        /\ byteQueue' = SubSeq(byteQueue, Producible(n) + 1, Len(byteQueue))
        /\ UNCHANGED <<running, faulted, localWriteBufferSize, compressedin, uncompressed>>
  BY DEF Work
<1>3. PICK noi \in 0..Len(byteQueue) : noi = Producible(n)
  BY <1>1, <1>2, ProducibleBounds DEF Types
<1> DEFINE s == SubSeq(byteQueue, 1, noi)
           t == SubSeq(byteQueue, noi + 1, Len(byteQueue))
<1>4. byteQueue \in Seq(Nat) /\ out \in Seq(Nat) BY <1>1 DEF Types
<1>5. s \in Seq(Nat) /\ t \in Seq(Nat) /\ s \o t = byteQueue BY <1>4, CutInTwo
<1>6. out' = out \o s /\ byteQueue' = t BY <1>2, <1>3
<1> HIDE DEF s, t
<1>7. (out \o s) \o t = out \o (s \o t) /\ out \o s \in Seq(Nat)
  <2>1. out \in Seq(Nat) /\ s \in Seq(Nat) /\ t \in Seq(Nat) BY <1>4, <1>5
  <2>2. (out \o s) \o t = out \o (s \o t) BY <2>1, NatsRegrouped, ZenonT(60)
  <2>3. out \o s \in Seq(Nat) BY <2>1, ConcatProperties
  <2> QED BY <2>2, <2>3
<1>8. Got' = Got BY <1>5, <1>6, <1>7, Zenon DEF Got
<1>9. Types'
  <2>1. out' \in Seq(Nat) /\ byteQueue' \in Seq(Nat) BY <1>5, <1>6, <1>7
  <2>2. UNCHANGED <<running, faulted, localWriteBufferSize, compressedin, uncompressed, sent>>
    BY <1>2
  <2> QED BY <1>1, <2>1, <2>2 DEF Types
<1> QED BY <1>2, <1>8, <1>9, QuietPreserves

LEMMA StopOrStartPreserves ==
    ASSUME IndInv, Stop \/ Start \/ UNCHANGED dvars, UNCHANGED <<sent, intact>>
    PROVE  IndInv'
<1>0. running \in BOOLEAN /\ localWriteBufferSize \in Nat BY DEF IndInv, Types
<1>1. UNCHANGED <<faulted, byteQueue, compressedin, uncompressed, out>>
  BY DEF Stop, Start, dvars
<1>2. running' \in BOOLEAN /\ localWriteBufferSize' \in Nat
  <2>1. CASE Stop BY <2>1 DEF Stop
  <2>2. CASE Start
    <3>1. running' = TRUE /\ localWriteBufferSize' = localWriteBufferSize
      BY <2>2, Zenon DEF Start
    <3> QED BY <1>0, <3>1
  <2>3. CASE UNCHANGED dvars
    <3>1. running' = running /\ localWriteBufferSize' = localWriteBufferSize
      BY <2>3, Zenon DEF dvars
    <3> QED BY <1>0, <3>1
  <2> QED BY <2>1, <2>2, <2>3
<1>3. Types' /\ Got' = Got BY <1>1, <1>2 DEF IndInv, Types, Got
<1> QED BY <1>1, <1>3, QuietPreserves

(* A block that is sent, whole or spoilt. *)
LEMMA ArrivePreserves ==
    ASSUME ZStdAssumption, FrameLen \in Nat \ {0}, MaxBlock \in Nat, IndInv, Arrive
    PROVE  IndInv'
<1>1. Types /\ OrderInv /\ sent \in Nat /\ compressedin \in Seq(Messages)
  BY DEF IndInv, Types
<1>2. PICK u \in 1..MaxBlock, hasheader \in BOOLEAN :
        LET msg == BlockMessage(Run(sent, u), FrameLen, hasheader) IN
        /\ sent' = sent + u
        /\ \/ /\ compressedin' = Append(compressedin, msg)
              /\ intact' = intact \cup (sent + 1)..(sent + u)
           \/ /\ compressedin' = Append(compressedin, CutShort(msg))
              /\ UNCHANGED intact
           \/ /\ compressedin' = Append(compressedin, Unlabelled(msg))
              /\ UNCHANGED intact
        /\ UNCHANGED <<running, faulted, localWriteBufferSize, byteQueue, uncompressed, out>>
  BY DEF Arrive
<1> DEFINE run == Run(sent, u)
           msg == BlockMessage(run, FrameLen, hasheader)
<1>3. u \in Nat /\ run \in Seq(Nat) /\ sent' \in Nat BY <1>1, <1>2, RunIsSeq
<1>4. Follows(run, sent, sent') /\ Follows(<<>>, sent, sent')
  BY <1>1, <1>2, <1>3, SentFollows
<1>5. Range(run) = (sent + 1)..(sent + u) BY <1>1, <1>3, RunIsSound
<1> HIDE DEF run
<1>6. /\ msg \in Messages /\ Payload(msg) = run
      /\ CutShort(msg) \in Messages /\ Payload(CutShort(msg)) = <<>>
      /\ Unlabelled(msg) \in Messages /\ Payload(Unlabelled(msg)) = <<>>
  BY <1>3, BlockMessagePayload, CutShortPayload, UnlabelledPayload
<1> HIDE DEF msg
<1>7. \E m \in Messages : /\ compressedin' = Append(compressedin, m)
                          /\ Follows(Payload(m), sent, sent')
                          /\ intact' = intact \cup Range(Payload(m))
  <2>1. CASE compressedin' = Append(compressedin, msg)
             /\ intact' = intact \cup (sent + 1)..(sent + u)
    BY <1>4, <1>5, <1>6, <2>1
  <2>2. Range(<<>>) = {} BY NothingIsSound
  <2>3. CASE \/ compressedin' = Append(compressedin, CutShort(msg)) /\ intact' = intact
             \/ compressedin' = Append(compressedin, Unlabelled(msg)) /\ intact' = intact
    BY <1>4, <1>6, <2>2, <2>3
  <2> QED BY <1>2, <2>1, <2>3 DEF msg, run
<1>8. PICK m \in Messages : /\ compressedin' = Append(compressedin, m)
                            /\ Follows(Payload(m), sent, sent')
                            /\ intact' = intact \cup Range(Payload(m))
  BY <1>7
<1>9. UNCHANGED <<running, faulted, localWriteBufferSize, byteQueue, uncompressed, out>>
  BY <1>2
<1>10. OrderInv' BY <1>1, <1>8, <1>9, ArrivalKeepsOrder
<1>11. Types' BY <1>1, <1>3, <1>8, <1>9, AppendProperties DEF Types
<1>12. MessagesMatchStream' BY <1>9 DEF IndInv, MessagesMatchStream, Got
<1> QED BY <1>9, <1>10, <1>11, <1>12 DEF IndInv, NeverOverruns

LEMMA Invariance ==
    ASSUME FrameLen \in Nat \ {0}, MaxBlock \in Nat
    PROVE  MCSpec => []IndInv
<1> USE DecompressAssumption, ZStdAssumption
<1>1. MCInit => IndInv BY InitEstablishes
<1>2. IndInv /\ [MCNext]_mcvars => IndInv'
  <2> SUFFICES ASSUME IndInv, [MCNext]_mcvars PROVE IndInv' OBVIOUS
  <2>1. CASE Arrive BY <2>1, ArrivePreserves
  <2>2. CASE Next /\ UNCHANGED <<sent, intact>>
    <3>1. CASE CompressedIn BY <2>2, <3>1, CompressedInPreserves
    <3>2. CASE Work BY <2>2, <3>2, WorkPreserves
    <3>3. CASE Stop \/ Start BY <2>2, <3>3, StopOrStartPreserves
    <3> QED BY <2>2, <3>1, <3>2, <3>3 DEF Next, Handle
  <2>3. CASE UNCHANGED mcvars
    <3>1. UNCHANGED dvars /\ UNCHANGED <<sent, intact>> BY <2>3 DEF mcvars, dvars
    <3> QED BY <3>1, StopOrStartPreserves
  <2> QED BY <2>1, <2>2, <2>3 DEF MCNext
<1> QED BY <1>1, <1>2, PTL DEF MCSpec

-----------------------------------------------------------------------------
(***************************************************************************)
(* The variables keep their types.                                         *)
(***************************************************************************)
THEOREM TypeCorrect ==
    ASSUME FrameLen \in Nat \ {0}, MaxBlock \in Nat
    PROVE  MCSpec => []TypeOK
<1>1. IndInv => TypeOK BY DEF IndInv, Types, TypeOK
<1> QED BY <1>1, Invariance, PTL

(***************************************************************************)
(* No decompression writes outside localWriteBuffer, whatever the sizes    *)
(* the messages announce and however often stop has freed the buffer.      *)
(***************************************************************************)
THEOREM BufferNeverOverrun ==
    ASSUME FrameLen \in Nat \ {0}, MaxBlock \in Nat
    PROVE  MCSpec => []NeverOverruns
<1>1. IndInv => NeverOverruns BY DEF IndInv
<1> QED BY <1>1, Invariance, PTL

(***************************************************************************)
(* Over stops and restarts and between spoilt blocks, the bytes of every   *)
(* intact block are queued once, whole and in order, and no others.        *)
(***************************************************************************)
THEOREM IntactBlocksArrive ==
    ASSUME FrameLen \in Nat \ {0}, MaxBlock \in Nat
    PROVE  MCSpec => []IntactBlocksSurvive
<1>1. IndInv => IntactBlocksSurvive
  <2> SUFFICES ASSUME OrderInv PROVE IntactBlocksSurvive BY DEF IndInv
  <2>1. \A i, j \in 1..Len(Got) : i < j => Got[i] < Got[j]
    BY DEF OrderInv, Sound, Increasing
  <2>2. Got \in Seq(Nat) /\ DOMAIN Got = 1..Len(Got) BY DEF OrderInv, Sound
  <2>3. ASSUME NEW x \in Range(Got), x \in Waiting PROVE FALSE
    <3>1. PICK i \in 1..Len(Got) : x = Got[i] BY <2>2 DEF Range
    <3>2. PICK k \in 1..Len(compressedin) : x \in Range(Data(k)) BY <2>3 DEF Waiting, Data
    <3>3. Data(k) \in Seq(Nat) /\ Before(Got, Data(k)) BY DEF OrderInv, Sound
    <3>4. PICK j \in 1..Len(Data(k)) : x = Data(k)[j] BY <3>2, <3>3 DEF Range
    <3>5. Got[i] < Data(k)[j] BY <3>3 DEF Before
    <3>6. x \in Nat BY <2>2, <3>1
    <3> QED BY <3>1, <3>4, <3>5, <3>6
  <2>4. Range(Got) = intact \ Waiting BY <2>3 DEF OrderInv
  <2> QED BY <2>1, <2>4 DEF IntactBlocksSurvive
<1> QED BY <1>1, Invariance, PTL

(***************************************************************************)
(* With sendMsg the messages on "uncompressed" are the bytes of the        *)
(* stream, in the same order; without it nothing is published.             *)
(***************************************************************************)
THEOREM MessagesAreTheStream ==
    ASSUME FrameLen \in Nat \ {0}, MaxBlock \in Nat
    PROVE  MCSpec => []MessagesMatchStream
<1>1. IndInv => MessagesMatchStream BY DEF IndInv
<1> QED BY <1>1, Invariance, PTL

=============================================================================
