---------------------------- MODULE ZStd_proofs ----------------------------
(***************************************************************************)
(* Lemmas about the operators of ZStd: runs of consecutive bytes, frames,  *)
(* the payload of a message, and chains of messages; and, by induction on  *)
(* the length, about FlattenSeq, the concatenation of a sequence of        *)
(* sequences.                                                              *)
(***************************************************************************)
EXTENDS ZStd, SequencesExt, SequenceTheorems, WellFoundedInduction, TLAPS

(* A run is a sequence of n bytes of the stream. *)
LEMMA RunIsSeq ==
    ASSUME NEW lo \in Nat, NEW n \in Nat
    PROVE  /\ Run(lo, n) \in Seq(Nat)
           /\ Len(Run(lo, n)) = n
           /\ \A i \in 1..n : Run(lo, n)[i] = lo + i
<1>1. Run(lo, n) \in [1..n -> Nat] BY DEF Run
<1> QED BY <1>1 DEF Run

(* The only sequence that agrees with a run everywhere is the run. *)
LEMMA RunByElements ==
    ASSUME NEW lo \in Nat, NEW n \in Nat, NEW s \in Seq(Nat), Len(s) = n,
           \A i \in 1..n : s[i] = lo + i
    PROVE  s = Run(lo, n)
<1>1. Run(lo, n) \in Seq(Nat) /\ Len(Run(lo, n)) = n BY RunIsSeq
<1>2. \A i \in 1..n : s[i] = Run(lo, n)[i] BY RunIsSeq
<1> QED BY <1>1, <1>2, SeqEqual

(* A run followed by the bytes after it is a longer run. *)
LEMMA RunConcat ==
    ASSUME NEW lo \in Nat, NEW n \in Nat, NEW m \in Nat
    PROVE  Run(lo, n) \o Run(lo + n, m) = Run(lo, n + m)
<1> DEFINE s1 == Run(lo, n)
          s2 == Run(lo + n, m)
          s == s1 \o s2
<1>0. lo + n \in Nat /\ n + m \in Nat OBVIOUS
<1>1. s1 \in Seq(Nat) /\ Len(s1) = n /\ \A i \in 1..n : s1[i] = lo + i
  BY RunIsSeq
<1>2. s2 \in Seq(Nat) /\ Len(s2) = m /\ \A i \in 1..m : s2[i] = lo + n + i
  BY RunIsSeq, <1>0
<1>3. s = Run(lo, n + m)
  <2> HIDE DEF s1, s2
  <2>1. /\ s \in Seq(Nat) /\ Len(s) = n + m
        /\ \A i \in 1..(n + m) : s[i] = IF i <= n THEN s1[i] ELSE s2[i - n]
    <3>1. /\ s \in Seq(Nat) /\ Len(s) = Len(s1) + Len(s2)
          /\ \A i \in 1..(Len(s1) + Len(s2)) :
                s[i] = IF i <= Len(s1) THEN s1[i] ELSE s2[i - Len(s1)]
      BY <1>1, <1>2, ConcatProperties
    <3>2. Len(s1) = n /\ Len(s2) = m BY <1>1, <1>2
    <3> HIDE DEF s
    <3> QED BY <3>1, <3>2, Zenon
  <2> HIDE DEF s
  <2>2. ASSUME NEW i \in 1..(n + m) PROVE s[i] = lo + i
    <3>1. CASE i <= n BY <1>1, <2>1, <3>1
    <3>2. CASE i > n
      <4>1. i - n \in 1..m /\ s[i] = s2[i - n] BY <2>1, <3>2
      <4>2. s2[i - n] = lo + n + (i - n) BY <1>2, <4>1
      <4> QED BY <4>1, <4>2
    <3> QED BY <3>1, <3>2
  <2> QED BY <1>0, <2>1, <2>2, RunByElements
<1> QED BY <1>3

(* Cutting a run gives the run of its first k bytes and of the others. *)
LEMMA RunCut ==
    ASSUME NEW lo \in Nat, NEW n \in Nat, NEW k \in 0..n
    PROVE  /\ SubSeq(Run(lo, n), 1, k) = Run(lo, k)
           /\ SubSeq(Run(lo, n), k + 1, n) = Run(lo + k, n - k)
<1>0. k \in Nat /\ lo + k \in Nat /\ n - k \in Nat OBVIOUS
<1>1. /\ Run(lo, n) \in Seq(Nat) /\ Len(Run(lo, n)) = n
      /\ \A i \in 1..n : Run(lo, n)[i] = lo + i
  BY RunIsSeq
<1>2. SubSeq(Run(lo, n), 1, k) = Run(lo, k)
  <2> DEFINE s == SubSeq(Run(lo, n), 1, k)
  <2>1. s \in Seq(Nat) /\ Len(s) = k BY <1>1
  <2>2. \A i \in 1..k : s[i] = lo + i BY <1>1
  <2> QED BY <1>0, <2>1, <2>2, RunByElements
<1>3. SubSeq(Run(lo, n), k + 1, n) = Run(lo + k, n - k)
  <2> DEFINE s == SubSeq(Run(lo, n), k + 1, n)
  <2>1. s \in Seq(Nat) /\ Len(s) = n - k BY <1>1
  <2>2. \A i \in 1..(n - k) : s[i] = (lo + k) + i BY <1>1
  <2> QED BY <1>0, <2>1, <2>2, RunByElements
<1> QED BY <1>2, <1>3

-----------------------------------------------------------------------------
(* The bytes of a header are bytes. *)
LEMMA HeaderType ==
    ASSUME ZStdAssumption, NEW u \in Nat, NEW c \in Nat
    PROVE  Header(u, c) \in Seq(Bytes) /\ Len(Header(u, c)) = HeaderLen
<1>1. u % WordSize \in Nat /\ c % WordSize \in Nat BY DEF ZStdAssumption
<1>2. Header(u, c) \in [1..HeaderLen -> Bytes] BY <1>1 DEF Header, Bytes
<1> QED BY <1>2 DEF Header, ZStdAssumption

(* The bytes of a frame are bytes. *)
LEMMA FrameType ==
    ASSUME NEW content \in Seq(Nat), NEW n \in Nat
    PROVE  Frame(content, n) \in Seq(Bytes) /\ Len(Frame(content, n)) = n
<1>1. Frame(content, n) \in [1..n -> Bytes] BY DEF Frame, Bytes
<1> QED BY <1>1 DEF Frame

(* A whole frame decompresses to its content. *)
LEMMA DecompressFrame ==
    ASSUME NEW content \in Seq(Nat), NEW n \in Nat \ {0}
    PROVE  Decompress(Len(content), Frame(content, n)) = content
<1>1. Len(Frame(content, n)) = n BY FrameType
<1>2. /\ Frame(content, n)[1].kind = "frame"
      /\ Frame(content, n)[1].of = content
  BY DEF Frame
<1>3. IsFrame(Frame(content, n)) BY <1>1, <1>2 DEF IsFrame
<1>4. Len(content) <= Len(content) OBVIOUS
<1> QED BY <1>2, <1>3, <1>4 DEF Decompress

(* A decompression never yields more than the capacity it is given. *)
LEMMA DecompressBounded ==
    ASSUME NEW m, m.uncompressedsize \in Nat
    PROVE  Len(Payload(m)) <= m.uncompressedsize
<1> DEFINE b == SubSeq(m.blob, Skip(m) + 1, Skip(m) + m.compressedsize)
          ok == IsFrame(b) /\ Len(b[1].of) <= m.uncompressedsize
<1>1. Payload(m) = IF ok THEN b[1].of ELSE <<>> BY DEF Payload, Decompress
<1>2. CASE ok BY <1>1, <1>2
<1>3. CASE ~ok
  <2>1. Payload(m) = <<>> BY <1>1, <1>3
  <2>2. Len(<<>>) = 0 OBVIOUS
  <2> QED BY <2>1, <2>2
<1> QED BY <1>2, <1>3

(* The layout of a block's message is the one Payload reads: the payload   *)
(* is the block's content.                                                 *)
LEMMA BlockMessagePayload ==
    ASSUME ZStdAssumption, NEW content \in Seq(Nat), NEW csize \in Nat \ {0},
           NEW hasheader \in BOOLEAN
    PROVE  LET m == BlockMessage(content, csize, hasheader) IN
           /\ m \in Messages
           /\ Len(m.blob) = Skip(m) + csize
           /\ Payload(m) = content
<1> DEFINE m == BlockMessage(content, csize, hasheader)
          h == IF hasheader THEN Header(Len(content), csize) ELSE <<>>
          f == Frame(content, csize)
          skip == IF hasheader THEN HeaderLen ELSE 0
<1>1. skip \in Nat BY DEF ZStdAssumption
<1>2. h \in Seq(Bytes) /\ Len(h) = skip BY HeaderType
<1>3. f \in Seq(Bytes) /\ Len(f) = csize BY FrameType
<1>4. /\ h \o f \in Seq(Bytes) /\ Len(h \o f) = skip + csize
      /\ SubSeq(h \o f, skip + 1, skip + csize) = f
  <2> HIDE DEF h, f, skip
  <2>1. /\ h \o f \in Seq(Bytes) /\ Len(h \o f) = skip + csize
        /\ \A i \in 1..(skip + csize) :
              (h \o f)[i] = IF i <= skip THEN h[i] ELSE f[i - skip]
    <3>1. /\ h \o f \in Seq(Bytes) /\ Len(h \o f) = Len(h) + Len(f)
          /\ \A i \in 1..(Len(h) + Len(f)) :
                (h \o f)[i] = IF i <= Len(h) THEN h[i] ELSE f[i - Len(h)]
      BY <1>2, <1>3, ConcatProperties
    <3>2. Len(h) = skip /\ Len(f) = csize BY <1>2, <1>3
    <3> QED BY <3>1, <3>2, Zenon
  <2> DEFINE b == h \o f
             t == SubSeq(b, skip + 1, skip + csize)
  <2> HIDE DEF b
  <2>2. ASSUME NEW i \in (skip + 1)..(skip + csize) PROVE b[i] \in Bytes
    BY <2>1, <1>1 DEF b
  <2>3. /\ t \in Seq(Bytes) /\ Len(t) = csize
        /\ \A i \in 1..csize : t[i] = b[skip + i]
    <3>1. skip + 1 \in Int /\ skip + csize \in Int
          /\ (skip + csize) - (skip + 1) + 1 = csize
      BY <1>1
    <3>2. /\ t \in Seq(Bytes)
          /\ Len(t) = IF skip + 1 <= skip + csize
                      THEN (skip + csize) - (skip + 1) + 1 ELSE 0
          /\ \A i \in 1..((skip + csize) - (skip + 1) + 1) : t[i] = b[(skip + 1) + i - 1]
      BY <2>2, <3>1, SubSeqProperties
    <3>3. \A i \in 1..csize : (skip + 1) + i - 1 = skip + i BY <1>1
    <3> HIDE DEF t
    <3>4. Len(t) = csize BY <3>1, <3>2, <1>1
    <3> QED BY <3>1, <3>2, <3>3, <3>4
  <2> HIDE DEF t
  <2>4. ASSUME NEW i \in 1..csize PROVE t[i] = f[i]
    <3>1. skip + i \in 1..(skip + csize) /\ ~(skip + i <= skip) /\ (skip + i) - skip = i
      BY <1>1
    <3>2. b[skip + i] = f[(skip + i) - skip] BY <2>1, <3>1 DEF b
    <3> QED BY <2>3, <3>1, <3>2
  <2>5. t = f BY <1>3, <2>3, <2>4, SeqEqual
  <2> QED BY <2>1, <2>5 DEF t, b
<1>5. /\ m.uncompressedsize = Len(content) /\ m.compressedsize = csize
      /\ m.hasheader = hasheader /\ m.blob = h \o f
  BY DEF BlockMessage
<1>6. Skip(m) = skip BY <1>5 DEF Skip
<1>7. Payload(m) = Decompress(Len(content), f) BY <1>4, <1>5, <1>6 DEF Payload
<1>8. Payload(m) = content BY <1>7, DecompressFrame
<1>9. m \in Messages BY <1>4 DEF BlockMessage, Messages
<1> QED BY <1>4, <1>5, <1>6, <1>8, <1>9

(* A message whose content is a run of the stream carries that run. *)
LEMMA RunMessageCarries ==
    ASSUME NEW m, NEW lo \in Nat, NEW n \in Nat \ {0}, Payload(m) = Run(lo, n)
    PROVE  Carries(m) /\ Begin(m) = lo /\ End(m) = lo + n
<1>1. /\ Payload(m) \in Seq(Nat) /\ Len(Payload(m)) = n
      /\ \A i \in 1..n : Payload(m)[i] = lo + i
  BY RunIsSeq
<1>2. Payload(m)[1] = lo + 1 BY <1>1
<1>3. Begin(m) = lo BY <1>2 DEF Begin
<1>4. End(m) = lo + n BY <1>1, <1>3 DEF End
<1>5. Payload(m) # <<>> BY <1>1
<1> QED BY <1>1, <1>3, <1>4, <1>5 DEF Carries

(* A message that begins where a chain ends extends the chain. *)
LEMMA ChainAppend ==
    ASSUME NEW msgs \in Seq(Messages), NEW m \in Messages, NEW lo, NEW hi,
           Chain(msgs, lo, hi), Carries(m), Begin(m) = hi
    PROVE  Chain(Append(msgs, m), lo, End(m))
<1> DEFINE new == Append(msgs, m)
          n == Len(msgs)
<1>1. /\ new \in Seq(Messages) /\ Len(new) = n + 1 /\ n \in Nat
      /\ \A k \in 1..n : new[k] = msgs[k]
      /\ new[n + 1] = m
      /\ new # <<>>
  BY AppendProperties, LenProperties
<1>2. msgs = <<>> <=> n = 0 OBVIOUS
<1> HIDE DEF new, n
<1>3. \A k \in 1..Len(new) : Carries(new[k]) BY <1>1 DEF Chain, n
<1>4. ASSUME NEW k \in 1..Len(new), k > 1 PROVE Begin(new[k]) = End(new[k - 1])
  <2>1. CASE k <= n
    <3>1. k \in 1..n /\ k - 1 \in 1..n BY <1>1, <1>4, <2>1
    <3> QED BY <1>1, <1>4, <3>1 DEF Chain, n
  <2>2. CASE k = n + 1
    <3>1. n \in 1..n /\ k - 1 = n /\ msgs # <<>> BY <1>1, <1>2, <1>4, <2>2
    <3>2. End(msgs[n]) = hi BY <3>1 DEF Chain, n
    <3> QED BY <1>1, <2>2, <3>1, <3>2
  <2> QED BY <1>1, <2>1, <2>2
<1>5. Begin(new[1]) = lo
  <2>1. CASE n = 0 BY <1>1, <1>2, <2>1 DEF Chain
  <2>2. CASE n > 0
    <3>1. msgs # <<>> /\ new[1] = msgs[1] BY <1>1, <1>2, <2>2
    <3> QED BY <3>1 DEF Chain
  <2> QED BY <1>1, <2>1, <2>2
<1>6. End(new[Len(new)]) = End(m) BY <1>1
<1>7. Chain(new, lo, End(m)) BY <1>1, <1>3, <1>4, <1>5, <1>6 DEF Chain
<1> QED BY <1>7 DEF new

(* Taking the first message of a chain leaves a chain that begins where    *)
(* that message ends.                                                      *)
LEMMA ChainTail ==
    ASSUME NEW msgs \in Seq(Messages), msgs # <<>>, NEW lo, NEW hi,
           Chain(msgs, lo, hi)
    PROVE  /\ Carries(Head(msgs)) /\ Begin(Head(msgs)) = lo
           /\ Chain(Tail(msgs), End(Head(msgs)), hi)
<1> DEFINE new == Tail(msgs)
          n == Len(msgs)
<1>1. /\ new \in Seq(Messages) /\ Len(new) = n - 1 /\ n \in Nat \ {0}
      /\ \A k \in 1..(n - 1) : new[k] = msgs[k + 1]
      /\ Head(msgs) = msgs[1]
  BY HeadTailProperties, LenProperties
<1> HIDE DEF new, n
<1>2. new = <<>> <=> Len(new) = 0 BY <1>1, EmptySeq
<1>3. Carries(msgs[1]) /\ Begin(msgs[1]) = lo BY <1>1 DEF Chain, n
<1>4. \A k \in 1..Len(new) : Carries(new[k]) BY <1>1 DEF Chain, n
<1>5. ASSUME NEW k \in 1..Len(new), k > 1 PROVE Begin(new[k]) = End(new[k - 1])
  <2>1. /\ k + 1 \in 1..n /\ k + 1 > 1 /\ (k + 1) - 1 = k
        /\ k \in 1..(n - 1) /\ k - 1 \in 1..(n - 1) /\ (k - 1) + 1 = k
    BY <1>1, <1>5
  <2>2. Begin(msgs[k + 1]) = End(msgs[(k + 1) - 1]) BY <2>1 DEF Chain, n
  <2> QED BY <1>1, <2>1, <2>2
<1>6. ASSUME new # <<>>
      PROVE  Begin(new[1]) = End(msgs[1]) /\ End(new[Len(new)]) = hi
  <2>1. 1 \in 1..(n - 1) /\ n - 1 \in 1..(n - 1) /\ (n - 1) + 1 = n /\ 1 + 1 = 2
        /\ 2 \in 1..n /\ 2 - 1 = 1 /\ 2 > 1
    BY <1>1, <1>2, <1>6
  <2>2. new[1] = msgs[2] /\ new[Len(new)] = msgs[n] BY <1>1, <2>1
  <2>3. Begin(msgs[2]) = End(msgs[2 - 1]) BY <2>1 DEF Chain, n
  <2>4. End(msgs[n]) = hi BY DEF Chain, n
  <2> QED BY <2>1, <2>2, <2>3, <2>4
<1>7. ASSUME new = <<>> PROVE End(msgs[1]) = hi
  <2>1. n = 1 BY <1>1, <1>2, <1>7
  <2> QED BY <2>1 DEF Chain, n
<1>8. Chain(new, End(msgs[1]), hi) BY <1>4, <1>5, <1>6, <1>7 DEF Chain
<1> QED BY <1>1, <1>3, <1>8 DEF new

-----------------------------------------------------------------------------
(* Induction on the natural numbers, as a fact about a set of them: if it  *)
(* did not hold all of them, there would be a least one that it lacks.     *)
LEMMA SetInduction ==
    ASSUME NEW S, 0 \in S, \A n \in Nat : n \in S => n + 1 \in S
    PROVE  Nat \subseteq S
<1> DEFINE R == OpToRel(<, Nat)
           T == Nat \ S
<1>1. IsWellFoundedOn(R, Nat) BY NatLessThanWellFounded DEF R
<1>0. \A x, y \in Nat : x < y => <<x, y>> \in R BY DEF OpToRel
<1>2. ASSUME T # {} PROVE FALSE
  <2> HIDE DEF R
  <2>1. PICK x \in T : \A y \in T : ~(<<y, x>> \in R)
    BY <1>1, <1>2, WFMin
  <2>2. x \in Nat /\ x # 0 /\ x - 1 \in Nat OBVIOUS
  <2>3. <<x - 1, x>> \in R BY <2>2, <1>0
  <2>4. x - 1 \in S BY <2>1, <2>2, <2>3
  <2> QED BY <2>2, <2>4
<1> QED BY <1>2


(* The functions that satisfy the recursion of FlattenSeq up to n. *)
Flattens(f, seqs, n) ==
    f = [i \in 1..n |-> IF i = 1 THEN seqs[i] ELSE f[i - 1] \o seqs[i]]

Flat(seqs) == CHOOSE f : Flattens(f, seqs, Len(seqs))

(* FlattenSeq is the last value of that function. *)
LEMMA FlattenSeqFlat ==
    ASSUME NEW seqs
    PROVE  FlattenSeq(seqs) = IF Len(seqs) = 0 THEN seqs ELSE Flat(seqs)[Len(seqs)]
BY Zenon DEF FlattenSeq, Flat, Flattens

(* There is such a function for every sequence and every n: each value is   *)
(* built from the one before it.                                           *)
LEMMA FlattensExists ==
    ASSUME NEW seqs
    PROVE  \A n \in Nat : \E f : Flattens(f, seqs, n)
<1> DEFINE S == {n \in Nat : \E f : Flattens(f, seqs, n)}
<1>1. 0 \in S
  <2>1. Flattens([i \in 1..0 |-> 0], seqs, 0) BY DEF Flattens
  <2> QED BY <2>1
<1>2. ASSUME NEW n \in Nat, n \in S PROVE n + 1 \in S
  <2>1. PICK f : Flattens(f, seqs, n) BY <1>2
  <2> DEFINE g == [i \in 1..(n + 1) |-> IF i = 1 THEN seqs[i] ELSE f[i - 1] \o seqs[i]]
  <2>2. ASSUME NEW i \in 1..n PROVE g[i] = f[i]
    <3>1. i \in 1..(n + 1) OBVIOUS
    <3>2. g[i] = IF i = 1 THEN seqs[i] ELSE f[i - 1] \o seqs[i] BY <3>1, Zenon
    <3>3. f[i] = IF i = 1 THEN seqs[i] ELSE f[i - 1] \o seqs[i] BY <2>1, Zenon DEF Flattens
    <3> QED BY <3>2, <3>3, Zenon
  <2>3. \A i \in 1..(n + 1) : i # 1 => g[i - 1] = f[i - 1]
    <3> HIDE DEF g
    <3> QED BY <2>2
  <2>4. g = [i \in 1..(n + 1) |-> IF i = 1 THEN seqs[i] ELSE g[i - 1] \o seqs[i]]
    BY <2>3, Zenon
  <2>5. Flattens(g, seqs, n + 1) BY <2>4 DEF Flattens
  <2> QED BY <2>5
<1> HIDE DEF S
<1>3. Nat \subseteq S BY <1>1, <1>2, SetInduction
<1> QED BY <1>3 DEF S

Agree(s, t, n) == \A i \in 1..n : s[i] = t[i]

(* Two of them agree where the sequences they flatten do. *)
LEMMA FlattensAgree ==
    ASSUME NEW s, NEW t, NEW n \in Nat, NEW m \in Nat, NEW f, NEW g,
           n <= m, Agree(s, t, n), Flattens(f, s, n), Flattens(g, t, m)
    PROVE  Agree(f, g, n)
<1> DEFINE S == {j \in Nat : j \in 1..n => f[j] = g[j]}
<1>1. 0 \in S OBVIOUS
<1>2. ASSUME NEW j \in Nat, j \in S PROVE j + 1 \in S
  <2> SUFFICES ASSUME j + 1 \in 1..n PROVE f[j + 1] = g[j + 1]
    OBVIOUS
  <2>1. j + 1 \in 1..n /\ j + 1 \in 1..m /\ s[j + 1] = t[j + 1] /\ (j + 1) - 1 = j
    BY DEF Agree
  <2>2. f[j + 1] = IF j + 1 = 1 THEN s[j + 1] ELSE f[(j + 1) - 1] \o s[j + 1]
    BY <2>1 DEF Flattens
  <2>3. g[j + 1] = IF j + 1 = 1 THEN t[j + 1] ELSE g[(j + 1) - 1] \o t[j + 1]
    BY <2>1 DEF Flattens
  <2>4. CASE j = 0 BY <2>1, <2>2, <2>3, <2>4
  <2>5. CASE j # 0
    <3>1. f[j] = g[j] /\ j + 1 # 1 BY <1>2, <2>5
    <3> QED BY <2>1, <2>2, <2>3, <3>1, Zenon
  <2> QED BY <2>4, <2>5
<1> HIDE DEF S
<1>3. Nat \subseteq S BY <1>1, <1>2, SetInduction
<1> QED BY <1>3 DEF S, Agree

(* So the function that FlattenSeq chooses is one of them. *)
LEMMA FlatSatisfies ==
    ASSUME NEW T, NEW seqs \in Seq(T)
    PROVE  Flattens(Flat(seqs), seqs, Len(seqs))
<1>1. Len(seqs) \in Nat OBVIOUS
<1>2. \E f : Flattens(f, seqs, Len(seqs)) BY <1>1, FlattensExists
<1> QED BY <1>2, Zenon DEF Flat

(* Flattening no sequence at all. *)
LEMMA FlattenEmpty == FlattenSeq(<<>>) = <<>>
<1>1. Len(<<>>) = 0 OBVIOUS
<1> QED BY <1>1, FlattenSeqFlat

(* Flattening one sequence more puts it behind. *)
LEMMA FlattenAppend ==
    ASSUME NEW T, NEW seqs \in Seq(Seq(T)), NEW s \in Seq(T)
    PROVE  FlattenSeq(Append(seqs, s)) = FlattenSeq(seqs) \o s
<1> DEFINE n == Len(seqs)
           new == Append(seqs, s)
           f == Flat(seqs)
           g == Flat(new)
<1>1. /\ new \in Seq(Seq(T)) /\ Len(new) = n + 1 /\ n \in Nat
      /\ \A i \in 1..n : seqs[i] = new[i]
      /\ new[n + 1] = s
  BY AppendProperties, LenProperties
<1>2. Flattens(f, seqs, n) /\ Flattens(g, new, n + 1)
  <2>1. Flattens(g, new, Len(new)) BY <1>1, FlatSatisfies
  <2>2. Flattens(f, seqs, n) BY FlatSatisfies
  <2> HIDE DEF g, new
  <2> QED BY <1>1, <2>1, <2>2
<1>3. FlattenSeq(seqs) = IF n = 0 THEN seqs ELSE f[n] BY FlattenSeqFlat
<1>4. FlattenSeq(new) = g[n + 1]
  <2>1. FlattenSeq(new) = IF Len(new) = 0 THEN new ELSE g[Len(new)] BY FlattenSeqFlat
  <2> HIDE DEF g, new
  <2> QED BY <1>1, <2>1
<1>0. seqs = <<>> <=> n = 0 BY EmptySeq
<1> HIDE DEF f, g, new, n
<1>5. n + 1 \in 1..(n + 1) /\ (n + 1) - 1 = n /\ n \in Nat BY <1>1
<1>6. g[n + 1] = IF n + 1 = 1 THEN new[n + 1] ELSE g[(n + 1) - 1] \o new[n + 1]
  BY <1>2, <1>5, Zenon DEF Flattens
<1>7. CASE n = 0
  <2>1. g[n + 1] = s BY <1>1, <1>6, <1>7
  <2>2. FlattenSeq(seqs) = <<>> BY <1>0, <1>3, <1>7
  <2>3. <<>> \o s = s BY ConcatEmptySeq
  <2> QED BY <1>4, <2>1, <2>2, <2>3 DEF new
<1>8. CASE n # 0
  <2>1. n + 1 # 1 /\ n \in 1..n BY <1>5, <1>8
  <2>2. \A i \in 1..n : f[i] = g[i]
    <3>1. n <= n + 1 /\ n + 1 \in Nat BY <1>5
    <3>2. Agree(seqs, new, n) BY <1>1 DEF Agree
    <3>3. Agree(f, g, n) BY <1>2, <1>5, <3>1, <3>2, FlattensAgree
    <3> QED BY <3>3 DEF Agree
  <2>3. g[n + 1] = g[n] \o s BY <1>1, <1>5, <1>6, <2>1
  <2>4. f[n] = g[n] BY <2>1, <2>2
  <2>5. FlattenSeq(seqs) = f[n] BY <1>3, <1>8
  <2> QED BY <1>4, <2>3, <2>4, <2>5, Zenon DEF new
<1> QED BY <1>7, <1>8

(* What is flattened is a sequence of the same elements. *)
LEMMA FlattenType ==
    ASSUME NEW T, NEW seqs \in Seq(Seq(T))
    PROVE  FlattenSeq(seqs) \in Seq(T)
<1> DEFINE n == Len(seqs)
           f == Flat(seqs)
           S == {k \in Nat : k \in 1..n => f[k] \in Seq(T)}
<1>1. Flattens(f, seqs, n) BY FlatSatisfies
<1>2. n \in Nat /\ \A k \in 1..n : seqs[k] \in Seq(T) OBVIOUS
<1>3. FlattenSeq(seqs) = IF n = 0 THEN seqs ELSE f[n] BY FlattenSeqFlat
<1>4. seqs = <<>> <=> n = 0 BY EmptySeq
<1> HIDE DEF f, n
<1>5. 0 \in S OBVIOUS
<1>6. ASSUME NEW k \in Nat, k \in S PROVE k + 1 \in S
  <2> SUFFICES ASSUME k + 1 \in 1..n PROVE f[k + 1] \in Seq(T)
    OBVIOUS
  <2>1. f[k + 1] = IF k + 1 = 1 THEN seqs[k + 1] ELSE f[(k + 1) - 1] \o seqs[k + 1]
    BY <1>1, Zenon DEF Flattens
  <2>2. (k + 1) - 1 = k /\ seqs[k + 1] \in Seq(T) BY <1>2
  <2>3. CASE k = 0 BY <2>1, <2>2, <2>3
  <2>4. CASE k # 0
    <3>1. f[k] \in Seq(T) /\ k + 1 # 1 BY <1>2, <1>6, <2>4
    <3>2. f[k + 1] = f[k] \o seqs[k + 1] BY <2>1, <2>2, <3>1
    <3> QED BY <2>2, <3>1, <3>2, ConcatProperties
  <2> QED BY <2>3, <2>4
<1> HIDE DEF S
<1>7. Nat \subseteq S BY <1>5, <1>6, SetInduction
<1>8. CASE n = 0 BY <1>3, <1>4, <1>8, EmptySeq
<1>9. CASE n # 0
  <2>1. n \in S /\ n \in 1..n BY <1>2, <1>7, <1>9
  <2>2. f[n] \in Seq(T) BY <2>1 DEF S
  <2> QED BY <1>3, <1>9, <2>2
<1> QED BY <1>8, <1>9

(* Parts of a sequence, put together. *)
LEMMA Regrouped ==
    ASSUME NEW T, NEW s \in Seq(T), NEW t \in Seq(T), NEW u \in Seq(T)
    PROVE  (s \o t) \o u = s \o (t \o u)
BY ConcatAssociative

LEMMA NatsRegrouped ==
    ASSUME NEW s \in Seq(Nat), NEW t \in Seq(Nat), NEW u \in Seq(Nat)
    PROVE  (s \o t) \o u = s \o (t \o u)
BY Regrouped, SMTT(60)

LEMMA CutInTwo ==
    ASSUME NEW T, NEW b \in Seq(T), NEW n \in 0..Len(b)
    PROVE  /\ SubSeq(b, 1, n) \in Seq(T) /\ SubSeq(b, n + 1, Len(b)) \in Seq(T)
           /\ SubSeq(b, 1, n) \o SubSeq(b, n + 1, Len(b)) = b
<1>1. 1 \in 1..(Len(b) + 1) /\ n \in (1 - 1)..Len(b) /\ Len(b) \in n..Len(b) OBVIOUS
<1>2. SubSeq(b, 1, n) \o SubSeq(b, n + 1, Len(b)) = SubSeq(b, 1, Len(b))
  BY <1>1, ConcatAdjacentSubSeq
<1>3. SubSeq(b, 1, Len(b)) = b BY SubSeqFull
<1>4. SubSeq(b, 1, n) \in Seq(T) /\ SubSeq(b, n + 1, Len(b)) \in Seq(T) OBVIOUS
<1> QED BY <1>2, <1>3, <1>4

=============================================================================
