-------------------------- MODULE Compress_proofs --------------------------
(***************************************************************************)
(* Proofs about the compress block, for every itemsize, block size, header *)
(* setting and every sizes of the calls of work.                           *)
(***************************************************************************)
EXTENDS Compress, ZStd_proofs

USE ZStdAssumption, CompressAssumption DEF ZStdAssumption, CompressAssumption

(* The conjunction of the invariants is inductive: Partition bounds what   *)
(* waits, which bounds the block sizes, which makes the header exact; and  *)
(* the buffers hold what Partition says is in them.                        *)
IndInv ==
    /\ TypeOK
    /\ NoFaultBeforeStop
    /\ Partition
    /\ BlockSizes
    /\ MetadataExact

(* The bytes of n items, and the header's room, are bounded. *)
LEMMA ItemBytes ==
    ASSUME NEW n \in 1..MaxItems
    PROVE  /\ n * ItemSize \in Nat \ {0}
           /\ n * ItemSize <= MaxItems * ItemSize
<1>1. n \in Nat \ {0} /\ n <= MaxItems OBVIOUS
<1>2. n * ItemSize > 0 BY <1>1
<1>3. (MaxItems - n) * ItemSize >= 0 BY <1>1
<1>4. MaxItems * ItemSize = n * ItemSize + (MaxItems - n) * ItemSize BY <1>1
<1> QED BY <1>1, <1>2, <1>3, <1>4

(* A size that fits a field of the header is what the field holds. *)
LEMMA SmallMod ==
    ASSUME NEW x \in Nat, NEW w \in Nat, x < w
    PROVE  x % w = x
OBVIOUS

(* The room for the header is a number of bytes. *)
LEMMA HeaderRoomIsNat == HeaderRoom \in Nat
BY DEF HeaderRoom

(* The constructor establishes the invariant. *)
LEMMA InitInv == Init => IndInv
<1> SUFFICES ASSUME Init PROVE IndInv OBVIOUS
<1>1. TypeOK
  <2>1. <<>> \in Seq(Nat) /\ <<>> \in Seq(Messages) BY EmptySeq
  <2>2. BlockSize + HeaderRoom \in Nat BY HeaderRoomIsNat
  <2>3. /\ running \in BOOLEAN /\ faulted \in BOOLEAN /\ pCompressor \in BOOLEAN
        /\ localWriteBuffer \in Seq(Nat) /\ compressed \in Seq(Messages)
    BY <2>1 DEF Init
  <2>4. /\ received \in 0..MaxInput /\ localWriteBufferNextIndex \in 0..received
        /\ localWriteBufferSize \in Nat /\ compressedBufferSize \in Nat
        /\ compressedBufferAlloc \in Nat
    BY <2>2 DEF Init
  <2> QED BY <2>3, <2>4 DEF TypeOK
<1>2. NoFaultBeforeStop BY DEF Init, NoFaultBeforeStop
<1>3. Partition
  <2>1. Chain(<<>>, 0, 0) BY DEF Chain
  <2>2. Run(0, 0) = <<>> BY DEF Run
  <2> QED BY <2>1, <2>2 DEF Init, Partition
<1>4. BlockSizes /\ MetadataExact BY DEF Init, BlockSizes, MetadataExact
<1> QED BY <1>1, <1>2, <1>3, <1>4 DEF IndInv

(* While the compressor exists, work cannot fault. *)
LEMMA SafeBeforeStop ==
    ASSUME TypeOK, NoFaultBeforeStop, pCompressor, NEW noi \in Nat,
           NEW csize \in Nat, csize <= CompressBound(localWriteBufferNextIndex + noi)
    PROVE  /\ AppendSafe(localWriteBufferNextIndex + noi)
           /\ CompressSafe(localWriteBufferNextIndex + noi, csize)
<1> DEFINE q == localWriteBufferNextIndex + noi
<1>1. q \in Nat /\ HeaderRoom \in Nat BY HeaderRoomIsNat DEF TypeOK
<1>2. AppendSafe(q)
  BY <1>1 DEF TypeOK, NoFaultBeforeStop, AppendSafe, RoomFor
<1>3. CompressSafe(q, csize)
  BY <1>1 DEF TypeOK, NoFaultBeforeStop, CompressSafe, TargetSize, TargetAlloc,
              CompressBound
<1> QED BY <1>2, <1>3

(* A call of work that only collects preserves the invariant. *)
LEMMA CollectStep ==
    ASSUME IndInv, NEW n \in 1..MaxItems, WorkCollect(n * ItemSize)
    PROVE  IndInv'
<1> DEFINE noi == n * ItemSize
          q == localWriteBufferNextIndex + noi
<1>1. noi \in Nat \ {0} BY ItemBytes
<1> HIDE DEF noi
<1>2. /\ received' = received + noi /\ received + noi <= MaxInput
      /\ localWriteBufferNextIndex' = q /\ q < BlockSize
      /\ localWriteBuffer' = localWriteBuffer \o Run(received, noi)
      /\ localWriteBufferSize' = RoomFor(q) /\ AppendSafe(q)
      /\ UNCHANGED <<running, faulted, pCompressor, compressedBufferSize,
                     compressedBufferAlloc, compressed>>
  BY DEF WorkCollect, Appended, BlockReady, Input, noi
<1>3. received \in Nat /\ localWriteBufferNextIndex \in Nat
      /\ localWriteBufferNextIndex <= received
      /\ localWriteBuffer \in Seq(Nat)
  BY DEF IndInv, TypeOK
<1>4. Run(received, noi) \in Seq(Nat) /\ Len(Run(received, noi)) = noi
  BY <1>1, <1>3, RunIsSeq
<1>5. /\ localWriteBuffer' \in Seq(Nat)
      /\ Len(localWriteBuffer') = Len(localWriteBuffer) + noi
  BY <1>2, <1>3, <1>4, ConcatProperties
<1>6. TypeOK'
  BY <1>1, <1>2, <1>3, <1>5 DEF IndInv, TypeOK, RoomFor
<1>7. NoFaultBeforeStop'
  BY <1>1, <1>2, <1>3, <1>5 DEF IndInv, TypeOK, NoFaultBeforeStop, RoomFor, AppendSafe,
                                HeaderRoom
<1>8. Partition'
  <2>1. received' - localWriteBufferNextIndex' = received - localWriteBufferNextIndex
    BY <1>1, <1>2, <1>3
  <2>2. Chain(compressed', 0, received' - localWriteBufferNextIndex')
    BY <1>2, <2>1 DEF IndInv, Partition
  <2>3. ASSUME pCompressor
        PROVE  localWriteBuffer' = Run(received - localWriteBufferNextIndex, q)
    <3> DEFINE N == localWriteBufferNextIndex
               P == received - N
    <3>1. P \in Nat /\ N \in Nat /\ P + N = received BY <1>3
    <3>2. localWriteBuffer = Run(P, N) BY <2>3 DEF IndInv, Partition
    <3>3. localWriteBuffer' = Run(P, N) \o Run(P + N, noi) BY <1>2, <3>1, <3>2
    <3> HIDE DEF P, N
    <3>4. Run(P, N) \o Run(P + N, noi) = Run(P, N + noi) BY <1>1, <3>1, RunConcat
    <3> QED BY <1>2, <3>3, <3>4 DEF P, N
  <2> QED BY <1>2, <2>1, <2>2, <2>3 DEF Partition
<1>9. BlockSizes' /\ MetadataExact'
  BY <1>2 DEF IndInv, BlockSizes, MetadataExact
<1> QED BY <1>6, <1>7, <1>8, <1>9 DEF IndInv

(* A call of work that publishes a block preserves the invariant. *)
LEMMA PublishStep ==
    ASSUME IndInv, BlockFitsHeader, NEW n \in 1..MaxItems,
           NEW csize \in 1..CompressBound(localWriteBufferNextIndex + n * ItemSize),
           WorkPublish(n * ItemSize, csize)
    PROVE  IndInv'
<1> DEFINE noi == n * ItemSize
          N == localWriteBufferNextIndex
          P == received - N
          q == N + noi
          msg == BlockMessage(localWriteBuffer \o Run(received, noi), csize, AddHeader)
<1>1. noi \in Nat \ {0} /\ noi <= MaxItems * ItemSize /\ MaxItems * ItemSize \in Nat
  BY ItemBytes
<1>2. csize \in Nat \ {0} /\ csize <= CompressBound(q)
  <2>1. CompressBound(q) \in Nat BY <1>1 DEF CompressBound, IndInv, TypeOK
  <2> QED BY <2>1
<1> HIDE DEF noi
<1>3. /\ received' = received + noi /\ received + noi <= MaxInput
      /\ localWriteBufferNextIndex' = 0 /\ q >= BlockSize /\ pCompressor
      /\ localWriteBuffer' = <<>> /\ localWriteBufferSize' = RoomFor(q)
      /\ compressedBufferSize' = TargetSize(q)
      /\ compressedBufferAlloc' = TargetAlloc(q)
      /\ compressed' = Append(compressed, msg)
      /\ UNCHANGED <<running, faulted, pCompressor>>
  BY DEF WorkPublish, CompressSafe, Appended, BlockReady, Input, noi
<1>4. /\ received \in Nat /\ N \in Nat /\ N <= received /\ P \in Nat /\ P + N = received
      /\ localWriteBuffer \in Seq(Nat) /\ compressed \in Seq(Messages)
      /\ N < BlockSize
  BY DEF IndInv, TypeOK, Partition
<1>5. localWriteBuffer \o Run(received, noi) = Run(P, q)
  <2>1. localWriteBuffer = Run(P, N) BY <1>3 DEF IndInv, Partition
  <2>2. P \in Nat /\ N \in Nat /\ noi \in Nat BY <1>1, <1>4
  <2>3. Run(P, N) \o Run(P + N, noi) = Run(P, N + noi)
    <3> HIDE DEF P, N
    <3> QED BY <2>2, RunConcat
  <2> QED BY <1>4, <2>1, <2>3
<1>6. q \in Nat \ {0} /\ Run(P, q) \in Seq(Nat) /\ Len(Run(P, q)) = q
  <2>1. q \in Nat \ {0} BY <1>1, <1>4
  <2> QED BY <1>4, <2>1, RunIsSeq
<1>7. /\ msg \in Messages /\ Payload(msg) = Run(P, q)
      /\ Len(msg.blob) = Skip(msg) + csize
  BY <1>2, <1>5, <1>6, BlockMessagePayload
<1>8. Carries(msg) /\ Begin(msg) = P /\ End(msg) = P + q
  <2> HIDE DEF msg
  <2> QED BY <1>4, <1>6, <1>7, RunMessageCarries
<1>9. /\ msg.uncompressedsize = q /\ msg.compressedsize = csize
      /\ msg.hasheader = AddHeader
      /\ msg.blob = (IF AddHeader THEN Header(q, csize) ELSE <<>>)
                       \o Frame(Run(P, q), csize)
  BY <1>5, <1>6 DEF BlockMessage
<1>10. /\ compressed' \in Seq(Messages) /\ Len(compressed') = Len(compressed) + 1
       /\ Len(compressed) \in Nat
       /\ \A k \in 1..Len(compressed) : compressed'[k] = compressed[k]
       /\ compressed'[Len(compressed) + 1] = msg
  <2> HIDE DEF msg
  <2> QED BY <1>3, <1>4, <1>7, AppendProperties, LenProperties
<1> HIDE DEF msg
<1>11. TypeOK'
  <2>1. compressedBufferSize' \in Nat /\ compressedBufferAlloc' \in Nat
    <3>1. CompressBound(q) \in Nat BY <1>6 DEF CompressBound
    <3>2. compressedBufferSize \in Nat /\ compressedBufferAlloc \in Nat
      BY DEF IndInv, TypeOK
    <3>3. TargetSize(q) \in Nat BY <3>1, <3>2 DEF TargetSize
    <3>4. TargetAlloc(q) \in Nat BY <3>1, <3>2, HeaderRoomIsNat DEF TargetAlloc
    <3> QED BY <1>3, <3>3, <3>4
  <2>2. localWriteBufferSize' \in Nat BY <1>3, <1>6 DEF IndInv, TypeOK, RoomFor
  <2>3. /\ received' \in 0..MaxInput /\ localWriteBufferNextIndex' \in 0..received'
    BY <1>1, <1>3, <1>4
  <2>4. localWriteBuffer' \in Seq(Nat) BY <1>3
  <2>5. running' \in BOOLEAN /\ faulted' \in BOOLEAN /\ pCompressor' \in BOOLEAN
    BY <1>3 DEF IndInv, TypeOK
  <2> QED BY <1>10, <2>1, <2>2, <2>3, <2>4, <2>5 DEF TypeOK
<1>12. NoFaultBeforeStop'
  <2>1. TargetAlloc(q) = TargetSize(q) + HeaderRoom
    BY <1>3 DEF IndInv, NoFaultBeforeStop, TargetSize, TargetAlloc
  <2>2. compressedBufferAlloc' = compressedBufferSize' + HeaderRoom BY <1>3, <2>1
  <2>3. 0 <= RoomFor(q) BY <1>6 DEF IndInv, TypeOK, RoomFor
  <2>4. Len(localWriteBuffer') = 0 BY <1>3
  <2>5. ~faulted' BY <1>3 DEF IndInv, NoFaultBeforeStop
  <2> QED BY <1>3, <2>2, <2>3, <2>4, <2>5 DEF NoFaultBeforeStop, HeaderRoom
<1>13. Partition'
  <2>1. P + q = received' BY <1>1, <1>3, <1>4
  <2>2. Chain(compressed, 0, P) BY DEF IndInv, Partition
  <2>3. Chain(compressed', 0, received')
    BY <1>3, <1>4, <1>7, <1>8, <2>1, <2>2, ChainAppend
  <2>4. Run(received', 0) = <<>> BY DEF Run
  <2> QED BY <1>1, <1>3, <1>4, <2>3, <2>4 DEF Partition
<1>14. BlockSizes'
  <2>1. q >= BlockSize /\ q < BlockSize + MaxItems * ItemSize BY <1>1, <1>3, <1>4
  <2>2. ASSUME NEW k \in 1..Len(compressed')
        PROVE  /\ compressed'[k].uncompressedsize >= BlockSize
               /\ compressed'[k].uncompressedsize < BlockSize + MaxItems * ItemSize
    <3>1. CASE k \in 1..Len(compressed) BY <1>10, <3>1 DEF IndInv, BlockSizes
    <3>2. CASE k = Len(compressed) + 1 BY <1>9, <1>10, <2>1, <3>2
    <3> QED BY <1>10, <3>1, <3>2
  <2> QED BY <2>2 DEF BlockSizes
<1>15. MetadataExact'
  <2> DEFINE exact(m) ==
        /\ Len(m.blob) = Skip(m) + m.compressedsize
        /\ m.hasheader => SubSeq(m.blob, 1, HeaderLen)
                            = [i \in 1..HeaderLen |->
                                 [kind |-> "header",
                                  uncompressed_size |-> m.uncompressedsize,
                                  compressed_size |-> m.compressedsize, at |-> i]]
  <2>1. q % WordSize = q /\ csize % WordSize = csize
    <3>1. CompressBound(q) < WordSize
      BY <1>1, <1>4, <1>6 DEF CompressBound, BlockFitsHeader
    <3>2. q < WordSize /\ csize < WordSize
      BY <1>2, <1>6, <3>1 DEF CompressBound
    <3> HIDE DEF q
    <3> QED BY <1>2, <1>6, <3>2, SmallMod
  <2>2. ASSUME AddHeader
        PROVE  SubSeq(msg.blob, 1, HeaderLen) = Header(q, csize)
    <3> DEFINE h == Header(q, csize)
               f == Frame(Run(P, q), csize)
    <3>1. h \in Seq(Bytes) /\ Len(h) = HeaderLen BY <1>2, <1>6, HeaderType
    <3>2. f \in Seq(Bytes) /\ Len(f) = csize BY <1>2, <1>6, FrameType
    <3>3. msg.blob = h \o f BY <1>9, <2>2
    <3> HIDE DEF h, f
    <3>4. /\ h \o f \in Seq(Bytes) /\ Len(h \o f) = HeaderLen + csize
          /\ \A i \in 1..(HeaderLen + csize) :
                (h \o f)[i] = IF i <= HeaderLen THEN h[i] ELSE f[i - HeaderLen]
      <4>1. /\ h \o f \in Seq(Bytes) /\ Len(h \o f) = Len(h) + Len(f)
            /\ \A i \in 1..(Len(h) + Len(f)) :
                  (h \o f)[i] = IF i <= Len(h) THEN h[i] ELSE f[i - Len(h)]
        BY <3>1, <3>2, ConcatProperties
      <4>2. Len(h) = HeaderLen /\ Len(f) = csize BY <3>1, <3>2
      <4> QED BY <4>1, <4>2, Zenon
    <3> DEFINE b == h \o f
               t == SubSeq(b, 1, HeaderLen)
    <3>5. \A i \in 1..HeaderLen : b[i] = h[i] /\ b[i] \in Bytes
      BY <1>2, <3>1, <3>4
    <3> HIDE DEF b
    <3>6. /\ t \in Seq(Bytes) /\ Len(t) = HeaderLen
          /\ \A i \in 1..HeaderLen : t[i] = b[i]
      BY <3>5, SubSeqProperties
    <3>7. t = h BY <3>1, <3>5, <3>6, SeqEqual
    <3> QED BY <3>3, <3>7 DEF b, t, h
  <2>3. exact(msg)
    <3>1. Len(msg.blob) = Skip(msg) + msg.compressedsize BY <1>7, <1>9
    <3>2. ASSUME msg.hasheader
          PROVE  SubSeq(msg.blob, 1, HeaderLen)
                   = [i \in 1..HeaderLen |->
                        [kind |-> "header",
                         uncompressed_size |-> msg.uncompressedsize,
                         compressed_size |-> msg.compressedsize, at |-> i]]
      BY <1>9, <2>1, <2>2, <3>2 DEF Header
    <3> QED BY <3>1, <3>2
  <2>4. ASSUME NEW k \in 1..Len(compressed') PROVE exact(compressed'[k])
    <3>1. CASE k \in 1..Len(compressed)
      <4>1. exact(compressed[k]) BY <3>1 DEF IndInv, MetadataExact
      <4> QED BY <1>10, <3>1, <4>1
    <3>2. CASE k = Len(compressed) + 1
      <4>1. compressed'[k] = msg BY <1>10, <3>2
      <4> QED BY <2>3, <4>1
    <3> QED BY <1>10, <3>1, <3>2
  <2> QED BY <2>4 DEF MetadataExact
<1> QED BY <1>11, <1>12, <1>13, <1>14, <1>15 DEF IndInv

(* Every call of work, every stop and every start preserves it. *)
LEMMA StepInv ==
    ASSUME IndInv, BlockFitsHeader, [Next]_cvars
    PROVE  IndInv'
<1>1. ASSUME NEW n \in 1..MaxItems, WorkCollect(n * ItemSize) PROVE IndInv'
  BY <1>1, CollectStep
<1>2. ASSUME NEW n \in 1..MaxItems,
             NEW csize \in 1..CompressBound(localWriteBufferNextIndex + n * ItemSize),
             WorkPublish(n * ItemSize, csize)
      PROVE  IndInv'
  BY <1>2, PublishStep
<1>3. ASSUME NEW n \in 1..MaxItems,
             NEW csize \in 1..CompressBound(localWriteBufferNextIndex + n * ItemSize),
             WorkFault(n * ItemSize, csize)
      PROVE  IndInv'
  <2>1. n * ItemSize \in Nat /\ csize \in Nat
    BY ItemBytes DEF IndInv, TypeOK, CompressBound
  <2>2. csize <= CompressBound(localWriteBufferNextIndex + n * ItemSize)
    BY <1>3 DEF WorkFault
  <2>3. ~pCompressor BY <1>3, <2>1, <2>2, SafeBeforeStop DEF IndInv, WorkFault
  <2>4. UNCHANGED <<running, received, pCompressor, localWriteBuffer, localWriteBufferSize,
                    localWriteBufferNextIndex, compressedBufferSize, compressedBufferAlloc,
                    compressed>>
        /\ faulted' \in BOOLEAN
    BY <1>3 DEF WorkFault
  <2>5. TypeOK' BY <2>4 DEF IndInv, TypeOK
  <2>6. NoFaultBeforeStop' BY <2>3, <2>4 DEF NoFaultBeforeStop
  <2>7. Partition' /\ BlockSizes' /\ MetadataExact'
    BY <2>4 DEF IndInv, Partition, BlockSizes, MetadataExact
  <2> QED BY <2>5, <2>6, <2>7 DEF IndInv
<1>4. CASE Stop
  <2>1. TypeOK' BY <1>4, EmptySeq DEF IndInv, Stop, TypeOK
  <2>2. NoFaultBeforeStop' BY <1>4 DEF Stop, NoFaultBeforeStop
  <2> QED BY <1>4, <2>1, <2>2
          DEF IndInv, Stop, Partition, BlockSizes, MetadataExact
<1>5. CASE Start
  <2>1. TypeOK' /\ NoFaultBeforeStop'
    BY <1>5 DEF IndInv, Start, TypeOK, NoFaultBeforeStop
  <2>2. Partition' /\ BlockSizes' /\ MetadataExact'
    BY <1>5 DEF IndInv, Start, Partition, BlockSizes, MetadataExact
  <2> QED BY <2>1, <2>2 DEF IndInv
<1>6. CASE UNCHANGED cvars
  <2>1. TypeOK' /\ NoFaultBeforeStop'
    BY <1>6 DEF IndInv, cvars, TypeOK, NoFaultBeforeStop
  <2>2. Partition' /\ BlockSizes' /\ MetadataExact'
    BY <1>6 DEF IndInv, cvars, Partition, BlockSizes, MetadataExact
  <2> QED BY <2>1, <2>2 DEF IndInv
<1> QED BY <1>1, <1>2, <1>3, <1>4, <1>5, <1>6 DEF Next, Work

-----------------------------------------------------------------------------
(* All the invariants of the compress block hold in every behaviour. *)
THEOREM Invariance == Spec => []IndInv
<1>1. Init => IndInv BY InitInv
<1>2. IndInv /\ [Next]_cvars => IndInv' BY StepInv, BlockFitsHeader
<1> QED BY <1>1, <1>2, PTL DEF Spec

(* The variables keep their types. *)
THEOREM TypeCorrect == Spec => []TypeOK
<1>1. IndInv => TypeOK BY DEF IndInv
<1> QED BY <1>1, Invariance, PTL

(* Until stop, the hand-made buffer management of work never faults. *)
THEOREM BufferSafety == Spec => []NoFaultBeforeStop
<1>1. IndInv => NoFaultBeforeStop BY DEF IndInv
<1> QED BY <1>1, Invariance, PTL

(* The messages partition the input but for less than a block at its end. *)
THEOREM InputPartitioned == Spec => []Partition
<1>1. IndInv => Partition BY DEF IndInv
<1> QED BY <1>1, Invariance, PTL

(* The sizes of the blocks vary around the requested size only upwards. *)
THEOREM BlockSizesBounded == Spec => []BlockSizes
<1>1. IndInv => BlockSizes BY DEF IndInv
<1> QED BY <1>1, Invariance, PTL

(* A 32-bit header never truncates a size of a block. *)
THEOREM HeadersExact == Spec => []MetadataExact
<1>1. IndInv => MetadataExact BY DEF IndInv
<1> QED BY <1>1, Invariance, PTL

=============================================================================
