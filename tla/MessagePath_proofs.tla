------------------------- MODULE MessagePath_proofs -------------------------
(***************************************************************************)
(* Proofs about a compress block connected to a decompress block: whatever *)
(* the item sizes, the block size, the header setting, the order of the    *)
(* two threads' steps and the stops and starts, the bytes in flight stay   *)
(* in order, and the two blocks implement a pipe for bytes.                *)
(***************************************************************************)
EXTENDS MessagePath, ZStd_proofs

USE ZStdAssumption, PathAssumption DEF ZStdAssumption, PathAssumption

(* What the mailbox holds ends at the bytes that have been compressed.  It *)
(* follows from the chain of the messages, but only by induction on their  *)
(* number, so it is kept as an invariant of its own.                       *)
MailBounded ==
    \A k \in 1..Len(mailbox) : End(mailbox[k]) <= received - cNextIndex

(* The inductive invariant: the order of the bytes in flight, and what the *)
(* sizes beside the compress block's buffers say while it has them.        *)
IndInv ==
    /\ TypeOK
    /\ InOrder
    /\ MailBounded
    /\ C!NoFaultBeforeStop
    /\ ~dFaulted

-----------------------------------------------------------------------------
(* The operators both blocks use are the ones of ZStd. *)
LEMMA SameOperators ==
    /\ \A lo, n : C!Run(lo, n) = Run(lo, n)
    /\ \A s, n, h : C!BlockMessage(s, n, h) = BlockMessage(s, n, h)
    /\ \A n : C!CompressBound(n) = CompressBound(n)
    /\ \A m : D!Payload(m) = Payload(m)
    /\ C!Messages = Messages /\ D!Messages = Messages
<1>1. \A lo, n : C!Run(lo, n) = Run(lo, n) BY DEF C!Run, Run
<1>2. \A s, n, h : C!BlockMessage(s, n, h) = BlockMessage(s, n, h)
  BY DEF C!BlockMessage, BlockMessage, C!Header, Header, C!Frame, Frame
<1>3. \A n : C!CompressBound(n) = CompressBound(n)
  BY DEF C!CompressBound, CompressBound
<1>4. \A m : D!Payload(m) = Payload(m)
  BY DEF D!Payload, Payload, D!Decompress, Decompress, D!IsFrame, IsFrame,
         D!Frame, Frame, D!Skip, Skip
<1>5. C!Messages = Messages /\ D!Messages = Messages
  BY DEF C!Messages, D!Messages, Messages, C!Bytes, D!Bytes, Bytes
<1> QED BY <1>1, <1>2, <1>3, <1>4, <1>5

(* work takes whole items, at least one and no more than there are. *)
LEMMA ProducibleBounds ==
    ASSUME NEW n \in 1..OutMaxItems, byteQueue \in Seq(Nat), D!Producible(n) > 0
    PROVE  D!Producible(n) \in 1..Len(byteQueue)
<1> DEFINE L == Len(byteQueue)
          a == L \div OutItemSize
<1>1. L \in Nat OBVIOUS
<1>2. a \in Nat /\ OutItemSize * a <= L BY <1>1
<1>3. n \in Nat OBVIOUS
<1>4. ASSUME n <= a PROVE OutItemSize * n <= OutItemSize * a BY <1>2, <1>3, <1>4, SMTT(30)
<1>5. D!Producible(n) = OutItemSize * (IF a >= n THEN n ELSE a) BY DEF D!Producible
<1> QED BY <1>1, <1>2, <1>3, <1>4, <1>5

(* The bytes of the items of a call of compress::work. *)
LEMMA ItemBytes ==
    ASSUME NEW n \in 1..InMaxItems
    PROVE  n * InItemSize \in Nat \ {0}
<1>1. n \in Nat \ {0} OBVIOUS
<1> QED BY <1>1

(* The room for the header is a number of bytes. *)
LEMMA HeaderRoomIsNat == C!HeaderRoom \in Nat
BY DEF C!HeaderRoom

-----------------------------------------------------------------------------
(* The constructors of the two blocks establish the invariant. *)
LEMMA InitInv == Init => IndInv
<1> SUFFICES ASSUME Init PROVE IndInv OBVIOUS
<1> USE DEF Init, C!Init, D!Init
<1>0. <<>> \in Seq(Nat) /\ <<>> \in Seq(C!Messages) /\ <<>> \in Seq(D!Messages)
      /\ <<>> \in Seq(Seq(Nat)) /\ Len(<<>>) = 0
  BY EmptySeq
<1>1. C!TypeOK
  <2>1. BlockSize + C!HeaderRoom \in Nat BY HeaderRoomIsNat
  <2>2. /\ cRunning \in BOOLEAN /\ cFaulted \in BOOLEAN /\ pCompressor \in BOOLEAN
        /\ cBuffer \in Seq(Nat) /\ mailbox \in Seq(C!Messages)
    BY <1>0
  <2>3. /\ received \in 0..MaxInput /\ cNextIndex \in 0..received
        /\ cBufferSize \in Nat /\ compressedBufferSize \in Nat
        /\ compressedBufferAlloc \in Nat
    BY <2>1
  <2> QED BY <2>2, <2>3 DEF C!TypeOK
<1>2. D!TypeOK
  <2>1. /\ dRunning \in BOOLEAN /\ dFaulted \in BOOLEAN
        /\ byteQueue \in Seq(Nat) /\ out \in Seq(Nat)
        /\ uncompressed \in Seq(Seq(Nat)) /\ mailbox \in Seq(D!Messages)
    BY <1>0
  <2> QED BY <2>1 DEF D!TypeOK
<1>3. InOrder
  <2>1. Run(0, 0) = <<>> BY DEF Run
  <2>2. Chain(<<>>, 0, 0) BY DEF Chain
  <2>3. Queued = 0 BY <1>0 DEF Queued
  <2> QED BY <1>0, <2>1, <2>2, <2>3 DEF InOrder
<1>4. MailBounded BY <1>0 DEF MailBounded
<1>5. C!NoFaultBeforeStop BY <1>0 DEF C!NoFaultBeforeStop
<1> QED BY <1>1, <1>2, <1>3, <1>4, <1>5 DEF IndInv, TypeOK

(* What the invariant says of the compress block's position. *)
LEMMA Positions ==
    ASSUME IndInv
    PROVE  /\ received \in Nat /\ cNextIndex \in Nat /\ cNextIndex <= received
           /\ received - cNextIndex \in Nat
           /\ cBuffer \in Seq(Nat) /\ mailbox \in Seq(Messages)
           /\ byteQueue \in Seq(Nat) /\ out \in Seq(Nat)
           /\ uncompressed \in Seq(Seq(Nat))
           /\ Queued \in Nat /\ Queued <= received
<1>1. /\ received \in Nat /\ cNextIndex \in Nat /\ cNextIndex <= received
      /\ cBuffer \in Seq(Nat) /\ byteQueue \in Seq(Nat) /\ out \in Seq(Nat)
      /\ uncompressed \in Seq(Seq(Nat))
  BY DEF IndInv, TypeOK, C!TypeOK, D!TypeOK
<1>2. mailbox \in Seq(Messages)
  BY SameOperators DEF IndInv, TypeOK, C!TypeOK
<1>3. Queued \in Nat BY <1>1 DEF Queued
<1>4. Chain(mailbox, Queued, received - cNextIndex) BY DEF IndInv, InOrder
<1>5. Queued <= received
  <2>1. CASE mailbox = <<>>
    <3>1. Queued = received - cNextIndex BY <1>4, <2>1 DEF Chain
    <3> QED BY <1>1, <3>1
  <2>2. CASE mailbox # <<>>
    <3>1. Len(mailbox) \in Nat \ {0} BY <1>2, <2>2, EmptySeq
    <3>2. 1 \in 1..Len(mailbox) BY <3>1
    <3>3. Begin(mailbox[1]) = Queued /\ Carries(mailbox[1])
      BY <1>4, <2>2, <3>2 DEF Chain
    <3>4. End(mailbox[1]) <= received - cNextIndex
      BY <3>2 DEF IndInv, MailBounded
    <3>5. End(mailbox[1]) = Queued + Len(Payload(mailbox[1])) BY <3>3 DEF End
    <3>6. Len(Payload(mailbox[1])) \in Nat BY <3>3 DEF Carries
    <3> QED BY <1>1, <1>3, <3>4, <3>5, <3>6
  <2> QED BY <2>1, <2>2
<1> QED BY <1>1, <1>2, <1>3, <1>5

-----------------------------------------------------------------------------
(* What a step of the compress block that only touches its own state and   *)
(* the mailbox leaves true of the decompress block.                        *)
LEMMA DecompressUntouched ==
    ASSUME IndInv, UNCHANGED dOnly, mailbox' \in Seq(Messages)
    PROVE  /\ D!TypeOK' /\ ~dFaulted' /\ Queued' = Queued
           /\ out' = Run(0, Len(out')) /\ byteQueue' = Run(Len(out'), Len(byteQueue'))
<1>1. mailbox' \in Seq(D!Messages) BY SameOperators
<1>2. D!TypeOK'
  <2>1. /\ dRunning' \in BOOLEAN /\ dFaulted' \in BOOLEAN /\ dBufferSize' \in Nat
        /\ byteQueue' \in Seq(Nat) /\ uncompressed' \in Seq(Seq(Nat)) /\ out' \in Seq(Nat)
    BY DEF IndInv, TypeOK, D!TypeOK, dOnly
  <2> QED BY <1>1, <2>1 DEF D!TypeOK
<1>3. /\ ~dFaulted' /\ Queued' = Queued
      /\ out' = Run(0, Len(out')) /\ byteQueue' = Run(Len(out'), Len(byteQueue'))
  BY DEF IndInv, InOrder, dOnly, Queued
<1> QED BY <1>2, <1>3

(* While the compressor exists, work cannot fault. *)
LEMMA SafeBeforeStop ==
    ASSUME IndInv, pCompressor, NEW noi \in Nat, NEW csize \in Nat,
           csize <= C!CompressBound(cNextIndex + noi)
    PROVE  C!AppendSafe(cNextIndex + noi) /\ C!CompressSafe(cNextIndex + noi, csize)
<1> DEFINE q == cNextIndex + noi
<1>1. q \in Nat /\ C!HeaderRoom \in Nat BY HeaderRoomIsNat, Positions
<1>2. /\ C!NoFaultBeforeStop /\ cBufferSize \in Nat /\ compressedBufferSize \in Nat
      /\ compressedBufferAlloc \in Nat
  BY DEF IndInv, TypeOK, C!TypeOK
<1>3. C!AppendSafe(q)
  BY <1>1, <1>2 DEF C!NoFaultBeforeStop, C!AppendSafe, C!RoomFor
<1>4. C!CompressSafe(q, csize)
  BY <1>1, <1>2 DEF C!NoFaultBeforeStop, C!CompressSafe, C!TargetSize,
                    C!TargetAlloc, C!CompressBound
<1> QED BY <1>3, <1>4

(* A call of compress::work that only collects preserves the invariant. *)
LEMMA CollectStep ==
    ASSUME IndInv, UNCHANGED dOnly, NEW n \in 1..InMaxItems,
           C!WorkCollect(n * InItemSize)
    PROVE  IndInv'
<1> DEFINE noi == n * InItemSize
          N == cNextIndex
          P == received - N
          q == N + noi
<1>1. noi \in Nat \ {0} BY ItemBytes
<1> HIDE DEF noi
<1>2. /\ received' = received + noi /\ received + noi <= MaxInput
      /\ cNextIndex' = q
      /\ cBuffer' = cBuffer \o Run(received, noi)
      /\ cBufferSize' = C!RoomFor(q)
      /\ UNCHANGED <<cRunning, cFaulted, pCompressor, compressedBufferSize,
                     compressedBufferAlloc, mailbox>>
  BY SameOperators DEF C!WorkCollect, C!Appended, C!BlockReady, C!Input, noi
<1>3. /\ received \in Nat /\ N \in Nat /\ N <= received /\ P \in Nat /\ P + N = received
      /\ cBuffer \in Seq(Nat) /\ mailbox \in Seq(Messages)
  BY Positions
<1>4. Run(received, noi) \in Seq(Nat) /\ Len(Run(received, noi)) = noi
  BY <1>1, <1>3, RunIsSeq
<1>5. cBuffer' \in Seq(Nat) /\ Len(cBuffer') = Len(cBuffer) + noi
  BY <1>2, <1>3, <1>4, ConcatProperties
<1>6. received' - cNextIndex' = P BY <1>1, <1>2, <1>3
<1>7. C!TypeOK'
  BY <1>1, <1>2, <1>3, <1>5 DEF IndInv, TypeOK, C!TypeOK, C!RoomFor
<1>8. C!NoFaultBeforeStop'
  <2>1. cBufferSize \in Nat /\ q \in Nat BY <1>1, <1>3 DEF IndInv, TypeOK, C!TypeOK
  <2>2. q <= C!RoomFor(q) BY <2>1 DEF C!RoomFor
  <2>3. ASSUME pCompressor
        PROVE  /\ Len(cBuffer') = q
               /\ compressedBufferAlloc' = compressedBufferSize' + C!HeaderRoom
    BY <1>2, <1>5, <2>3 DEF IndInv, C!NoFaultBeforeStop
  <2>4. cFaulted' => ~pCompressor' BY <1>2 DEF IndInv, C!NoFaultBeforeStop
  <2> QED BY <1>2, <2>2, <2>3, <2>4 DEF C!NoFaultBeforeStop, C!HeaderRoom
<1>9. D!TypeOK' /\ ~dFaulted' /\ Queued' = Queued /\ out' = Run(0, Len(out'))
      /\ byteQueue' = Run(Len(out'), Len(byteQueue'))
  BY <1>2, <1>3, DecompressUntouched
<1>10. Chain(mailbox', Queued', received' - cNextIndex')
  BY <1>2, <1>6, <1>9 DEF IndInv, InOrder
<1>11. ASSUME pCompressor PROVE cBuffer' = Run(received' - cNextIndex', cNextIndex')
  <2>1. cBuffer = Run(P, N) BY <1>11 DEF IndInv, InOrder
  <2>2. P \in Nat /\ N \in Nat /\ noi \in Nat BY <1>1, <1>3
  <2>3. Run(P, N) \o Run(P + N, noi) = Run(P, N + noi)
    <3> HIDE DEF P, N
    <3> QED BY <2>2, RunConcat
  <2> QED BY <1>2, <1>3, <1>6, <2>1, <2>3
<1>12. InOrder' BY <1>2, <1>9, <1>10, <1>11 DEF InOrder
<1>13. MailBounded' BY <1>2, <1>6 DEF IndInv, MailBounded
<1> QED BY <1>7, <1>8, <1>9, <1>12, <1>13 DEF IndInv, TypeOK

(* A call of compress::work that puts a block into the mailbox preserves it. *)
LEMMA PublishStep ==
    ASSUME IndInv, UNCHANGED dOnly, NEW n \in 1..InMaxItems,
           NEW csize \in 1..C!CompressBound(cNextIndex + n * InItemSize),
           C!WorkPublish(n * InItemSize, csize)
    PROVE  IndInv'
<1> DEFINE noi == n * InItemSize
          N == cNextIndex
          P == received - N
          q == N + noi
          msg == BlockMessage(cBuffer \o Run(received, noi), csize, AddHeader)
<1>1. noi \in Nat \ {0} BY ItemBytes
<1>2. csize \in Nat \ {0}
  <2>1. C!CompressBound(q) \in Nat BY <1>1, Positions, SMTT(30) DEF C!CompressBound
  <2> QED BY <2>1
<1> HIDE DEF noi
<1>3. /\ received' = received + noi /\ received + noi <= MaxInput
      /\ cNextIndex' = 0 /\ pCompressor
      /\ cBuffer' = <<>> /\ cBufferSize' = C!RoomFor(q)
      /\ compressedBufferSize' = C!TargetSize(q)
      /\ compressedBufferAlloc' = C!TargetAlloc(q)
      /\ mailbox' = Append(mailbox, msg)
      /\ UNCHANGED <<cRunning, cFaulted, pCompressor>>
  BY SameOperators DEF C!WorkPublish, C!CompressSafe, C!Appended, C!BlockReady, C!Input, noi
<1>4. /\ received \in Nat /\ N \in Nat /\ N <= received /\ P \in Nat /\ P + N = received
      /\ cBuffer \in Seq(Nat) /\ mailbox \in Seq(Messages)
  BY Positions
<1>5. cBuffer \o Run(received, noi) = Run(P, q)
  <2>1. cBuffer = Run(P, N) BY <1>3 DEF IndInv, InOrder
  <2>2. P \in Nat /\ N \in Nat /\ noi \in Nat BY <1>1, <1>4
  <2>3. Run(P, N) \o Run(P + N, noi) = Run(P, N + noi)
    <3> HIDE DEF P, N
    <3> QED BY <2>2, RunConcat
  <2> QED BY <1>4, <2>1, <2>3
<1>6. q \in Nat \ {0} /\ Run(P, q) \in Seq(Nat)
  <2>1. q \in Nat \ {0} BY <1>1, <1>4
  <2> QED BY <1>4, <2>1, RunIsSeq
<1>7. msg \in Messages /\ Payload(msg) = Run(P, q)
  BY <1>2, <1>5, <1>6, BlockMessagePayload
<1> HIDE DEF msg
<1>8. Carries(msg) /\ Begin(msg) = P /\ End(msg) = P + q
  BY <1>4, <1>6, <1>7, RunMessageCarries
<1>9. /\ mailbox' \in Seq(Messages) /\ Len(mailbox') = Len(mailbox) + 1
      /\ Len(mailbox) \in Nat
      /\ \A k \in 1..Len(mailbox) : mailbox'[k] = mailbox[k]
      /\ mailbox'[Len(mailbox) + 1] = msg
  BY <1>3, <1>4, <1>7, AppendProperties, LenProperties
<1>10. received' - cNextIndex' = received' /\ P + q = received'
       /\ P <= received' /\ received' \in Nat
  BY <1>1, <1>3, <1>4
<1>11. C!TypeOK'
  <2>1. C!CompressBound(q) \in Nat BY <1>6 DEF C!CompressBound
  <2>2. /\ compressedBufferSize \in Nat /\ compressedBufferAlloc \in Nat
        /\ cBufferSize \in Nat /\ pCompressor \in BOOLEAN
        /\ cRunning \in BOOLEAN /\ cFaulted \in BOOLEAN
    BY DEF IndInv, TypeOK, C!TypeOK
  <2>3. C!TargetSize(q) \in Nat BY <2>1, <2>2 DEF C!TargetSize
  <2>4. C!TargetAlloc(q) \in Nat BY <2>1, <2>2, HeaderRoomIsNat DEF C!TargetAlloc
  <2>5. C!RoomFor(q) \in Nat BY <1>6, <2>2 DEF C!RoomFor
  <2>6. received' \in 0..MaxInput /\ cNextIndex' \in 0..received'
    BY <1>1, <1>3, <1>4
  <2>7. cBuffer' \in Seq(Nat) BY <1>3, EmptySeq
  <2>8. mailbox' \in Seq(C!Messages) BY <1>9, SameOperators
  <2>9. cRunning' \in BOOLEAN /\ cFaulted' \in BOOLEAN /\ pCompressor' \in BOOLEAN
    BY <1>3, <2>2
  <2>10. /\ cBufferSize' \in Nat /\ compressedBufferSize' \in Nat
         /\ compressedBufferAlloc' \in Nat
    BY <1>3, <2>3, <2>4, <2>5
  <2> QED BY <2>6, <2>7, <2>8, <2>9, <2>10 DEF C!TypeOK
<1>12. C!NoFaultBeforeStop'
  <2>1. C!TargetAlloc(q) = C!TargetSize(q) + C!HeaderRoom
    BY <1>3 DEF IndInv, C!NoFaultBeforeStop, C!TargetSize, C!TargetAlloc
  <2>2. compressedBufferAlloc' = compressedBufferSize' + C!HeaderRoom BY <1>3, <2>1
  <2>3. 0 <= C!RoomFor(q) BY <1>6 DEF IndInv, TypeOK, C!TypeOK, C!RoomFor
  <2>4. Len(cBuffer') = 0 BY <1>3
  <2>5. ~cFaulted' BY <1>3 DEF IndInv, C!NoFaultBeforeStop
  <2> QED BY <1>3, <2>2, <2>3, <2>4, <2>5 DEF C!NoFaultBeforeStop, C!HeaderRoom
<1>13. D!TypeOK' /\ ~dFaulted' /\ Queued' = Queued /\ out' = Run(0, Len(out'))
       /\ byteQueue' = Run(Len(out'), Len(byteQueue'))
  BY <1>9, DecompressUntouched
<1>14. InOrder'
  <2>1. Chain(mailbox, Queued, P) BY DEF IndInv, InOrder
  <2>2. Chain(mailbox', Queued', received' - cNextIndex')
    BY <1>3, <1>4, <1>7, <1>8, <1>10, <1>13, <2>1, ChainAppend
  <2>3. Run(received' - cNextIndex', 0) = <<>> BY DEF Run
  <2> QED BY <1>3, <1>13, <2>2, <2>3 DEF InOrder
<1>15. MailBounded'
  <2>1. ASSUME NEW k \in 1..Len(mailbox') PROVE End(mailbox'[k]) <= received'
    <3>1. CASE k \in 1..Len(mailbox)
      <4>1. End(mailbox[k]) <= P BY <3>1 DEF IndInv, MailBounded
      <4>2. End(mailbox[k]) \in Nat
        <5>1. Carries(mailbox[k]) BY <3>1 DEF IndInv, InOrder, Chain
        <5>2. Begin(mailbox[k]) \in Nat /\ Len(Payload(mailbox[k])) \in Nat
          BY <5>1 DEF Carries
        <5> QED BY <5>2 DEF End
      <4>3. mailbox'[k] = mailbox[k] BY <1>9, <3>1
      <4> QED BY <1>4, <1>10, <4>1, <4>2, <4>3
    <3>2. CASE k = Len(mailbox) + 1
      <4>1. End(mailbox'[k]) = received' BY <1>8, <1>9, <1>10, <3>2
      <4> QED BY <1>10, <4>1
    <3> QED BY <1>9, <3>1, <3>2
  <2> QED BY <1>10, <2>1 DEF MailBounded
<1> QED BY <1>11, <1>12, <1>13, <1>14, <1>15 DEF IndInv, TypeOK

(* Every step of the compress block's thread preserves the invariant. *)
LEMMA CompressStepInv ==
    ASSUME IndInv, CompressStep
    PROVE  IndInv'
<1>0. C!Next /\ UNCHANGED dOnly BY DEF CompressStep
<1>1. ASSUME NEW n \in 1..InMaxItems, C!WorkCollect(n * InItemSize) PROVE IndInv'
  BY <1>0, <1>1, CollectStep
<1>2. ASSUME NEW n \in 1..InMaxItems,
             NEW csize \in 1..C!CompressBound(cNextIndex + n * InItemSize),
             C!WorkPublish(n * InItemSize, csize)
      PROVE  IndInv'
  BY <1>0, <1>2, PublishStep
<1>3. ASSUME NEW n \in 1..InMaxItems,
             NEW csize \in 1..C!CompressBound(cNextIndex + n * InItemSize),
             C!WorkFault(n * InItemSize, csize)
      PROVE  IndInv'
  <2>1. n * InItemSize \in Nat /\ csize \in Nat
    BY ItemBytes, Positions DEF C!CompressBound
  <2>2. csize <= C!CompressBound(cNextIndex + n * InItemSize)
    BY <1>3 DEF C!WorkFault
  <2>3. ~pCompressor
    BY <1>3, <2>1, <2>2, SafeBeforeStop DEF IndInv, C!WorkFault
  <2> QED BY <1>0, <1>3, <2>3
          DEF IndInv, C!WorkFault, TypeOK, C!TypeOK, D!TypeOK, C!NoFaultBeforeStop,
              InOrder, MailBounded, Queued, dOnly
<1>4. CASE C!Stop
  <2>1. mailbox' \in Seq(Messages) BY <1>4, Positions DEF C!Stop
  <2>2. C!TypeOK' BY <1>4, EmptySeq DEF IndInv, TypeOK, C!Stop, C!TypeOK
  <2>3. C!NoFaultBeforeStop' BY <1>4 DEF C!Stop, C!NoFaultBeforeStop
  <2>4. D!TypeOK' /\ ~dFaulted' /\ Queued' = Queued /\ out' = Run(0, Len(out'))
        /\ byteQueue' = Run(Len(out'), Len(byteQueue'))
    BY <1>0, <2>1, DecompressUntouched
  <2>5. InOrder' BY <1>4, <2>4 DEF IndInv, InOrder, C!Stop
  <2>6. MailBounded' BY <1>4 DEF IndInv, MailBounded, C!Stop
  <2> QED BY <2>2, <2>3, <2>4, <2>5, <2>6 DEF IndInv, TypeOK
<1>5. CASE C!Start
  BY <1>0, <1>5
     DEF IndInv, C!Start, TypeOK, C!TypeOK, D!TypeOK, C!NoFaultBeforeStop,
         C!HeaderRoom, InOrder, MailBounded, Queued, dOnly
<1> QED BY <1>0, <1>1, <1>2, <1>3, <1>4, <1>5 DEF C!Next, C!Work

-----------------------------------------------------------------------------
(* What a step of the decompress block that only touches its own state and *)
(* the mailbox leaves true of the compress block.                          *)
LEMMA CompressUntouched ==
    ASSUME IndInv, UNCHANGED cOnly, mailbox' \in Seq(Messages)
    PROVE  /\ C!TypeOK' /\ C!NoFaultBeforeStop'
           /\ received' - cNextIndex' = received - cNextIndex
           /\ (pCompressor => cBuffer = Run(received - cNextIndex, cNextIndex))'
<1>1. mailbox' \in Seq(C!Messages) BY SameOperators
<1>2. C!TypeOK' BY <1>1 DEF IndInv, TypeOK, C!TypeOK, cOnly
<1>3. C!NoFaultBeforeStop'
  BY DEF IndInv, C!NoFaultBeforeStop, cOnly, C!HeaderRoom
<1>4. /\ received' - cNextIndex' = received - cNextIndex
      /\ (pCompressor => cBuffer = Run(received - cNextIndex, cNextIndex))'
  BY DEF IndInv, InOrder, cOnly
<1> QED BY <1>2, <1>3, <1>4

(* A call of decompress::compressedIn preserves the invariant. *)
LEMMA HandlerStep ==
    ASSUME IndInv, UNCHANGED cOnly, D!CompressedIn
    PROVE  IndInv'
<1> DEFINE msg == Head(mailbox)
          data == Payload(msg)
          Q == Len(byteQueue)
          O == Len(out)
<1>1. /\ mailbox \in Seq(Messages) /\ byteQueue \in Seq(Nat) /\ out \in Seq(Nat)
      /\ uncompressed \in Seq(Seq(Nat)) /\ Queued \in Nat /\ Q \in Nat /\ O \in Nat
      /\ Queued = O + Q
  BY Positions DEF Queued
<1>2. /\ mailbox # <<>> /\ mailbox' = Tail(mailbox)
      /\ dBufferSize' = D!BufferFor(msg)
      /\ dFaulted' = (Len(data) > D!BufferFor(msg))
      /\ IF Len(data) > msg.uncompressedsize
         THEN UNCHANGED <<byteQueue, uncompressed>>
         ELSE /\ byteQueue' = byteQueue \o data
              /\ uncompressed' = IF SendMsg THEN Append(uncompressed, data)
                                 ELSE uncompressed
      /\ UNCHANGED <<dRunning, out>>
  BY SameOperators DEF D!CompressedIn, D!Republished
<1>3. msg \in Messages /\ mailbox' \in Seq(Messages)
      /\ Len(mailbox') = Len(mailbox) - 1 /\ Len(mailbox) \in Nat
      /\ \A k \in 1..Len(mailbox') : mailbox'[k] = mailbox[k + 1]
  BY <1>1, <1>2, HeadTailProperties, LenProperties
<1>4. msg.uncompressedsize \in Nat BY <1>3 DEF Messages
<1>5. Len(data) <= msg.uncompressedsize BY <1>4, DecompressBounded
<1>6. /\ Carries(msg) /\ Begin(msg) = Queued
      /\ Chain(mailbox', End(msg), received - cNextIndex)
  BY <1>1, <1>2, ChainTail DEF IndInv, InOrder
<1>7. /\ data \in Seq(Nat) /\ Len(data) \in Nat /\ data = Run(Queued, Len(data))
      /\ End(msg) = Queued + Len(data)
  BY <1>6 DEF Carries, End
<1> HIDE DEF data
<1>8. /\ byteQueue' = byteQueue \o data
      /\ uncompressed' = IF SendMsg THEN Append(uncompressed, data) ELSE uncompressed
  <2>1. ~(Len(data) > msg.uncompressedsize)
    <3> HIDE DEF msg
    <3> QED BY <1>4, <1>5, <1>7
  <2> QED BY <1>2, <2>1
<1>9. byteQueue' = Run(O, Q + Len(data))
  <2>1. byteQueue = Run(O, Q) BY DEF IndInv, InOrder
  <2>2. Run(O, Q) \o Run(O + Q, Len(data)) = Run(O, Q + Len(data))
    <3> DEFINE L == Len(data)
    <3>1. O \in Nat /\ Q \in Nat /\ L \in Nat BY <1>1, <1>7
    <3> HIDE DEF O, Q, L
    <3>2. Run(O, Q) \o Run(O + Q, L) = Run(O, Q + L) BY <3>1, RunConcat
    <3> QED BY <3>2 DEF L
  <2> QED BY <1>1, <1>7, <1>8, <2>1, <2>2
<1>10. byteQueue' \in Seq(Nat) /\ Len(byteQueue') = Q + Len(data)
  <2>1. Q + Len(data) \in Nat BY <1>1, <1>7
  <2> QED BY <1>1, <1>9, <2>1, RunIsSeq
<1>11. Queued' = End(msg) BY <1>1, <1>2, <1>7, <1>10 DEF Queued
<1>12. ~dFaulted' /\ dBufferSize' \in Nat
  <2>1. dBufferSize \in Nat BY DEF IndInv, TypeOK, D!TypeOK
  <2>2. /\ D!BufferFor(msg) \in Nat /\ msg.uncompressedsize <= D!BufferFor(msg)
    <3> HIDE DEF msg
    <3> QED BY <1>4, <2>1 DEF D!BufferFor
  <2>3. Len(data) <= D!BufferFor(msg)
    <3> HIDE DEF msg
    <3> QED BY <1>4, <1>5, <1>7, <2>2
  <2>4. dBufferSize' \in Nat BY <1>2, <2>2
  <2>5. ~(Len(data) > D!BufferFor(msg))
    <3> HIDE DEF msg
    <3> QED BY <1>7, <2>2, <2>3
  <2>6. ~dFaulted'
    <3> HIDE DEF msg
    <3> QED BY <1>2, <2>5
  <2> QED BY <2>4, <2>6
<1>13. D!TypeOK'
  <2>1. mailbox' \in Seq(D!Messages) BY <1>3, SameOperators
  <2>2. uncompressed' \in Seq(Seq(Nat)) BY <1>1, <1>7, <1>8, AppendProperties
  <2>3. dRunning' \in BOOLEAN BY <1>2 DEF IndInv, TypeOK, D!TypeOK
  <2> QED BY <1>1, <1>2, <1>10, <1>12, <2>1, <2>2, <2>3 DEF D!TypeOK
<1>14. /\ C!TypeOK' /\ C!NoFaultBeforeStop'
       /\ received' - cNextIndex' = received - cNextIndex
       /\ (pCompressor => cBuffer = Run(received - cNextIndex, cNextIndex))'
  BY <1>3, CompressUntouched
<1>15. InOrder'
  <2>1. out' = Run(0, Len(out')) /\ byteQueue' = Run(Len(out'), Len(byteQueue'))
    BY <1>2, <1>9, <1>10 DEF IndInv, InOrder
  <2>2. Chain(mailbox', Queued', received' - cNextIndex')
    BY <1>6, <1>11, <1>14
  <2> QED BY <1>14, <2>1, <2>2 DEF InOrder
<1>16. MailBounded'
  <2>1. ASSUME NEW k \in 1..Len(mailbox')
        PROVE  End(mailbox'[k]) <= received - cNextIndex
    <3>1. k + 1 \in 1..Len(mailbox) BY <1>3
    <3> QED BY <1>3, <3>1 DEF IndInv, MailBounded
  <2> QED BY <1>14, <2>1 DEF MailBounded
<1> QED BY <1>12, <1>13, <1>14, <1>15, <1>16 DEF IndInv, TypeOK

(* A call of work moves the first bytes of byteQueue to the output.        *)
LEMMA WorkMoves ==
    ASSUME IndInv, D!Work
    PROVE  \E noi \in 1..Len(byteQueue) :
              /\ out' = Run(0, Len(out) + noi) /\ Len(out') = Len(out) + noi
              /\ byteQueue' = Run(Len(out) + noi, Len(byteQueue) - noi)
              /\ Len(byteQueue') = Len(byteQueue) - noi
              /\ UNCHANGED <<dRunning, dFaulted, dBufferSize, mailbox, uncompressed>>
<1> DEFINE Q == Len(byteQueue)
          O == Len(out)
<1>1. /\ byteQueue \in Seq(Nat) /\ out \in Seq(Nat) /\ Q \in Nat /\ O \in Nat
      /\ byteQueue = Run(O, Q) /\ out = Run(0, O)
  BY Positions DEF IndInv, InOrder
<1>2. PICK n \in 1..OutMaxItems :
        LET noi == D!Producible(n) IN
        /\ noi > 0
        /\ out' = out \o SubSeq(byteQueue, 1, noi)
        /\ byteQueue' = SubSeq(byteQueue, noi + 1, Len(byteQueue))
        /\ UNCHANGED <<dRunning, dFaulted, dBufferSize, mailbox, uncompressed>>
  BY DEF D!Work
<1> DEFINE noi == D!Producible(n)
<1>3. noi \in 1..Q BY <1>1, <1>2, ProducibleBounds
<1> HIDE DEF noi, Q, O
<1>4. noi \in Nat /\ noi \in 0..Q /\ O + noi \in Nat /\ Q - noi \in Nat /\ 0 \in Nat
  BY <1>1, <1>3
<1>5. SubSeq(byteQueue, 1, noi) = Run(O, noi)
      /\ SubSeq(byteQueue, noi + 1, Q) = Run(O + noi, Q - noi)
  <2>1. /\ SubSeq(Run(O, Q), 1, noi) = Run(O, noi)
        /\ SubSeq(Run(O, Q), noi + 1, Q) = Run(O + noi, Q - noi)
    <3>1. O \in Nat /\ Q \in Nat BY <1>1
    <3>2. noi \in 0..Q BY <1>4
    <3> QED BY <3>1, <3>2, RunCut, ZenonT(60)
  <2> QED BY <1>1, <2>1
<1>6. Run(0, O) \o Run(0 + O, noi) = Run(0, O + noi) BY <1>1, <1>4, RunConcat
<1>7. 0 + O = O BY <1>1
<1>8. out' = Run(0, O + noi) BY <1>1, <1>2, <1>5, <1>6, <1>7 DEF noi
<1>9. byteQueue' = Run(O + noi, Q - noi) BY <1>2, <1>5 DEF noi, Q
<1>10. Len(out') = O + noi /\ Len(byteQueue') = Q - noi
  BY <1>4, <1>8, <1>9, RunIsSeq
<1> QED BY <1>2, <1>3, <1>8, <1>9, <1>10 DEF O, Q

(* A call of decompress::work preserves the invariant. *)
LEMMA WorkStep ==
    ASSUME IndInv, UNCHANGED cOnly, D!Work
    PROVE  IndInv'
<1>1. PICK noi \in 1..Len(byteQueue) :
        /\ out' = Run(0, Len(out) + noi) /\ Len(out') = Len(out) + noi
        /\ byteQueue' = Run(Len(out) + noi, Len(byteQueue) - noi)
        /\ Len(byteQueue') = Len(byteQueue) - noi
        /\ UNCHANGED <<dRunning, dFaulted, dBufferSize, mailbox, uncompressed>>
  BY WorkMoves
<1>2. Len(out) \in Nat /\ Len(byteQueue) \in Nat /\ noi \in Nat /\ noi <= Len(byteQueue)
  BY Positions
<1>3. /\ Len(out) + noi \in Nat /\ Len(byteQueue) - noi \in Nat /\ 0 \in Nat BY <1>2
<1>4. out' \in Seq(Nat) /\ byteQueue' \in Seq(Nat) BY <1>1, <1>3, RunIsSeq
<1>5. mailbox' \in Seq(Messages) BY <1>1, Positions
<1>6. D!TypeOK' /\ ~dFaulted'
  BY <1>1, <1>4 DEF IndInv, TypeOK, D!TypeOK
<1>7. Queued' = Queued BY <1>1, <1>2 DEF Queued
<1>8. /\ C!TypeOK' /\ C!NoFaultBeforeStop'
      /\ received' - cNextIndex' = received - cNextIndex
      /\ (pCompressor => cBuffer = Run(received - cNextIndex, cNextIndex))'
  BY <1>5, CompressUntouched
<1>9. InOrder'
  <2>1. Chain(mailbox', Queued', received' - cNextIndex')
    BY <1>1, <1>7, <1>8 DEF IndInv, InOrder
  <2>2. out' = Run(0, Len(out')) /\ byteQueue' = Run(Len(out'), Len(byteQueue'))
    BY <1>1
  <2> QED BY <1>8, <2>1, <2>2 DEF InOrder
<1>10. MailBounded' BY <1>1, <1>8 DEF IndInv, MailBounded
<1> QED BY <1>6, <1>8, <1>9, <1>10 DEF IndInv, TypeOK

(* Every step of the decompress block's thread preserves the invariant. *)
LEMMA DecompressStepInv ==
    ASSUME IndInv, DecompressStep
    PROVE  IndInv'
<1>0. D!Next /\ UNCHANGED cOnly BY DEF DecompressStep
<1>1. CASE D!CompressedIn BY <1>0, <1>1, HandlerStep
<1>2. CASE D!Work BY <1>0, <1>2, WorkStep
<1>3. CASE D!Stop
  BY <1>0, <1>3
     DEF IndInv, D!Stop, TypeOK, C!TypeOK, D!TypeOK, C!NoFaultBeforeStop,
         C!HeaderRoom, InOrder, MailBounded, Queued, cOnly
<1>4. CASE D!Start
  BY <1>0, <1>4
     DEF IndInv, D!Start, TypeOK, C!TypeOK, D!TypeOK, C!NoFaultBeforeStop,
         C!HeaderRoom, InOrder, MailBounded, Queued, cOnly
<1> QED BY <1>0, <1>1, <1>2, <1>3, <1>4 DEF D!Next, D!Handle

(* Every step of the flowgraph preserves the invariant. *)
LEMMA StepInv ==
    ASSUME IndInv, [Next]_vars
    PROVE  IndInv'
<1>1. CASE CompressStep BY <1>1, CompressStepInv
<1>2. CASE DecompressStep BY <1>2, DecompressStepInv
<1>3. CASE UNCHANGED vars
  BY <1>3
     DEF IndInv, vars, cOnly, dOnly, TypeOK, C!TypeOK, D!TypeOK,
         C!NoFaultBeforeStop, C!HeaderRoom, InOrder, MailBounded, Queued
<1> QED BY <1>1, <1>2, <1>3 DEF Next

-----------------------------------------------------------------------------
(* The invariant holds in every behaviour of the two blocks. *)
THEOREM Invariance == Spec => []IndInv
<1>1. Init => IndInv BY InitInv
<1>2. IndInv /\ [Next]_vars => IndInv' BY StepInv
<1> QED BY <1>1, <1>2, PTL DEF Spec

(* The variables of both blocks keep their types. *)
THEOREM TypeCorrect == Spec => []TypeOK
<1>1. IndInv => TypeOK BY DEF IndInv
<1> QED BY <1>1, Invariance, PTL

(* At every moment the output, byteQueue, the mailbox and the compress     *)
(* block's buffer hold the accepted bytes, in this order.                  *)
THEOREM BytesInOrder == Spec => []InOrder
<1>1. IndInv => InOrder BY DEF IndInv
<1> QED BY <1>1, Invariance, PTL

(* Neither block faults, but a compress block used again after stop.       *)
THEOREM FaultsOnlyAfterStop == Spec => []NoFault
<1>1. IndInv => NoFault BY DEF IndInv, C!NoFaultBeforeStop, NoFault
<1> QED BY <1>1, Invariance, PTL

(* The two blocks implement the pipe: an initial state is one of the pipe, *)
(* and a step is a step of the pipe or leaves it alone.                    *)
THEOREM ImplementsPipe == Spec => PipeSpec
<1>1. Init => Pipe!Init
  BY DEF Init, C!Init, D!Init, Pipe!Init
<1>2. IndInv /\ IndInv' /\ [Next]_vars => [Pipe!Next]_Pipe!pvars
  <2> SUFFICES ASSUME IndInv, IndInv', [Next]_vars
               PROVE  [Pipe!Next]_Pipe!pvars
    OBVIOUS
  <2> USE DEF Pipe!Next, Pipe!pvars
  <2>1. CASE CompressStep
    <3>1. UNCHANGED out BY <2>1 DEF CompressStep, dOnly
    <3>2. received' = received \/ received' > received
      <4>1. \A n \in 1..InMaxItems : n * InItemSize \in Nat \ {0} BY ItemBytes
      <4>2. received \in Nat BY Positions
      <4> QED BY <2>1, <4>1, <4>2
              DEF CompressStep, C!Next, C!Work, C!WorkCollect, C!WorkPublish,
                  C!WorkFault, C!Stop, C!Start
    <3>3. received' \in Nat BY DEF IndInv, TypeOK, C!TypeOK
    <3> QED BY <3>1, <3>2, <3>3 DEF Pipe!Accept
  <2>2. CASE D!Work /\ UNCHANGED cOnly
    <3>1. PICK noi \in 1..Len(byteQueue) :
            out' = Run(0, Len(out) + noi) /\ Len(out') = Len(out) + noi
      BY <2>2, WorkMoves
    <3>2. out' = [i \in 1..Len(out') |-> i]
      BY <3>1, Positions DEF Run
    <3>3. received' = received BY <2>2 DEF cOnly
    <3>4. Len(out') \in Len(out) + 1 .. received
      BY <3>1, Positions, SMTT(30) DEF Queued
    <3> QED BY <3>2, <3>3, <3>4 DEF Pipe!Deliver
  <2>3. CASE DecompressStep /\ ~D!Work
    BY <2>3 DEF DecompressStep, D!Next, D!Handle, D!CompressedIn, D!Stop, D!Start, cOnly
  <2>4. CASE UNCHANGED vars BY <2>4 DEF vars, cOnly, dOnly
  <2> QED BY <2>1, <2>2, <2>3, <2>4 DEF Next, DecompressStep
<1> QED BY <1>1, <1>2, Invariance, PTL DEF Spec, PipeSpec, Pipe!Spec
=============================================================================
