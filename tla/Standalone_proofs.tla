-------------------------- MODULE Standalone_proofs --------------------------
(***************************************************************************)
(* Proofs about the parts that stand alone: the blocks of packed samples,  *)
(* the test program, the bindings of the blocks, and doxyxml.              *)
(*                                                                         *)
(* For every sample, in the range or not, packing two codes into three     *)
(* bytes loses no bit of either, and unpacking gives the nearest codes.    *)
(* For every size of block, queue, buffer and file and any number of       *)
(* calls, the test program stays inside its buffers and decompresses what  *)
(* it should.  For any number of versions of a header and any text in the  *)
(* flags of its binding, the binding is never stale.  For every output of  *)
(* Doxygen and whatever a client calls, the objects of doxyxml do not show *)
(* that they are read late.                                                *)
(***************************************************************************)
EXTENDS Packed12, TestProgram, DoxyXml, ZStd_proofs

CONSTANTS Values, MaxVersion

VARIABLES header, binding, wanted, silenced, library

B == INSTANCE Bindings

-----------------------------------------------------------------------------
(* The blocks of packed samples. *)

(* The component that a code of any size is restored to. *)
Component(n) == 2 * (n % 4096)

(* Either pair of bit fields is a number modulo 2^12. *)
Halved(n) ==
    /\ (n % 4096) = (16 * Bits(n, 16, 256)) + Bits(n, 1, 16)
    /\ (n % 4096) = (256 * Bits(n, 256, 16)) + Bits(n, 1, 256)
    /\ Bits(n, 16, 256) \in 0..255 /\ Bits(n, 1, 16) \in 0..15
    /\ Bits(n, 256, 16) \in 0..15 /\ Bits(n, 1, 256) \in 0..255

(* Every integer is split like that. *)
LEMMA BitFields ==
    ASSUME NEW n \in Int
    PROVE  Halved(n)
<1>1. Bits(n, 16, 256) = (n \div 16) % 256 /\ Bits(n, 1, 16) = n % 16
  BY DEF Bits
<1>2. Bits(n, 256, 16) = (n \div 256) % 16 /\ Bits(n, 1, 256) = n % 256
  BY DEF Bits
<1>3. /\ (n \div 16) % 256 \in 0..255 /\ n % 16 \in 0..15
      /\ (n \div 256) % 16 \in 0..15 /\ n % 256 \in 0..255
  OBVIOUS
<1>4. (n % 4096) = (16 * ((n \div 16) % 256)) + (n % 16) OBVIOUS
<1>5. (n % 4096) = (256 * ((n \div 256) % 16)) + (n % 256) OBVIOUS
<1> QED BY <1>1, <1>2, <1>3, <1>4, <1>5 DEF Halved

(* The bytes of two codes unpack to the codes, modulo 2^12. *)
LEMMA UnpackPack ==
    ASSUME NEW real \in Int, NEW imag \in Int
    PROVE  /\ Pack(real, imag) \in Byte \X Byte \X Byte
           /\ Unpack(Pack(real, imag)) = <<real % 4096, imag % 4096>>
<1> DEFINE hi == Bits(real, 16, 256)
          lo == Bits(real, 1, 16)
          top == Bits(imag, 256, 16)
          rest == Bits(imag, 1, 256)
          shared == 16 * lo + top
<1>1. /\ hi \in 0..255 /\ lo \in 0..15 /\ top \in 0..15 /\ rest \in 0..255
      /\ real % 4096 = 16 * hi + lo /\ imag % 4096 = 256 * top + rest
  <2>1. Halved(real) /\ Halved(imag) BY BitFields
  <2> QED BY <2>1 DEF Halved
<1>2. Pack(real, imag) = <<hi, shared, rest>> BY DEF Pack
<1> HIDE DEF hi, lo, top, rest
<1>3. shared \in 0..255 BY <1>1
<1>4. Bits(shared, 16, 16) = lo /\ Bits(shared, 1, 16) = top BY <1>1 DEF Bits
<1>5. Unpack(<<hi, shared, rest>>) = <<16 * hi + lo, 256 * top + rest>>
  BY <1>4 DEF Unpack
<1> QED BY <1>1, <1>2, <1>3, <1>5 DEF Byte

(* A number of 12 bits is what it is modulo 2^12. *)
LEMMA TwelveBits == \A n \in 0..4095 : (n % 4096) = n
OBVIOUS

Even(t) == (t % 2) = 0

(* The integer r is t / 2 rounded. *)
Half(t, r) == 2 * r - t \in -1..1 /\ (Even(t) => 2 * r = t)

(* The code c is the nearest to the component t, up to 1 ...              *)
Close(t, c) == t <= 8190 => Half(t, c)

(* ... and has 12 bits from -1 up, the largest such number above 1.        *)
Kept(t, c) ==
    /\ t >= 0 => c \in 0..4095
    /\ t > 8190 => c = 4095

Nearest(t, c) == Kept(t, c) /\ Close(t, c)

(* Limiting an integer that is t / 2 rounded keeps it the nearest code. *)
LEMMA Limited ==
    ASSUME NEW t \in Int, NEW r \in Int, Half(t, r)
    PROVE  Nearest(t, IF r <= 4095 THEN r ELSE 4095)
<1>1. 2 * r - t \in -1..1 BY DEF Half
<1>2. PICK c \in Int : c = IF r <= 4095 THEN r ELSE 4095 OBVIOUS
<1>3. t >= 0 => c \in 0..4095 BY <1>1, <1>2
<1>4. t > 8190 => c = 4095 BY <1>1, <1>2
<1>5. t <= 8190 => c = r BY <1>1, <1>2
<1>6. Close(t, c) BY <1>5 DEF Close
<1>7. Kept(t, c) BY <1>3, <1>4 DEF Kept
<1> QED BY <1>2, <1>6, <1>7 DEF Nearest

(* The code of a component is the nearest one: from -1 up it has 12 bits, *)
(* below it is negative or 0.                                             *)
LEMMA CodeNearest ==
    ASSUME NEW t \in Int
    PROVE  Code(t) \in Int /\ Nearest(t, Code(t))
<1>1. Rounded(t) \in Int /\ Half(t, Rounded(t)) BY DEF Rounded, Half, Even
<1>2. PICK r \in Int : r = Rounded(t) BY <1>1
<1>3. Code(t) = IF r <= 4095 THEN r ELSE 4095 BY <1>2 DEF Code, USHRT12_MAX
<1>4. Nearest(t, Code(t)) BY <1>1, <1>2, <1>3, Limited
<1> QED BY <1>3, <1>4

(* Both components of a sample are integers and so are their codes. *)
LEMMA Components ==
    ASSUME NEW s \in Reals \X Imags
    PROVE  /\ s[1] \in Int /\ s[2] \in Int
           /\ Code(s[1]) \in Int /\ Code(s[2]) \in Int
<1>1. s[1] \in Reals /\ s[2] \in Imags OBVIOUS
<1>2. s[1] \in Int /\ s[2] \in Int
  BY <1>1, Packed12Assumption DEF Packed12Assumption
<1> QED BY <1>2, CodeNearest

(* What has been packed are the codes of the sample, and what has been     *)
(* restored are twice those codes modulo 2^12.                             *)
PackedCodes == packed = Pack(Code(sample[1]), Code(sample[2]))

RestoredCodes ==
    restored = <<Component(Code(sample[1])), Component(Code(sample[2]))>>

IInv ==
    /\ sample \in Reals \X Imags
    /\ packed # <<>> => PackedCodes
    /\ restored # <<>> => packed # <<>> /\ RestoredCodes

(* The invariant holds in every state. *)
THEOREM Invariant == Spec => []IInv
<1>1. Init => IInv BY DEF Init, IInv
<1>2. IInv /\ [Next]_pkvars => IInv'
  <2> SUFFICES ASSUME IInv, [Next]_pkvars PROVE IInv' OBVIOUS
  <2>1. CASE ComplexToPacked12
    <3>1. restored = <<>> BY <2>1 DEF ComplexToPacked12, IInv
    <3> QED BY <2>1, <3>1 DEF ComplexToPacked12, IInv, PackedCodes
  <2>2. CASE Packed12ToComplex
    <3> DEFINE real == Code(sample[1])
               imag == Code(sample[2])
    <3>1. real \in Int /\ imag \in Int
      <4>1. sample \in Reals \X Imags BY DEF IInv
      <4> QED BY <4>1, Components
    <3>2. packed # <<>> /\ UNCHANGED <<sample, packed>>
      BY <2>2 DEF Packed12ToComplex
    <3>3. packed = Pack(real, imag) BY <3>2 DEF IInv, PackedCodes
    <3>4. restored' = [k \in 1..2 |-> 2 * Unpack(packed)[k]]
      BY <2>2 DEF Packed12ToComplex
    <3>5. restored' = <<Component(real), Component(imag)>>
      <4> HIDE DEF real, imag
      <4>1. Unpack(packed) = <<real % 4096, imag % 4096>>
        BY <3>1, <3>3, UnpackPack
      <4> QED BY <3>1, <3>4, <4>1 DEF Component
    <3>6. RestoredCodes' BY <3>2, <3>5 DEF RestoredCodes
    <3>7. PackedCodes' BY <3>2, <3>3 DEF PackedCodes
    <3> QED BY <3>2, <3>6, <3>7 DEF IInv
  <2>3. CASE UNCHANGED pkvars
    BY <2>3 DEF pkvars, IInv, PackedCodes, RestoredCodes
  <2> QED BY <2>1, <2>2, <2>3 DEF Next
<1> QED BY <1>1, <1>2, PTL DEF Spec

(* What is restored is in the range. *)
LEMMA ComponentInRange ==
    ASSUME NEW n \in Int
    PROVE  Component(n) \in Range12
BY DEF Component, Range12

(* Every value is in its range: no byte overflows. *)
THEOREM TypeCorrect == Spec => []TypeOK
<1>1. IInv => TypeOK
  <2> SUFFICES ASSUME IInv PROVE TypeOK OBVIOUS
  <2>1. sample \in Reals \X Imags BY DEF IInv
  <2> DEFINE real == Code(sample[1])
             imag == Code(sample[2])
  <2>2. real \in Int /\ imag \in Int BY <2>1, Components
  <2>3. packed # <<>> => packed = Pack(real, imag) BY DEF IInv, PackedCodes
  <2>4. restored # <<>> => restored = <<Component(real), Component(imag)>>
    BY DEF IInv, RestoredCodes
  <2> HIDE DEF real, imag
  <2>5. packed # <<>> => packed \in Byte \X Byte \X Byte BY <2>2, <2>3, UnpackPack
  <2>6. Component(real) \in Range12 /\ Component(imag) \in Range12
    BY <2>2, ComponentInRange
  <2>7. restored # <<>> => restored \in Range12 \X Range12 BY <2>4, <2>6
  <2> QED BY ONLY <2>1, <2>5, <2>7 DEF TypeOK
<1> QED BY <1>1, Invariant, PTL

(* A code that has lost its bits above the twelfth differs from the        *)
(* component by a multiple of the range, up to the rounding.               *)
LEMMA Wrapped ==
    ASSUME NEW t \in Int, NEW c \in Int, Half(t, c)
    PROVE  ((2 * (c % 4096) - t) + 1) % 8192 \in 0..2
<1>1. PICK q \in Int : c % 4096 = c - 4096 * q
  <2>1. PICK q \in Int : q = c \div 4096 OBVIOUS
  <2>2. c % 4096 = c - 4096 * q BY <2>1
  <2> QED BY <2>2
<1>2. PICK e \in 0..2 : e = (2 * c - t) + 1 BY DEF Half
<1>3. (2 * (c % 4096) - t) + 1 = e - 8192 * q BY <1>1, <1>2
<1>4. (e - 8192 * q) % 8192 = e OBVIOUS
<1> QED BY <1>3, <1>4

(* Unpacking reverses packing: within the range up to the nearest code,    *)
(* above it up to the limit, and below it modulo the range.                *)
THEOREM Reverses == Spec => []NearestOrWrapped
<1>1. IInv => NearestOrWrapped
  <2> SUFFICES ASSUME IInv, restored # <<>>, NEW k \in 1..2
               PROVE  /\ sample[k] > 8190 => restored[k] = 8190
                      /\ sample[k] \in Range12 => restored[k] - sample[k] \in -1..1
                      /\ sample[k] < 0 => ((restored[k] - sample[k]) + 1) % 8192 \in 0..2
    BY DEF NearestOrWrapped
  <2>1. sample \in Reals \X Imags BY DEF IInv
  <2>2. k = 1 \/ k = 2 OBVIOUS
  <2>3. sample[k] \in Int BY <2>1, <2>2, Components
  <2>4. restored[k] = Component(Code(sample[k]))
    BY <2>2 DEF IInv, RestoredCodes
  <2>5. PICK t \in Int : t = sample[k] BY <2>3
  <2>6. PICK c \in Int : c = Code(t) BY CodeNearest
  <2>7. Nearest(t, c) BY <2>6, CodeNearest
  <2>8. restored[k] = 2 * (c % 4096) BY <2>4, <2>5, <2>6 DEF Component
  <2>9. PICK y \in Int : y = restored[k] BY <2>8
  <2>10. t >= 0 => y = 2 * c
    <3>1. t >= 0 => c \in 0..4095 BY <2>7 DEF Nearest, Kept
    <3>2. t >= 0 => (c % 4096) = c BY <3>1, TwelveBits
    <3> QED BY <2>8, <2>9, <3>2
  <2>11. t > 8190 => y = 8190 BY <2>7, <2>10 DEF Nearest, Kept
  <2>12. t <= 8190 => Half(t, c) BY <2>7 DEF Nearest, Close
  <2>13. t \in 0..8190 => y - t \in -1..1 BY <2>10, <2>12 DEF Half
  <2>14. t < 0 => ((y - t) + 1) % 8192 \in 0..2
    <3> SUFFICES ASSUME t < 0 PROVE ((y - t) + 1) % 8192 \in 0..2 OBVIOUS
    <3>1. Half(t, c) BY <2>12
    <3> QED BY <2>8, <2>9, <3>1, Wrapped
  <2> QED BY <2>5, <2>9, <2>11, <2>13, <2>14 DEF Range12
<1> QED BY <1>1, Invariant, PTL

(* Packing again what was unpacked gives the same bytes. *)
THEOREM DoesNotDrift == Spec => []NoDrift
<1>1. IInv => NoDrift
  <2> SUFFICES ASSUME IInv, restored # <<>>
               PROVE  Pack(Code(restored[1]), Code(restored[2])) = packed
    BY DEF NoDrift
  <2>1. sample \in Reals \X Imags BY DEF IInv
  <2> DEFINE real == Code(sample[1])
             imag == Code(sample[2])
  <2>2. real \in Int /\ imag \in Int BY <2>1, Components
  <2>3. packed = Pack(real, imag) BY DEF IInv, PackedCodes
  <2>4. restored = <<Component(real), Component(imag)>>
    BY DEF IInv, RestoredCodes
  <2> HIDE DEF real, imag
  <2>5. \A n \in Int : Code(Component(n)) = n % 4096
    <3> SUFFICES ASSUME NEW n \in Int PROVE Code(Component(n)) = n % 4096
      OBVIOUS
    <3>1. PICK c \in 0..4095 : c = n % 4096 OBVIOUS
    <3>2. PICK t \in 0..8190 : t = 2 * c /\ Even(t)
      <4>1. 2 * c \in 0..8190 /\ ((2 * c) % 2) = 0 OBVIOUS
      <4> QED BY <4>1 DEF Even
    <3>3. PICK d \in Int : d = Code(2 * c) BY <3>2, CodeNearest
    <3>4. Nearest(t, d) BY <3>2, <3>3, CodeNearest
    <3>5. d = c
      <4>1. t <= 8190 /\ Close(t, d) BY <3>2, <3>4 DEF Nearest
      <4>2. Half(t, d) BY <4>1 DEF Close
      <4>3. 2 * d = t BY <3>2, <4>2 DEF Half
      <4> QED BY <3>2, <4>3
    <3> QED BY <3>1, <3>3, <3>5 DEF Component
  <2>6. Pack(real % 4096, imag % 4096) = Pack(real, imag)
    <3>1. \A n \in Int : /\ Bits(n % 4096, 16, 256) = Bits(n, 16, 256)
                         /\ Bits(n % 4096, 1, 16) = Bits(n, 1, 16)
                         /\ Bits(n % 4096, 256, 16) = Bits(n, 256, 16)
                         /\ Bits(n % 4096, 1, 256) = Bits(n, 1, 256)
      BY DEF Bits
    <3> QED BY <2>2, <3>1 DEF Pack
  <2>7. /\ Code(restored[1]) = real % 4096
        /\ Code(restored[2]) = imag % 4096
    BY <2>2, <2>4, <2>5
  <2> QED BY <2>3, <2>6, <2>7
<1> QED BY <1>1, Invariant, PTL

-----------------------------------------------------------------------------
(* The test program. *)

(* A file of f bytes, n times over. *)
Repeated(n, f) == [i \in 1..n * f |-> ((i - 1) % f) + 1]

LEMMA ModOfSum ==
    ASSUME NEW f \in Nat \ {0}, NEW n \in Nat, NEW r \in 0..(f - 1)
    PROVE  (n * f + r) % f = r
<1> DEFINE x == n * f + r
           q == x \div f
           m == x % f
<1>1. x \in Nat /\ x = n * f + r OBVIOUS
<1>2. q \in Int /\ m \in 0..(f - 1) /\ x = f * q + m BY <1>1, SMTT(30)
<1> HIDE DEF x, q, m
<1>3. PICK d \in Int : d = n - q BY <1>2
<1>4. f * d = m - r
  <2>1. f * d = f * n - f * q BY <1>2, <1>3, SMTT(30)
  <2> QED BY <1>1, <1>2, <2>1, SMTT(30)
<1>5. CASE d >= 1
  <2>1. f * d >= f BY <1>5, SMTT(30)
  <2> QED BY <1>2, <1>4, <2>1
<1>6. CASE d <= -1
  <2>1. f * d <= -f BY <1>6, SMTT(30)
  <2> QED BY <1>2, <1>4, <2>1
<1>7. CASE d = 0
  <2>1. f * d = 0 BY <1>7, SMTT(30)
  <2>2. m = r BY <1>2, <1>4, <2>1
  <2> QED BY <2>2 DEF x, m
<1> QED BY <1>3, <1>5, <1>6, <1>7

LEMMA RepeatedIsSeq ==
    ASSUME NEW f \in Nat \ {0}, NEW n \in Nat
    PROVE  /\ Repeated(n, f) \in Seq(Nat) /\ Len(Repeated(n, f)) = n * f
           /\ \A i \in 1..(n * f) : Repeated(n, f)[i] = ((i - 1) % f) + 1
<1>1. n * f \in Nat BY SMTT(30)
<1>2. PICK len \in Nat : len = n * f BY <1>1
<1>3. \A i \in 1..len : ((i - 1) % f) + 1 \in Nat OBVIOUS
<1>4. [i \in 1..len |-> ((i - 1) % f) + 1] \in [1..len -> Nat] BY <1>3
<1>5. Repeated(n, f) = [i \in 1..len |-> ((i - 1) % f) + 1] BY <1>2 DEF Repeated
<1> QED BY <1>2, <1>4, <1>5

(* Once more. *)
LEMMA RepeatedOnce ==
    ASSUME NEW f \in Nat \ {0}, NEW n \in Nat
    PROVE  Repeated(n, f) \o Run(0, f) = Repeated(n + 1, f)
<1> DEFINE s == Repeated(n, f)
           t == Run(0, f)
           u == Repeated(n + 1, f)
<1>1. PICK len \in Nat : len = n * f BY SMTT(30)
<1>2. (n + 1) * f = len + f BY <1>1, SMTT(30)
<1>3. /\ s \in Seq(Nat) /\ Len(s) = len
      /\ \A i \in 1..len : s[i] = ((i - 1) % f) + 1
  BY <1>1, RepeatedIsSeq
<1>4. /\ u \in Seq(Nat) /\ Len(u) = len + f
      /\ \A i \in 1..(len + f) : u[i] = ((i - 1) % f) + 1
  <2>1. n + 1 \in Nat OBVIOUS
  <2> QED BY <1>2, <2>1, RepeatedIsSeq
<1>5. /\ t \in Seq(Nat) /\ Len(t) = f
      /\ \A i \in 1..f : t[i] = i
  <2>1. \A i \in 1..f : t[i] = 0 + i BY RunIsSeq
  <2>2. t \in Seq(Nat) /\ Len(t) = f BY RunIsSeq
  <2> HIDE DEF t
  <2> QED BY <2>1, <2>2
<1> HIDE DEF s, t, u
<1>6. /\ s \o t \in Seq(Nat) /\ Len(s \o t) = len + f
      /\ \A i \in 1..(len + f) : (s \o t)[i] = IF i <= len THEN s[i] ELSE t[i - len]
  <2>1. s \in Seq(Nat) /\ t \in Seq(Nat) BY <1>3, <1>5
  <2>2. /\ s \o t \in Seq(Nat) /\ Len(s \o t) = Len(s) + Len(t)
        /\ \A i \in 1..(Len(s) + Len(t)) :
             (s \o t)[i] = IF i <= Len(s) THEN s[i] ELSE t[i - Len(s)]
    BY <2>1, ConcatProperties
  <2> QED BY <1>3, <1>5, <2>2, Zenon
<1>7. ASSUME NEW i \in 1..(len + f) PROVE (s \o t)[i] = u[i]
  <2>1. CASE i <= len BY <1>3, <1>4, <1>6, <2>1
  <2>2. CASE ~(i <= len)
    <3>1. i - len \in 1..f /\ (s \o t)[i] = t[i - len] BY <1>6, <2>2
    <3>2. t[i - len] = i - len BY <1>5, <3>1
    <3>3. PICK r \in 0..(f - 1) : r = i - len - 1 BY <3>1
    <3>4. i - 1 = n * f + r BY <1>1, <3>3
    <3>5. (i - 1) % f = r BY <3>4, ModOfSum
    <3>6. u[i] = r + 1 BY <1>4, <3>5
    <3> QED BY <3>1, <3>2, <3>3, <3>6
  <2> QED BY <2>1, <2>2
<1>8. s \o t = u BY <1>4, <1>6, <1>7, SeqEqual
<1> QED BY <1>8 DEF s, t, u

-----------------------------------------------------------------------------
TestTypes ==
    /\ pc \in {"time", "read", "exit", "compress", "decompress", "done"}
    /\ calls \in Nat /\ fileSize \in Nat
    /\ localWriteBufferSize \in Nat /\ localWriteBufferNextIndex \in Nat
    /\ compressedBufferSize \in Nat /\ compressedBufferAlloc \in Nat
    /\ compressedSize \in Nat /\ decompressBufferSize \in Nat /\ errors \in Nat
    /\ localWriteBuffer \in Seq(Nat) /\ compressedBuffer \in Seq(Bytes)
    /\ byteQueue \in Seq(Nat)

(* Before the file is read nothing has been collected or noted, and before *)
(* it is compressed nothing has been decompressed; the index counts what   *)
(* waits.                                                                  *)
IdleInv ==
    /\ pc \in {"time", "read", "exit"} =>
         calls = 0 /\ localWriteBuffer = <<>> /\ compressedSize = 0
    /\ pc \notin {"decompress", "done"} => errors = 0 /\ byteQueue = <<>>
    /\ pc # "done" => localWriteBufferNextIndex = Len(localWriteBuffer)

(* What has been noted is one file of a block or more, or more than one    *)
(* smaller file, or nothing.                                               *)
FrameInv ==
    pc \in {"compress", "decompress"} =>
      IF fileSize >= BlockSize
      THEN /\ localWriteBuffer = <<>>
           /\ pc = "decompress" \/ calls > 0 =>
                compressedSize > 0 /\ compressedBuffer = Frame(File, compressedSize)
      ELSE \/ compressedSize = 0
           \/ \E content \in Seq(Nat) :
                Len(content) > fileSize /\ compressedBuffer = Frame(content, compressedSize)

TestInv == TestTypes /\ BuffersHold /\ IdleInv /\ FrameInv /\ RoundTrip

(* The noted bytes decompress to the file if it is of a block or more, and *)
(* to nothing otherwise.                                                   *)
LEMMA NotedFile ==
    ASSUME TestTypes, FrameInv, pc = "decompress", TestProgramAssumption
    PROVE  Decompress(fileSize, Copied) = IF fileSize >= BlockSize THEN File ELSE <<>>
<1>1. ASSUME NEW content, compressedBuffer = Frame(content, compressedSize)
      PROVE  Copied = Frame(content, compressedSize) /\ Len(Copied) = compressedSize
  <2>1. Len(compressedBuffer) = compressedSize BY <1>1 DEF Frame, TestTypes
  <2>2. compressedBuffer \in Seq(Bytes) BY DEF TestTypes
  <2> QED BY <1>1, <2>1, <2>2, SubSeqFull DEF Copied
<1>2. CASE fileSize >= BlockSize
  <2>1. compressedSize \in Nat \ {0} /\ compressedBuffer = Frame(File, compressedSize)
    BY <1>2 DEF FrameInv, TestTypes
  <2>2. File \in Seq(Nat) /\ Len(File) = fileSize BY RunIsSeq DEF File, TestTypes
  <2>3. Copied = Frame(File, compressedSize) BY <1>1, <2>1
  <2> QED BY <1>2, <2>1, <2>2, <2>3, DecompressFrame
<1>3. CASE ~(fileSize >= BlockSize)
  <2>1. CASE compressedSize = 0
    <3>1. Copied = <<>> BY <2>1 DEF Copied, TestTypes
    <3>2. ~IsFrame(Copied) BY <3>1 DEF IsFrame
    <3> QED BY <1>3, <3>2 DEF Decompress
  <2>2. CASE compressedSize # 0
    <3>1. PICK content \in Seq(Nat) :
            Len(content) > fileSize /\ compressedBuffer = Frame(content, compressedSize)
      BY <1>3, <2>2 DEF FrameInv
    <3>2. Copied = Frame(content, compressedSize) BY <1>1, <3>1
    <3>3. 1 \in 1..compressedSize BY <2>2 DEF TestTypes
    <3>4. Copied[1].of = content BY <3>2, <3>3 DEF Frame
    <3>5. ~(Len(content) <= fileSize) BY <3>1 DEF TestTypes
    <3> QED BY <1>3, <3>4, <3>5 DEF Decompress
  <2> QED BY <2>1, <2>2
<1> QED BY <1>2, <1>3

(* A call of a block that finds its buffers sound leaves them so. *)
Sized ==
    /\ compressedBufferAlloc >= compressedBufferSize
    /\ localWriteBufferSize >= localWriteBufferNextIndex
    /\ localWriteBufferNextIndex = Len(localWriteBuffer)

LEMMA BlockIsSafe ==
    ASSUME ZStdAssumption, TestTypes, Sized, NEW q \in Nat, NEW csize \in 1..CompressBound(q)
    PROVE  /\ C!AppendSafe(q) /\ C!CompressSafe(q, csize)
           /\ C!RoomFor(q) \in Nat /\ C!RoomFor(q) >= q
           /\ C!RoomFor(q) >= localWriteBufferSize
           /\ C!TargetSize(q) \in Nat /\ C!TargetAlloc(q) \in Nat
           /\ C!TargetAlloc(q) >= C!TargetSize(q) /\ csize <= C!TargetAlloc(q)
<1>1. Overhead \in Nat /\ C!HeaderRoom = 0 BY DEF ZStdAssumption, C!HeaderRoom
<1>2. CompressBound(q) = q + Overhead /\ csize \in Nat /\ csize <= q + Overhead
  BY <1>1 DEF CompressBound
<1>3. C!RoomFor(q) = IF q > localWriteBufferSize THEN q ELSE localWriteBufferSize
  BY DEF C!RoomFor
<1>4. C!TargetSize(q) = IF q + Overhead > compressedBufferSize
                        THEN q + Overhead ELSE compressedBufferSize
  BY <1>2 DEF C!TargetSize, C!CompressBound, CompressBound
<1>5. C!TargetAlloc(q) = IF q + Overhead > compressedBufferSize
                         THEN q + Overhead ELSE compressedBufferAlloc
  BY <1>1, <1>2 DEF C!TargetAlloc, C!CompressBound, CompressBound
<1>6. /\ localWriteBufferSize \in Nat /\ compressedBufferSize \in Nat
      /\ compressedBufferAlloc \in Nat /\ localWriteBufferNextIndex \in Nat
      /\ localWriteBufferNextIndex = Len(localWriteBuffer)
      /\ compressedBufferAlloc >= compressedBufferSize
  BY DEF TestTypes, Sized
<1>7. C!RoomFor(q) \in Nat /\ C!RoomFor(q) >= q /\ C!RoomFor(q) >= localWriteBufferSize
  BY <1>3, <1>6
<1>8. /\ C!TargetSize(q) \in Nat /\ C!TargetAlloc(q) \in Nat
      /\ C!TargetAlloc(q) >= C!TargetSize(q)
      /\ csize <= C!TargetSize(q) /\ csize <= C!TargetAlloc(q)
  BY <1>1, <1>2, <1>4, <1>5, <1>6
<1>9. C!AppendSafe(q) BY <1>6, <1>7 DEF C!AppendSafe
<1>10. C!CompressSafe(q, csize) BY <1>1, <1>2, <1>8 DEF C!CompressSafe
<1> QED BY <1>7, <1>8, <1>9, <1>10

LEMMA TestInitEstablishes ==
    ASSUME TestProgramAssumption, TestInit
    PROVE  TestInv
<1>1. /\ pc = "time" /\ calls = 0 /\ fileSize = 0 /\ faulted = FALSE
      /\ compressedBuffer = <<>> /\ compressedSize = 0 /\ errors = 0 /\ byteQueue = <<>>
      /\ localWriteBuffer = <<>> /\ localWriteBufferSize = BlockSize
      /\ localWriteBufferNextIndex = 0 /\ compressedBufferSize = BlockSize
      /\ compressedBufferAlloc = BlockSize /\ decompressBufferSize = BufferSize
      /\ BlockSize \in Nat /\ BufferSize \in Nat
  BY DEF TestInit, C!Init, D!Init, C!HeaderRoom, TestProgramAssumption
<1>2. Len(<<>>) = 0 /\ <<>> \in Seq(Nat) /\ <<>> \in Seq(Bytes) BY EmptySeq
<1> QED BY <1>1, <1>2 DEF TestInv, TestTypes, BuffersHold, IdleInv, FrameInv, RoundTrip

LEMMA Time ==
    ASSUME ZStdAssumption, TestProgramAssumption, TestInv, TimeCompression
    PROVE  TestInv'
<1>1. /\ pc = "time" /\ pc' = "read"
      /\ UNCHANGED <<calls, fileSize, localWriteBuffer, localWriteBufferNextIndex,
                     compressedSize, decompressBufferSize, byteQueue, errors>>
  BY DEF TimeCompression, decompressor
<1>2. TestTypes /\ Sized /\ ~faulted /\ QueueSize \in Nat
  BY <1>1 DEF TestInv, BuffersHold, IdleInv, Sized, TestProgramAssumption
<1>3. PICK csize \in 1..CompressBound(QueueSize) :
        /\ faulted' = ~C!CompressSafe(QueueSize, csize)
        /\ compressedBuffer' = Frame(Uninitialised(QueueSize), csize)
        /\ localWriteBufferSize' = C!RoomFor(QueueSize)
        /\ compressedBufferSize' = C!TargetSize(QueueSize)
        /\ compressedBufferAlloc' = C!TargetAlloc(QueueSize)
  BY DEF TimeCompression
<1>4. /\ C!CompressSafe(QueueSize, csize)
      /\ localWriteBufferSize' \in Nat /\ localWriteBufferSize' >= localWriteBufferSize
      /\ compressedBufferSize' \in Nat /\ compressedBufferAlloc' \in Nat
      /\ compressedBufferAlloc' >= compressedBufferSize' /\ csize <= compressedBufferAlloc'
  BY <1>2, <1>3, BlockIsSafe
<1>5. compressedBuffer' \in Seq(Bytes) /\ Len(compressedBuffer') = csize /\ csize \in Nat
  <2>1. Uninitialised(QueueSize) \in Seq(Nat) BY <1>2 DEF Uninitialised
  <2> QED BY <1>3, <2>1, FrameType
<1>6. ~faulted' BY <1>3, <1>4
<1>7. compressedSize = 0 /\ calls = 0 /\ localWriteBuffer = <<>> /\ errors = 0 /\ byteQueue = <<>>
  BY <1>1 DEF TestInv, IdleInv
<1>8. TestTypes' BY <1>1, <1>2, <1>4, <1>5 DEF TestTypes
<1>9. BuffersHold'
  BY <1>1, <1>2, <1>4, <1>5, <1>6, <1>7 DEF BuffersHold, TestTypes, TestInv
<1>10. IdleInv' BY <1>1, <1>7 DEF TestInv, IdleInv
<1> QED BY <1>1, <1>8, <1>9, <1>10 DEF TestInv, FrameInv, RoundTrip

(* The file is read, or is not. *)
LEMMA Read ==
    ASSUME TestProgramAssumption, TestInv, ReadFile \/ NoFile
    PROVE  TestInv'
<1>1. /\ pc = "read" /\ pc' \in {"compress", "exit"} /\ fileSize' \in Nat
      /\ UNCHANGED <<calls, faulted, localWriteBuffer, localWriteBufferSize,
                     localWriteBufferNextIndex, compressedBufferSize, compressedBufferAlloc,
                     compressedBuffer, compressedSize, decompressBufferSize, byteQueue, errors>>
  BY DEF ReadFile, NoFile, compressor, decompressor, TestInv, TestTypes, TestProgramAssumption
<1>2. calls = 0 /\ localWriteBuffer = <<>> /\ compressedSize = 0 /\ errors = 0 /\ byteQueue = <<>>
  BY <1>1 DEF TestInv, IdleInv
<1>3. TestTypes' BY <1>1 DEF TestInv, TestTypes
<1>4. BuffersHold' BY <1>1 DEF TestInv, BuffersHold
<1>5. IdleInv' BY <1>1, <1>2 DEF TestInv, IdleInv
<1>6. FrameInv' BY <1>1, <1>2 DEF FrameInv
<1> QED BY <1>1, <1>3, <1>4, <1>5, <1>6 DEF TestInv, RoundTrip

LEMMA Collect ==
    ASSUME ZStdAssumption, TestProgramAssumption, TestInv, TestCollect
    PROVE  TestInv'
<1> DEFINE q == localWriteBufferNextIndex + fileSize
<1>1. /\ pc = "compress" /\ ~(q >= BlockSize)
      /\ faulted' = (faulted \/ ~C!AppendSafe(q))
      /\ calls' = calls + 1
      /\ localWriteBuffer' = localWriteBuffer \o File
      /\ localWriteBufferSize' = C!RoomFor(q)
      /\ localWriteBufferNextIndex' = q
      /\ UNCHANGED <<pc, fileSize, compressedBufferSize, compressedBufferAlloc,
                     compressedBuffer, compressedSize, decompressBufferSize, byteQueue, errors>>
  BY DEF TestCollect, Waiting, C!BlockReady, decompressor
<1>2. TestTypes /\ Sized /\ ~faulted /\ BlockSize \in Nat
  BY <1>1 DEF TestInv, BuffersHold, IdleInv, Sized, TestProgramAssumption
<1>3. q \in Nat /\ q >= fileSize BY <1>2 DEF TestTypes
<1>4. 1 \in 1..CompressBound(q) BY <1>3 DEF CompressBound, ZStdAssumption
<1> HIDE DEF q
<1>5. /\ C!AppendSafe(q) /\ localWriteBufferSize' \in Nat /\ localWriteBufferSize' >= q
  BY <1>1, <1>2, <1>3, <1>4, BlockIsSafe
<1>6. ~faulted' BY <1>1, <1>2, <1>5
<1>7. File \in Seq(Nat) /\ Len(File) = fileSize BY <1>2, RunIsSeq DEF File, TestTypes
<1>8. /\ localWriteBuffer' \in Seq(Nat)
      /\ Len(localWriteBuffer') = q
  <2>1. localWriteBuffer \in Seq(Nat) /\ localWriteBufferNextIndex = Len(localWriteBuffer)
    BY <1>2 DEF TestTypes, Sized
  <2>2. /\ localWriteBuffer \o File \in Seq(Nat)
        /\ Len(localWriteBuffer \o File) = Len(localWriteBuffer) + Len(File)
    BY <1>7, <2>1, ConcatProperties
  <2> QED BY <1>1, <1>7, <2>1, <2>2 DEF q
<1>9. fileSize \in Nat /\ ~(fileSize >= BlockSize) BY <1>1, <1>2, <1>3 DEF TestTypes
<1>10. TestTypes' BY <1>1, <1>2, <1>3, <1>5, <1>8 DEF TestTypes
<1>11. BuffersHold' BY <1>1, <1>5, <1>6 DEF BuffersHold, TestInv
<1>12. IdleInv' BY <1>1, <1>8 DEF IdleInv, TestInv
<1>13. FrameInv' BY <1>1, <1>9 DEF FrameInv, TestInv
<1> QED BY <1>1, <1>10, <1>11, <1>12, <1>13 DEF TestInv, RoundTrip

(* A smaller file is collected until there is a block of it, a larger one  *)
(* is compressed alone.                                                    *)
LEMMA Compressed ==
    ASSUME ZStdAssumption, TestProgramAssumption, TestInv, TestCompress
    PROVE  TestInv'
<1> DEFINE q == localWriteBufferNextIndex + fileSize
           content == localWriteBuffer \o File
<1>1. /\ pc = "compress" /\ q >= BlockSize
      /\ calls' = calls + 1
      /\ localWriteBuffer' = <<>> /\ localWriteBufferNextIndex' = 0
      /\ localWriteBufferSize' = C!RoomFor(q)
      /\ compressedBufferSize' = C!TargetSize(q)
      /\ compressedBufferAlloc' = C!TargetAlloc(q)
      /\ UNCHANGED <<pc, fileSize, decompressBufferSize, byteQueue, errors>>
  BY DEF TestCompress, Waiting, C!BlockReady, decompressor
<1>2. PICK csize \in 1..CompressBound(q) :
        /\ faulted' = (faulted \/ ~C!AppendSafe(q) \/ ~C!CompressSafe(q, csize))
        /\ compressedBuffer' = Frame(content, csize) /\ compressedSize' = csize
  BY DEF TestCompress, Noted, C!BlockReady
<1>3. TestTypes /\ Sized /\ ~faulted /\ BlockSize \in Nat
  BY <1>1 DEF TestInv, BuffersHold, IdleInv, Sized, TestProgramAssumption
<1>4. q \in Nat BY <1>3 DEF TestTypes
<1>5. File \in Seq(Nat) /\ Len(File) = fileSize BY <1>3, RunIsSeq DEF File, TestTypes
<1>6. content \in Seq(Nat) /\ Len(content) = q
  <2>1. localWriteBuffer \in Seq(Nat) /\ localWriteBufferNextIndex = Len(localWriteBuffer)
    BY <1>3 DEF TestTypes, Sized
  <2>2. /\ localWriteBuffer \o File \in Seq(Nat)
        /\ Len(localWriteBuffer \o File) = Len(localWriteBuffer) + Len(File)
    BY <1>5, <2>1, ConcatProperties
  <2> QED BY <1>5, <2>1, <2>2
<1>7. fileSize >= BlockSize => content = File
  <2>1. fileSize >= BlockSize => localWriteBuffer = <<>> BY <1>1 DEF TestInv, FrameInv
  <2> QED BY <1>5, <2>1, ConcatEmptySeq
<1> HIDE DEF q, content
<1>8. /\ C!AppendSafe(q) /\ C!CompressSafe(q, csize)
      /\ localWriteBufferSize' \in Nat /\ compressedBufferSize' \in Nat
      /\ compressedBufferAlloc' \in Nat
      /\ compressedBufferAlloc' >= compressedBufferSize' /\ csize <= compressedBufferAlloc'
  BY <1>1, <1>3, <1>4, BlockIsSafe
<1>9. ~faulted' BY <1>2, <1>3, <1>8
<1>10. compressedBuffer' \in Seq(Bytes) /\ Len(compressedBuffer') = csize /\ csize \in Nat \ {0}
  BY <1>2, <1>4, <1>6, FrameType
<1>11. TestTypes' BY <1>1, <1>2, <1>3, <1>8, <1>10, EmptySeq DEF TestTypes
<1>12. BuffersHold' BY <1>1, <1>2, <1>8, <1>9, <1>10 DEF BuffersHold
<1>13. IdleInv' BY <1>1, EmptySeq DEF IdleInv, TestInv
<1>14. FrameInv'
  <2>1. CASE fileSize >= BlockSize
    <3>1. compressedBuffer' = Frame(File', compressedSize')
      BY <1>1, <1>2, <1>7, <2>1 DEF File
    <3> QED BY <1>1, <1>2, <1>10, <2>1, <3>1 DEF FrameInv
  <2>2. CASE ~(fileSize >= BlockSize)
    <3>1. Len(content) > fileSize BY <1>1, <1>3, <1>4, <1>6, <2>2 DEF TestTypes
    <3> QED BY <1>1, <1>2, <1>6, <2>2, <3>1 DEF FrameInv
  <2> QED BY <2>1, <2>2
<1> QED BY <1>1, <1>11, <1>12, <1>13, <1>14 DEF TestInv, RoundTrip

LEMMA Turned ==
    ASSUME TestProgramAssumption, TestInv, Turn
    PROVE  TestInv'
<1>1. /\ pc = "compress" /\ pc' = "decompress" /\ calls > Iterations /\ calls' = 0
      /\ UNCHANGED <<fileSize, faulted, localWriteBuffer, localWriteBufferSize,
                     localWriteBufferNextIndex, compressedBufferSize, compressedBufferAlloc,
                     compressedBuffer, compressedSize, decompressBufferSize, byteQueue, errors>>
  BY DEF Turn, compressor, decompressor
<1>2. calls > 0 BY <1>1 DEF TestInv, TestTypes, TestProgramAssumption
<1>3. errors = 0 /\ byteQueue = <<>> BY <1>1 DEF TestInv, IdleInv
<1>4. TestTypes' BY <1>1 DEF TestInv, TestTypes
<1>5. BuffersHold' BY <1>1 DEF TestInv, BuffersHold
<1>6. IdleInv' BY <1>1 DEF TestInv, IdleInv
<1>7. FrameInv'
  <2>1. File' = File BY <1>1 DEF File
  <2> QED BY <1>1, <1>2, <2>1 DEF TestInv, FrameInv
<1>8. RoundTrip'
  <2>1. fileSize \in Nat BY DEF TestInv, TestTypes
  <2>2. 0 * fileSize = 0 BY <2>1
  <2>3. [i \in 1..0 |-> ((i - 1) % fileSize) + 1] = <<>> OBVIOUS
  <2> QED BY <1>1, <1>3, <2>2, <2>3 DEF RoundTrip
<1> QED BY <1>4, <1>5, <1>6, <1>7, <1>8 DEF TestInv

LEMMA Decompressed ==
    ASSUME TestProgramAssumption, TestInv, TestDecompress
    PROVE  TestInv'
<1> DEFINE given == Decompress(fileSize, Copied)
           room == D!BufferFor([uncompressedsize |-> fileSize])
<1>1. /\ pc = "decompress" /\ calls' = calls + 1 /\ decompressBufferSize' = room
      /\ faulted' = (faulted \/ Len(given) > room)
      /\ byteQueue' = byteQueue \o given
      /\ errors' = IF given = <<>> THEN errors + 1 ELSE errors
      /\ UNCHANGED <<pc, fileSize, localWriteBuffer, localWriteBufferSize,
                     localWriteBufferNextIndex, compressedBufferSize, compressedBufferAlloc,
                     compressedBuffer, compressedSize>>
  BY DEF TestDecompress, compressor
<1>2. TestTypes /\ FrameInv /\ ~faulted /\ RoundTrip BY DEF TestInv, BuffersHold
<1>3. fileSize \in Nat /\ decompressBufferSize \in Nat /\ calls \in Nat /\ errors \in Nat
      /\ byteQueue \in Seq(Nat) /\ BlockSize \in Nat \ {0}
  BY <1>2 DEF TestTypes, TestProgramAssumption
<1>4. given = IF fileSize >= BlockSize THEN File ELSE <<>> BY <1>1, <1>2, NotedFile
<1>5. room \in Nat /\ room >= fileSize BY <1>3 DEF D!BufferFor
<1>6. File \in Seq(Nat) /\ Len(File) = fileSize BY <1>3, RunIsSeq DEF File
<1> HIDE DEF given, room
<1>7. given \in Seq(Nat) /\ Len(given) <= fileSize BY <1>3, <1>4, <1>6, EmptySeq
<1>8. ~faulted'
  <2>1. Len(given) \in Nat BY <1>7
  <2>2. ~(Len(given) > room) BY <1>3, <1>5, <1>7, <2>1
  <2> QED BY <1>1, <1>2, <2>2, Zenon
<1>9. byteQueue' \in Seq(Nat) BY <1>1, <1>3, <1>7, ConcatProperties
<1>10. TestTypes' BY <1>1, <1>2, <1>3, <1>5, <1>9 DEF TestTypes
<1>11. BuffersHold' BY <1>1, <1>8 DEF TestInv, BuffersHold
<1>12. IdleInv' BY <1>1 DEF TestInv, IdleInv
<1>13. FrameInv'
  <2>1. File' = File BY <1>1 DEF File
  <2> QED BY <1>1, <1>2, <2>1 DEF FrameInv
<1>14. RoundTrip'
  <2>1. CASE fileSize >= BlockSize
    <3>1. errors = 0 /\ byteQueue = Repeated(calls, fileSize)
      BY <1>1, <1>2, <2>1 DEF RoundTrip, Repeated
    <3>2. fileSize \in Nat \ {0} BY <1>3, <2>1
    <3>3. Repeated(calls, fileSize) \o Run(0, fileSize) = Repeated(calls + 1, fileSize)
      BY <1>3, <3>2, RepeatedOnce
    <3>4. byteQueue' = Repeated(calls', fileSize')
      BY <1>1, <1>4, <2>1, <3>1, <3>3, Zenon DEF File
    <3>5. given # <<>> BY <1>4, <1>6, <2>1, <3>2
    <3>6. errors' = 0 BY <1>1, <3>1, <3>5
    <3> QED BY <1>1, <2>1, <3>4, <3>6, Zenon DEF RoundTrip, Repeated
  <2>2. CASE ~(fileSize >= BlockSize)
    <3>1. errors = calls /\ byteQueue = <<>> BY <1>1, <1>2, <2>2 DEF RoundTrip
    <3>2. given = <<>> BY <1>4, <2>2
    <3>3. byteQueue' = <<>> BY <1>1, <3>1, <3>2, ConcatEmptySeq
    <3> QED BY <1>1, <2>2, <3>1, <3>2, <3>3 DEF RoundTrip
  <2> QED BY <2>1, <2>2
<1> QED BY <1>10, <1>11, <1>12, <1>13, <1>14 DEF TestInv

LEMMA Deleted ==
    ASSUME TestInv, Delete
    PROVE  TestInv'
<1>1. /\ pc = "decompress" /\ pc' = "done"
      /\ localWriteBuffer' = <<>> /\ compressedBuffer' = <<>>
      /\ localWriteBufferSize' = 0 /\ compressedBufferSize' = 0
      /\ compressedBufferAlloc' = 0 /\ decompressBufferSize' = 0
      /\ UNCHANGED <<calls, fileSize, faulted, localWriteBufferNextIndex,
                     compressedSize, byteQueue, errors>>
  BY DEF Delete
<1>2. TestTypes' BY <1>1, EmptySeq DEF TestInv, TestTypes
<1> QED BY <1>1, <1>2 DEF TestInv, BuffersHold, IdleInv, FrameInv, RoundTrip

LEMMA TestInvariant == TestSpec => []TestInv
<1> USE TestProgramAssumption, ZStdAssumption
<1>1. TestInit => TestInv BY TestInitEstablishes
<1>2. TestInv /\ [TestNext]_tvars => TestInv'
  <2> SUFFICES ASSUME TestInv, [TestNext]_tvars PROVE TestInv' OBVIOUS
  <2>1. CASE TimeCompression BY <2>1, Time
  <2>2. CASE ReadFile \/ NoFile BY <2>2, Read
  <2>3. CASE TestCollect BY <2>3, Collect
  <2>4. CASE TestCompress BY <2>4, Compressed
  <2>5. CASE Turn BY <2>5, Turned
  <2>6. CASE TestDecompress BY <2>6, Decompressed
  <2>7. CASE Delete BY <2>7, Deleted
  <2>8. CASE UNCHANGED tvars
    BY <2>8 DEF tvars, compressor, decompressor, TestInv, TestTypes, BuffersHold, IdleInv,
       FrameInv, RoundTrip, File
  <2> QED BY <2>1, <2>2, <2>3, <2>4, <2>5, <2>6, <2>7, <2>8 DEF TestNext
<1> QED BY <1>1, <1>2, PTL DEF TestSpec

(***************************************************************************)
(* The one compress block, timed and then fed files of any size, and the   *)
(* decompress block never leave their buffers, and the copy of the frame   *)
(* lies in what was written.                                               *)
(***************************************************************************)
THEOREM BuffersAlwaysHold == TestSpec => []BuffersHold
<1>1. TestInv => BuffersHold BY DEF TestInv
<1> QED BY <1>1, TestInvariant, PTL

(***************************************************************************)
(* A file of a block or more comes back whole from every decompression, a  *)
(* smaller one never, for every size of block and file and any number of   *)
(* calls.                                                                  *)
(***************************************************************************)
THEOREM FileComesBack == TestSpec => []RoundTrip
<1>1. TestInv => RoundTrip BY DEF TestInv
<1> QED BY <1>1, TestInvariant, PTL

-----------------------------------------------------------------------------
(* The bindings. *)

(***************************************************************************)
(* The inductive invariant: a binding that is wanted automatic says so in  *)
(* words that header_utils.py understands, no hash is of a later header,   *)
(* and the hash of this one stands beside code for this one, or somebody   *)
(* has noted it by hand.                                                   *)
(***************************************************************************)
Comment == binding.comment

HeaderInv  == header \in 1..MaxVersion
BindingInv == DOMAIN binding = {"comment", "code"} /\ binding.code \in 1..header
NameInv    == "HEADER_FILE" \in DOMAIN Comment => Comment["HEADER_FILE"] = "enc.h"
WantedInv  == wanted => /\ B!IsOne(Comment, "GEN_AUTOMATIC")
                        /\ "HEADER_FILE" \in DOMAIN Comment
HashInv    == "HEADER_FILE_HASH" \in DOMAIN Comment =>
                /\ Comment["HEADER_FILE_HASH"] \in 1..header
                /\ ~silenced /\ Comment["HEADER_FILE_HASH"] = header => binding.code = header

FreshInv == HeaderInv /\ BindingInv /\ NameInv /\ WantedInv /\ HashInv

(***************************************************************************)
(* What bindtool writes satisfies the invariant, silenced or not.          *)
(***************************************************************************)
LEMMA Generated ==
    ASSUME NEW automatic, NEW pygccxml,
           HeaderInv, MaxVersion \in Nat,
           binding' = B!gen_file_binding("enc.h", automatic, pygccxml),
           header' = header, wanted' => automatic
    PROVE  FreshInv'
<1> DEFINE new == B!gen_file_binding("enc.h", automatic, pygccxml)
<1>1. /\ DOMAIN new = {"comment", "code"} /\ new.code = header
      /\ DOMAIN new.comment = {"GEN_AUTOMATIC", "USE_PYGCCXML", "HEADER_FILE",
                               "HEADER_FILE_HASH"}
      /\ new.comment["HEADER_FILE"] = "enc.h"
      /\ new.comment["HEADER_FILE_HASH"] = header
      /\ automatic => new.comment["GEN_AUTOMATIC"] = "1"
  BY DEF B!gen_file_binding
<1>2. binding' = new OBVIOUS
<1> HIDE DEF new
<1>3. header \in 1..header BY DEF HeaderInv
<1> QED
  BY <1>1, <1>2, <1>3 DEF FreshInv, HeaderInv, BindingInv, NameInv, WantedInv, HashInv,
     Comment, B!IsOne

LEMMA BindingsInitEstablishes ==
    ASSUME MaxVersion \in Nat \ {0}, B!Init
    PROVE  FreshInv
<1> PICK automatic \in BOOLEAN, pygccxml \in BOOLEAN :
      binding = B!gen_file_binding("enc.h", automatic, pygccxml) /\ wanted = automatic
  BY DEF B!Init
<1> DEFINE new == B!gen_file_binding("enc.h", automatic, pygccxml)
<1>1. /\ DOMAIN new = {"comment", "code"} /\ new.code = header
      /\ DOMAIN new.comment = {"GEN_AUTOMATIC", "USE_PYGCCXML", "HEADER_FILE",
                               "HEADER_FILE_HASH"}
      /\ new.comment["HEADER_FILE"] = "enc.h"
      /\ new.comment["HEADER_FILE_HASH"] = header
      /\ automatic => new.comment["GEN_AUTOMATIC"] = "1"
  BY DEF B!gen_file_binding
<1>2. binding = new OBVIOUS
<1> HIDE DEF new
<1>3. header \in 1..MaxVersion /\ header \in 1..header BY DEF B!Init
<1> QED
  BY <1>1, <1>2, <1>3 DEF FreshInv, HeaderInv, BindingInv, NameInv, WantedInv, HashInv,
     Comment, B!IsOne

(***************************************************************************)
(* What the flags are, by the invariant.                                   *)
(***************************************************************************)
LEMMA FlagsOfWanted ==
    ASSUME FreshInv, wanted
    PROVE  LET flags == B!get_flags(binding.comment)
           IN  flags.automatic = "True" /\ flags.filename = "enc.h"
<1>1. B!get_flag_automatic(binding.comment) /\ B!get_header_filename(binding.comment) = "enc.h"
  BY DEF FreshInv, WantedInv, NameInv, Comment, B!get_flag_automatic, B!get_header_filename
<1> QED BY <1>1 DEF B!get_flags, B!Shown

LEMMA FlagsNamed ==
    ASSUME FreshInv, B!get_flags(binding.comment).filename # "None"
    PROVE  B!get_flags(binding.comment).filename = "enc.h"
BY DEF FreshInv, NameInv, Comment, B!get_flags, B!get_header_filename

LEMMA FlagsHash ==
    ASSUME FreshInv, MaxVersion \in Nat, B!get_flags(binding.comment).hash = header
    PROVE  "HEADER_FILE_HASH" \in DOMAIN Comment /\ Comment["HEADER_FILE_HASH"] = header
<1>1. header # B!Failed BY DEF FreshInv, HeaderInv, B!Failed
<1>2. B!get_header_file_hash(binding.comment) = header BY DEF B!get_flags
<1> QED BY <1>1, <1>2 DEF B!get_header_file_hash, Comment

(***************************************************************************)
(* Every step keeps the invariant.                                         *)
(***************************************************************************)
LEMMA BindingsStepPreserves ==
    ASSUME MaxVersion \in Nat \ {0}, FreshInv, [B!Next]_(B!vars)
    PROVE  FreshInv'
<1>1. CASE B!EditHeader
  <2>1. header' = header + 1 /\ header' \in 1..MaxVersion /\ binding' = binding
    BY <1>1 DEF B!EditHeader, FreshInv, HeaderInv
  <2>2. binding.code \in 1..header' BY <2>1 DEF FreshInv, BindingInv, HeaderInv
  <2>3. ASSUME "HEADER_FILE_HASH" \in DOMAIN Comment
        PROVE  Comment["HEADER_FILE_HASH"] \in 1..header' /\ Comment["HEADER_FILE_HASH"] # header'
    BY <2>1, <2>3 DEF FreshInv, HashInv, HeaderInv
  <2>4. wanted' = wanted BY <1>1 DEF B!EditHeader
  <2> QED BY <2>1, <2>2, <2>3, <2>4
          DEF FreshInv, HeaderInv, BindingInv, NameInv, WantedInv, HashInv, Comment
<1>2. CASE B!EditCode
  <2>1. /\ DOMAIN binding' = {"comment", "code"} /\ binding'.comment = binding.comment
        /\ binding'.code = header
    BY <1>2 DEF B!EditCode, FreshInv, BindingInv
  <2>2. header' = header /\ wanted' = wanted /\ header \in 1..header
    BY <1>2 DEF B!EditCode, FreshInv, HeaderInv
  <2> QED BY <2>1, <2>2
          DEF FreshInv, HeaderInv, BindingInv, NameInv, WantedInv, HashInv, Comment
<1>3. CASE B!EditHash
  <2>1. /\ DOMAIN binding' = {"comment", "code"} /\ binding'.code = binding.code
        /\ binding'.comment = [Comment EXCEPT !["HEADER_FILE_HASH"] = header]
    BY <1>3 DEF B!EditHash, FreshInv, BindingInv, Comment
  <2>2. /\ header' = header /\ wanted' = wanted /\ header \in 1..header
        /\ silenced' = (binding.code # header)
    BY <1>3 DEF B!EditHash, FreshInv, HeaderInv
  <2>3. /\ DOMAIN Comment' = DOMAIN Comment
        /\ "HEADER_FILE_HASH" \in DOMAIN Comment => Comment'["HEADER_FILE_HASH"] = header
        /\ \A tag \in DOMAIN Comment \ {"HEADER_FILE_HASH"} : Comment'[tag] = Comment[tag]
    BY <2>1 DEF Comment
  <2>4. B!IsOne(Comment, "GEN_AUTOMATIC") => B!IsOne(Comment', "GEN_AUTOMATIC")
    BY <2>3 DEF B!IsOne
  <2>5. NameInv' BY <2>3 DEF FreshInv, NameInv
  <2>6. WantedInv' BY <2>2, <2>3, <2>4 DEF FreshInv, WantedInv
  <2>7. HashInv' BY <2>1, <2>2, <2>3 DEF HashInv
  <2> QED BY <2>1, <2>2, <2>5, <2>6, <2>7 DEF FreshInv, HeaderInv, BindingInv
<1>4. CASE B!EditFlag
  <2>1. PICK tag \in {"GEN_AUTOMATIC", "USE_PYGCCXML"} \cap DOMAIN Comment, v \in Values :
          /\ binding' = [binding EXCEPT !.comment[tag] = v]
          /\ wanted' = IF tag = "GEN_AUTOMATIC"
                       THEN v = "1" /\ "HEADER_FILE" \in DOMAIN Comment ELSE wanted
    BY <1>4 DEF B!EditFlag, Comment
  <2>2. /\ DOMAIN binding' = {"comment", "code"} /\ binding'.code = binding.code
        /\ Comment' = [Comment EXCEPT ![tag] = v]
    BY <2>1 DEF FreshInv, BindingInv, Comment
  <2>3. /\ DOMAIN Comment' = DOMAIN Comment /\ Comment'[tag] = v
        /\ \A t \in DOMAIN Comment \ {tag} : Comment'[t] = Comment[t]
    BY <2>2
  <2>4. header' = header /\ silenced' = silenced BY <1>4 DEF B!EditFlag
  <2>5. NameInv' BY <2>3 DEF FreshInv, NameInv
  <2>6. HashInv' BY <2>2, <2>3, <2>4 DEF FreshInv, HashInv
  <2>7. WantedInv' BY <2>1, <2>3 DEF FreshInv, WantedInv, B!IsOne
  <2> QED BY <2>2, <2>4, <2>5, <2>6, <2>7 DEF FreshInv, HeaderInv, BindingInv
<1>5. CASE B!RemoveTag
  <2>1. PICK tag \in DOMAIN Comment :
          /\ binding' = [binding EXCEPT !.comment = [t \in DOMAIN @ \ {tag} |-> @[t]]]
          /\ wanted' = (wanted /\ tag \notin {"GEN_AUTOMATIC", "HEADER_FILE"})
    BY <1>5 DEF B!RemoveTag, Comment
  <2>2. /\ DOMAIN binding' = {"comment", "code"} /\ binding'.code = binding.code
        /\ Comment' = [t \in DOMAIN Comment \ {tag} |-> Comment[t]]
    BY <2>1 DEF FreshInv, BindingInv, Comment
  <2>3. /\ DOMAIN Comment' = DOMAIN Comment \ {tag}
        /\ \A t \in DOMAIN Comment \ {tag} : Comment'[t] = Comment[t]
    BY <2>2
  <2>4. header' = header /\ silenced' = silenced BY <1>5 DEF B!RemoveTag
  <2>5. NameInv' BY <2>3 DEF FreshInv, NameInv
  <2>6. HashInv' BY <2>2, <2>3, <2>4 DEF FreshInv, HashInv
  <2>7. WantedInv' BY <2>1, <2>3 DEF FreshInv, WantedInv, B!IsOne
  <2> QED BY <2>2, <2>4, <2>5, <2>6, <2>7 DEF FreshInv, HeaderInv, BindingInv
<1>6. CASE B!UseBinding \/ B!OutOfSync
  <2>1. UNCHANGED <<header, binding, wanted, silenced>> BY <1>6 DEF B!UseBinding, B!OutOfSync
  <2> QED BY <2>1 DEF FreshInv, HeaderInv, BindingInv, NameInv, WantedInv, HashInv, Comment
<1>7. CASE B!Regenerate
  <2> DEFINE flags == B!get_flags(binding.comment)
  <2>1. /\ flags.filename # "None" /\ flags.automatic = "True"
        /\ binding' = B!bind_oot_file(flags.filename, flags.automatic, flags.pygccxml)
        /\ header' = header
    BY <1>7 DEF B!Regenerate
  <2>2. flags.filename = "enc.h" BY <2>1, FlagsNamed
  <2>3. B!IsOn("True") BY DEF B!IsOn
  <2>4. binding' = B!gen_file_binding("enc.h", B!IsOn("True"), B!IsOn(flags.pygccxml))
    BY <2>1, <2>2 DEF B!bind_oot_file
  <2> QED BY <2>1, <2>3, <2>4, Generated DEF FreshInv
<1>8. CASE UNCHANGED B!vars
  BY <1>8 DEF B!vars, FreshInv, HeaderInv, BindingInv, NameInv, WantedInv, HashInv, Comment
<1> QED BY <1>1, <1>2, <1>3, <1>4, <1>5, <1>6, <1>7, <1>8 DEF B!Next, B!Configure

THEOREM FreshInvariance == ASSUME MaxVersion \in Nat \ {0} PROVE B!Spec => []FreshInv
<1>1. B!Init => FreshInv BY BindingsInitEstablishes
<1>2. FreshInv /\ [B!Next]_(B!vars) => FreshInv' BY BindingsStepPreserves
<1> QED BY <1>1, <1>2, PTL DEF B!Spec

(***************************************************************************)
(* cmake never gives up on a binding that is wanted automatic, and the     *)
(* library is built from code for the header at hand unless a hash was     *)
(* noted by hand: for every number of versions and every text in a flag.   *)
(***************************************************************************)
THEOREM Fresh == ASSUME MaxVersion \in Nat \ {0} PROVE B!Spec => B!NeverStale
<1> DEFINE Good == /\ wanted => library' # B!Failed
                   /\ library' \notin {header, B!Failed} => silenced
<1>1. ASSUME FreshInv, B!UseBinding PROVE Good
  <2>1. /\ "HEADER_FILE_HASH" \in DOMAIN Comment /\ Comment["HEADER_FILE_HASH"] = header
    BY <1>1, FlagsHash DEF B!UseBinding
  <2>2. library' = binding.code BY <1>1 DEF B!UseBinding
  <2>3. binding.code # B!Failed BY <1>1 DEF FreshInv, BindingInv, HeaderInv, B!Failed
  <2>4. ~silenced => binding.code = header BY <1>1, <2>1 DEF FreshInv, HashInv
  <2> QED BY <2>2, <2>3, <2>4
<1>2. ASSUME FreshInv, B!Regenerate PROVE Good
  <2>1. library' = header
    BY <1>2 DEF B!Regenerate, B!bind_oot_file, B!gen_file_binding
  <2>2. header # B!Failed BY <1>2 DEF FreshInv, HeaderInv, B!Failed
  <2> QED BY <2>1, <2>2
<1>3. ASSUME FreshInv, B!OutOfSync PROVE Good
  <2>1. ~wanted BY <1>3, FlagsOfWanted DEF B!OutOfSync
  <2>2. library' = B!Failed BY <1>3 DEF B!OutOfSync
  <2> QED BY <2>1, <2>2
<1>4. FreshInv /\ [B!Next]_(B!vars) => [B!Configure => Good]_(B!vars)
  BY <1>1, <1>2, <1>3 DEF B!Configure
<1> QED BY <1>4, FreshInvariance, PTL DEF B!Spec, B!NeverStale

-----------------------------------------------------------------------------
(***************************************************************************)
(* doxyxml.  First its loops, then what is true of a heap at every moment, *)
(* then what each step of _parse and each method does to it.  The empty    *)
(* string, of which an exception that was not raised is made, and loops    *)
(* have names here: the provers need not look into them.                   *)
(***************************************************************************)
(* A method that raised no exception. *)
Ok(result) == result.exc = ""

(* The loops of doxyxml, each as a step from one pass to the next: which   *)
(* loop it is, the object o it is about, and what else it depends on.      *)
Pass(which, o, cls, list, r, k) ==
    IF ~Ok(r) THEN r
    ELSE IF which = "memberdefs" THEN AddMemberdef(r.heap, o, r.ret, k)
    ELSE IF which = "inner"
    THEN AddConverted(from_refid(r.heap, cls, RefidOf(list[k])), o)
    ELSE IF which = "index" THEN IndexEntry(r.heap, r.ret, k)
    ELSE IF which = "category"
    THEN TakeIf(Return(r.heap, IF list[k] = NONE THEN FALSE
                               ELSE r.heap.objs[list[k]].cls = cls), r.ret, list[k])
    ELSE IF which = "dict" THEN Entered(name(r.heap, list[k]), r.ret, list[k])
    ELSE IF k > 1 /\ Join(SubSeq(list, k, Len(list)), "::") = <<>>
    THEN Return(r.heap, r.ret)
    ELSE MemberNamed(r.heap, r.ret, list[k], cls)

(* The functions that satisfy the recursion of a loop up to n. *)
Runs(which, o, cls, list, start, f, n) ==
    f = [k \in 0..n |-> IF k = 0 THEN start ELSE Pass(which, o, cls, list, f[k - 1], k)]

(* There is such a function for every n: one pass is put after the others. *)
LEMMA RunsExist ==
    ASSUME NEW which, NEW o, NEW cls, NEW list, NEW start
    PROVE  \A n \in Nat : \E f : Runs(which, o, cls, list, start, f, n)
<1> DEFINE S == {n \in Nat : \E f : Runs(which, o, cls, list, start, f, n)}
<1>1. 0 \in S
  <2> DEFINE f == [k \in 0..0 |-> start]
  <2>1. f = [k \in 0..0 |-> IF k = 0 THEN start
                            ELSE Pass(which, o, cls, list, f[k - 1], k)]
    OBVIOUS
  <2>2. Runs(which, o, cls, list, start, f, 0) BY <2>1, Zenon DEF Runs
  <2> QED BY <2>2
<1>2. ASSUME NEW n \in Nat, n \in S PROVE n + 1 \in S
  <2>1. PICK f : Runs(which, o, cls, list, start, f, n) BY <1>2
  <2> DEFINE g == [k \in 0..(n + 1) |-> IF k = 0 THEN start
                                        ELSE Pass(which, o, cls, list, f[k - 1], k)]
  <2>2. ASSUME NEW k \in 0..n PROVE g[k] = f[k]
    <3>1. k \in 0..(n + 1) OBVIOUS
    <3>2. g[k] = IF k = 0 THEN start ELSE Pass(which, o, cls, list, f[k - 1], k)
      BY <3>1, Zenon
    <3>3. f[k] = IF k = 0 THEN start ELSE Pass(which, o, cls, list, f[k - 1], k)
      BY <2>1, Zenon DEF Runs
    <3> QED BY <3>2, <3>3, Zenon
  <2>3. \A k \in 0..(n + 1) : k # 0 => g[k - 1] = f[k - 1]
    <3> HIDE DEF g
    <3> QED BY <2>2
  <2>4. g = [k \in 0..(n + 1) |-> IF k = 0 THEN start
                                  ELSE Pass(which, o, cls, list, g[k - 1], k)]
    BY <2>3, Zenon
  <2>5. Runs(which, o, cls, list, start, g, n + 1) BY <2>4, Zenon DEF Runs
  <2> QED BY <2>5
<1> HIDE DEF S
<1>3. Nat \subseteq S BY <1>1, <1>2, SetInduction
<1> QED BY <1>3 DEF S

(* What a loop comes to: run[k] is the result of the first k passes. *)
LoopRun(run, which, o, cls, list, start, n) ==
    /\ run[0] = start
    /\ \A k \in 1..n : run[k] = Pass(which, o, cls, list, run[k - 1], k)

LEMMA RunsAreLoops ==
    ASSUME NEW which, NEW o, NEW cls, NEW list, NEW start, NEW n \in Nat, NEW f,
           Runs(which, o, cls, list, start, f, n)
    PROVE  LoopRun(f, which, o, cls, list, start, n)
<1>1. \A k \in 0..n : f[k] = IF k = 0 THEN start
                             ELSE Pass(which, o, cls, list, f[k - 1], k)
  BY Zenon DEF Runs
<1>2. 0 \in 0..n /\ \A k \in 1..n : k \in 0..n /\ k # 0 OBVIOUS
<1> QED BY <1>1, <1>2, Zenon DEF LoopRun

(* The loop of process_memberdefs. *)
LEMMA MemberdefsLoop ==
    ASSUME NEW h, NEW o, Len(MemberdefsOf(h.objs[o].refid)) \in Nat
    PROVE  \E run :
             LET n == Len(MemberdefsOf(h.objs[o].refid))
             IN  /\ LoopRun(run, "memberdefs", o, NONE, <<>>,
                            Return(h, {}), n)
                 /\ process_memberdefs(h, o) =
                      IF Ok(run[n]) THEN Return(run[n].heap, NONE) ELSE run[n]
<1> DEFINE n == Len(MemberdefsOf(h.objs[o].refid))
           list == [k \in 1..n |-> k]
           start == Return(h, {})
           body(r, x) == AddMemberdef(r.heap, o, r.ret, x)
           end(r) == IF Ok(r) THEN Return(r.heap, NONE) ELSE r
           pass(r, k) == Pass("memberdefs", o, NONE, <<>>, r, k)
           P(f) == f = [k \in 0..Len(list) |->
                          IF k = 0 THEN start
                          ELSE IF Ok(f[k - 1]) THEN body(f[k - 1], list[k]) ELSE f[k - 1]]
           run == CHOOSE f : P(f)
<1>1. process_memberdefs(h, o) = end(run[Len(list)])
  BY Zenon DEF process_memberdefs, Loop, AndThen, Ok
<1> HIDE DEF n
<1>2. Len(list) = n /\ \A k \in 0..n : k # 0 => list[k] = k BY DEF n
<1> HIDE DEF list
<1>3. PICK g : Runs("memberdefs", o, NONE, <<>>, start, g, n)
  BY RunsExist DEF n
<1>4. ASSUME NEW f PROVE P(f) <=> Runs("memberdefs", o, NONE, <<>>, start, f, n)
  <2> DEFINE looped(k) == IF k = 0 THEN start
                     ELSE IF Ok(f[k - 1]) THEN body(f[k - 1], list[k]) ELSE f[k - 1]
             passed(k) == IF k = 0 THEN start ELSE pass(f[k - 1], k)
  <2>1. ASSUME NEW k \in 0..n PROVE looped(k) = passed(k)
    <3>1. CASE k = 0 BY <3>1, Zenon
    <3>2. CASE k # 0
      <4>1. pass(f[k - 1], k) = IF Ok(f[k - 1]) THEN body(f[k - 1], k) ELSE f[k - 1]
        BY Zenon DEF Pass
      <4>2. list[k] = k BY <1>2, <3>2
      <4> QED BY <3>2, <4>1, <4>2, Zenon
    <3> QED BY <3>1, <3>2
  <2>2. P(f) <=> f = [k \in 0..n |-> looped(k)] BY <1>2, Zenon
  <2>3. [k \in 0..n |-> looped(k)] = [k \in 0..n |-> passed(k)]
    <3> HIDE DEF looped, passed
    <3> QED BY <2>1, Zenon
  <2> QED BY <2>2, <2>3, Zenon DEF Runs
<1>5. P(run) BY <1>3, <1>4, Zenon
<1> HIDE DEF run
<1>6. Runs("memberdefs", o, NONE, <<>>, start, run, n) BY <1>4, <1>5
<1>7. LoopRun(run, "memberdefs", o, NONE, <<>>, start, n)
  BY <1>6, RunsAreLoops DEF n
<1> QED BY <1>1, <1>2, <1>7, Zenon DEF n

(* The loops over the inner groups and classes of a group. *)
LEMMA InnerLoop ==
    ASSUME NEW h, NEW o, NEW tag, NEW cls, Len(RetrievedData(h, o).fields[tag]) \in Nat
    PROVE  \E run :
             LET n == Len(RetrievedData(h, o).fields[tag])
             IN  /\ LoopRun(run, "inner", o, cls, RetrievedData(h, o).fields[tag],
                            Return(h, NONE), n)
                 /\ InnerObjects(h, o, tag, cls) = run[n]
<1> DEFINE n == Len(RetrievedData(h, o).fields[tag])
           list == RetrievedData(h, o).fields[tag]
           start == Return(h, NONE)
           body(r, x) == AddConverted(from_refid(r.heap, cls, RefidOf(x)), o)
           end(r) == r
           pass(r, k) == Pass("inner", o, cls, RetrievedData(h, o).fields[tag], r, k)
           P(f) == f = [k \in 0..Len(list) |->
                          IF k = 0 THEN start
                          ELSE IF Ok(f[k - 1]) THEN body(f[k - 1], list[k]) ELSE f[k - 1]]
           run == CHOOSE f : P(f)
<1>1. InnerObjects(h, o, tag, cls) = end(run[Len(list)])
  BY Zenon DEF InnerObjects, Loop, Ok
<1> HIDE DEF n
<1>2. Len(list) = n BY DEF n
<1>3. PICK g : Runs("inner", o, cls, RetrievedData(h, o).fields[tag], start, g, n)
  BY RunsExist DEF n
<1>4. ASSUME NEW f
      PROVE  P(f) <=> Runs("inner", o, cls, RetrievedData(h, o).fields[tag], start, f, n)
  <2> DEFINE looped(k) == IF k = 0 THEN start
                     ELSE IF Ok(f[k - 1]) THEN body(f[k - 1], list[k]) ELSE f[k - 1]
             passed(k) == IF k = 0 THEN start ELSE pass(f[k - 1], k)
  <2>1. ASSUME NEW k \in 0..n PROVE looped(k) = passed(k)
    <3>1. CASE k = 0 BY <3>1, Zenon
    <3>2. CASE k # 0
      <4>1. pass(f[k - 1], k) = IF Ok(f[k - 1]) THEN body(f[k - 1], list[k]) ELSE f[k - 1]
        BY Zenon DEF Pass
      <4> QED BY <3>2, <4>1, Zenon
    <3> QED BY <3>1, <3>2
  <2>2. P(f) <=> f = [k \in 0..n |-> looped(k)] BY <1>2, Zenon
  <2>3. [k \in 0..n |-> looped(k)] = [k \in 0..n |-> passed(k)]
    <3> HIDE DEF looped, passed
    <3> QED BY <2>1, Zenon
  <2> QED BY <2>2, <2>3, Zenon DEF Runs
<1>5. P(run) BY <1>3, <1>4, Zenon
<1> HIDE DEF run
<1>6. Runs("inner", o, cls, RetrievedData(h, o).fields[tag], start, run, n) BY <1>4, <1>5
<1>7. LoopRun(run, "inner", o, cls, RetrievedData(h, o).fields[tag], start, n)
  BY <1>6, RunsAreLoops DEF n
<1> QED BY <1>1, <1>2, <1>7, Zenon DEF n

(* The loop of DoxyIndex._parse. *)
LEMMA IndexLoop ==
    ASSUME NEW h, Len(IndexEntries) \in Nat
    PROVE  \E run :
             LET n == Len(IndexEntries)
             IN  /\ LoopRun(run, "index", Top, NONE, <<>>,
                            Return([h EXCEPT !.objs[Top].parsed = TRUE], NONE), n)
                 /\ ParseTop(h) = run[n]
<1> DEFINE n == Len(IndexEntries)
           list == [k \in 1..n |-> k]
           start == Return([h EXCEPT !.objs[Top].parsed = TRUE], NONE)
           body(r, x) == IndexEntry(r.heap, r.ret, x)
           end(r) == r
           pass(r, k) == Pass("index", Top, NONE, <<>>, r, k)
           P(f) == f = [k \in 0..Len(list) |->
                          IF k = 0 THEN start
                          ELSE IF Ok(f[k - 1]) THEN body(f[k - 1], list[k]) ELSE f[k - 1]]
           run == CHOOSE f : P(f)
<1>1. ParseTop(h) = end(run[Len(list)])
  BY Zenon DEF ParseTop, Loop, Ok
<1> HIDE DEF n
<1>2. Len(list) = n /\ \A k \in 0..n : k # 0 => list[k] = k BY DEF n
<1> HIDE DEF list
<1>3. PICK g : Runs("index", Top, NONE, <<>>, start, g, n)
  BY RunsExist DEF n
<1>4. ASSUME NEW f PROVE P(f) <=> Runs("index", Top, NONE, <<>>, start, f, n)
  <2> DEFINE looped(k) == IF k = 0 THEN start
                     ELSE IF Ok(f[k - 1]) THEN body(f[k - 1], list[k]) ELSE f[k - 1]
             passed(k) == IF k = 0 THEN start ELSE pass(f[k - 1], k)
  <2>1. ASSUME NEW k \in 0..n PROVE looped(k) = passed(k)
    <3>1. CASE k = 0 BY <3>1, Zenon
    <3>2. CASE k # 0
      <4>1. pass(f[k - 1], k) = IF Ok(f[k - 1]) THEN body(f[k - 1], k) ELSE f[k - 1]
        BY Zenon DEF Pass
      <4>2. list[k] = k BY <1>2, <3>2
      <4> QED BY <3>2, <4>1, <4>2, Zenon
    <3> QED BY <3>1, <3>2
  <2>2. P(f) <=> f = [k \in 0..n |-> looped(k)] BY <1>2, Zenon
  <2>3. [k \in 0..n |-> looped(k)] = [k \in 0..n |-> passed(k)]
    <3> HIDE DEF looped, passed
    <3> QED BY <2>1, Zenon
  <2> QED BY <2>2, <2>3, Zenon DEF Runs
<1>5. P(run) BY <1>3, <1>4, Zenon
<1> HIDE DEF run
<1>6. Runs("index", Top, NONE, <<>>, start, run, n) BY <1>4, <1>5
<1>7. LoopRun(run, "index", Top, NONE, <<>>, start, n)
  BY <1>6, RunsAreLoops DEF n
<1> QED BY <1>1, <1>2, <1>7, Zenon DEF n

(* The members of a category, by the class. *)
ByClass(h, o, cat) ==
    Category(h, o, cat, LAMBDA g, m :
      Return(g, IF m = NONE THEN FALSE ELSE g.objs[m].cls = cat))

(* The loop of in_category. *)
LEMMA CategoryLoop ==
    ASSUME NEW h, NEW o, NEW cat, Len(h.objs[o].members) \in Nat
    PROVE  \E run :
             LET n == Len(h.objs[o].members)
             IN  /\ LoopRun(run, "category", o, cat, h.objs[o].members,
                            Return(h, <<>>), n)
                 /\ ByClass(h, o, cat) = IF Ok(run[n])
                                      THEN Return([run[n].heap EXCEPT !.objs[o].cats =
                                                     Assign(@, cat, run[n].ret)], run[n].ret)
                                      ELSE run[n]
<1> DEFINE n == Len(h.objs[o].members)
           list == h.objs[o].members
           start == Return(h, <<>>)
           body(r, x) == TakeIf(Return(r.heap, IF x = NONE THEN FALSE
                         ELSE r.heap.objs[x].cls = cat), r.ret, x)
           end(r) == IF Ok(r)
                     THEN Return([r.heap EXCEPT !.objs[o].cats =
                                    Assign(@, cat, r.ret)], r.ret)
                     ELSE r
           pass(r, k) == Pass("category", o, cat, h.objs[o].members, r, k)
           P(f) == f = [k \in 0..Len(list) |->
                          IF k = 0 THEN start
                          ELSE IF Ok(f[k - 1]) THEN body(f[k - 1], list[k]) ELSE f[k - 1]]
           run == CHOOSE f : P(f)
<1>1. ByClass(h, o, cat) = end(run[Len(list)])
  BY Zenon DEF ByClass, Category, Loop, Then, Ok
<1> HIDE DEF n
<1>2. Len(list) = n BY DEF n
<1>3. PICK g : Runs("category", o, cat, h.objs[o].members, start, g, n)
  BY RunsExist DEF n
<1>4. ASSUME NEW f PROVE P(f) <=> Runs("category", o, cat, h.objs[o].members, start, f, n)
  <2> DEFINE looped(k) == IF k = 0 THEN start
                     ELSE IF Ok(f[k - 1]) THEN body(f[k - 1], list[k]) ELSE f[k - 1]
             passed(k) == IF k = 0 THEN start ELSE pass(f[k - 1], k)
  <2>1. ASSUME NEW k \in 0..n PROVE looped(k) = passed(k)
    <3>1. CASE k = 0 BY <3>1, Zenon
    <3>2. CASE k # 0
      <4>1. pass(f[k - 1], k) = IF Ok(f[k - 1]) THEN body(f[k - 1], list[k]) ELSE f[k - 1]
        BY Zenon DEF Pass
      <4> QED BY <3>2, <4>1, Zenon
    <3> QED BY <3>1, <3>2
  <2>2. P(f) <=> f = [k \in 0..n |-> looped(k)] BY <1>2, Zenon
  <2>3. [k \in 0..n |-> looped(k)] = [k \in 0..n |-> passed(k)]
    <3> HIDE DEF looped, passed
    <3> QED BY <2>1, Zenon
  <2> QED BY <2>2, <2>3, Zenon DEF Runs
<1>5. P(run) BY <1>3, <1>4, Zenon
<1> HIDE DEF run
<1>6. Runs("category", o, cat, h.objs[o].members, start, run, n) BY <1>4, <1>5
<1>7. LoopRun(run, "category", o, cat, h.objs[o].members, start, n)
  BY <1>6, RunsAreLoops DEF n
<1> QED BY <1>1, <1>2, <1>7, Zenon DEF n

(* The loop of _get_dict_members. *)
LEMMA DictLoop ==
    ASSUME NEW h, NEW mems, Len(mems) \in Nat
    PROVE  \E run :
             LET n == Len(mems)
             IN  /\ LoopRun(run, "dict", Top, NONE, mems,
                            Return(h, [b \in {} |-> NONE]), n)
                 /\ DictOf(h, mems) = run[n]
<1> DEFINE n == Len(mems)
           list == mems
           start == Return(h, [b \in {} |-> NONE])
           body(r, x) == Entered(name(r.heap, x), r.ret, x)
           end(r) == r
           pass(r, k) == Pass("dict", Top, NONE, mems, r, k)
           P(f) == f = [k \in 0..Len(list) |->
                          IF k = 0 THEN start
                          ELSE IF Ok(f[k - 1]) THEN body(f[k - 1], list[k]) ELSE f[k - 1]]
           run == CHOOSE f : P(f)
<1>1. DictOf(h, mems) = end(run[Len(list)])
  BY Zenon DEF DictOf, Loop, Ok
<1> HIDE DEF n
<1>2. Len(list) = n BY DEF n
<1>3. PICK g : Runs("dict", Top, NONE, mems, start, g, n)
  BY RunsExist DEF n
<1>4. ASSUME NEW f PROVE P(f) <=> Runs("dict", Top, NONE, mems, start, f, n)
  <2> DEFINE looped(k) == IF k = 0 THEN start
                     ELSE IF Ok(f[k - 1]) THEN body(f[k - 1], list[k]) ELSE f[k - 1]
             passed(k) == IF k = 0 THEN start ELSE pass(f[k - 1], k)
  <2>1. ASSUME NEW k \in 0..n PROVE looped(k) = passed(k)
    <3>1. CASE k = 0 BY <3>1, Zenon
    <3>2. CASE k # 0
      <4>1. pass(f[k - 1], k) = IF Ok(f[k - 1]) THEN body(f[k - 1], list[k]) ELSE f[k - 1]
        BY Zenon DEF Pass
      <4> QED BY <3>2, <4>1, Zenon
    <3> QED BY <3>1, <3>2
  <2>2. P(f) <=> f = [k \in 0..n |-> looped(k)] BY <1>2, Zenon
  <2>3. [k \in 0..n |-> looped(k)] = [k \in 0..n |-> passed(k)]
    <3> HIDE DEF looped, passed
    <3> QED BY <2>1, Zenon
  <2> QED BY <2>2, <2>3, Zenon DEF Runs
<1>5. P(run) BY <1>3, <1>4, Zenon
<1> HIDE DEF run
<1>6. Runs("dict", Top, NONE, mems, start, run, n) BY <1>4, <1>5
<1>7. LoopRun(run, "dict", Top, NONE, mems, start, n)
  BY <1>6, RunsAreLoops DEF n
<1> QED BY <1>1, <1>2, <1>7, Zenon DEF n

(* The loop of get_member. *)
LEMMA MemberLoop ==
    ASSUME NEW h, NEW o, NEW path, NEW cat, Len(Split(path, "::")) \in Nat
    PROVE  \E run :
             LET n == Len(Split(path, "::"))
             IN  /\ LoopRun(run, "member", Top, cat, Split(path, "::"),
                            Return(h, o), n)
                 /\ get_member(h, o, path, cat) = run[n]
<1> DEFINE n == Len(Split(path, "::"))
           list == [k \in 1..n |-> k]
           start == Return(h, o)
           body(r, x) == IF x > 1 /\ Join(SubSeq(Split(path, "::"), x,
                                                 Len(Split(path, "::"))), "::") = <<>>
                         THEN Return(r.heap, r.ret)
                         ELSE MemberNamed(r.heap, r.ret, Split(path, "::")[x], cat)
           end(r) == r
           pass(r, k) == Pass("member", Top, cat, Split(path, "::"), r, k)
           P(f) == f = [k \in 0..Len(list) |->
                          IF k = 0 THEN start
                          ELSE IF Ok(f[k - 1]) THEN body(f[k - 1], list[k]) ELSE f[k - 1]]
           run == CHOOSE f : P(f)
<1>1. get_member(h, o, path, cat) = end(run[Len(list)])
  BY Zenon DEF get_member, Loop, Ok
<1> HIDE DEF n
<1>2. Len(list) = n /\ \A k \in 0..n : k # 0 => list[k] = k BY DEF n
<1> HIDE DEF list
<1>3. PICK g : Runs("member", Top, cat, Split(path, "::"), start, g, n)
  BY RunsExist DEF n
<1>4. ASSUME NEW f PROVE P(f) <=> Runs("member", Top, cat, Split(path, "::"), start, f, n)
  <2> DEFINE looped(k) == IF k = 0 THEN start
                     ELSE IF Ok(f[k - 1]) THEN body(f[k - 1], list[k]) ELSE f[k - 1]
             passed(k) == IF k = 0 THEN start ELSE pass(f[k - 1], k)
  <2>1. ASSUME NEW k \in 0..n PROVE looped(k) = passed(k)
    <3>1. CASE k = 0 BY <3>1, Zenon
    <3>2. CASE k # 0
      <4>1. pass(f[k - 1], k) = IF Ok(f[k - 1]) THEN body(f[k - 1], k) ELSE f[k - 1]
        BY Zenon DEF Pass
      <4>2. list[k] = k BY <1>2, <3>2
      <4> QED BY <3>2, <4>1, <4>2, Zenon
    <3> QED BY <3>1, <3>2
  <2>2. P(f) <=> f = [k \in 0..n |-> looped(k)] BY <1>2, Zenon
  <2>3. [k \in 0..n |-> looped(k)] = [k \in 0..n |-> passed(k)]
    <3> HIDE DEF looped, passed
    <3> QED BY <2>1, Zenon
  <2> QED BY <2>2, <2>3, Zenon DEF Runs
<1>5. P(run) BY <1>3, <1>4, Zenon
<1> HIDE DEF run
<1>6. Runs("member", Top, cat, Split(path, "::"), start, run, n) BY <1>4, <1>5
<1>7. LoopRun(run, "member", Top, cat, Split(path, "::"), start, n)
  BY <1>6, RunsAreLoops DEF n
<1> QED BY <1>1, <1>2, <1>7, Zenon DEF n

-----------------------------------------------------------------------------
(***************************************************************************)
(* What is true of the heap at every moment, also while objects are read.  *)
(***************************************************************************)
IsSeq(s) == \E S : s \in Seq(S)

ObjectFields == {"cls", "source", "refid", "parsed", "error", "retrieved", "members", "data",
            "cats", "dicts"}

Size(h) == Len(h.objs)

(* A heap holds objects, and their members are in it. *)
Shaped(h) ==
    /\ DOMAIN h = {"objs", "refs"}
    /\ IsSeq(h.objs)
    /\ Size(h) >= 1
    /\ \A o \in 1..Size(h) :
          /\ DOMAIN h.objs[o] = ObjectFields
          /\ IsSeq(h.objs[o].members)
          /\ \A i \in 1..Len(h.objs[o].members) :
                h.objs[o].members[i] \in {NONE} \cup 2..Size(h)

(* An object is known by its refid. *)
RefsTrue(h) ==
    \A r \in DOMAIN h.refs :
       /\ h.refs[r] \in 2..Size(h)
       /\ h.objs[h.refs[r]].refid = r
       /\ h.objs[h.refs[r]].source.kind # "memberdef"

KnownBy(h, o) ==
    h.objs[o].refid \in DOMAIN h.refs /\ h.refs[h.objs[o].refid] = o

(* What a group in the output holds: groups and classes. *)
Inner(refid, cls) ==
    \E r \in DOMAIN project.files :
      \/ /\ cls = "DoxyGroup"
         /\ \E i \in 1..Len(FileOf(r).fields["innergroup"]) :
               RefidOf(FileOf(r).fields["innergroup"][i]) = refid
      \/ /\ cls = "DoxyClass"
         /\ \E i \in 1..Len(FileOf(r).fields["innerclass"]) :
               RefidOf(FileOf(r).fields["innerclass"][i]) = refid

FromTheIndex(h, o) ==
    /\ \E i \in Indexed : /\ h.objs[o].source = FromIndex(i)
                          /\ h.objs[o].cls = ClassAt(i)
                          /\ h.objs[o].refid = RefidAt(i)
    /\ KnownBy(h, o)

FromAGroup(h, o) ==
    /\ h.objs[o].source = NoSource
    /\ \A i \in Indexed : RefidAt(i) # h.objs[o].refid
    /\ Inner(h.objs[o].refid, h.objs[o].cls)
    /\ KnownBy(h, o)

FromAMemberdef(h, o) ==
    \E r \in DOMAIN project.files : \E k \in 1..Len(MemberdefsOf(r)) :
      /\ h.objs[o].source = FromFile(r, k)
      /\ h.objs[o].cls = get_cls(MemberdefsOf(r)[k])
      /\ h.objs[o].cls # ""

(* Every object comes from an entry of the index, a group or a memberdef. *)
Sourced(h) ==
    /\ h.objs[Top].cls = "DoxyIndex"
    /\ h.objs[Top].source = NoSource
    /\ \A o \in 2..Size(h) : FromTheIndex(h, o) \/ FromAGroup(h, o) \/ FromAMemberdef(h, o)

WellFormed(h) == Shaped(h) /\ RefsTrue(h) /\ Sourced(h)

(***************************************************************************)
(* What is true of an object but those that are being read.                *)
(***************************************************************************)
NoCaches(h, o) == DOMAIN h.objs[o].cats = {} /\ DOMAIN h.objs[o].dicts = {}

Idle(h, o) == h.objs[o].members = <<>> /\ ~h.objs[o].error /\ NoCaches(h, o)

CatsTrue(h, o) ==
    \A cat \in DOMAIN h.objs[o].cats : h.objs[o].cats[cat] = InCat(h, o, cat)

(* What DictTrue says, of the members found. *)
DictHolds(h, dict, found) ==
    /\ DOMAIN dict = {NameFor(h, found[i]) : i \in 1..Len(found)}
    /\ \A i \in 1..Len(found) :
          dict[NameFor(h, found[i])] =
            IF \E j \in 1..Len(found) : j # i /\ NameFor(h, found[j]) = NameFor(h, found[i])
            THEN DUPLICATE ELSE found[i]

(* None of the members that are in a dictionary is None. *)
DictsTrue(h, o) ==
    \A cat \in DOMAIN h.objs[o].dicts :
       /\ DictHolds(h, h.objs[o].dicts[cat], InCat(h, o, cat))
       /\ \A i \in 1..Len(InCat(h, o, cat)) : InCat(h, o, cat)[i] \in 2..Size(h)

Good(h, o) ==
    /\ ~h.objs[o].parsed => Idle(h, o)
    /\ MembersComplete(h, o)
    /\ CatsTrue(h, o)
    /\ DictsTrue(h, o)

AllGood(h, X) == \A o \in 1..Size(h) : o \notin X => Good(h, o)

(* The index has been read: its entries are known. *)
IndexDone(h) ==
    \A i \in Indexed : /\ RefidAt(i) \in DOMAIN h.refs
                       /\ h.objs[h.refs[RefidAt(i)]].source = FromIndex(i)

DocInv(h) ==
    /\ WellFormed(h)
    /\ AllGood(h, {})
    /\ h.objs[Top].parsed => IndexDone(h)
    /\ ~h.objs[Top].parsed => Size(h) = 1 /\ DOMAIN h.refs = {}

-----------------------------------------------------------------------------
(* What a sequence is. *)
LEMMA SeqFacts ==
    ASSUME NEW s, IsSeq(s)
    PROVE  /\ Len(s) \in Nat
           /\ DOMAIN s = 1..Len(s)
           /\ s = [i \in 1..Len(s) |-> s[i]]
<1>1. PICK S : s \in Seq(S) BY DEF IsSeq
<1> QED BY <1>1, LenProperties

LEMMA FunctionsAreSeqs ==
    ASSUME NEW s, NEW n \in Nat, s = [i \in 1..n |-> s[i]]
    PROVE  IsSeq(s) /\ Len(s) = n
<1> DEFINE S == {s[i] : i \in 1..n}
<1>1. \A i \in 1..n : s[i] \in S OBVIOUS
<1> HIDE DEF S
<1>2. s \in [1..n -> S] BY <1>1, Zenon
<1>3. s \in Seq(S) /\ Len(s) = n BY <1>2
<1> QED BY <1>3 DEF IsSeq

LEMMA OneBoundSet ==
    ASSUME NEW s, NEW t, IsSeq(s), IsSeq(t)
    PROVE  \E S : s \in Seq(S) /\ t \in Seq(S)
<1>1. PICK S : s \in Seq(S) BY DEF IsSeq
<1>2. PICK T : t \in Seq(T) BY DEF IsSeq
<1>3. s \in Seq(S \cup T) /\ t \in Seq(S \cup T) BY <1>1, <1>2, SeqMonotonic
<1> QED BY <1>3

LEMMA SameSeq ==
    ASSUME NEW s, NEW t, IsSeq(s), IsSeq(t), Len(s) = Len(t),
           \A i \in 1..Len(s) : s[i] = t[i]
    PROVE  s = t
<1>1. PICK S : s \in Seq(S) /\ t \in Seq(S) BY OneBoundSet
<1> QED BY <1>1, SeqEqual

LEMMA AppendFacts ==
    ASSUME NEW s, IsSeq(s), NEW x
    PROVE  /\ IsSeq(Append(s, x))
           /\ Len(Append(s, x)) = Len(s) + 1
           /\ \A i \in 1..Len(s) : Append(s, x)[i] = s[i]
           /\ Append(s, x)[Len(s) + 1] = x
<1>1. PICK S : s \in Seq(S) BY DEF IsSeq
<1>2. s \in Seq(S \cup {x}) BY <1>1, SeqMonotonic
<1>3. /\ Append(s, x) \in Seq(S \cup {x})
      /\ Len(Append(s, x)) = Len(s) + 1
      /\ \A i \in 1..Len(s) : Append(s, x)[i] = s[i]
      /\ Append(s, x)[Len(s) + 1] = x
  BY <1>2, AppendProperties
<1>4. IsSeq(Append(s, x)) BY <1>3 DEF IsSeq
<1> QED BY <1>3, <1>4

LEMMA AppendConcat ==
    ASSUME NEW s, IsSeq(s), NEW x
    PROVE  Append(s, x) = s \o <<x>>
<1>1. PICK S : s \in Seq(S) BY DEF IsSeq
<1>2. s \in Seq(S \cup {x}) BY <1>1, SeqMonotonic
<1> QED BY <1>2, AppendIsConcat

LEMMA ConcatFacts ==
    ASSUME NEW s, NEW t, IsSeq(s), IsSeq(t)
    PROVE  /\ IsSeq(s \o t)
           /\ Len(s \o t) = Len(s) + Len(t)
           /\ \A i \in 1..(Len(s) + Len(t)) :
                 (s \o t)[i] = IF i <= Len(s) THEN s[i] ELSE t[i - Len(s)]
<1>1. PICK S : s \in Seq(S) /\ t \in Seq(S) BY OneBoundSet
<1>2. s \o t \in Seq(S) BY <1>1, ConcatProperties
<1>3. IsSeq(s \o t) BY <1>2 DEF IsSeq
<1>4. /\ Len(s \o t) = Len(s) + Len(t)
      /\ \A i \in 1..(Len(s) + Len(t)) :
            (s \o t)[i] = IF i <= Len(s) THEN s[i] ELSE t[i - Len(s)]
  BY <1>1, ConcatProperties
<1> QED BY <1>3, <1>4, Zenon

(* Two sequences, one after the other, and a sequence of one.  The provers *)
(* need not know what these are, but what they come to.                    *)
Cat(s, t) == s \o t
One(x) == <<x>>

LEMMA ConcatRegrouped ==
    ASSUME NEW s, NEW t, NEW u, IsSeq(s), IsSeq(t), IsSeq(u)
    PROVE  Cat(Cat(s, t), u) = Cat(s, Cat(t, u))
<1>1. PICK S : s \in Seq(S) /\ t \in Seq(S) BY OneBoundSet
<1>2. PICK T : u \in Seq(T) BY DEF IsSeq
<1>3. s \in Seq(S \cup T) /\ t \in Seq(S \cup T) /\ u \in Seq(S \cup T)
  BY <1>1, <1>2, SeqMonotonic
<1> DEFINE U == S \cup T
<1> HIDE DEF U
<1>4. s \in Seq(U) /\ t \in Seq(U) /\ u \in Seq(U) BY <1>3 DEF U
<1>5. (s \o t) \o u = s \o (t \o u) BY <1>4, Regrouped
<1> QED BY <1>5, Zenon DEF Cat

LEMMA EmptyIsSeq ==
    /\ IsSeq(<<>>) /\ Len(<<>>) = 0
    /\ \A s : IsSeq(s) => s \o <<>> = s /\ <<>> \o s = s
    /\ \A s : IsSeq(s) /\ Len(s) = 0 => s = <<>>
<1>1. <<>> \in Seq({}) /\ Len(<<>>) = 0 BY EmptySeq
<1>2. IsSeq(<<>>) BY <1>1 DEF IsSeq
<1>3. ASSUME NEW s, IsSeq(s) PROVE s \o <<>> = s /\ <<>> \o s = s
  <2>1. PICK S : s \in Seq(S) BY <1>3 DEF IsSeq
  <2> QED BY <2>1, ConcatEmptySeq
<1>4. ASSUME NEW s, IsSeq(s), Len(s) = 0 PROVE s = <<>>
  <2>1. PICK S : s \in Seq(S) BY <1>4 DEF IsSeq
  <2> QED BY <1>4, <2>1, EmptySeq
<1> QED BY <1>1, <1>2, <1>3, <1>4

LEMMA OneIsSeq ==
    ASSUME NEW x
    PROVE  IsSeq(<<x>>) /\ Len(<<x>>) = 1 /\ <<x>>[1] = x
<1>1. <<x>> \in Seq({x}) /\ Len(<<x>>) = 1 /\ <<x>>[1] = x OBVIOUS
<1> QED BY <1>1 DEF IsSeq

LEMMA CatFacts ==
    /\ \A s, t : IsSeq(s) /\ IsSeq(t) => IsSeq(Cat(s, t))
    /\ \A s, t, u : IsSeq(s) /\ IsSeq(t) /\ IsSeq(u) => Cat(Cat(s, t), u) = Cat(s, Cat(t, u))
    /\ \A s : IsSeq(s) => Cat(s, <<>>) = s /\ Cat(<<>>, s) = s
    /\ \A s, x : IsSeq(s) => Append(s, x) = Cat(s, One(x))
    /\ \A x : IsSeq(One(x))
<1>1. ASSUME NEW s, NEW t, IsSeq(s), IsSeq(t) PROVE IsSeq(Cat(s, t))
  BY <1>1, ConcatFacts DEF Cat
<1>2. ASSUME NEW s, NEW t, NEW u, IsSeq(s), IsSeq(t), IsSeq(u)
      PROVE  Cat(Cat(s, t), u) = Cat(s, Cat(t, u))
  BY <1>2, ConcatRegrouped
<1>3. ASSUME NEW s, IsSeq(s) PROVE Cat(s, <<>>) = s /\ Cat(<<>>, s) = s
  BY <1>3, EmptyIsSeq DEF Cat
<1>4. ASSUME NEW s, NEW x, IsSeq(s) PROVE Append(s, x) = Cat(s, One(x))
  BY <1>4, AppendConcat DEF Cat, One
<1>5. ASSUME NEW x PROVE IsSeq(One(x)) BY OneIsSeq DEF One
<1> QED BY <1>1, <1>2, <1>3, <1>4, <1>5

(* The first k sequences, one after the other. *)
FirstOfAll(seqs, k) == FlattenSeq([i \in 1..k |-> seqs[i]])

LEMMA FirstNone ==
    ASSUME NEW seqs
    PROVE  FirstOfAll(seqs, 0) = <<>>
<1> DEFINE s == [i \in 1..0 |-> seqs[i]]
<1>1. IsSeq(s) /\ Len(s) = 0
  <2>1. s = [i \in 1..0 |-> s[i]] OBVIOUS
  <2> HIDE DEF s
  <2> QED BY <2>1, FunctionsAreSeqs
<1>2. s = <<>> BY <1>1, EmptyIsSeq
<1> QED BY <1>2, FlattenEmpty DEF FirstOfAll

LEMMA OneMore ==
    ASSUME NEW k \in Nat, NEW s, NEW t, s = [i \in 1..k |-> s[i]],
           t = [i \in 1..(k + 1) |-> t[i]], NEW u,
           \A i \in 1..k : s[i] = u[i], \A i \in 1..(k + 1) : t[i] = u[i]
    PROVE  t = Append(s, u[k + 1])
<1>1. IsSeq(s) /\ Len(s) = k BY FunctionsAreSeqs
<1>2. IsSeq(t) /\ Len(t) = k + 1 BY FunctionsAreSeqs
<1>3. PICK x : x = u[k + 1] OBVIOUS
<1>4. /\ IsSeq(Append(s, x)) /\ Len(Append(s, x)) = Len(s) + 1
      /\ \A i \in 1..Len(s) : Append(s, x)[i] = s[i]
      /\ Append(s, x)[Len(s) + 1] = x
  BY <1>1, AppendFacts
<1>5. ASSUME NEW i \in 1..(k + 1) PROVE t[i] = Append(s, x)[i]
  <2>1. CASE i = k + 1 BY <1>1, <1>3, <1>4, <2>1
  <2>2. CASE i # k + 1
    <3>1. i \in 1..k BY <2>2
    <3> QED BY <1>1, <1>4, <3>1
  <2> QED BY <2>1, <2>2
<1> QED BY <1>1, <1>2, <1>3, <1>4, <1>5, SameSeq

LEMMA FirstNext ==
    ASSUME NEW seqs, NEW k \in Nat, \A i \in 1..(k + 1) : IsSeq(seqs[i])
    PROVE  /\ IsSeq(FirstOfAll(seqs, k))
           /\ FirstOfAll(seqs, k + 1) = Cat(FirstOfAll(seqs, k), seqs[k + 1])
<1> DEFINE T == UNION {{seqs[i][j] : j \in 1..Len(seqs[i])} : i \in 1..(k + 1)}
           s == [i \in 1..k |-> seqs[i]]
           t == [i \in 1..(k + 1) |-> seqs[i]]
<1>1. ASSUME NEW i \in 1..(k + 1) PROVE seqs[i] \in Seq(T)
  <2>1. /\ Len(seqs[i]) \in Nat
        /\ seqs[i] = [j \in 1..Len(seqs[i]) |-> seqs[i][j]]
    BY SeqFacts
  <2>2. \A j \in 1..Len(seqs[i]) : seqs[i][j] \in T OBVIOUS
  <2> HIDE DEF T
  <2>3. seqs[i] \in [1..Len(seqs[i]) -> T] BY <2>1, <2>2, Zenon
  <2> QED BY <2>1, <2>3
<1> HIDE DEF T
<1>2. k + 1 \in 1..(k + 1) /\ \A i \in 1..k : i \in 1..(k + 1) OBVIOUS
<1>3. s \in [1..k -> Seq(T)] BY <1>1, <1>2, Zenon
<1>4. s \in Seq(Seq(T)) /\ Len(s) = k
  <2> HIDE DEF s
  <2> QED BY <1>3
<1>5. t = Append(s, seqs[k + 1])
  <2>1. s = [i \in 1..k |-> s[i]] /\ \A i \in 1..k : s[i] = seqs[i] OBVIOUS
  <2>2. t = [i \in 1..(k + 1) |-> t[i]] /\ \A i \in 1..(k + 1) : t[i] = seqs[i] OBVIOUS
  <2> HIDE DEF s, t
  <2> QED BY <2>1, <2>2, OneMore
<1> HIDE DEF s, t
<1>6. FlattenSeq(Append(s, seqs[k + 1])) = FlattenSeq(s) \o seqs[k + 1]
  BY <1>1, <1>2, <1>4, FlattenAppend
<1>7. FlattenSeq(s) \in Seq(T) BY <1>4, FlattenType
<1>8. IsSeq(FlattenSeq(s)) BY <1>7 DEF IsSeq
<1> QED BY <1>5, <1>6, <1>8 DEF FirstOfAll, s, t, Cat

-----------------------------------------------------------------------------
(***************************************************************************)
(* What a method leaves alone.  g has the objects of h, all but o as they  *)
(* were, o of the same origin, and knows what h knew.                      *)
(***************************************************************************)
SameKind(h, g) ==
    /\ Size(h) <= Size(g)
    /\ \A p \in 1..Size(h) : /\ g.objs[p].cls = h.objs[p].cls
                             /\ g.objs[p].source = h.objs[p].source
                             /\ g.objs[p].refid = h.objs[p].refid

Grown(h, g, o) ==
    /\ SameKind(h, g)
    /\ \A p \in 1..Size(h) : p # o => g.objs[p] = h.objs[p]
    /\ \A r \in DOMAIN h.refs : r \in DOMAIN g.refs /\ g.refs[r] = h.refs[r]

LEMMA SizeFacts ==
    ASSUME NEW h, Shaped(h)
    PROVE  /\ Size(h) \in Nat /\ Size(h) >= 1 /\ DOMAIN h.objs = 1..Size(h)
           /\ Top \in 1..Size(h)
<1>1. IsSeq(h.objs) /\ Size(h) >= 1 BY DEF Shaped
<1>2. Len(h.objs) \in Nat /\ DOMAIN h.objs = 1..Len(h.objs) BY <1>1, SeqFacts
<1> QED BY <1>1, <1>2 DEF Size, Top

LEMMA MembersFacts ==
    ASSUME NEW h, Shaped(h), NEW o \in 1..Size(h)
    PROVE  /\ IsSeq(h.objs[o].members)
           /\ Len(h.objs[o].members) \in Nat
           /\ \A i \in 1..Len(h.objs[o].members) :
                 h.objs[o].members[i] \in {NONE} \cup 2..Size(h)
<1>1. IsSeq(h.objs[o].members) BY DEF Shaped
<1>2. Len(h.objs[o].members) \in Nat BY <1>1, SeqFacts
<1>3. \A i \in 1..Len(h.objs[o].members) :
        h.objs[o].members[i] \in {NONE} \cup 2..Size(h)
  BY DEF Shaped
<1> QED BY <1>1, <1>2, <1>3

(* A member shows the same as long as its origin is the same. *)
LEMMA NameKept ==
    ASSUME NEW h, NEW g, SameKind(h, g), NEW m \in 1..Size(h)
    PROVE  NameFor(g, m) = NameFor(h, m)
<1>1. g.objs[m].source = h.objs[m].source BY DEF SameKind
<1> QED BY <1>1, Zenon DEF NameFor, ParseData

LEMMA ShowingKept ==
    ASSUME NEW h, Shaped(h), NEW g, SameKind(h, g), NEW m \in {NONE} \cup 2..Size(h)
    PROVE  Showing(g, m) = Showing(h, m)
<1>1. CASE m = NONE BY <1>1, Zenon DEF Showing
<1>2. CASE m # NONE
  <2>1. m \in 1..Size(h) BY <1>2, SizeFacts
  <2>2. NameFor(g, m) = NameFor(h, m) BY <2>1, NameKept
  <2>3. g.objs[m].cls = h.objs[m].cls BY <2>1 DEF SameKind
  <2> QED BY <1>2, <2>2, <2>3, Zenon DEF Showing
<1> QED BY <1>1, <1>2

LEMMA SeenKept ==
    ASSUME NEW h, Shaped(h), NEW g, SameKind(h, g), NEW o \in 1..Size(h),
           g.objs[o].members = h.objs[o].members
    PROVE  Seen(g, o) = Seen(h, o)
<1> DEFINE mems == h.objs[o].members
<1>1. \A i \in 1..Len(mems) : Showing(g, mems[i]) = Showing(h, mems[i])
  BY MembersFacts, ShowingKept
<1>2. [i \in 1..Len(mems) |-> Showing(g, mems[i])] = [i \in 1..Len(mems) |-> Showing(h, mems[i])]
  BY <1>1, Zenon
<1> QED BY <1>2, Zenon DEF Seen

LEMMA SeenFacts ==
    ASSUME NEW h, Shaped(h), NEW o \in 1..Size(h)
    PROVE  /\ IsSeq(Seen(h, o)) /\ Len(Seen(h, o)) = Len(h.objs[o].members)
           /\ \A i \in 1..Len(h.objs[o].members) :
                 Seen(h, o)[i] = Showing(h, h.objs[o].members[i])
<1>1. Len(h.objs[o].members) \in Nat BY MembersFacts
<1>2. Seen(h, o) = [i \in 1..Len(h.objs[o].members) |-> Showing(h, h.objs[o].members[i])]
  BY Zenon DEF Seen
<1>3. Seen(h, o) = [i \in 1..Len(h.objs[o].members) |-> Seen(h, o)[i]] BY <1>2
<1> QED BY <1>1, <1>2, <1>3, FunctionsAreSeqs

(* The members of a category, one by one. *)
Picks(h, mems, cat) ==
    [i \in 1..Len(mems) |->
       IF mems[i] # NONE /\ h.objs[mems[i]].cls = cat THEN <<mems[i]>> ELSE <<>>]

LEMMA InCatPicks ==
    ASSUME NEW h, NEW o, NEW cat
    PROVE  InCat(h, o, cat) = IF cat = ALL THEN h.objs[o].members
                              ELSE FlattenSeq(Picks(h, h.objs[o].members, cat))
BY Zenon DEF InCat, Picks

LEMMA InCatKept ==
    ASSUME NEW h, Shaped(h), NEW g, SameKind(h, g), NEW o \in 1..Size(h),
           g.objs[o].members = h.objs[o].members, NEW cat
    PROVE  InCat(g, o, cat) = InCat(h, o, cat)
<1> DEFINE mems == h.objs[o].members
           taken(i) == IF mems[i] # NONE /\ g.objs[mems[i]].cls = cat THEN <<mems[i]>> ELSE <<>>
           before(i) == IF mems[i] # NONE /\ h.objs[mems[i]].cls = cat THEN <<mems[i]>> ELSE <<>>
<1>1. ASSUME NEW i \in 1..Len(mems) PROVE taken(i) = before(i)
  <2>1. CASE mems[i] = NONE BY <2>1, Zenon
  <2>2. CASE mems[i] # NONE
    <3>1. mems[i] \in 1..Size(h)
      <4>1. mems[i] \in {NONE} \cup 2..Size(h) BY MembersFacts
      <4>2. Size(h) \in Nat BY SizeFacts
      <4> HIDE DEF mems
      <4> QED BY <2>2, <4>1, <4>2
    <3>2. g.objs[mems[i]].cls = h.objs[mems[i]].cls BY <3>1 DEF SameKind
    <3> QED BY <3>2, Zenon
  <2> QED BY <2>1, <2>2
<1>2. [i \in 1..Len(mems) |-> taken(i)] = [i \in 1..Len(mems) |-> before(i)]
  <2> HIDE DEF taken, before, mems
  <2> QED BY <1>1, Zenon
<1>3. Picks(g, mems, cat) = Picks(h, mems, cat) BY <1>2, Zenon DEF Picks
<1> QED BY <1>3, InCatPicks, Zenon

LEMMA DictKept ==
    ASSUME NEW h, NEW g, SameKind(h, g), NEW dict, NEW found, DictHolds(h, dict, found),
           \A i \in 1..Len(found) : found[i] \in 1..Size(h)
    PROVE  DictHolds(g, dict, found)
<1>1. \A i \in 1..Len(found) : NameFor(g, found[i]) = NameFor(h, found[i]) BY NameKept
<1>2. {NameFor(g, found[i]) : i \in 1..Len(found)} = {NameFor(h, found[i]) : i \in 1..Len(found)}
  BY <1>1, Zenon
<1>3. DOMAIN dict = {NameFor(g, found[i]) : i \in 1..Len(found)}
  BY <1>2, Zenon DEF DictHolds
<1>4. ASSUME NEW i \in 1..Len(found)
      PROVE  dict[NameFor(g, found[i])] =
               IF \E j \in 1..Len(found) :
                     j # i /\ NameFor(g, found[j]) = NameFor(g, found[i])
               THEN DUPLICATE ELSE found[i]
  <2>1. dict[NameFor(h, found[i])] =
          IF \E j \in 1..Len(found) : j # i /\ NameFor(h, found[j]) = NameFor(h, found[i])
          THEN DUPLICATE ELSE found[i]
    BY Zenon DEF DictHolds
  <2>2. (\E j \in 1..Len(found) : j # i /\ NameFor(g, found[j]) = NameFor(g, found[i]))
          <=> \E j \in 1..Len(found) : j # i /\ NameFor(h, found[j]) = NameFor(h, found[i])
    BY <1>1, Zenon
  <2> QED BY <1>1, <2>1, <2>2, Zenon
<1> QED BY <1>3, <1>4, Zenon DEF DictHolds

(* An object that a method leaves alone is as good as it was. *)
LEMMA GoodKept ==
    ASSUME NEW h, Shaped(h), NEW g, SameKind(h, g), Size(g) \in Nat, NEW o \in 1..Size(h),
           g.objs[o] = h.objs[o], Good(h, o)
    PROVE  Good(g, o)
<1>1. Seen(g, o) = Seen(h, o) BY SeenKept
<1>2. \A cat : InCat(g, o, cat) = InCat(h, o, cat) BY InCatKept
<1>3. Good(h, o) BY DEF Good
<1>4. ~g.objs[o].parsed => Idle(g, o) BY <1>3, Zenon DEF Good, Idle, NoCaches
<1>5. MembersComplete(g, o)
  BY <1>1, <1>3, Zenon DEF Good, MembersComplete, Top
<1>6. CatsTrue(g, o) BY <1>2, <1>3, Zenon DEF Good, CatsTrue
<1>7. ASSUME NEW cat \in DOMAIN g.objs[o].dicts
      PROVE  /\ DictHolds(g, g.objs[o].dicts[cat], InCat(g, o, cat))
             /\ \A i \in 1..Len(InCat(g, o, cat)) : InCat(g, o, cat)[i] \in 2..Size(g)
  <2>1. /\ DictHolds(h, h.objs[o].dicts[cat], InCat(h, o, cat))
        /\ \A i \in 1..Len(InCat(h, o, cat)) : InCat(h, o, cat)[i] \in 2..Size(h)
    BY <1>3, <1>7, Zenon DEF Good, DictsTrue
  <2>2. PICK found : found = InCat(h, o, cat) OBVIOUS
  <2>3. Size(h) \in Nat /\ Size(h) <= Size(g) BY SizeFacts DEF SameKind
  <2>4. \A i \in 1..Len(found) : found[i] \in 2..Size(h) BY <2>1, <2>2, Zenon
  <2>5. \A i \in 1..Len(found) : found[i] \in 1..Size(h) /\ found[i] \in 2..Size(g)
    BY <2>3, <2>4
  <2>6. DictHolds(g, h.objs[o].dicts[cat], found) BY <2>1, <2>2, <2>5, DictKept, Zenon
  <2>7. InCat(g, o, cat) = found BY <1>2, <2>2, Zenon
  <2>8. DictHolds(g, g.objs[o].dicts[cat], InCat(g, o, cat)) BY <2>6, <2>7, Zenon
  <2>9. \A i \in 1..Len(InCat(g, o, cat)) : InCat(g, o, cat)[i] \in 2..Size(g)
    BY <2>5, <2>7, Zenon
  <2> QED BY <2>8, <2>9
<1>8. DictsTrue(g, o) BY <1>7, Zenon DEF DictsTrue
<1> QED BY <1>4, <1>5, <1>6, <1>8 DEF Good

-----------------------------------------------------------------------------
(***************************************************************************)
(* The steps that methods are made of.  Put sets a field of an object.     *)
(***************************************************************************)
Put(h, o, f, v) == [h EXCEPT !.objs = [h.objs EXCEPT ![o] = [h.objs[o] EXCEPT ![f] = v]]]

LEMMA PutFacts ==
    ASSUME NEW h, Shaped(h), NEW o \in 1..Size(h), NEW f \in ObjectFields, NEW v
    PROVE  /\ DOMAIN Put(h, o, f, v) = {"objs", "refs"}
           /\ Put(h, o, f, v).refs = h.refs
           /\ IsSeq(Put(h, o, f, v).objs)
           /\ Size(Put(h, o, f, v)) = Size(h)
           /\ \A p \in 1..Size(h) : p # o => Put(h, o, f, v).objs[p] = h.objs[p]
           /\ DOMAIN Put(h, o, f, v).objs[o] = ObjectFields
           /\ \A c \in ObjectFields :
                 Put(h, o, f, v).objs[o][c] = IF c = f THEN v ELSE h.objs[o][c]
<1>1. /\ DOMAIN h = {"objs", "refs"} /\ IsSeq(h.objs) /\ DOMAIN h.objs[o] = ObjectFields
  BY DEF Shaped
<1>2. DOMAIN h.objs = 1..Size(h) /\ Size(h) \in Nat BY SizeFacts
<1> DEFINE x == [h.objs[o] EXCEPT ![f] = v]
           objs == [h.objs EXCEPT ![o] = x]
           g == [h EXCEPT !.objs = objs]
<1>3. Put(h, o, f, v) = g BY <1>1 DEF Put
<1>4. DOMAIN x = ObjectFields /\ \A c \in ObjectFields : x[c] = IF c = f THEN v ELSE h.objs[o][c]
  BY <1>1
<1> HIDE DEF x
<1>5. /\ objs = [p \in 1..Size(h) |-> objs[p]]
      /\ objs[o] = x
      /\ \A p \in 1..Size(h) : p # o => objs[p] = h.objs[p]
  BY <1>2
<1> HIDE DEF objs
<1>6. IsSeq(objs) /\ Len(objs) = Size(h) BY <1>2, <1>5, FunctionsAreSeqs
<1>7. DOMAIN g = {"objs", "refs"} /\ g.objs = objs /\ g.refs = h.refs BY <1>1
<1> HIDE DEF g
<1> QED BY <1>3, <1>4, <1>5, <1>6, <1>7, Zenon DEF Size

LEMMA FieldsPut ==
    ASSUME NEW h, Shaped(h), NEW o \in 1..Size(h), NEW v
    PROVE  /\ [h EXCEPT !.objs[o].parsed = v] = Put(h, o, "parsed", v)
           /\ [h EXCEPT !.objs[o].error = v] = Put(h, o, "error", v)
           /\ [h EXCEPT !.objs[o].retrieved = v] = Put(h, o, "retrieved", v)
           /\ [h EXCEPT !.objs[o].data = v] = Put(h, o, "data", v)
           /\ [h EXCEPT !.objs[o].cats = v] = Put(h, o, "cats", v)
           /\ [h EXCEPT !.objs[o].dicts = v] = Put(h, o, "dicts", v)
           /\ [h EXCEPT !.objs[o].members = v] = Put(h, o, "members", v)
<1>1. /\ DOMAIN h = {"objs", "refs"} /\ DOMAIN h.objs[o] = ObjectFields
      /\ DOMAIN h.objs = 1..Size(h)
  BY SizeFacts DEF Shaped
<1>2. [h EXCEPT !.objs[o].parsed = v] = Put(h, o, "parsed", v) BY <1>1 DEF Put
<1>3. [h EXCEPT !.objs[o].error = v] = Put(h, o, "error", v) BY <1>1 DEF Put
<1>4. [h EXCEPT !.objs[o].retrieved = v] = Put(h, o, "retrieved", v) BY <1>1 DEF Put
<1>5. [h EXCEPT !.objs[o].data = v] = Put(h, o, "data", v) BY <1>1 DEF Put
<1>6. [h EXCEPT !.objs[o].cats = v] = Put(h, o, "cats", v) BY <1>1 DEF Put
<1>7. [h EXCEPT !.objs[o].dicts = v] = Put(h, o, "dicts", v) BY <1>1 DEF Put
<1>8. [h EXCEPT !.objs[o].members = v] = Put(h, o, "members", v) BY <1>1 DEF Put
<1> QED BY <1>2, <1>3, <1>4, <1>5, <1>6, <1>7, <1>8

(* g is h with other fields of o, which do not say what it is. *)
Touched(h, g, o) ==
    /\ DOMAIN g = {"objs", "refs"} /\ IsSeq(g.objs) /\ Size(g) = Size(h)
    /\ g.refs = h.refs
    /\ \A p \in 1..Size(h) : p # o => g.objs[p] = h.objs[p]
    /\ DOMAIN g.objs[o] = ObjectFields
    /\ g.objs[o].cls = h.objs[o].cls
    /\ g.objs[o].source = h.objs[o].source
    /\ g.objs[o].refid = h.objs[o].refid

LEMMA PutTouches ==
    ASSUME NEW h, Shaped(h), NEW o \in 1..Size(h),
           NEW f \in ObjectFields \ {"cls", "source", "refid"}, NEW v
    PROVE  Touched(h, Put(h, o, f, v), o)
<1>1. \A c \in {"cls", "source", "refid"} : c \in ObjectFields /\ c # f BY DEF ObjectFields
<1> DEFINE g == Put(h, o, f, v)
<1>2. /\ DOMAIN g = {"objs", "refs"} /\ g.refs = h.refs /\ IsSeq(g.objs) /\ Size(g) = Size(h)
      /\ \A p \in 1..Size(h) : p # o => g.objs[p] = h.objs[p]
      /\ DOMAIN g.objs[o] = ObjectFields
      /\ \A c \in ObjectFields : g.objs[o][c] = IF c = f THEN v ELSE h.objs[o][c]
  BY PutFacts
<1> HIDE DEF g
<1>3. g.objs[o].cls = h.objs[o].cls BY <1>1, <1>2
<1>4. g.objs[o].source = h.objs[o].source BY <1>1, <1>2
<1>5. g.objs[o].refid = h.objs[o].refid BY <1>1, <1>2
<1>6. Touched(h, g, o) BY <1>2, <1>3, <1>4, <1>5 DEF Touched
<1> QED BY <1>6 DEF g

(* What it is of the same objects is true of h and of g. *)
LEMMA TouchedSame ==
    ASSUME NEW h, Shaped(h), NEW o \in 1..Size(h), NEW g, Touched(h, g, o)
    PROVE  SameKind(h, g) /\ Grown(h, g, o)
<1>1. Size(h) \in Nat /\ Size(g) = Size(h) BY SizeFacts DEF Touched
<1>2. ASSUME NEW p \in 1..Size(h)
      PROVE  /\ g.objs[p].cls = h.objs[p].cls
             /\ g.objs[p].source = h.objs[p].source
             /\ g.objs[p].refid = h.objs[p].refid
  <2>1. CASE p = o BY <2>1, Zenon DEF Touched
  <2>2. CASE p # o
    <3>1. g.objs[p] = h.objs[p] BY <2>2 DEF Touched
    <3> QED BY <3>1, Zenon
  <2> QED BY <2>1, <2>2
<1>3. SameKind(h, g) BY <1>1, <1>2 DEF SameKind
<1>4. g.refs = h.refs /\ \A p \in 1..Size(h) : p # o => g.objs[p] = h.objs[p]
  BY Zenon DEF Touched
<1> QED BY <1>3, <1>4, Zenon DEF Grown

(* The origin of an object is the same for the same refs. *)
LEMMA OriginKept ==
    ASSUME NEW h, NEW g, SameKind(h, g), NEW p \in 1..Size(h),
           \A r \in DOMAIN h.refs : r \in DOMAIN g.refs /\ g.refs[r] = h.refs[r],
           FromTheIndex(h, p) \/ FromAGroup(h, p) \/ FromAMemberdef(h, p)
    PROVE  FromTheIndex(g, p) \/ FromAGroup(g, p) \/ FromAMemberdef(g, p)
<1>1. /\ g.objs[p].cls = h.objs[p].cls /\ g.objs[p].source = h.objs[p].source
      /\ g.objs[p].refid = h.objs[p].refid
  BY DEF SameKind
<1>2. KnownBy(h, p) => KnownBy(g, p) BY <1>1, Zenon DEF KnownBy
<1>3. FromTheIndex(h, p) => FromTheIndex(g, p) BY <1>1, <1>2, Zenon DEF FromTheIndex
<1>4. FromAGroup(h, p) => FromAGroup(g, p) BY <1>1, <1>2, Zenon DEF FromAGroup
<1>5. FromAMemberdef(h, p) => FromAMemberdef(g, p) BY <1>1, Zenon DEF FromAMemberdef
<1> QED BY <1>3, <1>4, <1>5

(* Such a heap is well formed if the members of o are. *)
LEMMA TouchedWellFormed ==
    ASSUME NEW h, WellFormed(h), NEW o \in 1..Size(h), NEW g, Touched(h, g, o),
           IsSeq(g.objs[o].members),
           \A i \in 1..Len(g.objs[o].members) : g.objs[o].members[i] \in {NONE} \cup 2..Size(h)
    PROVE  WellFormed(g)
<1>1. Shaped(h) /\ SameKind(h, g) BY TouchedSame DEF WellFormed
<1>2. Size(h) \in Nat /\ Size(h) >= 1 /\ Size(g) = Size(h) /\ g.refs = h.refs
  BY <1>1, SizeFacts DEF Touched
<1>3. Shaped(g)
  <2>1. ASSUME NEW p \in 1..Size(h)
        PROVE  /\ DOMAIN g.objs[p] = ObjectFields
               /\ IsSeq(g.objs[p].members)
               /\ \A i \in 1..Len(g.objs[p].members) :
                     g.objs[p].members[i] \in {NONE} \cup 2..Size(h)
    <3>1. CASE p = o BY <3>1, Zenon DEF Touched
    <3>2. CASE p # o
      <4>1. g.objs[p] = h.objs[p] BY <3>2 DEF Touched
      <4>2. DOMAIN h.objs[p] = ObjectFields BY <1>1 DEF Shaped
      <4> QED BY <1>1, <4>1, <4>2, MembersFacts, Zenon
    <3> QED BY <3>1, <3>2
  <2>2. DOMAIN g = {"objs", "refs"} /\ IsSeq(g.objs) BY DEF Touched
  <2>3. Size(g) >= 1 BY <1>2
  <2> QED BY <1>2, <2>1, <2>2, <2>3, Zenon DEF Shaped
<1>4. RefsTrue(g)
  <2>1. ASSUME NEW r \in DOMAIN h.refs
        PROVE  /\ h.refs[r] \in 2..Size(h)
               /\ g.objs[h.refs[r]].refid = r
               /\ g.objs[h.refs[r]].source.kind # "memberdef"
    <3>1. PICK m : m = h.refs[r] OBVIOUS
    <3>2. m \in 2..Size(h) /\ h.objs[m].refid = r /\ h.objs[m].source.kind # "memberdef"
      BY <3>1, Zenon DEF WellFormed, RefsTrue
    <3>3. m \in 1..Size(h) BY <1>2, <3>2
    <3>4. g.objs[m].refid = h.objs[m].refid /\ g.objs[m].source = h.objs[m].source
      BY <1>1, <3>3 DEF SameKind
    <3> QED BY <3>1, <3>2, <3>4, Zenon
  <2> QED BY <1>2, <2>1, Zenon DEF RefsTrue
<1>5. Sourced(g)
  <2>1. g.objs[Top].cls = "DoxyIndex" /\ g.objs[Top].source = NoSource
    BY <1>1, SizeFacts DEF WellFormed, Sourced, SameKind
  <2>2. ASSUME NEW p \in 2..Size(h)
        PROVE  FromTheIndex(g, p) \/ FromAGroup(g, p) \/ FromAMemberdef(g, p)
    <3>1. FromTheIndex(h, p) \/ FromAGroup(h, p) \/ FromAMemberdef(h, p)
      BY DEF WellFormed, Sourced
    <3>2. p \in 1..Size(h) BY <1>2
    <3>3. \A r \in DOMAIN h.refs : r \in DOMAIN g.refs /\ g.refs[r] = h.refs[r] BY <1>2
    <3> QED BY <1>1, <3>1, <3>2, <3>3, OriginKept
  <2> QED BY <1>2, <2>1, <2>2, Zenon DEF Sourced
<1> QED BY <1>3, <1>4, <1>5 DEF WellFormed

LEMMA TouchedGood ==
    ASSUME NEW h, Shaped(h), NEW o \in 1..Size(h), NEW g, Touched(h, g, o),
           NEW X, AllGood(h, X)
    PROVE  AllGood(g, X \cup {o})
<1>1. SameKind(h, g) /\ Size(g) = Size(h) /\ Size(g) \in Nat
  BY TouchedSame, SizeFacts DEF Touched
<1>2. ASSUME NEW p \in 1..Size(h), p \notin X \cup {o} PROVE Good(g, p)
  <2>1. g.objs[p] = h.objs[p] BY <1>2 DEF Touched
  <2>2. Good(h, p) BY <1>2 DEF AllGood
  <2> QED BY <1>1, <2>1, <2>2, GoodKept
<1> QED BY <1>1, <1>2, Zenon DEF AllGood

-----------------------------------------------------------------------------
(* h is well formed, and good but for the objects in X, which are read.    *)
Reading(h, X) == WellFormed(h) /\ AllGood(h, X)

(* g has all that h has, as it was, and maybe more. *)
More(h, g) ==
    /\ SameKind(h, g)
    /\ \A p \in 1..Size(h) : g.objs[p] = h.objs[p]
    /\ \A r \in DOMAIN h.refs : r \in DOMAIN g.refs /\ g.refs[r] = h.refs[r]

(* Only the members of o are new, beside new objects. *)
MoreMembers(h, g, o) ==
    /\ Grown(h, g, o)
    /\ g.objs[o].parsed = h.objs[o].parsed
    /\ g.objs[o].error = h.objs[o].error
    /\ g.objs[o].cats = h.objs[o].cats
    /\ g.objs[o].dicts = h.objs[o].dicts

LEMMA ReadingFacts ==
    ASSUME NEW h, NEW X, Reading(h, X)
    PROVE  /\ Shaped(h) /\ Size(h) \in Nat /\ Size(h) >= 1 /\ Top \in 1..Size(h)
           /\ RefsTrue(h) /\ Sourced(h) /\ AllGood(h, X) /\ WellFormed(h)
<1>1. WellFormed(h) /\ AllGood(h, X) BY DEF Reading
<1>2. Shaped(h) /\ RefsTrue(h) /\ Sourced(h) BY <1>1 DEF WellFormed
<1> QED BY <1>1, <1>2, SizeFacts

LEMMA SameKindTrans ==
    ASSUME NEW h, NEW g, NEW k, Size(h) \in Nat, Size(g) \in Nat, Size(k) \in Nat,
           SameKind(h, g), SameKind(g, k)
    PROVE  SameKind(h, k)
<1>1. Size(h) <= Size(g) /\ Size(g) <= Size(k) BY DEF SameKind
<1>2. Size(h) <= Size(k) BY <1>1
<1>3. ASSUME NEW p \in 1..Size(h)
      PROVE  /\ k.objs[p].cls = h.objs[p].cls
             /\ k.objs[p].source = h.objs[p].source
             /\ k.objs[p].refid = h.objs[p].refid
  <2>1. p \in 1..Size(g) BY <1>1
  <2> QED BY <2>1, Zenon DEF SameKind
<1> QED BY <1>2, <1>3 DEF SameKind

LEMMA GrownTrans ==
    ASSUME NEW h, NEW g, NEW k, NEW o, Size(h) \in Nat, Size(g) \in Nat, Size(k) \in Nat,
           Grown(h, g, o), Grown(g, k, o)
    PROVE  Grown(h, k, o)
<1>1. SameKind(h, g) /\ SameKind(g, k) BY DEF Grown
<1>2. Size(h) <= Size(g) BY <1>1 DEF SameKind
<1>3. SameKind(h, k) BY <1>1, SameKindTrans
<1>4. ASSUME NEW p \in 1..Size(h), p # o PROVE k.objs[p] = h.objs[p]
  <2>1. p \in 1..Size(g) BY <1>2
  <2> QED BY <1>4, <2>1 DEF Grown
<1>5. \A r \in DOMAIN h.refs : r \in DOMAIN k.refs /\ k.refs[r] = h.refs[r]
  BY Zenon DEF Grown
<1> QED BY <1>3, <1>4, <1>5, Zenon DEF Grown

LEMMA MoreMembersTrans ==
    ASSUME NEW h, NEW g, NEW k, NEW o, Size(h) \in Nat, Size(g) \in Nat, Size(k) \in Nat,
           MoreMembers(h, g, o), MoreMembers(g, k, o)
    PROVE  MoreMembers(h, k, o)
<1>1. Grown(h, k, o) BY GrownTrans DEF MoreMembers
<1> QED BY <1>1, Zenon DEF MoreMembers

LEMMA MoreIsGrown ==
    ASSUME NEW h, NEW g, More(h, g), NEW o \in 1..Size(h)
    PROVE  Grown(h, g, o) /\ MoreMembers(h, g, o)
<1>1. Grown(h, g, o) BY Zenon DEF More, Grown
<1>2. g.objs[o] = h.objs[o] BY DEF More
<1> QED BY <1>1, <1>2, Zenon DEF MoreMembers

LEMMA MoreItself ==
    ASSUME NEW h, Size(h) \in Nat
    PROVE  More(h, h)
<1>1. Size(h) <= Size(h) OBVIOUS
<1> QED BY <1>1, Zenon DEF More, SameKind

(* What members show, one after the other. *)
ShownBy(h, mems) == [i \in 1..Len(mems) |-> Showing(h, mems[i])]

LEMMA SeenShown ==
    ASSUME NEW h, NEW o
    PROVE  Seen(h, o) = ShownBy(h, h.objs[o].members)
BY Zenon DEF Seen, ShownBy

LEMMA ShownFacts ==
    ASSUME NEW h, NEW s, IsSeq(s)
    PROVE  /\ IsSeq(ShownBy(h, s)) /\ Len(ShownBy(h, s)) = Len(s)
           /\ \A i \in 1..Len(s) : ShownBy(h, s)[i] = Showing(h, s[i])
<1>1. Len(s) \in Nat BY SeqFacts
<1>2. PICK t : t = ShownBy(h, s) OBVIOUS
<1>3. t = [i \in 1..Len(s) |-> t[i]] /\ \A i \in 1..Len(s) : t[i] = Showing(h, s[i])
  BY <1>2 DEF ShownBy
<1> QED BY <1>1, <1>2, <1>3, FunctionsAreSeqs

LEMMA ShownCat ==
    ASSUME NEW h, NEW s, IsSeq(s), NEW t, IsSeq(t)
    PROVE  ShownBy(h, Cat(s, t)) = Cat(ShownBy(h, s), ShownBy(h, t))
<1>1. PICK u : u = Cat(s, t) OBVIOUS
<1>2. PICK a : a = ShownBy(h, s) OBVIOUS
<1>3. PICK b : b = ShownBy(h, t) OBVIOUS
<1>4. PICK c : c = ShownBy(h, u) OBVIOUS
<1>5. PICK d : d = Cat(a, b) OBVIOUS
<1>6. Len(s) \in Nat /\ Len(t) \in Nat BY SeqFacts
<1>7. /\ IsSeq(u) /\ Len(u) = Len(s) + Len(t)
      /\ \A i \in 1..(Len(s) + Len(t)) : u[i] = IF i <= Len(s) THEN s[i] ELSE t[i - Len(s)]
  BY <1>1, ConcatFacts DEF Cat
<1>8. /\ IsSeq(a) /\ Len(a) = Len(s) /\ \A i \in 1..Len(s) : a[i] = Showing(h, s[i])
  BY <1>2, ShownFacts
<1>9. /\ IsSeq(b) /\ Len(b) = Len(t) /\ \A i \in 1..Len(t) : b[i] = Showing(h, t[i])
  BY <1>3, ShownFacts
<1>10. /\ IsSeq(c) /\ Len(c) = Len(u) /\ \A i \in 1..Len(u) : c[i] = Showing(h, u[i])
  BY <1>4, <1>7, ShownFacts
<1>11. /\ IsSeq(d) /\ Len(d) = Len(a) + Len(b)
       /\ \A i \in 1..(Len(a) + Len(b)) : d[i] = IF i <= Len(a) THEN a[i] ELSE b[i - Len(a)]
  BY <1>5, <1>8, <1>9, ConcatFacts DEF Cat
<1>12. ASSUME NEW i \in 1..Len(u) PROVE c[i] = d[i]
  <2>1. CASE i <= Len(s)
    <3>1. i \in 1..Len(s) BY <1>6, <1>7, <2>1
    <3> QED BY <1>6, <1>7, <1>8, <1>9, <1>10, <1>11, <2>1, <3>1
  <2>2. CASE ~(i <= Len(s))
    <3>1. PICK j : j = i - Len(s) OBVIOUS
    <3>2. j \in 1..Len(t) BY <1>6, <1>7, <2>2, <3>1
    <3>3. u[i] = t[j] BY <1>6, <1>7, <2>2, <3>1
    <3>4. d[i] = b[j] BY <1>6, <1>7, <1>8, <1>9, <1>11, <2>2, <3>1
    <3> QED BY <1>9, <1>10, <3>2, <3>3, <3>4
  <2> QED BY <2>1, <2>2
<1>13. c = d
  <2>1. Len(c) = Len(d) /\ \A i \in 1..Len(c) : c[i] = d[i]
    BY <1>7, <1>8, <1>9, <1>10, <1>11, <1>12
  <2> QED BY <1>10, <1>11, <2>1, SameSeq
<1> QED BY <1>1, <1>2, <1>3, <1>4, <1>5, <1>13

LEMMA MembersCat ==
    ASSUME NEW s, IsSeq(s), NEW t, IsSeq(t), NEW T,
           \A i \in 1..Len(s) : s[i] \in T, \A i \in 1..Len(t) : t[i] \in T
    PROVE  IsSeq(Cat(s, t)) /\ \A i \in 1..Len(Cat(s, t)) : Cat(s, t)[i] \in T
<1>1. PICK u : u = Cat(s, t) OBVIOUS
<1>2. Len(s) \in Nat /\ Len(t) \in Nat BY SeqFacts
<1>3. /\ IsSeq(u) /\ Len(u) = Len(s) + Len(t)
      /\ \A i \in 1..(Len(s) + Len(t)) : u[i] = IF i <= Len(s) THEN s[i] ELSE t[i - Len(s)]
  BY <1>1, ConcatFacts DEF Cat
<1>4. ASSUME NEW i \in 1..Len(u) PROVE u[i] \in T
  <2>1. CASE i <= Len(s)
    <3>1. i \in 1..Len(s) /\ u[i] = s[i] BY <1>2, <1>3, <2>1
    <3> QED BY <3>1
  <2>2. CASE ~(i <= Len(s))
    <3>1. i - Len(s) \in 1..Len(t) /\ u[i] = t[i - Len(s)] BY <1>2, <1>3, <2>2
    <3> QED BY <3>1
  <2> QED BY <2>1, <2>2
<1> QED BY <1>1, <1>3, <1>4

LEMMA ShownOne ==
    ASSUME NEW h, NEW m
    PROVE  ShownBy(h, One(m)) = One(Showing(h, m))
<1>1. PICK s : s = One(m) OBVIOUS
<1>2. PICK x : x = Showing(h, m) OBVIOUS
<1>3. PICK t : t = One(x) OBVIOUS
<1>4. IsSeq(s) /\ Len(s) = 1 /\ s[1] = m BY <1>1, OneIsSeq DEF One
<1>5. IsSeq(t) /\ Len(t) = 1 /\ t[1] = x BY <1>3, OneIsSeq DEF One
<1>6. IsSeq(ShownBy(h, s)) /\ Len(ShownBy(h, s)) = 1 /\ ShownBy(h, s)[1] = x
  BY <1>2, <1>4, ShownFacts
<1>7. ShownBy(h, s) = t
  <2>1. \A i \in 1..1 : i = 1 OBVIOUS
  <2> QED BY <1>5, <1>6, <2>1, SameSeq
<1> QED BY <1>1, <1>2, <1>3, <1>7

LEMMA ShownKept ==
    ASSUME NEW h, Shaped(h), NEW g, SameKind(h, g), NEW mems, IsSeq(mems),
           \A i \in 1..Len(mems) : mems[i] \in {NONE} \cup 2..Size(h)
    PROVE  ShownBy(g, mems) = ShownBy(h, mems)
<1>1. \A i \in 1..Len(mems) : Showing(g, mems[i]) = Showing(h, mems[i]) BY ShowingKept
<1>2. [i \in 1..Len(mems) |-> Showing(g, mems[i])] = [i \in 1..Len(mems) |-> Showing(h, mems[i])]
  BY <1>1, Zenon
<1> QED BY <1>2, Zenon DEF ShownBy

(* Other members altogether. *)
LEMMA PutMembers ==
    ASSUME NEW h, NEW X, Reading(h, X), NEW o \in 1..Size(h), o \in X, NEW mems, IsSeq(mems),
           \A i \in 1..Len(mems) : mems[i] \in {NONE} \cup 2..Size(h),
           NEW g, g = Put(h, o, "members", mems)
    PROVE  /\ Reading(g, X) /\ g.refs = h.refs /\ Size(g) = Size(h)
           /\ SameKind(h, g) /\ \A p \in 1..Size(h) : p # o => g.objs[p] = h.objs[p]
           /\ g.objs[o].parsed = h.objs[o].parsed /\ g.objs[o].error = h.objs[o].error
           /\ g.objs[o].cats = h.objs[o].cats /\ g.objs[o].dicts = h.objs[o].dicts
           /\ g.objs[o].members = mems /\ Seen(g, o) = ShownBy(h, mems)
<1>1. Shaped(h) /\ Size(h) \in Nat /\ WellFormed(h) /\ AllGood(h, X) BY ReadingFacts
<1>2. PICK f \in ObjectFields \ {"cls", "source", "refid"} : f = "members" BY DEF ObjectFields
<1>3. g = Put(h, o, f, mems) BY <1>2
<1>4. f \in ObjectFields OBVIOUS
<1>5. Touched(h, g, o) BY <1>1, <1>3, PutTouches
<1>6. /\ g.refs = h.refs /\ Size(g) = Size(h)
      /\ \A p \in 1..Size(h) : p # o => g.objs[p] = h.objs[p]
      /\ \A c \in ObjectFields : g.objs[o][c] = IF c = f THEN mems ELSE h.objs[o][c]
  BY <1>1, <1>3, <1>4, PutFacts
<1>7. \A c \in {"members", "parsed", "error", "cats", "dicts"} : c \in ObjectFields
  BY DEF ObjectFields
<1>8. g.objs[o].members = mems BY <1>2, <1>6, <1>7
<1>9. /\ g.objs[o].parsed = h.objs[o].parsed /\ g.objs[o].error = h.objs[o].error
      /\ g.objs[o].cats = h.objs[o].cats /\ g.objs[o].dicts = h.objs[o].dicts
  BY <1>2, <1>6, <1>7
<1>10. SameKind(h, g) BY <1>1, <1>5, TouchedSame
<1>11. WellFormed(g) BY <1>1, <1>5, <1>8, TouchedWellFormed
<1>12. AllGood(g, X \cup {o}) BY <1>1, <1>5, TouchedGood
<1>13. X \cup {o} = X OBVIOUS
<1>14. Reading(g, X) BY <1>11, <1>12, <1>13 DEF Reading
<1>15. Seen(g, o) = ShownBy(h, mems) BY <1>1, <1>8, <1>10, SeenShown, ShownKept
<1> QED BY <1>6, <1>8, <1>9, <1>10, <1>14, <1>15

(* A member more. *)
LEMMA AddMemberFacts ==
    ASSUME NEW h, NEW X, Reading(h, X), NEW o \in 1..Size(h), o \in X,
           NEW m \in {NONE} \cup 2..Size(h)
    PROVE  /\ Reading(AddMember(h, o, m), X)
           /\ MoreMembers(h, AddMember(h, o, m), o)
           /\ Seen(AddMember(h, o, m), o) = Cat(Seen(h, o), One(Showing(h, m)))
           /\ AddMember(h, o, m).refs = h.refs
           /\ Size(AddMember(h, o, m)) = Size(h)
<1>1. PICK mems : mems = h.objs[o].members OBVIOUS
<1>2. PICK new : new = Append(mems, m) OBVIOUS
<1>3. PICK g : g = AddMember(h, o, m) OBVIOUS
<1>4. Shaped(h) /\ Size(h) \in Nat BY ReadingFacts
<1>5. /\ IsSeq(mems) /\ Len(mems) \in Nat
      /\ \A i \in 1..Len(mems) : mems[i] \in {NONE} \cup 2..Size(h)
  BY <1>1, <1>4, MembersFacts
<1>6. /\ IsSeq(new) /\ Len(new) = Len(mems) + 1
      /\ \A i \in 1..Len(mems) : new[i] = mems[i]
      /\ new[Len(mems) + 1] = m
  BY <1>2, <1>5, AppendFacts
<1>7. \A i \in 1..Len(new) : new[i] \in {NONE} \cup 2..Size(h) BY <1>5, <1>6
<1>8. g = Put(h, o, "members", new)
  <2>1. g = [h EXCEPT !.objs[o].members = new] BY <1>1, <1>2, <1>3 DEF AddMember
  <2> QED BY <1>4, <2>1, FieldsPut
<1>9. /\ Reading(g, X) /\ g.refs = h.refs /\ Size(g) = Size(h) /\ SameKind(h, g)
      /\ \A p \in 1..Size(h) : p # o => g.objs[p] = h.objs[p]
      /\ g.objs[o].parsed = h.objs[o].parsed /\ g.objs[o].error = h.objs[o].error
      /\ g.objs[o].cats = h.objs[o].cats /\ g.objs[o].dicts = h.objs[o].dicts
      /\ Seen(g, o) = ShownBy(h, new)
  BY <1>6, <1>7, <1>8, PutMembers
<1>10. Grown(h, g, o) BY <1>9, Zenon DEF Grown
<1>11. MoreMembers(h, g, o) BY <1>9, <1>10 DEF MoreMembers
<1>12. Seen(g, o) = Cat(Seen(h, o), One(Showing(h, m)))
  <2>1. new = Cat(mems, One(m)) BY <1>2, <1>5, CatFacts
  <2>2. IsSeq(One(m)) BY CatFacts
  <2> QED BY <1>1, <1>5, <1>9, <2>1, <2>2, SeenShown, ShownCat, ShownOne
<1> QED BY <1>3, <1>9, <1>11, <1>12

(* What a result is made of. *)
LEMMA Returned ==
    \A h, ret : /\ Return(h, ret).heap = h /\ Return(h, ret).ret = ret
                /\ Ok(Return(h, ret))
<1>1. \A h, ret : Return(h, ret).heap = h /\ Return(h, ret).ret = ret BY DEF Return
<1>2. \A h, ret : Ok(Return(h, ret)) BY DEF Return, Ok
<1> QED BY <1>1, <1>2

LEMMA Raised ==
    \A h, exc : /\ Raise(h, exc).heap = h /\ Raise(h, exc).exc = exc
BY DEF Raise

(* An object more, that is known by its refid or by none. *)
NewObject(h, g, cls, source, refid) ==
    /\ DOMAIN g = {"objs", "refs"}
    /\ g.objs = Append(h.objs, BaseInit(cls, source, refid))
    /\ \A r \in DOMAIN h.refs : r \in DOMAIN g.refs /\ g.refs[r] = h.refs[r]
    /\ \A r \in DOMAIN g.refs : r \notin DOMAIN h.refs =>
          g.refs[r] = Size(h) + 1 /\ r = refid /\ source.kind # "memberdef"
    /\ \/ FromTheIndex(g, Size(h) + 1)
       \/ FromAGroup(g, Size(h) + 1)
       \/ FromAMemberdef(g, Size(h) + 1)

LEMMA NewObjectFacts ==
    ASSUME NEW h, NEW X, Reading(h, X), NEW cls, NEW source, NEW refid, NEW g,
           NewObject(h, g, cls, source, refid)
    PROVE  /\ Reading(g, X) /\ More(h, g)
           /\ Size(g) = Size(h) + 1 /\ Size(h) + 1 \in 2..Size(g)
           /\ g.objs[Size(h) + 1] = BaseInit(cls, source, refid)
<1>0. /\ DOMAIN g = {"objs", "refs"}
      /\ g.objs = Append(h.objs, BaseInit(cls, source, refid))
      /\ \A r \in DOMAIN h.refs : r \in DOMAIN g.refs /\ g.refs[r] = h.refs[r]
      /\ \A r \in DOMAIN g.refs : r \notin DOMAIN h.refs =>
            g.refs[r] = Size(h) + 1 /\ r = refid /\ source.kind # "memberdef"
      /\ \/ FromTheIndex(g, Size(h) + 1)
         \/ FromAGroup(g, Size(h) + 1)
         \/ FromAMemberdef(g, Size(h) + 1)
  BY DEF NewObject
<1>1. PICK n \in Nat : n = Size(h) BY ReadingFacts
<1>2. PICK x : x = BaseInit(cls, source, refid) OBVIOUS
<1>3. Shaped(h) /\ RefsTrue(h) /\ Sourced(h) /\ AllGood(h, X) /\ n >= 1 /\ n + 1 \in Nat
  BY <1>1, ReadingFacts
<1>4. /\ DOMAIN x = ObjectFields /\ x.cls = cls /\ x.source = source /\ x.refid = refid
      /\ x.members = <<>> /\ ~x.parsed /\ ~x.error /\ DOMAIN x.cats = {} /\ DOMAIN x.dicts = {}
  BY <1>2 DEF BaseInit, ObjectFields
<1>5. /\ IsSeq(g.objs) /\ Size(g) = n + 1
      /\ \A p \in 1..n : g.objs[p] = h.objs[p]
      /\ g.objs[n + 1] = x
  <2>1. PICK s : s = h.objs OBVIOUS
  <2>2. IsSeq(s) /\ Len(s) = n BY <1>1, <1>3, <2>1 DEF Shaped, Size
  <2>3. /\ IsSeq(Append(s, x)) /\ Len(Append(s, x)) = Len(s) + 1
        /\ \A i \in 1..Len(s) : Append(s, x)[i] = s[i]
        /\ Append(s, x)[Len(s) + 1] = x
    BY <2>2, AppendFacts
  <2>4. g.objs = Append(s, x) BY <1>0, <1>2, <2>1
  <2> QED BY <2>1, <2>2, <2>3, <2>4, Zenon DEF Size
<1>6. SameKind(h, g)
  <2>1. Size(h) <= Size(g) BY <1>1, <1>5
  <2>2. \A p \in 1..Size(h) : g.objs[p] = h.objs[p] BY <1>1, <1>5
  <2> QED BY <2>1, <2>2, Zenon DEF SameKind
<1>7. More(h, g) BY <1>0, <1>1, <1>5, <1>6 DEF More
<1>8. Shaped(g)
  <2>1. ASSUME NEW p \in 1..(n + 1)
        PROVE  /\ DOMAIN g.objs[p] = ObjectFields
               /\ IsSeq(g.objs[p].members)
               /\ \A i \in 1..Len(g.objs[p].members) :
                     g.objs[p].members[i] \in {NONE} \cup 2..(n + 1)
    <3>1. CASE p = n + 1
      <4>1. g.objs[p] = x /\ x.members = <<>> BY <1>4, <1>5, <3>1
      <4>2. \A i \in 1..Len(<<>>) : FALSE BY EmptyIsSeq
      <4> QED BY <1>4, <4>1, <4>2, EmptyIsSeq, Zenon
    <3>2. CASE p # n + 1
      <4>1. p \in 1..n BY <3>2
      <4>2. g.objs[p] = h.objs[p] BY <1>5, <4>1
      <4>3. DOMAIN h.objs[p] = ObjectFields BY <1>1, <1>3, <4>1 DEF Shaped
      <4>4. p \in 1..Size(h) BY <1>1, <4>1
      <4>5. /\ IsSeq(h.objs[p].members)
            /\ \A i \in 1..Len(h.objs[p].members) : h.objs[p].members[i] \in {NONE} \cup 2..n
        BY <1>1, <1>3, <4>4, MembersFacts
      <4>6. \A m \in {NONE} \cup 2..n : m \in {NONE} \cup 2..(n + 1) OBVIOUS
      <4> QED BY <4>2, <4>3, <4>5, <4>6, Zenon
    <3> QED BY <3>1, <3>2
  <2>2. Size(g) >= 1 BY <1>5
  <2> QED BY <1>0, <1>5, <2>1, <2>2, Zenon DEF Shaped
<1>9. RefsTrue(g)
  <2>1. ASSUME NEW r \in DOMAIN g.refs
        PROVE  /\ g.refs[r] \in 2..Size(g)
               /\ g.objs[g.refs[r]].refid = r
               /\ g.objs[g.refs[r]].source.kind # "memberdef"
    <3>1. CASE r \notin DOMAIN h.refs
      <4>1. g.refs[r] = n + 1 /\ r = refid /\ source.kind # "memberdef"
        BY <1>0, <1>1, <3>1
      <4>2. n + 1 \in 2..Size(g) BY <1>3, <1>5
      <4>3. g.objs[n + 1] = x BY <1>5
      <4> QED BY <1>4, <4>1, <4>2, <4>3, Zenon
    <3>2. CASE r \in DOMAIN h.refs
      <4>1. PICK m : m = h.refs[r] OBVIOUS
      <4>2. /\ m \in 2..Size(h) /\ h.objs[m].refid = r
            /\ h.objs[m].source.kind # "memberdef" /\ g.refs[r] = m
        BY <1>0, <1>3, <3>2, <4>1, Zenon DEF RefsTrue
      <4>3. m \in 1..n /\ m \in 2..Size(g) BY <1>1, <1>5, <4>2
      <4>4. g.objs[m] = h.objs[m] BY <1>5, <4>3
      <4> QED BY <4>2, <4>3, <4>4, Zenon
    <3> QED BY <3>1, <3>2
  <2> QED BY <2>1, Zenon DEF RefsTrue
<1>10. Sourced(g)
  <2>1. Top \in 1..n BY <1>3 DEF Top
  <2>2. g.objs[Top] = h.objs[Top] BY <1>5, <2>1
  <2>3. h.objs[Top].cls = "DoxyIndex" /\ h.objs[Top].source = NoSource
    BY <1>3 DEF Sourced
  <2>4. ASSUME NEW p \in 2..(n + 1)
        PROVE  FromTheIndex(g, p) \/ FromAGroup(g, p) \/ FromAMemberdef(g, p)
    <3>1. CASE p = n + 1 BY <1>0, <1>1, <3>1
    <3>2. CASE p # n + 1
      <4>1. p \in 1..Size(h) /\ p \in 2..Size(h) BY <1>1, <3>2
      <4>2. FromTheIndex(h, p) \/ FromAGroup(h, p) \/ FromAMemberdef(h, p)
        BY <1>3, <4>1 DEF Sourced
      <4> QED BY <1>0, <1>6, <4>1, <4>2, OriginKept
    <3> QED BY <3>1, <3>2
  <2> QED BY <1>5, <2>2, <2>3, <2>4, Zenon DEF Sourced
<1>11. Good(g, n + 1)
  <2>1. g.objs[n + 1] = x BY <1>5
  <2>2. Idle(g, n + 1) BY <1>4, <2>1, Zenon DEF Idle, NoCaches
  <2>3. n + 1 # Top /\ ~g.objs[n + 1].parsed BY <1>3, <1>4, <2>1 DEF Top
  <2>4. MembersComplete(g, n + 1) BY <2>3, Zenon DEF MembersComplete
  <2>5. CatsTrue(g, n + 1) /\ DictsTrue(g, n + 1)
    <3>1. DOMAIN g.objs[n + 1].cats = {} /\ DOMAIN g.objs[n + 1].dicts = {}
      BY <1>4, <2>1, Zenon
    <3> QED BY <3>1, Zenon DEF CatsTrue, DictsTrue
  <2> QED BY <2>2, <2>4, <2>5 DEF Good
<1>12. AllGood(g, X)
  <2>1. ASSUME NEW p \in 1..(n + 1), p \notin X PROVE Good(g, p)
    <3>1. CASE p = n + 1 BY <1>11, <3>1
    <3>2. CASE p # n + 1
      <4>1. p \in 1..Size(h) BY <1>1, <3>2
      <4>2. g.objs[p] = h.objs[p] BY <1>1, <1>5, <4>1
      <4>3. Good(h, p) BY <1>3, <2>1, <4>1 DEF AllGood
      <4>4. Size(g) \in Nat BY <1>3, <1>5
      <4> QED BY <1>3, <1>6, <4>1, <4>2, <4>3, <4>4, GoodKept
    <3> QED BY <3>1, <3>2
  <2> QED BY <1>5, <2>1, Zenon DEF AllGood
<1>13. Reading(g, X) BY <1>8, <1>9, <1>10, <1>12 DEF Reading, WellFormed
<1>14. Size(g) = Size(h) + 1 /\ Size(h) + 1 \in 2..Size(g) BY <1>1, <1>3, <1>5
<1>15. g.objs[Size(h) + 1] = BaseInit(cls, source, refid) BY <1>1, <1>2, <1>5
<1> QED BY <1>7, <1>13, <1>14, <1>15

(* A result that gives an object that shows what member says. *)
Gives(h, X, res, member) ==
    /\ Reading(res.heap, X) /\ More(h, res.heap)
    /\ res.ret \in {NONE} \cup 2..Size(res.heap)
    /\ Showing(res.heap, res.ret) = member
    /\ Ok(res)

NoText == ""

(* convert_mem of a memberdef: a new object that shows it, or None. *)
LEMMA ConvertMemberdef ==
    ASSUME NEW h, NEW X, Reading(h, X), NEW r \in DOMAIN project.files,
           NEW k \in 1..Len(MemberdefsOf(r)), NEW res,
           res = convert_mem(h, MemberdefsOf(r)[k], FromFile(r, k))
    PROVE  Gives(h, X, res, MemberFor(MemberdefsOf(r)[k])) /\ res.heap.refs = h.refs
<1> DEFINE def == MemberdefsOf(r)[k]
<1>1. CASE get_cls(def) = ""
  <2>1. res = Return(h, NONE) BY <1>1, Zenon DEF convert_mem
  <2>2. res.heap = h /\ res.ret = NONE /\ Ok(res) BY <2>1, Returned
  <2>3. Showing(h, NONE) = NoMember BY Zenon DEF Showing
  <2>4. MemberFor(def) = NoMember BY <1>1, Zenon DEF MemberFor
  <2>5. More(h, h) BY ReadingFacts, MoreItself
  <2> HIDE DEF def
  <2> QED BY <2>2, <2>3, <2>4, <2>5 DEF def, Gives
<1>2. CASE get_cls(def) # ""
  <2> DEFINE x == BaseInit(get_cls(def), FromFile(r, k), NoText)
             g == Allocate(h, x)
             n == Size(h) + 1
  <2>1. res = from_parse_data(h, get_cls(def), def, FromFile(r, k))
    BY <1>2, Zenon DEF convert_mem
  <2>2. FromFile(r, k).kind = "memberdef" /\ FromFile(r, k).refid = r /\ FromFile(r, k).k = k
    BY DEF FromFile
  <2>3. res = Return(g, Len(g.objs)) BY <2>1, <2>2, Zenon DEF from_parse_data, NoText
  <2>4. res.heap = g /\ res.ret = Size(g) /\ Ok(res) BY <2>3, Returned DEF Size
  <2>5. DOMAIN h = {"objs", "refs"} /\ IsSeq(h.objs) /\ Len(h.objs) = Size(h) /\ Size(h) \in Nat
    BY ReadingFacts DEF Shaped, Size
  <2>6. DOMAIN g = {"objs", "refs"} /\ g.objs = Append(h.objs, x) /\ g.refs = h.refs
    BY <2>5 DEF Allocate
  <2>7. g.objs[n] = x
    <3> HIDE DEF g, x
    <3>1. PICK s : s = h.objs OBVIOUS
    <3>2. Append(s, x)[Len(s) + 1] = x BY <2>5, <3>1, AppendFacts
    <3> QED BY <2>5, <2>6, <3>1, <3>2
  <2>8. x.cls = get_cls(def) /\ x.source = FromFile(r, k) BY DEF BaseInit
  <2> HIDE DEF g, x
  <2>9. FromAMemberdef(g, n) BY <1>2, <2>7, <2>8, Zenon DEF FromAMemberdef
  <2>10. /\ Reading(g, X) /\ More(h, g) /\ Size(g) = n /\ n \in 2..Size(g)
    <3>1. \A b \in DOMAIN h.refs : b \in DOMAIN g.refs /\ g.refs[b] = h.refs[b] BY <2>6
    <3>2. \A b \in DOMAIN g.refs : b \notin DOMAIN h.refs =>
            g.refs[b] = Size(h) + 1 /\ b = NoText /\ FromFile(r, k).kind # "memberdef"
      BY <2>6
    <3>3. g.objs = Append(h.objs, BaseInit(get_cls(def), FromFile(r, k), NoText)) BY <2>6 DEF x
    <3> HIDE DEF def
    <3>4. NewObject(h, g, get_cls(def), FromFile(r, k), NoText)
      BY <2>6, <2>9, <3>1, <3>2, <3>3, Zenon DEF NewObject
    <3> QED BY <3>4, NewObjectFacts
  <2>11. Showing(g, n) = MemberFor(def)
    <3>1. n # NONE BY <2>5 DEF NONE
    <3>2. NameFor(g, n) = StringField(def, "name")
      <4>1. g.objs[n].source = FromFile(r, k) BY <2>7, <2>8
      <4>2. ParseData(g, n) = def BY <2>2, <4>1 DEF ParseData
      <4> QED BY <2>2, <4>1, <4>2 DEF NameFor
    <3>3. g.objs[n].cls = get_cls(def) BY <2>7, <2>8
    <3> QED BY <1>2, <3>1, <3>2, <3>3, Zenon DEF Showing, MemberFor
  <2> QED BY <2>4, <2>6, <2>10, <2>11 DEF Gives
<1> QED BY <1>1, <1>2


(* Its object becomes a member of o. *)
LEMMA AddConvertedFacts ==
    ASSUME NEW g, NEW X, Reading(g, X), NEW o \in 1..Size(g), o \in X, NEW member, NEW cm,
           Gives(g, X, cm, member), NEW res, res = AddConverted(cm, o)
    PROVE  /\ Ok(res) /\ Reading(res.heap, X) /\ MoreMembers(g, res.heap, o)
           /\ res.heap.refs = cm.heap.refs
           /\ Seen(res.heap, o) = Cat(Seen(g, o), One(member))
<1>1. PICK c : c = cm.heap OBVIOUS
<1>2. PICK m : m = cm.ret OBVIOUS
<1>3. PICK f : f = AddMember(c, o, m) OBVIOUS
<1>4. /\ Reading(c, X) /\ More(g, c) /\ m \in {NONE} \cup 2..Size(c)
      /\ Showing(c, m) = member
  BY <1>1, <1>2 DEF Gives
<1>5. res = Return(f, NONE) BY <1>1, <1>2, <1>3, Zenon DEF AddConverted
<1>6. res.heap = f /\ Ok(res) BY <1>5, Returned
<1>7. Shaped(g) /\ Size(g) \in Nat /\ Shaped(c) /\ Size(c) \in Nat /\ Size(g) <= Size(c)
  BY <1>4, ReadingFacts DEF More, SameKind
<1>8. o \in 1..Size(c) BY <1>7
<1>9. /\ Reading(f, X) /\ MoreMembers(c, f, o) /\ f.refs = c.refs /\ Size(f) = Size(c)
      /\ Seen(f, o) = Cat(Seen(c, o), One(Showing(c, m)))
  BY <1>3, <1>4, <1>8, AddMemberFacts
<1>10. MoreMembers(g, c, o) BY <1>4, MoreIsGrown
<1>11. MoreMembers(g, f, o) BY <1>7, <1>9, <1>10, MoreMembersTrans
<1>12. Seen(c, o) = Seen(g, o)
  <2>1. SameKind(g, c) /\ c.objs[o] = g.objs[o] BY <1>4 DEF More
  <2> QED BY <1>7, <2>1, SeenKept
<1> QED BY <1>1, <1>4, <1>6, <1>9, <1>11, <1>12

-----------------------------------------------------------------------------
(* What ProjectsAssumption says of the project that is read. *)
LEMMA AllFlattenIsSeq ==
    ASSUME NEW seqs, NEW n \in Nat, \A i \in 1..n : IsSeq(seqs[i])
    PROVE  IsSeq(FirstOfAll(seqs, n))
<1>1. CASE n = 0 BY <1>1, FirstNone, EmptyIsSeq
<1>2. CASE n # 0
  <2>1. PICK k \in Nat : k + 1 = n
    <3>1. n - 1 \in Nat /\ (n - 1) + 1 = n BY <1>2
    <3> QED BY <3>1
  <2>2. \A i \in 1..(k + 1) : IsSeq(seqs[i]) BY <2>1
  <2>3. /\ IsSeq(FirstOfAll(seqs, k))
        /\ FirstOfAll(seqs, k + 1) = Cat(FirstOfAll(seqs, k), seqs[k + 1])
    BY <2>2, FirstNext
  <2>4. IsSeq(seqs[k + 1]) BY <2>2
  <2>5. IsSeq(Cat(FirstOfAll(seqs, k), seqs[k + 1])) BY <2>3, <2>4, CatFacts
  <2> QED BY <2>1, <2>3, <2>5
<1> QED BY <1>1, <1>2

LEMMA ProjectFacts ==
    ASSUME project \in Projects
    PROVE  /\ Len(IndexEntries) \in Nat
           /\ \A r : ~(r \in project.malformed /\ r \in DOMAIN project.files)
           /\ \A i, j \in 1..Len(IndexEntries) : RefidAt(i) = RefidAt(j) => i = j
           /\ \A r \in DOMAIN project.files :
                 /\ Len(FileOf(r).fields["innergroup"]) \in Nat
                 /\ Len(FileOf(r).fields["innerclass"]) \in Nat
                 /\ Len(MemberdefsOf(r)) \in Nat
<1>1. Len(IndexEntries) \in Nat BY ProjectsAssumption DEF IndexEntries
<1>2. \A i, j \in 1..Len(IndexEntries) : RefidAt(i) = RefidAt(j) => i = j
  BY ProjectsAssumption DEF IndexEntries, RefidAt, RefidOf
<1>4. \A r : ~(r \in project.malformed /\ r \in DOMAIN project.files)
  BY ProjectsAssumption, Zenon
<1>3. ASSUME NEW r \in DOMAIN project.files
      PROVE  /\ Len(FileOf(r).fields["innergroup"]) \in Nat
             /\ Len(FileOf(r).fields["innerclass"]) \in Nat
             /\ Len(MemberdefsOf(r)) \in Nat
  <2> DEFINE sections == FileOf(r).fields["sectiondef"]
             n == Len(sections)
             defs(i) == sections[i].fields["memberdef"]
             seqs == [i \in 1..n |-> defs(i)]
  <2>1. Len(FileOf(r).fields["innergroup"]) \in Nat /\ Len(FileOf(r).fields["innerclass"]) \in Nat
    BY ProjectsAssumption DEF FileOf
  <2>2. n \in Nat BY ProjectsAssumption DEF FileOf
  <2>3. \A i \in 1..n : defs(i) \in Seq({defs(i)[j] : j \in DOMAIN defs(i)})
    BY ProjectsAssumption, Zenon DEF FileOf
  <2>4. \A i \in 1..n : seqs[i] = defs(i) OBVIOUS
  <2>5. \A i \in 1..n : IsSeq(seqs[i])
    <3> HIDE DEF defs, seqs, n
    <3> QED BY <2>3, <2>4, Zenon DEF IsSeq
  <2>6. MemberdefsOf(r) = FirstOfAll(seqs, n)
    <3>1. seqs = [i \in 1..n |-> seqs[i]] OBVIOUS
    <3>2. MemberdefsOf(r) = FlattenSeq(seqs) BY Zenon DEF MemberdefsOf, MemberdefsIn
    <3> HIDE DEF seqs, n
    <3> QED BY <3>1, <3>2, Zenon DEF FirstOfAll
  <2>7. IsSeq(MemberdefsOf(r))
    <3> HIDE DEF seqs, n
    <3> QED BY <2>2, <2>5, <2>6, AllFlattenIsSeq
  <2> QED BY <2>1, <2>7, SeqFacts
<1> QED BY <1>1, <1>2, <1>3, <1>4

-----------------------------------------------------------------------------
(* The members that a compound has for its first memberdefs. *)
FirstNamed(r, k) ==
    \A j \in 1..(k - 1) :
      StringField(MemberdefsOf(r)[j], "name") # StringField(MemberdefsOf(r)[k], "name")

KeptDefs(r) ==
    [k \in 1..Len(MemberdefsOf(r)) |->
       IF FirstNamed(r, k) THEN <<MemberFor(MemberdefsOf(r)[k])>> ELSE <<>>]

LEMMA DefMembersKept ==
    ASSUME NEW r
    PROVE  DefMembers(r) = FirstOfAll(KeptDefs(r), Len(MemberdefsOf(r)))
<1>1. DefMembers(r) = FlattenSeq(KeptDefs(r)) BY Zenon DEF DefMembers, KeptDefs, FirstNamed
<1>2. KeptDefs(r) = [k \in 1..Len(MemberdefsOf(r)) |-> KeptDefs(r)[k]] BY DEF KeptDefs
<1> QED BY <1>1, <1>2, Zenon DEF FirstOfAll

NamesOf(r, k) == {StringField(MemberdefsOf(r)[j], "name") : j \in 1..k}

(* What the first k passes of process_memberdefs come to. *)
DefsAdded(h, o, X, r, k, res) ==
    /\ Ok(res) /\ res.ret = NamesOf(r, k)
    /\ Reading(res.heap, X) /\ MoreMembers(h, res.heap, o) /\ res.heap.refs = h.refs
    /\ Seen(res.heap, o) = Cat(Seen(h, o), FirstOfAll(KeptDefs(r), k))

LEMMA DefAdded ==
    ASSUME NEW h, NEW X, Reading(h, X), NEW o \in 1..Size(h), o \in X,
           NEW r \in DOMAIN project.files, h.objs[o].refid = r, Len(MemberdefsOf(r)) \in Nat,
           NEW k \in Nat, k + 1 \in 1..Len(MemberdefsOf(r)), NEW res,
           DefsAdded(h, o, X, r, k, res)
    PROVE  DefsAdded(h, o, X, r, k + 1, Pass("memberdefs", o, NONE, <<>>, res, k + 1))
<1> DEFINE def == MemberdefsOf(r)[k + 1]
           n == StringField(def, "name")
           seqs == KeptDefs(r)
<1>1. PICK g : g = res.heap OBVIOUS
<1>2. PICK next : next = Pass("memberdefs", o, NONE, <<>>, res, k + 1) OBVIOUS
<1>3. /\ Ok(res) /\ res.ret = NamesOf(r, k)
      /\ Reading(g, X) /\ MoreMembers(h, g, o) /\ g.refs = h.refs
      /\ Seen(g, o) = Cat(Seen(h, o), FirstOfAll(seqs, k))
  BY <1>1 DEF DefsAdded
<1>4. /\ Shaped(h) /\ Size(h) \in Nat /\ Shaped(g) /\ Size(g) \in Nat
  BY <1>3, ReadingFacts
<1>5. Size(h) <= Size(g) /\ g.objs[o].refid = r
  BY <1>3 DEF MoreMembers, Grown, SameKind
<1>6. o \in 1..Size(g) BY <1>4, <1>5
<1>7. next = AddMemberdef(g, o, NamesOf(r, k), k + 1) BY <1>1, <1>2, <1>3, Zenon DEF Pass
<1>8. NamesOf(r, k + 1) = NamesOf(r, k) \cup {n}
  <2>1. 1..(k + 1) = 1..k \cup {k + 1} OBVIOUS
  <2> QED BY <2>1, Zenon DEF NamesOf
<1>9. n \in NamesOf(r, k) <=> ~FirstNamed(r, k + 1)
  <2>1. (k + 1) - 1 = k OBVIOUS
  <2> QED BY <2>1, Zenon DEF NamesOf, FirstNamed
<1>10. seqs[k + 1] = IF FirstNamed(r, k + 1) THEN <<MemberFor(def)>> ELSE <<>>
  BY Zenon DEF KeptDefs
<1>11. /\ IsSeq(FirstOfAll(seqs, k))
       /\ FirstOfAll(seqs, k + 1) = Cat(FirstOfAll(seqs, k), seqs[k + 1])
  <2>1. ASSUME NEW i \in 1..(k + 1) PROVE IsSeq(seqs[i])
    <3>1. i \in 1..Len(MemberdefsOf(r)) OBVIOUS
    <3>2. seqs[i] = IF FirstNamed(r, i) THEN <<MemberFor(MemberdefsOf(r)[i])>> ELSE <<>>
      BY <3>1, Zenon DEF KeptDefs
    <3> QED BY <3>2, OneIsSeq, EmptyIsSeq, Zenon
  <2> HIDE DEF seqs
  <2> QED BY <2>1, FirstNext
<1>12. IsSeq(Seen(h, o)) BY <1>4, SeenFacts
<1> HIDE DEF n, seqs, def
<1>13. CASE n \in NamesOf(r, k)
  <2>1. next = Return(g, NamesOf(r, k))
    BY <1>5, <1>7, <1>13, Zenon DEF AddMemberdef, n, def
  <2>2. Ok(next) /\ next.ret = NamesOf(r, k) /\ next.heap = g BY <2>1, Returned
  <2>3. NamesOf(r, k + 1) = NamesOf(r, k) BY <1>8, <1>13
  <2>4. FirstOfAll(seqs, k + 1) = FirstOfAll(seqs, k)
    BY <1>9, <1>10, <1>11, <1>13, CatFacts
  <2> QED BY <1>2, <1>3, <2>2, <2>3, <2>4 DEF DefsAdded, seqs
<1>14. CASE n \notin NamesOf(r, k)
  <2>1. PICK cm : cm = convert_mem(g, def, FromFile(r, k + 1)) OBVIOUS
  <2>2. Gives(g, X, cm, MemberFor(def)) /\ cm.heap.refs = g.refs
    <3>1. PICK j : j = k + 1 OBVIOUS
    <3>2. j \in 1..Len(MemberdefsOf(r)) BY <3>1
    <3>3. cm = convert_mem(g, MemberdefsOf(r)[j], FromFile(r, j)) BY <2>1, <3>1 DEF def
    <3>4. Gives(g, X, cm, MemberFor(MemberdefsOf(r)[j])) /\ cm.heap.refs = g.refs
      BY <1>3, <3>2, <3>3, ConvertMemberdef
    <3> QED BY <3>1, <3>4 DEF def
  <2>3. PICK added : added = AddConverted(cm, o) OBVIOUS
  <2>4. PICK f : f = added.heap OBVIOUS
  <2>5. /\ Reading(f, X) /\ MoreMembers(g, f, o) /\ f.refs = g.refs
        /\ Seen(f, o) = Cat(Seen(g, o), One(MemberFor(def)))
    BY <1>3, <1>6, <2>2, <2>3, <2>4, AddConvertedFacts
  <2>6. next = Return(f, NamesOf(r, k) \cup {n})
    BY <1>5, <1>7, <1>14, <2>1, <2>3, <2>4, Zenon DEF AddMemberdef, n, def
  <2>7. Ok(next) /\ next.ret = NamesOf(r, k + 1) /\ next.heap = f
    BY <1>8, <2>6, Returned
  <2>8. MoreMembers(h, f, o)
    <3>1. Size(f) \in Nat BY <2>5, ReadingFacts
    <3> QED BY <1>3, <1>4, <2>5, <3>1, MoreMembersTrans
  <2>9. Seen(f, o) = Cat(Seen(h, o), FirstOfAll(seqs, k + 1))
    <3>1. PICK x : x = One(MemberFor(def)) OBVIOUS
    <3>2. PICK s : s = Seen(h, o) OBVIOUS
    <3>3. PICK t : t = FirstOfAll(seqs, k) OBVIOUS
    <3>4. IsSeq(s) /\ IsSeq(t) /\ IsSeq(x) BY <1>11, <1>12, <3>1, <3>2, <3>3, CatFacts
    <3>5. Seen(f, o) = Cat(Cat(s, t), x) BY <1>3, <2>5, <3>1, <3>2, <3>3
    <3>6. Cat(Cat(s, t), x) = Cat(s, Cat(t, x)) BY <3>4, CatFacts
    <3>7. seqs[k + 1] = x BY <1>9, <1>10, <1>14, <3>1 DEF One
    <3>8. FirstOfAll(seqs, k + 1) = Cat(t, x) BY <1>11, <3>3, <3>7
    <3> QED BY <3>2, <3>5, <3>6, <3>8
  <2> QED BY <1>2, <1>3, <2>5, <2>7, <2>8, <2>9 DEF DefsAdded, seqs
<1> QED BY <1>13, <1>14

LEMMA ProcessMemberdefs ==
    ASSUME project \in Projects, NEW h, NEW X, Reading(h, X), NEW o \in 1..Size(h), o \in X,
           NEW r \in DOMAIN project.files, h.objs[o].refid = r, NEW res,
           res = process_memberdefs(h, o)
    PROVE  /\ Ok(res) /\ Reading(res.heap, X) /\ MoreMembers(h, res.heap, o)
           /\ res.heap.refs = h.refs
           /\ Seen(res.heap, o) = Cat(Seen(h, o), DefMembers(r))
<1>1. PICK n \in Nat : n = Len(MemberdefsOf(r)) BY ProjectFacts
<1>2. PICK run : /\ LoopRun(run, "memberdefs", o, NONE, <<>>, Return(h, {}), n)
                 /\ process_memberdefs(h, o) =
                      IF Ok(run[n]) THEN Return(run[n].heap, NONE) ELSE run[n]
  BY <1>1, MemberdefsLoop
<1> DEFINE S == {k \in Nat : k <= n => DefsAdded(h, o, X, r, k, run[k])}
<1>3. 0 \in S
  <2>1. PICK start : start = Return(h, {}) OBVIOUS
  <2>2. start.heap = h /\ start.ret = {} /\ Ok(start) BY <2>1, Returned
  <2>3. NamesOf(r, 0) = {} BY DEF NamesOf
  <2>4. MoreMembers(h, h, o) BY ReadingFacts, MoreItself, MoreIsGrown
  <2>5. Seen(h, o) = Cat(Seen(h, o), FirstOfAll(KeptDefs(r), 0))
    <3>1. IsSeq(Seen(h, o)) BY ReadingFacts, SeenFacts
    <3> QED BY <3>1, FirstNone, CatFacts
  <2>6. DefsAdded(h, o, X, r, 0, start) BY <2>2, <2>3, <2>4, <2>5 DEF DefsAdded
  <2> QED BY <1>2, <2>1, <2>6 DEF LoopRun
<1>4. ASSUME NEW k \in Nat, k \in S PROVE k + 1 \in S
  <2> SUFFICES ASSUME k + 1 <= n PROVE DefsAdded(h, o, X, r, k + 1, run[k + 1])
    OBVIOUS
  <2>1. DefsAdded(h, o, X, r, k, run[k]) BY <1>4
  <2>2. k + 1 \in 1..n /\ (k + 1) - 1 = k OBVIOUS
  <2>3. run[k + 1] = Pass("memberdefs", o, NONE, <<>>, run[k], k + 1)
    BY <1>2, <2>2, Zenon DEF LoopRun
  <2>4. DefsAdded(h, o, X, r, k + 1, Pass("memberdefs", o, NONE, <<>>, run[k], k + 1))
    <3>1. Len(MemberdefsOf(r)) \in Nat /\ k + 1 \in 1..Len(MemberdefsOf(r)) BY <1>1, <2>2
    <3>2. PICK before : before = run[k] OBVIOUS
    <3> HIDE DEF S
    <3>3. DefsAdded(h, o, X, r, k + 1, Pass("memberdefs", o, NONE, <<>>, before, k + 1))
      BY <2>1, <3>1, <3>2, DefAdded
    <3> QED BY <3>2, <3>3
  <2> QED BY <2>3, <2>4
<1> HIDE DEF S
<1>5. n \in S BY <1>3, <1>4, SetInduction
<1>6. DefsAdded(h, o, X, r, n, run[n]) BY <1>5 DEF S
<1>7. res = Return(run[n].heap, NONE) BY <1>2, <1>6 DEF DefsAdded
<1>8. res.heap = run[n].heap /\ Ok(res)
  <2>1. PICK f : f = run[n].heap OBVIOUS
  <2>2. res = Return(f, NONE) BY <1>7, <2>1
  <2>3. res.heap = f BY <2>2, Returned
  <2>4. Ok(res) BY <2>2, Returned
  <2> QED BY <2>1, <2>3, <2>4
<1>9. DefMembers(r) = FirstOfAll(KeptDefs(r), n) BY <1>1, DefMembersKept
<1> QED BY <1>6, <1>8, <1>9 DEF DefsAdded

-----------------------------------------------------------------------------
(* The index stays read as long as an object stays what it is. *)
LEMMA IndexDoneKept ==
    ASSUME NEW h, Shaped(h), RefsTrue(h), IndexDone(h), NEW g, NEW o, Grown(h, g, o)
    PROVE  IndexDone(g)
<1>1. ASSUME NEW i \in Indexed
      PROVE  RefidAt(i) \in DOMAIN g.refs /\ g.objs[g.refs[RefidAt(i)]].source = FromIndex(i)
  <2>1. PICK r : r = RefidAt(i) OBVIOUS
  <2>2. PICK m : m = h.refs[r] OBVIOUS
  <2>3. r \in DOMAIN h.refs /\ h.objs[m].source = FromIndex(i)
    BY <2>1, <2>2, Zenon DEF IndexDone
  <2>4. m \in 2..Size(h) /\ Size(h) \in Nat BY <2>2, <2>3, SizeFacts DEF RefsTrue
  <2>5. m \in 1..Size(h) BY <2>4
  <2>6. r \in DOMAIN g.refs /\ g.refs[r] = m /\ g.objs[m].source = h.objs[m].source
    BY <2>2, <2>3, <2>5 DEF Grown, SameKind
  <2> QED BY <2>1, <2>3, <2>6, Zenon
<1> QED BY <1>1, Zenon DEF IndexDone

(* What is a group in one group is not a class in another. *)
LEMMA OneInnerClass ==
    ASSUME project \in Projects, NEW refid, NEW a, NEW b, Inner(refid, a), Inner(refid, b)
    PROVE  a = b
<1>1. \A r, s \in DOMAIN project.files :
        \A i \in 1..Len(FileOf(r).fields["innergroup"]),
           j \in 1..Len(FileOf(s).fields["innerclass"]) :
          RefidOf(FileOf(r).fields["innergroup"][i]) # RefidOf(FileOf(s).fields["innerclass"][j])
  BY ProjectsAssumption, Zenon DEF FileOf, RefidOf
<1>2. CASE a = "DoxyGroup" /\ b = "DoxyClass" BY <1>1, <1>2, Zenon DEF Inner
<1>3. CASE a = "DoxyClass" /\ b = "DoxyGroup" BY <1>1, <1>3, Zenon DEF Inner
<1>4. a \in {"DoxyGroup", "DoxyClass"} /\ b \in {"DoxyGroup", "DoxyClass"}
  BY Zenon DEF Inner
<1> QED BY <1>2, <1>3, <1>4

(* What an object shows that is known by a refid. *)
LEMMA ShowingIndexed ==
    ASSUME NEW h, NEW m, m # NONE, NEW i \in Indexed,
           h.objs[m].source = FromIndex(i), h.objs[m].cls = ClassAt(i)
    PROVE  Showing(h, m) = MemberFor(IndexEntries[i])
<1>1. FromIndex(i).kind = "index" /\ FromIndex(i).k = i BY DEF FromIndex
<1>2. NameFor(h, m) = StringField(IndexEntries[i], "name")
  <2>1. ParseData(h, m) = IndexEntries[i] BY <1>1 DEF ParseData
  <2> QED BY <1>1, <2>1 DEF NameFor
<1>3. ClassAt(i) # "" BY Zenon DEF Indexed
<1>4. get_cls(IndexEntries[i]) = ClassAt(i) BY DEF ClassAt
<1> QED BY <1>2, <1>3, <1>4, Zenon DEF Showing, MemberFor

LEMMA ShowingUnnamed ==
    ASSUME NEW h, NEW m, m # NONE, h.objs[m].source = NoSource
    PROVE  Showing(h, m) = [name |-> <<>>, cls |-> h.objs[m].cls]
<1>1. NoSource.kind = "none" BY Zenon DEF NoSource
<1>2. NameFor(h, m) = <<>> BY <1>1, Zenon DEF NameFor
<1> QED BY <1>2, Zenon DEF Showing

LEMMA InnerIndexed ==
    ASSUME project \in Projects, NEW i \in Indexed, NEW cls
    PROVE  InnerMember(RefidAt(i), cls) = MemberFor(IndexEntries[i])
<1> DEFINE P(j) == j \in Indexed /\ RefidAt(j) = RefidAt(i)
<1>1. PICK j : j = CHOOSE b \in Indexed : RefidAt(b) = RefidAt(i) OBVIOUS
<1>2. j \in Indexed /\ RefidAt(j) = RefidAt(i) BY <1>1, Zenon
<1>3. i \in 1..Len(IndexEntries) /\ j \in 1..Len(IndexEntries) BY <1>2 DEF Indexed
<1>4. j = i BY <1>2, <1>3, ProjectFacts
<1> QED BY <1>1, <1>4, Zenon DEF InnerMember

LEMMA InnerUnnamed ==
    ASSUME NEW refid, \A i \in Indexed : RefidAt(i) # refid, NEW cls
    PROVE  InnerMember(refid, cls) = [name |-> <<>>, cls |-> cls]
BY Zenon DEF InnerMember

(* from_refid: the object that is known by the refid, or a new one. *)
LEMMA KnownShows ==
    ASSUME project \in Projects, NEW h, NEW X, Reading(h, X), NEW refid \in DOMAIN h.refs,
           NEW cls, Inner(refid, cls), NEW m, m = h.refs[refid]
    PROVE  m \in 2..Size(h) /\ m # NONE /\ Showing(h, m) = InnerMember(refid, cls)
<1>1. /\ m \in 2..Size(h) /\ h.objs[m].refid = refid
      /\ h.objs[m].source.kind # "memberdef"
  BY ReadingFacts DEF RefsTrue
<1>2. m # NONE BY <1>1 DEF NONE
<1>3. FromTheIndex(h, m) \/ FromAGroup(h, m) \/ FromAMemberdef(h, m)
  BY <1>1, ReadingFacts DEF Sourced
<1>4. CASE FromTheIndex(h, m)
  <2>1. PICK i \in Indexed : /\ h.objs[m].source = FromIndex(i) /\ h.objs[m].cls = ClassAt(i)
                             /\ h.objs[m].refid = RefidAt(i)
    BY <1>4 DEF FromTheIndex
  <2>2. Showing(h, m) = MemberFor(IndexEntries[i]) BY <1>2, <2>1, ShowingIndexed
  <2>3. InnerMember(refid, cls) = MemberFor(IndexEntries[i]) BY <1>1, <2>1, InnerIndexed
  <2> QED BY <1>1, <1>2, <2>2, <2>3
<1>5. CASE FromAGroup(h, m)
  <2>1. /\ h.objs[m].source = NoSource /\ \A i \in Indexed : RefidAt(i) # refid
        /\ Inner(refid, h.objs[m].cls)
    BY <1>1, <1>5 DEF FromAGroup
  <2>2. h.objs[m].cls = cls BY <2>1, OneInnerClass
  <2>3. Showing(h, m) = [name |-> <<>>, cls |-> cls] BY <1>2, <2>1, <2>2, ShowingUnnamed
  <2> QED BY <1>1, <1>2, <2>1, <2>3, InnerUnnamed
<1>6. ~FromAMemberdef(h, m)
  <2>1. \A r, k : FromFile(r, k).kind = "memberdef" BY DEF FromFile
  <2> QED BY <1>1, <2>1, Zenon DEF FromAMemberdef
<1> QED BY <1>3, <1>4, <1>5, <1>6

LEMMA FromRefid ==
    ASSUME project \in Projects, NEW h, NEW X, Reading(h, X), IndexDone(h), NEW refid, NEW cls,
           Inner(refid, cls), NEW res, res = from_refid(h, cls, refid)
    PROVE  Gives(h, X, res, InnerMember(refid, cls))
<1>1. CASE refid \in DOMAIN h.refs
  <2>1. PICK m : m = h.refs[refid] OBVIOUS
  <2>2. res = Return(h, m) BY <1>1, <2>1, Zenon DEF from_refid
  <2>3. res.heap = h /\ res.ret = m /\ Ok(res) BY <2>2, Returned
  <2>4. m \in 2..Size(h) /\ m # NONE /\ Showing(h, m) = InnerMember(refid, cls)
    BY <1>1, <2>1, KnownShows
  <2>5. More(h, h) BY ReadingFacts, MoreItself
  <2> QED BY <2>3, <2>4, <2>5 DEF Gives
<1>2. CASE refid \notin DOMAIN h.refs
  <2> DEFINE x == BaseInit(cls, NoSource, refid)
             a == Allocate(h, x)
             g == add_ref(a, refid)
             n == Size(h) + 1
  <2>1. res = Return(g, Len(g.objs)) BY <1>2, Zenon DEF from_refid
  <2>2. res.heap = g /\ res.ret = Size(g) /\ Ok(res) BY <2>1, Returned DEF Size
  <2>3. DOMAIN h = {"objs", "refs"} /\ IsSeq(h.objs) /\ Len(h.objs) = Size(h) /\ Size(h) \in Nat
    BY ReadingFacts DEF Shaped, Size
  <2>4. DOMAIN a = {"objs", "refs"} /\ a.objs = Append(h.objs, x) /\ a.refs = h.refs
    BY <2>3 DEF Allocate
  <2> HIDE DEF a
  <2>5. PICK s : s = h.objs OBVIOUS
  <2>6. Len(Append(s, x)) = Len(s) + 1 /\ Append(s, x)[Len(s) + 1] = x
    <3> HIDE DEF x
    <3> QED BY <2>3, <2>5, AppendFacts
  <2>7. /\ DOMAIN g = {"objs", "refs"} /\ g.objs = Append(h.objs, x)
        /\ g.refs = Assign(h.refs, refid, n)
    <3>1. g = [a EXCEPT !.refs = Assign(a.refs, refid, Len(a.objs))] BY DEF add_ref
    <3>2. Len(a.objs) = n BY <2>3, <2>4, <2>5, <2>6
    <3> HIDE DEF x, g
    <3> QED BY <2>4, <3>1, <3>2
  <2>8. g.objs[n] = x BY <2>3, <2>5, <2>6, <2>7
  <2>9. x.cls = cls /\ x.source = NoSource /\ x.refid = refid BY DEF BaseInit
  <2> HIDE DEF g, x
  <2>10. /\ DOMAIN g.refs = DOMAIN h.refs \cup {refid} /\ g.refs[refid] = n
         /\ \A b \in DOMAIN h.refs : g.refs[b] = h.refs[b]
    BY <1>2, <2>7 DEF Assign
  <2>11. \A i \in Indexed : RefidAt(i) # refid BY <1>2, Zenon DEF IndexDone
  <2>12. FromAGroup(g, n) BY <2>8, <2>9, <2>10, <2>11, Zenon DEF FromAGroup, KnownBy
  <2>13. /\ Reading(g, X) /\ More(h, g) /\ Size(g) = n /\ n \in 2..Size(g)
    <3>1. \A b \in DOMAIN h.refs : b \in DOMAIN g.refs /\ g.refs[b] = h.refs[b] BY <2>10
    <3>2. NoSource.kind = "none" BY Zenon DEF NoSource
    <3>3. \A b \in DOMAIN g.refs : b \notin DOMAIN h.refs =>
            g.refs[b] = Size(h) + 1 /\ b = refid /\ NoSource.kind # "memberdef"
      BY <2>10, <3>2
    <3>4. g.objs = Append(h.objs, BaseInit(cls, NoSource, refid)) BY <2>7 DEF x
    <3>5. NewObject(h, g, cls, NoSource, refid)
      BY <2>7, <2>12, <3>1, <3>3, <3>4, Zenon DEF NewObject
    <3> QED BY <3>5, NewObjectFacts
  <2>14. n # NONE BY <2>3 DEF NONE
  <2>15. Showing(g, n) = InnerMember(refid, cls)
    BY <2>8, <2>9, <2>11, <2>14, ShowingUnnamed, InnerUnnamed
  <2> QED BY <2>2, <2>13, <2>15 DEF Gives
<1> QED BY <1>1, <1>2
-----------------------------------------------------------------------------
(* While _parse of o is under way: g is what has become of h, and shown is *)
(* what the members of o show.                                             *)
Under(h, g, o, X, shown) ==
    /\ Reading(g, X) /\ Grown(h, g, o)
    /\ g.objs[o].parsed /\ NoCaches(g, o)
    /\ Seen(g, o) = shown

(* A field that says nothing about what an object is. *)
LEMMA PutReading ==
    ASSUME NEW h, NEW X, Reading(h, X), NEW o \in 1..Size(h), o \in X,
           NEW f \in ObjectFields \ {"cls", "source", "refid", "members"}, NEW v
    PROVE  /\ Reading(Put(h, o, f, v), X)
           /\ Grown(h, Put(h, o, f, v), o)
           /\ Put(h, o, f, v).refs = h.refs /\ Size(Put(h, o, f, v)) = Size(h)
           /\ \A c \in ObjectFields : Put(h, o, f, v).objs[o][c] = IF c = f THEN v ELSE h.objs[o][c]
           /\ Seen(Put(h, o, f, v), o) = Seen(h, o)
<1>1. PICK g : g = Put(h, o, f, v) OBVIOUS
<1>2. Shaped(h) /\ Size(h) \in Nat /\ WellFormed(h) /\ AllGood(h, X) BY ReadingFacts
<1>3. f \in ObjectFields /\ f \in ObjectFields \ {"cls", "source", "refid"} /\ f # "members"
  OBVIOUS
<1>4. Touched(h, g, o) BY <1>1, <1>2, <1>3, PutTouches
<1>5. /\ g.refs = h.refs /\ Size(g) = Size(h)
      /\ \A c \in ObjectFields : g.objs[o][c] = IF c = f THEN v ELSE h.objs[o][c]
  BY <1>1, <1>2, <1>3, PutFacts
<1>6. g.objs[o].members = h.objs[o].members
  <2>1. "members" \in ObjectFields BY DEF ObjectFields
  <2> QED BY <1>3, <1>5, <2>1
<1>7. SameKind(h, g) /\ Grown(h, g, o) BY <1>2, <1>4, TouchedSame
<1>8. IsSeq(g.objs[o].members)
      /\ \A i \in 1..Len(g.objs[o].members) : g.objs[o].members[i] \in {NONE} \cup 2..Size(h)
  BY <1>2, <1>6, MembersFacts
<1>9. WellFormed(g) BY <1>2, <1>4, <1>8, TouchedWellFormed
<1>10. AllGood(g, X \cup {o}) BY <1>2, <1>4, TouchedGood
<1>11. X \cup {o} = X OBVIOUS
<1>12. Reading(g, X) BY <1>9, <1>10, <1>11 DEF Reading
<1>13. Seen(g, o) = Seen(h, o) BY <1>2, <1>6, <1>7, SeenKept
<1> QED BY <1>1, <1>5, <1>7, <1>12, <1>13

(* The same while o is read. *)
LEMMA PutUnder ==
    ASSUME NEW h, NEW g, NEW o, NEW X, NEW shown, Under(h, g, o, X, shown), o \in 1..Size(h),
           Size(h) \in Nat, o \in X, NEW f \in {"error", "retrieved", "data"}, NEW v
    PROVE  /\ Under(h, Put(g, o, f, v), o, X, shown) /\ Grown(g, Put(g, o, f, v), o)
           /\ Put(g, o, f, v).refs = g.refs /\ Size(Put(g, o, f, v)) = Size(g)
           /\ Put(g, o, f, v).objs[o].error = IF f = "error" THEN v ELSE g.objs[o].error
           /\ Put(g, o, f, v).objs[o].refid = g.objs[o].refid
<1>1. PICK k : k = Put(g, o, f, v) OBVIOUS
<1>2. /\ Reading(g, X) /\ Grown(h, g, o) /\ g.objs[o].parsed /\ NoCaches(g, o)
      /\ Seen(g, o) = shown
  BY DEF Under
<1>3. Size(g) \in Nat /\ Size(h) <= Size(g) BY <1>2, ReadingFacts DEF Grown, SameKind
<1>4. o \in 1..Size(g) BY <1>3
<1>5. f \in ObjectFields \ {"cls", "source", "refid", "members"}
      /\ f \notin {"parsed", "cats", "dicts", "refid"}
  BY DEF ObjectFields
<1>6. /\ Reading(k, X) /\ Grown(g, k, o) /\ k.refs = g.refs /\ Size(k) = Size(g)
      /\ \A c \in ObjectFields : k.objs[o][c] = IF c = f THEN v ELSE g.objs[o][c]
      /\ Seen(k, o) = Seen(g, o)
  BY <1>1, <1>2, <1>4, <1>5, PutReading
<1>7. \A c \in {"parsed", "cats", "dicts", "refid", "error"} : c \in ObjectFields
  BY DEF ObjectFields
<1>8. /\ k.objs[o].parsed = g.objs[o].parsed /\ k.objs[o].cats = g.objs[o].cats
      /\ k.objs[o].dicts = g.objs[o].dicts /\ k.objs[o].refid = g.objs[o].refid
      /\ k.objs[o].error = IF f = "error" THEN v ELSE g.objs[o].error
  BY <1>5, <1>6, <1>7
<1>9. Grown(h, k, o) BY <1>2, <1>3, <1>6, GrownTrans
<1>10. NoCaches(k, o) BY <1>2, <1>8, Zenon DEF NoCaches
<1>11. Under(h, k, o, X, shown) BY <1>2, <1>6, <1>8, <1>9, <1>10 DEF Under
<1> QED BY <1>1, <1>6, <1>8, <1>11

(* _parsed is set first. *)
Begun(h, o) == [h EXCEPT !.objs[o].parsed = TRUE]

LEMMA BeginParse ==
    ASSUME NEW h, NEW X, Reading(h, X), NEW o \in 1..Size(h), o \notin X, ~h.objs[o].parsed,
           NEW g, g = Begun(h, o)
    PROVE  /\ Under(h, g, o, X \cup {o}, <<>>) /\ ~g.objs[o].error
           /\ g.refs = h.refs /\ Size(g) = Size(h)
<1>1. Shaped(h) /\ Size(h) \in Nat /\ AllGood(h, X) /\ WellFormed(h) BY ReadingFacts
<1>0. PICK t : t = TRUE OBVIOUS
<1>2. g = Put(h, o, "parsed", t)
  <2>1. g = [h EXCEPT !.objs[o].parsed = t] BY <1>0, Zenon DEF Begun
  <2> QED BY <1>1, <2>1, FieldsPut
<1>3. Idle(h, o) BY <1>1 DEF AllGood, Good
<1>4. Reading(h, X \cup {o}) BY <1>1 DEF Reading, AllGood
<1>5. PICK f \in ObjectFields \ {"cls", "source", "refid", "members"} : f = "parsed"
  BY DEF ObjectFields
<1>6. PICK Y : Y = X \cup {o} OBVIOUS
<1>7. /\ Reading(g, Y) /\ Grown(h, g, o) /\ g.refs = h.refs /\ Size(g) = Size(h)
      /\ \A c \in ObjectFields : g.objs[o][c] = IF c = f THEN t ELSE h.objs[o][c]
      /\ Seen(g, o) = Seen(h, o)
  <2>1. Reading(h, Y) /\ o \in Y BY <1>4, <1>6
  <2>2. g = Put(h, o, f, t) BY <1>2, <1>5
  <2> QED BY <1>5, <2>1, <2>2, PutReading
<1>8. \A c \in {"parsed", "cats", "dicts", "error"} : c \in ObjectFields
  BY DEF ObjectFields
<1>9. g.objs[o].parsed = t BY <1>5, <1>7, <1>8
<1>10. /\ g.objs[o].cats = h.objs[o].cats /\ g.objs[o].dicts = h.objs[o].dicts
       /\ g.objs[o].error = h.objs[o].error
  BY <1>5, <1>7, <1>8
<1>11. NoCaches(g, o) /\ ~g.objs[o].error BY <1>3, <1>10, Zenon DEF Idle, NoCaches
<1>12. Seen(h, o) = <<>>
  <2>1. h.objs[o].members = <<>> BY <1>3 DEF Idle
  <2>2. IsSeq(Seen(h, o)) /\ Len(Seen(h, o)) = 0 BY <1>1, <2>1, SeenFacts, EmptyIsSeq
  <2> QED BY <2>2, EmptyIsSeq
<1>13. g.objs[o].parsed BY <1>0, <1>9
<1>14. Under(h, g, o, X \cup {o}, <<>>) BY <1>6, <1>7, <1>11, <1>12, <1>13 DEF Under
<1> QED BY <1>7, <1>11, <1>14

(* retrieve_data, as long as o is read. *)
LEMMA RetrieveUnder ==
    ASSUME project \in Projects, NEW h, NEW g, NEW o, NEW X, NEW shown,
           Under(h, g, o, X, shown), o \in 1..Size(h),
           Size(h) \in Nat, o \in X, NEW r, r = g.objs[o].refid, NEW res, res = retrieve_data(g, o)
    PROVE  /\ Under(h, res.heap, o, X, shown) /\ res.heap.refs = g.refs /\ Grown(g, res.heap, o)
           /\ res.heap.objs[o].refid = r
           /\ r \in DOMAIN project.files => Ok(res) /\ res.heap.objs[o].error = g.objs[o].error
           /\ r \notin DOMAIN project.files => ~Ok(res) \/ res.heap.objs[o].error
<1>1. Shaped(g) /\ Size(g) \in Nat /\ Size(h) <= Size(g)
  BY ReadingFacts DEF Under, Grown, SameKind
<1>2. o \in 1..Size(g) BY <1>1
<1>3. CASE r \in DOMAIN project.files
  <2>0. PICK t : t = TRUE OBVIOUS
  <2>1. PICK k : k = Put(g, o, "retrieved", t) OBVIOUS
  <2>2. res = Return(k, NONE)
    <3>1. res = Return([g EXCEPT !.objs[o].retrieved = t], NONE)
      BY <1>3, <2>0, ProjectFacts, Zenon DEF retrieve_data
    <3>2. [g EXCEPT !.objs[o].retrieved = t] = k BY <1>1, <1>2, <2>1, FieldsPut
    <3> QED BY <3>1, <3>2, Zenon
  <2>3. res.heap = k /\ Ok(res) BY <2>2, Returned
  <2>4. /\ Under(h, k, o, X, shown) /\ k.refs = g.refs /\ Grown(g, k, o)
        /\ k.objs[o].error = g.objs[o].error /\ k.objs[o].refid = g.objs[o].refid
    BY <2>1, PutUnder
  <2> QED BY <1>3, <2>3, <2>4
<1>4. CASE r \notin DOMAIN project.files /\ r \in project.malformed
  <2>0. PICK t : t = TRUE OBVIOUS
  <2>1. PICK k : k = Put(g, o, "error", t) OBVIOUS
  <2>2. res = Return(k, NONE)
    <3>1. res = Return([g EXCEPT !.objs[o].error = t], NONE) 
      BY <1>4, <2>0, Zenon DEF retrieve_data
    <3>2. [g EXCEPT !.objs[o].error = t] = k BY <1>1, <1>2, <2>1, FieldsPut
    <3> QED BY <3>1, <3>2, Zenon
  <2>3. res.heap = k /\ Ok(res) BY <2>2, Returned
  <2>4. /\ Under(h, k, o, X, shown) /\ k.refs = g.refs /\ Grown(g, k, o)
        /\ k.objs[o].error = t /\ k.objs[o].refid = g.objs[o].refid
    BY <2>1, PutUnder
  <2>5. k.objs[o].error BY <2>0, <2>4
  <2> QED BY <1>4, <2>3, <2>4, <2>5
<1>5. CASE r \notin DOMAIN project.files /\ r \notin project.malformed
  <2>1. res = Raise(g, "FileNotFoundError") BY <1>5, Zenon DEF retrieve_data
  <2>2. res.heap = g /\ res.exc = "FileNotFoundError" BY <2>1, Raised
  <2>3. ~Ok(res) BY <2>2, Zenon DEF Ok
  <2>4. Grown(g, g, o) BY <1>1, <1>2, MoreItself, MoreIsGrown
  <2> QED BY <1>5, <2>2, <2>3, <2>4
<1> QED BY <1>3, <1>4, <1>5

LEMMA SetDataUnder ==
    ASSUME NEW h, NEW g, NEW o, NEW X, NEW shown, Under(h, g, o, X, shown), o \in 1..Size(h),
           Size(h) \in Nat, o \in X, NEW keys, NEW k, k = SetData(g, o, keys)
    PROVE  /\ Under(h, k, o, X, shown) /\ k.refs = g.refs /\ Grown(g, k, o)
           /\ k.objs[o].refid = g.objs[o].refid /\ k.objs[o].error = g.objs[o].error
<1>1. Shaped(g) /\ Size(g) \in Nat /\ Size(h) <= Size(g)
  BY ReadingFacts DEF Under, Grown, SameKind
<1>2. o \in 1..Size(g) BY <1>1
<1>3. PICK v : v = g.objs[o].data \cup keys OBVIOUS
<1>4. k = Put(g, o, "data", v)
  <2>1. k = [g EXCEPT !.objs[o].data = v] BY <1>3 DEF SetData
  <2> QED BY <1>1, <1>2, <2>1, FieldsPut
<1> QED BY <1>4, PutUnder
(* process_memberdefs, as long as o is read. *)
LEMMA ProcessUnder ==
    ASSUME project \in Projects, NEW h, NEW g, NEW o, NEW X, NEW shown, Under(h, g, o, X, shown),
           o \in 1..Size(h), Size(h) \in Nat, o \in X, NEW r \in DOMAIN project.files,
           g.objs[o].refid = r, NEW res, res = process_memberdefs(g, o)
    PROVE  /\ Ok(res) /\ Under(h, res.heap, o, X, Cat(shown, DefMembers(r)))
           /\ res.heap.refs = g.refs /\ res.heap.objs[o].error = g.objs[o].error
<1>1. PICK k : k = res.heap OBVIOUS
<1>2. /\ Reading(g, X) /\ Grown(h, g, o) /\ g.objs[o].parsed /\ NoCaches(g, o)
      /\ Seen(g, o) = shown
  BY DEF Under
<1>3. Size(g) \in Nat /\ Size(h) <= Size(g) BY <1>2, ReadingFacts DEF Grown, SameKind
<1>4. o \in 1..Size(g) BY <1>3
<1>5. /\ Ok(res) /\ Reading(k, X) /\ MoreMembers(g, k, o) /\ k.refs = g.refs
      /\ Seen(k, o) = Cat(Seen(g, o), DefMembers(r))
  BY <1>1, <1>2, <1>4, ProcessMemberdefs
<1>6. /\ Grown(g, k, o) /\ k.objs[o].parsed = g.objs[o].parsed
      /\ k.objs[o].error = g.objs[o].error /\ k.objs[o].cats = g.objs[o].cats
      /\ k.objs[o].dicts = g.objs[o].dicts
  BY <1>5 DEF MoreMembers
<1>7. Size(k) \in Nat BY <1>5, ReadingFacts
<1>8. Grown(h, k, o) BY <1>2, <1>3, <1>6, <1>7, GrownTrans
<1>9. NoCaches(k, o) BY <1>2, <1>6, Zenon DEF NoCaches
<1>10. Under(h, k, o, X, Cat(shown, DefMembers(r))) BY <1>2, <1>5, <1>6, <1>8, <1>9 DEF Under
<1> QED BY <1>1, <1>5, <1>6, <1>10

-----------------------------------------------------------------------------
(* The loop over what is in a group. *)
InnerPrefix(r, tag, cls, k) ==
    [i \in 1..k |-> InnerMember(RefidOf(FileOf(r).fields[tag][i]), cls)]

InnerTag(tag, cls) ==
    (tag = "innergroup" /\ cls = "DoxyGroup") \/ (tag = "innerclass" /\ cls = "DoxyClass")

InnerAdded(h, o, X, r, tag, cls, k, res) ==
    /\ Ok(res) /\ Reading(res.heap, X) /\ IndexDone(res.heap) /\ MoreMembers(h, res.heap, o)
    /\ Seen(res.heap, o) = Cat(Seen(h, o), InnerPrefix(r, tag, cls, k))

LEMMA InnerNext ==
    ASSUME NEW r, NEW tag, NEW cls, NEW k \in Nat
    PROVE  /\ IsSeq(InnerPrefix(r, tag, cls, k))
           /\ InnerPrefix(r, tag, cls, k + 1) =
                Cat(InnerPrefix(r, tag, cls, k),
                    One(InnerMember(RefidOf(FileOf(r).fields[tag][k + 1]), cls)))
<1> DEFINE u == [i \in 1..(k + 1) |-> InnerMember(RefidOf(FileOf(r).fields[tag][i]), cls)]
<1>1. PICK s : s = InnerPrefix(r, tag, cls, k) OBVIOUS
<1>2. PICK t : t = InnerPrefix(r, tag, cls, k + 1) OBVIOUS
<1>3. s = [i \in 1..k |-> s[i]] BY <1>1 DEF InnerPrefix
<1>4. t = [i \in 1..(k + 1) |-> t[i]] BY <1>2 DEF InnerPrefix
<1>5. \A i \in 1..k : s[i] = u[i] BY <1>1 DEF InnerPrefix
<1>6. \A i \in 1..(k + 1) : t[i] = u[i] BY <1>2 DEF InnerPrefix
<1>7. u[k + 1] = InnerMember(RefidOf(FileOf(r).fields[tag][k + 1]), cls) OBVIOUS
<1> HIDE DEF u
<1>8. IsSeq(s) BY <1>3, FunctionsAreSeqs
<1>9. t = Append(s, u[k + 1]) BY <1>3, <1>4, <1>5, <1>6, OneMore
<1>10. PICK x : x = u[k + 1] OBVIOUS
<1>11. t = Cat(s, One(x)) BY <1>8, <1>9, <1>10, CatFacts
<1> QED BY <1>1, <1>2, <1>7, <1>8, <1>10, <1>11

LEMMA InnerNone ==
    ASSUME NEW r, NEW tag, NEW cls
    PROVE  InnerPrefix(r, tag, cls, 0) = <<>>
<1>1. PICK s : s = InnerPrefix(r, tag, cls, 0) OBVIOUS
<1>2. s = [i \in 1..0 |-> s[i]] BY <1>1 DEF InnerPrefix
<1>3. IsSeq(s) /\ Len(s) = 0 BY <1>2, FunctionsAreSeqs
<1> QED BY <1>1, <1>3, EmptyIsSeq

LEMMA InnerStep ==
    ASSUME project \in Projects, NEW h, NEW X, Reading(h, X), NEW o \in 1..Size(h), o \in X,
           NEW r \in DOMAIN project.files, NEW tag, NEW cls, InnerTag(tag, cls),
           NEW k \in Nat, k + 1 \in 1..Len(FileOf(r).fields[tag]),
           NEW res, InnerAdded(h, o, X, r, tag, cls, k, res)
    PROVE  InnerAdded(h, o, X, r, tag, cls, k + 1,
                      Pass("inner", o, cls, FileOf(r).fields[tag], res, k + 1))
<1> DEFINE refid == RefidOf(FileOf(r).fields[tag][k + 1])
<1>1. PICK g : g = res.heap OBVIOUS
<1>2. PICK fr : fr = from_refid(g, cls, refid) OBVIOUS
<1>3. PICK next : next = AddConverted(fr, o) OBVIOUS
<1>4. PICK f : f = next.heap OBVIOUS
<1>5. Pass("inner", o, cls, FileOf(r).fields[tag], res, k + 1) = next
  BY <1>1, <1>2, <1>3, Zenon DEF Pass, InnerAdded
<1>6. /\ Reading(g, X) /\ IndexDone(g) /\ MoreMembers(h, g, o)
      /\ Seen(g, o) = Cat(Seen(h, o), InnerPrefix(r, tag, cls, k))
  BY <1>1 DEF InnerAdded
<1>7. Shaped(h) /\ Size(h) \in Nat /\ Shaped(g) /\ Size(g) \in Nat /\ Size(h) <= Size(g)
  BY <1>6, ReadingFacts DEF MoreMembers, Grown, SameKind
<1>8. o \in 1..Size(g) BY <1>7
<1>9. Inner(refid, cls)
  <2>1. CASE tag = "innergroup" /\ cls = "DoxyGroup" BY <2>1, Zenon DEF Inner
  <2>2. CASE tag = "innerclass" /\ cls = "DoxyClass" BY <2>2, Zenon DEF Inner
  <2> QED BY <2>1, <2>2 DEF InnerTag
<1>10. PICK x : x = InnerMember(refid, cls) OBVIOUS
<1>11. InnerPrefix(r, tag, cls, k + 1) = Cat(InnerPrefix(r, tag, cls, k), One(x))
       /\ IsSeq(InnerPrefix(r, tag, cls, k))
  BY <1>10, InnerNext
<1> HIDE DEF refid
<1>12. Gives(g, X, fr, x) BY <1>2, <1>6, <1>9, <1>10, FromRefid
<1>13. /\ Ok(next) /\ Reading(f, X) /\ MoreMembers(g, f, o)
       /\ Seen(f, o) = Cat(Seen(g, o), One(x))
  BY <1>3, <1>4, <1>6, <1>8, <1>12, AddConvertedFacts
<1>14. MoreMembers(h, f, o)
  <2>1. Size(f) \in Nat BY <1>13, ReadingFacts
  <2> QED BY <1>6, <1>7, <1>13, <2>1, MoreMembersTrans
<1>15. IndexDone(f)
  <2>1. Grown(g, f, o) BY <1>13 DEF MoreMembers
  <2> QED BY <1>6, <2>1, ReadingFacts, IndexDoneKept
<1>16. Seen(f, o) = Cat(Seen(h, o), InnerPrefix(r, tag, cls, k + 1))
  <2>1. PICK s : s = Seen(h, o) OBVIOUS
  <2>2. PICK t : t = InnerPrefix(r, tag, cls, k) OBVIOUS
  <2>3. IsSeq(s) /\ IsSeq(t) /\ IsSeq(One(x)) BY <1>7, <1>11, <2>1, <2>2, SeenFacts, CatFacts
  <2>4. Cat(Cat(s, t), One(x)) = Cat(s, Cat(t, One(x))) BY <2>3, CatFacts
  <2> QED BY <1>6, <1>11, <1>13, <2>1, <2>2, <2>4
<1> QED BY <1>4, <1>5, <1>13, <1>14, <1>15, <1>16 DEF InnerAdded
LEMMA InnerUnder ==
    ASSUME project \in Projects, NEW h, NEW g, NEW o, NEW X, NEW shown, Under(h, g, o, X, shown),
           o \in 1..Size(h), Size(h) \in Nat, o \in X, IndexDone(g),
           NEW r \in DOMAIN project.files, g.objs[o].refid = r,
           NEW tag, NEW cls, InnerTag(tag, cls), NEW res, res = InnerObjects(g, o, tag, cls)
    PROVE  /\ Ok(res) /\ Under(h, res.heap, o, X, Cat(shown, InnerMembers(r, tag, cls)))
           /\ IndexDone(res.heap) /\ res.heap.objs[o].error = g.objs[o].error
<1>1. /\ Reading(g, X) /\ Grown(h, g, o) /\ g.objs[o].parsed /\ NoCaches(g, o)
      /\ Seen(g, o) = shown
  BY DEF Under
<1>2. Shaped(g) /\ Size(g) \in Nat /\ Size(h) <= Size(g)
  BY <1>1, ReadingFacts DEF Grown, SameKind
<1>3. o \in 1..Size(g) BY <1>2
<1>4. RetrievedData(g, o) = FileOf(r) BY Zenon DEF RetrievedData
<1>5. PICK list : list = FileOf(r).fields[tag] OBVIOUS
<1>6. PICK n \in Nat : n = Len(list)
  <2>1. CASE tag = "innergroup" BY <1>5, <2>1, ProjectFacts
  <2>2. CASE tag = "innerclass" BY <1>5, <2>2, ProjectFacts
  <2> QED BY <2>1, <2>2 DEF InnerTag
<1>7. PICK run : /\ LoopRun(run, "inner", o, cls, list, Return(g, NONE), n)
                 /\ InnerObjects(g, o, tag, cls) = run[n]
  BY <1>4, <1>5, <1>6, InnerLoop
<1> DEFINE S == {k \in Nat : k <= n => InnerAdded(g, o, X, r, tag, cls, k, run[k])}
<1>8. 0 \in S
  <2>1. PICK start : start = Return(g, NONE) OBVIOUS
  <2>2. start.heap = g /\ Ok(start) BY <2>1, Returned
  <2>3. MoreMembers(g, g, o) BY <1>2, <1>3, MoreItself, MoreIsGrown
  <2>4. Seen(g, o) = Cat(Seen(g, o), InnerPrefix(r, tag, cls, 0))
    BY <1>2, <1>3, SeenFacts, InnerNone, CatFacts
  <2>5. InnerAdded(g, o, X, r, tag, cls, 0, start) BY <1>1, <2>2, <2>3, <2>4 DEF InnerAdded
  <2> QED BY <1>7, <2>1, <2>5 DEF LoopRun
<1>9. ASSUME NEW k \in Nat, k \in S PROVE k + 1 \in S
  <2> SUFFICES ASSUME k + 1 <= n PROVE InnerAdded(g, o, X, r, tag, cls, k + 1, run[k + 1])
    OBVIOUS
  <2>1. InnerAdded(g, o, X, r, tag, cls, k, run[k]) BY <1>9
  <2>2. k + 1 \in 1..n /\ (k + 1) - 1 = k OBVIOUS
  <2>3. run[k + 1] = Pass("inner", o, cls, list, run[k], k + 1)
    BY <1>7, <2>2, Zenon DEF LoopRun
  <2>4. PICK before : before = run[k] OBVIOUS
  <2> HIDE DEF S
  <2>5. InnerAdded(g, o, X, r, tag, cls, k + 1, Pass("inner", o, cls, list, before, k + 1))
    BY <1>1, <1>3, <1>5, <1>6, <2>1, <2>2, <2>4, InnerStep
  <2> QED BY <2>3, <2>4, <2>5
<1> HIDE DEF S
<1>10. n \in S BY <1>8, <1>9, SetInduction
<1>11. PICK k : k = res.heap OBVIOUS
<1>12. res = run[n] BY <1>7
<1>13. InnerAdded(g, o, X, r, tag, cls, n, res) BY <1>10, <1>12 DEF S
<1>14. InnerMembers(r, tag, cls) = InnerPrefix(r, tag, cls, n)
  BY <1>5, <1>6, Zenon DEF InnerMembers, InnerPrefix
<1>15. /\ Ok(res) /\ Reading(k, X) /\ IndexDone(k) /\ MoreMembers(g, k, o)
       /\ Seen(k, o) = Cat(shown, InnerMembers(r, tag, cls))
  BY <1>1, <1>11, <1>13, <1>14 DEF InnerAdded
<1>16. /\ Grown(g, k, o) /\ k.objs[o].parsed = g.objs[o].parsed
       /\ k.objs[o].error = g.objs[o].error /\ k.objs[o].cats = g.objs[o].cats
       /\ k.objs[o].dicts = g.objs[o].dicts
  BY <1>15 DEF MoreMembers
<1>17. Size(k) \in Nat BY <1>15, ReadingFacts
<1>18. Grown(h, k, o) BY <1>1, <1>2, <1>16, <1>17, GrownTrans
<1>19. NoCaches(k, o) BY <1>1, <1>16, Zenon DEF NoCaches
<1>20. Under(h, k, o, X, Cat(shown, InnerMembers(r, tag, cls)))
  BY <1>1, <1>15, <1>16, <1>18, <1>19 DEF Under
<1> QED BY <1>11, <1>15, <1>16, <1>20

-----------------------------------------------------------------------------
(* What _parse of a compound leaves, when it returns or raises.  Such an   *)
(* object shows what it should, if there is a file.                        *)
ParseEnds(h, o, X, res) ==
    \E shown :
      /\ Under(h, res.heap, o, X, shown)
      /\ \/ h.objs[o].cls \notin Compounds
         \/ h.objs[o].refid \notin DOMAIN project.files
         \/ shown = OwnMembers(h.objs[o].cls, h.objs[o].refid)
      /\ h.objs[o].cls # "DoxyGroup" => res.heap.refs = h.refs
      /\ h.objs[o].cls \in {"DoxyFile", "DoxyNamespace"} =>
           IF h.objs[o].refid \in DOMAIN project.files
           THEN Ok(res) /\ ~res.heap.objs[o].error ELSE ~Ok(res)

LEMMA DefMembersIsSeq ==
    ASSUME project \in Projects, NEW r \in DOMAIN project.files
    PROVE  IsSeq(DefMembers(r)) /\ Cat(<<>>, DefMembers(r)) = DefMembers(r)
<1>1. PICK n \in Nat : n = Len(MemberdefsOf(r)) BY ProjectFacts
<1>2. PICK seqs : seqs = KeptDefs(r) OBVIOUS
<1>3. ASSUME NEW i \in 1..n PROVE IsSeq(seqs[i])
  <2>1. seqs[i] = IF FirstNamed(r, i) THEN <<MemberFor(MemberdefsOf(r)[i])>> ELSE <<>>
    BY <1>1, <1>2, <1>3, Zenon DEF KeptDefs
  <2> QED BY <2>1, OneIsSeq, EmptyIsSeq, Zenon
<1>4. IsSeq(FirstOfAll(seqs, n)) BY <1>3, AllFlattenIsSeq
<1> QED BY <1>1, <1>2, <1>4, DefMembersKept, CatFacts

(* A class, a header or a namespace. *)
LEMMA ParsePlain ==
    ASSUME project \in Projects, NEW h, NEW g, NEW o, NEW X, Under(h, g, o, X, <<>>),
           ~g.objs[o].error, g.refs = h.refs,
           o \in 1..Size(h), Size(h) \in Nat, o \in X,
           h.objs[o].cls \in {"DoxyClass", "DoxyFile", "DoxyNamespace"}, NEW res,
           \/ h.objs[o].cls = "DoxyClass" /\ res = ParseClass(g, o)
           \/ h.objs[o].cls = "DoxyFile" /\ res = ParseFile(g, o)
           \/ h.objs[o].cls = "DoxyNamespace" /\ res = ParseNamespace(g, o)
    PROVE  ParseEnds(h, o, X, res)
<1>1. PICK r : r = h.objs[o].refid OBVIOUS
<1>2. g.objs[o].refid = r BY <1>1 DEF Under, Grown, SameKind
<1>3. PICK ret : ret = retrieve_data(g, o) OBVIOUS
<1>4. PICK k : k = ret.heap OBVIOUS
<1>5. /\ Under(h, k, o, X, <<>>) /\ k.refs = h.refs /\ k.objs[o].refid = r
      /\ r \in DOMAIN project.files => Ok(ret) /\ k.objs[o].error = g.objs[o].error
      /\ r \notin DOMAIN project.files => ~Ok(ret) \/ k.objs[o].error
  BY <1>2, <1>3, <1>4, RetrieveUnder
<1>6. PICK keys :
        res = IF ~Ok(ret) THEN ret
              ELSE IF k.objs[o].error
              THEN IF h.objs[o].cls = "DoxyClass" THEN Return(k, NONE)
                   ELSE Raise(k, "AttributeError")
              ELSE process_memberdefs(SetData(k, o, keys), o)
  <2>1. CASE h.objs[o].cls = "DoxyClass"
    <3>1. h.objs[o].cls # "DoxyFile" /\ h.objs[o].cls # "DoxyNamespace" BY <2>1
    <3> QED BY <1>3, <1>4, <2>1, <3>1, Zenon DEF ParseClass, AndThen, Ok
  <2>2. CASE h.objs[o].cls = "DoxyFile"
    <3>1. h.objs[o].cls # "DoxyClass" /\ h.objs[o].cls # "DoxyNamespace" BY <2>2
    <3> QED BY <1>3, <1>4, <2>2, <3>1, Zenon DEF ParseFile, AndThen, Ok
  <2>3. CASE h.objs[o].cls = "DoxyNamespace"
    <3>1. h.objs[o].cls # "DoxyClass" /\ h.objs[o].cls # "DoxyFile" BY <2>3
    <3> QED BY <1>3, <1>4, <2>3, <3>1, Zenon DEF ParseNamespace, AndThen, Ok
  <2> QED BY <2>1, <2>2, <2>3
<1>7. CASE r \in DOMAIN project.files
  <2>1. Ok(ret) /\ ~k.objs[o].error BY <1>5, <1>7
  <2>2. PICK d : d = SetData(k, o, keys) OBVIOUS
  <2>3. /\ Under(h, d, o, X, <<>>) /\ d.refs = k.refs
        /\ d.objs[o].refid = k.objs[o].refid /\ d.objs[o].error = k.objs[o].error
    BY <1>5, <2>2, SetDataUnder
  <2>4. res = process_memberdefs(d, o) BY <1>6, <2>1, <2>2, Zenon
  <2>5. /\ Ok(res) /\ Under(h, res.heap, o, X, Cat(<<>>, DefMembers(r)))
        /\ res.heap.refs = d.refs /\ res.heap.objs[o].error = d.objs[o].error
    BY <1>5, <1>7, <2>3, <2>4, ProcessUnder
  <2>6. Cat(<<>>, DefMembers(r)) = DefMembers(r) BY <1>7, DefMembersIsSeq
  <2>7. OwnMembers(h.objs[o].cls, r) = DefMembers(r)
    <3>1. h.objs[o].cls # "DoxyGroup" OBVIOUS
    <3> QED BY <3>1, Zenon DEF OwnMembers
  <2>8. ~res.heap.objs[o].error BY <2>1, <2>3, <2>5
  <2> QED BY <1>1, <1>5, <1>7, <2>3, <2>5, <2>6, <2>7, <2>8, Zenon DEF ParseEnds
<1>8. CASE r \notin DOMAIN project.files
  <2>1. CASE ~Ok(ret)
    <3>1. res = ret BY <1>6, <2>1, Zenon
    <3> QED BY <1>1, <1>4, <1>5, <1>8, <2>1, <3>1, Zenon DEF ParseEnds
  <2>2. CASE Ok(ret)
    <3>1. k.objs[o].error BY <1>5, <1>8, <2>2
    <3>2. CASE h.objs[o].cls = "DoxyClass"
      <4>1. res = Return(k, NONE) BY <1>6, <2>2, <3>1, <3>2, Zenon
      <4>2. res.heap = k BY <4>1, Returned
      <4>3. h.objs[o].cls \notin {"DoxyFile", "DoxyNamespace"} BY <3>2
      <4> QED BY <1>1, <1>5, <1>8, <4>2, <4>3, Zenon DEF ParseEnds
    <3>3. CASE h.objs[o].cls # "DoxyClass"
      <4>1. res = Raise(k, "AttributeError") BY <1>6, <2>2, <3>1, <3>3, Zenon
      <4>2. res.heap = k /\ res.exc = "AttributeError" BY <4>1, Raised
      <4>3. ~Ok(res) BY <4>2, Zenon DEF Ok
      <4> QED BY <1>1, <1>5, <1>8, <4>2, <4>3, Zenon DEF ParseEnds
    <3> QED BY <3>2, <3>3
  <2> QED BY <2>1, <2>2
<1> QED BY <1>7, <1>8
LEMMA InnerMembersIsSeq ==
    ASSUME project \in Projects, NEW r \in DOMAIN project.files, NEW tag, NEW cls,
           InnerTag(tag, cls)
    PROVE  IsSeq(InnerMembers(r, tag, cls))
<1>1. PICK n \in Nat : n = Len(FileOf(r).fields[tag])
  <2>1. CASE tag = "innergroup" BY <2>1, ProjectFacts
  <2>2. CASE tag = "innerclass" BY <2>2, ProjectFacts
  <2> QED BY <2>1, <2>2 DEF InnerTag
<1>2. InnerMembers(r, tag, cls) = InnerPrefix(r, tag, cls, n)
  BY <1>1, Zenon DEF InnerMembers, InnerPrefix
<1> QED BY <1>2, InnerNext

LEMMA ParseGroupEnds ==
    ASSUME project \in Projects, NEW h, NEW g, NEW o, NEW X, Under(h, g, o, X, <<>>),
           ~g.objs[o].error, IndexDone(g), o \in 1..Size(h), Size(h) \in Nat, o \in X,
           h.objs[o].cls = "DoxyGroup", NEW res, res = ParseGroup(g, o)
    PROVE  ParseEnds(h, o, X, res)
<1>0. h.objs[o].cls \notin {"DoxyFile", "DoxyNamespace"} OBVIOUS
<1>1. PICK r : r = h.objs[o].refid OBVIOUS
<1>2. g.objs[o].refid = r BY <1>1 DEF Under, Grown, SameKind
<1>3. PICK ret : ret = retrieve_data(g, o) OBVIOUS
<1>4. PICK k : k = ret.heap OBVIOUS
<1>5. /\ Under(h, k, o, X, <<>>) /\ Grown(g, k, o) /\ k.objs[o].refid = r
      /\ r \in DOMAIN project.files => Ok(ret) /\ k.objs[o].error = g.objs[o].error
      /\ r \notin DOMAIN project.files => ~Ok(ret) \/ k.objs[o].error
  BY <1>2, <1>3, <1>4, RetrieveUnder
<1>6. PICK d : d = SetData(k, o, {"title"}) OBVIOUS
<1>7. res = IF ~Ok(ret) THEN ret
            ELSE IF k.objs[o].error THEN Return(k, NONE) ELSE GroupMembers(d, o)
  BY <1>3, <1>4, <1>6, Zenon DEF ParseGroup, AndThen, Ok
<1>8. CASE r \in DOMAIN project.files
  <2>1. Ok(ret) /\ ~k.objs[o].error BY <1>5, <1>8
  <2>2. /\ Under(h, d, o, X, <<>>) /\ Grown(k, d, o)
        /\ d.objs[o].refid = r /\ d.objs[o].error = k.objs[o].error
    BY <1>5, <1>6, SetDataUnder
  <2>3. res = GroupMembers(d, o) BY <1>7, <2>1, Zenon
  <2>4. IndexDone(d)
    <3>1. Shaped(g) /\ RefsTrue(g) /\ Shaped(k) /\ RefsTrue(k) BY <1>5, ReadingFacts DEF Under
    <3>2. IndexDone(k) BY <1>5, <3>1, IndexDoneKept
    <3> QED BY <2>2, <3>1, <3>2, IndexDoneKept
  <2>5. PICK a : a = InnerObjects(d, o, "innergroup", "DoxyGroup") OBVIOUS
  <2>6. PICK ah : ah = a.heap OBVIOUS
  <2>7. PICK b : b = InnerObjects(ah, o, "innerclass", "DoxyClass") OBVIOUS
  <2>8. PICK bh : bh = b.heap OBVIOUS
  <2>9. PICK ms : ms = InnerMembers(r, "innergroup", "DoxyGroup") OBVIOUS
  <2>10. PICK ns : ns = InnerMembers(r, "innerclass", "DoxyClass") OBVIOUS
  <2>11. InnerTag("innergroup", "DoxyGroup") /\ InnerTag("innerclass", "DoxyClass")
    BY Zenon DEF InnerTag
  <2>12. Ok(a) /\ Under(h, ah, o, X, Cat(<<>>, ms)) /\ IndexDone(ah)
    BY <1>8, <2>2, <2>4, <2>5, <2>6, <2>9, <2>11, InnerUnder
  <2>13. ah.objs[o].refid = r BY <1>1, <2>12 DEF Under, Grown, SameKind
  <2>14. Ok(b) /\ Under(h, bh, o, X, Cat(Cat(<<>>, ms), ns))
    BY <1>8, <2>7, <2>8, <2>10, <2>11, <2>12, <2>13, InnerUnder
  <2>15. bh.objs[o].refid = r BY <1>1, <2>14 DEF Under, Grown, SameKind
  <2>16. res = process_memberdefs(bh, o)
    BY <2>3, <2>5, <2>6, <2>7, <2>8, <2>12, <2>14, Zenon DEF GroupMembers, AndThen, Ok
  <2>17. Under(h, res.heap, o, X, Cat(Cat(Cat(<<>>, ms), ns), DefMembers(r)))
    BY <1>8, <2>14, <2>15, <2>16, ProcessUnder
  <2>18. Cat(<<>>, ms) = ms BY <1>8, <2>9, <2>11, InnerMembersIsSeq, CatFacts
  <2>19. OwnMembers("DoxyGroup", r) = Cat(Cat(ms, ns), DefMembers(r))
    BY <2>9, <2>10, Zenon DEF OwnMembers, Cat
  <2>20. Under(h, res.heap, o, X, OwnMembers(h.objs[o].cls, r))
    BY <2>17, <2>18, <2>19
  <2> QED BY <1>0, <1>1, <2>20, Zenon DEF ParseEnds
<1>9. CASE r \notin DOMAIN project.files
  <2>1. res.heap = k
    <3>1. CASE ~Ok(ret) BY <1>4, <1>7, <3>1
    <3>2. CASE Ok(ret)
      <4>1. k.objs[o].error BY <1>5, <1>9, <3>2
      <4>2. res = Return(k, NONE) BY <1>7, <3>2, <4>1, Zenon
      <4> QED BY <4>2, Returned
    <3> QED BY <3>1, <3>2
  <2> QED BY <1>0, <1>1, <1>5, <1>9, <2>1, Zenon DEF ParseEnds
<1> QED BY <1>8, <1>9

(* _parse of any object but the index. *)
LEMMA ParseCompoundEnds ==
    ASSUME project \in Projects, NEW h, NEW X, Reading(h, X), NEW o \in 1..Size(h), o \notin X,
           ~h.objs[o].parsed, h.objs[o].cls = "DoxyGroup" => IndexDone(h),
           NEW res, res = ParseCompound(h, o)
    PROVE  ParseEnds(h, o, X \cup {o}, res)
<1>1. PICK g : g = Begun(h, o) OBVIOUS
<1>2. PICK Y : Y = X \cup {o} OBVIOUS
<1>3. o \in Y /\ Size(h) \in Nat /\ Shaped(h) /\ RefsTrue(h) BY <1>2, ReadingFacts
<1>4. Under(h, g, o, Y, <<>>) /\ ~g.objs[o].error /\ g.refs = h.refs /\ Size(g) = Size(h)
  BY <1>1, <1>2, BeginParse
<1>5. CASE h.objs[o].cls = "DoxyFunction"
  <2>1. PICK keys : res = Return(SetData(g, o, keys), NONE)
    BY <1>1, <1>5, Zenon DEF ParseCompound, Begun, ParseFunction
  <2>2. PICK k : k = SetData(g, o, keys) OBVIOUS
  <2>3. res.heap = k BY <2>1, <2>2, Returned
  <2>4. Under(h, k, o, Y, <<>>) /\ k.refs = h.refs BY <1>3, <1>4, <2>2, SetDataUnder
  <2>5. /\ h.objs[o].cls \notin Compounds
        /\ h.objs[o].cls \notin {"DoxyFile", "DoxyNamespace"}
    BY <1>5 DEF Compounds
  <2> QED BY <1>2, <2>3, <2>4, <2>5, Zenon DEF ParseEnds
<1>6. CASE h.objs[o].cls \in {"DoxyClass", "DoxyFile", "DoxyNamespace"}
  <2>1. \/ h.objs[o].cls = "DoxyClass" /\ res = ParseClass(g, o)
        \/ h.objs[o].cls = "DoxyFile" /\ res = ParseFile(g, o)
        \/ h.objs[o].cls = "DoxyNamespace" /\ res = ParseNamespace(g, o)
    <3>1. CASE h.objs[o].cls = "DoxyClass"
      BY <1>1, <3>1, Zenon DEF ParseCompound, Begun
    <3>2. CASE h.objs[o].cls = "DoxyFile"
      BY <1>1, <3>2, Zenon DEF ParseCompound, Begun
    <3>3. CASE h.objs[o].cls = "DoxyNamespace"
      BY <1>1, <3>3, Zenon DEF ParseCompound, Begun
    <3> QED BY <1>6, <3>1, <3>2, <3>3
  <2> QED BY <1>2, <1>3, <1>4, <1>6, <2>1, ParsePlain
<1>7. CASE h.objs[o].cls = "DoxyGroup"
  <2>1. res = ParseGroup(g, o) BY <1>1, <1>7, Zenon DEF ParseCompound, Begun
  <2>2. IndexDone(g)
    <3>1. Grown(h, g, o) BY <1>4 DEF Under
    <3> QED BY <1>3, <1>7, <3>1, IndexDoneKept
  <2> QED BY <1>2, <1>3, <1>4, <1>7, <2>1, <2>2, ParseGroupEnds
<1>8. CASE h.objs[o].cls \notin {"DoxyFunction", "DoxyClass", "DoxyFile", "DoxyNamespace",
                                 "DoxyGroup"}
  <2>1. res = Return(g, NONE) BY <1>1, <1>8, Zenon DEF ParseCompound, Begun
  <2>2. res.heap = g BY <2>1, Returned
  <2>3. /\ h.objs[o].cls \notin Compounds
        /\ h.objs[o].cls \notin {"DoxyFile", "DoxyNamespace"}
    BY <1>8 DEF Compounds
  <2> QED BY <1>2, <1>4, <2>2, <2>3, Zenon DEF ParseEnds
<1> QED BY <1>5, <1>6, <1>7, <1>8

(* check_parsed of an object that is not the index. *)
Checked(h, o, X, res) ==
    /\ Reading(res.heap, X) /\ Grown(h, res.heap, o) /\ res.heap.objs[o].parsed
    /\ h.objs[o].cls # "DoxyGroup" => res.heap.refs = h.refs
    /\ ~h.objs[o].parsed /\ h.objs[o].cls \in {"DoxyFile", "DoxyNamespace"} =>
         IF h.objs[o].refid \in DOMAIN project.files
         THEN /\ Ok(res) /\ ~res.heap.objs[o].error
              /\ Seen(res.heap, o) = DefMembers(h.objs[o].refid)
         ELSE ~Ok(res)

LEMMA CheckCompoundFacts ==
    ASSUME project \in Projects, NEW h, NEW X, Reading(h, X), NEW o \in 2..Size(h), o \notin X,
           h.objs[o].cls = "DoxyGroup" => IndexDone(h), NEW res, res = CheckCompound(h, o)
    PROVE  Checked(h, o, X, res)
<1>0. Shaped(h) /\ Size(h) \in Nat BY ReadingFacts
<1>1. o \in 1..Size(h) /\ o # Top BY <1>0 DEF Top
<1>2. CASE h.objs[o].parsed
  <2>1. res = Return(h, NONE) BY <1>2, Zenon DEF CheckCompound
  <2>2. res.heap = h BY <2>1, Returned
  <2>3. Grown(h, h, o) BY <1>0, <1>1, MoreItself, MoreIsGrown
  <2> QED BY <1>2, <2>2, <2>3 DEF Checked
<1>3. CASE ~h.objs[o].parsed
  <2>1. res = ParseCompound(h, o) BY <1>3, Zenon DEF CheckCompound
  <2>2. ParseEnds(h, o, X \cup {o}, res) BY <1>1, <1>3, <2>1, ParseCompoundEnds
  <2>3. PICK k : k = res.heap OBVIOUS
  <2>4. PICK cls : cls = h.objs[o].cls OBVIOUS
  <2>5. PICK r : r = h.objs[o].refid OBVIOUS
  <2>6. PICK shown :
          /\ Under(h, k, o, X \cup {o}, shown)
          /\ \/ cls \notin Compounds
             \/ r \notin DOMAIN project.files
             \/ shown = OwnMembers(cls, r)
          /\ cls # "DoxyGroup" => k.refs = h.refs
          /\ cls \in {"DoxyFile", "DoxyNamespace"} =>
               IF r \in DOMAIN project.files THEN Ok(res) /\ ~k.objs[o].error ELSE ~Ok(res)
    BY <2>2, <2>3, <2>4, <2>5, Zenon DEF ParseEnds
  <2>7. /\ Reading(k, X \cup {o}) /\ Grown(h, k, o) /\ k.objs[o].parsed /\ NoCaches(k, o)
        /\ Seen(k, o) = shown
    BY <2>6 DEF Under
  <2>8. k.objs[o].cls = cls /\ k.objs[o].refid = r
    BY <1>1, <2>4, <2>5, <2>7 DEF Grown, SameKind
  <2>9. Good(k, o)
    <3>1. MembersComplete(k, o) BY <1>1, <2>6, <2>7, <2>8, Zenon DEF MembersComplete
    <3>2. CatsTrue(k, o) BY <2>7, Zenon DEF CatsTrue, NoCaches
    <3>3. DictsTrue(k, o) BY <2>7, Zenon DEF DictsTrue, NoCaches
    <3> QED BY <2>7, <3>1, <3>2, <3>3 DEF Good
  <2>10. Reading(k, X) BY <2>7, <2>9, Zenon DEF Reading, AllGood
  <2>11. cls \in {"DoxyFile", "DoxyNamespace"} /\ r \in DOMAIN project.files =>
           Seen(k, o) = DefMembers(r)
    <3> SUFFICES ASSUME cls \in {"DoxyFile", "DoxyNamespace"}, r \in DOMAIN project.files
                 PROVE  Seen(k, o) = DefMembers(r)
      OBVIOUS
    <3>1. cls \in Compounds /\ cls # "DoxyGroup" BY DEF Compounds
    <3>2. OwnMembers(cls, r) = DefMembers(r) BY <3>1, Zenon DEF OwnMembers
    <3> QED BY <2>6, <2>7, <3>1, <3>2
  <2> QED BY <2>3, <2>4, <2>5, <2>6, <2>7, <2>10, <2>11, Zenon DEF Checked
<1> QED BY <1>2, <1>3
-----------------------------------------------------------------------------
(* While the index is read: shown is what its members show so far, and the *)
(* first k entries are known and nothing else.                             *)
TopBeing(g, shown) ==
    /\ Reading(g, {Top}) /\ g.objs[Top].parsed /\ NoCaches(g, Top)
    /\ Seen(g, Top) = shown

KnownUpTo(g, k) ==
    /\ \A i \in Indexed : i <= k =>
          /\ RefidAt(i) \in DOMAIN g.refs
          /\ g.objs[g.refs[RefidAt(i)]].source = FromIndex(i)
    /\ \A r \in DOMAIN g.refs : \E i \in 1..k : RefidAt(i) = r

LEMMA KnownKept ==
    ASSUME NEW g, Shaped(g), RefsTrue(g), NEW k, KnownUpTo(g, k), NEW f, SameKind(g, f),
           f.refs = g.refs
    PROVE  KnownUpTo(f, k)
<1>1. ASSUME NEW i \in Indexed, i <= k
      PROVE  RefidAt(i) \in DOMAIN f.refs /\ f.objs[f.refs[RefidAt(i)]].source = FromIndex(i)
  <2>1. PICK r : r = RefidAt(i) OBVIOUS
  <2>2. PICK m : m = g.refs[r] OBVIOUS
  <2>3. r \in DOMAIN g.refs /\ g.objs[m].source = FromIndex(i)
    BY <1>1, <2>1, <2>2, Zenon DEF KnownUpTo
  <2>4. m \in 2..Size(g) /\ Size(g) \in Nat BY <2>2, <2>3, SizeFacts DEF RefsTrue
  <2>5. m \in 1..Size(g) BY <2>4
  <2>6. f.objs[m].source = g.objs[m].source BY <2>5 DEF SameKind
  <2> QED BY <2>1, <2>2, <2>3, <2>6, Zenon
<1>2. \A r \in DOMAIN f.refs : \E i \in 1..k : RefidAt(i) = r BY Zenon DEF KnownUpTo
<1> QED BY <1>1, <1>2, Zenon DEF KnownUpTo

LEMMA KnownDone ==
    ASSUME NEW g, NEW k, KnownUpTo(g, k), \A i \in Indexed : i <= k
    PROVE  IndexDone(g)
BY Zenon DEF KnownUpTo, IndexDone

(* No entry after one that does not pass is come to. *)
LEMMA IndexedUpTo ==
    ASSUME project \in Projects, NEW k \in 1..Len(IndexEntries), ~Passes(k)
    PROVE  \A i \in Indexed : i <= k
<1>1. Len(IndexEntries) \in Nat BY ProjectFacts
<1>2. ASSUME NEW i \in Indexed, ~(i <= k) PROVE FALSE
  <2>1. i \in 1..Len(IndexEntries) /\ \A j \in 1..(i - 1) : Passes(j) BY Zenon DEF Indexed
  <2>2. k \in 1..(i - 1) BY <1>1, <1>2, <2>1
  <2> QED BY <2>1, <2>2
<1> QED BY <1>2

LEMMA TopBeingKept ==
    ASSUME NEW g, NEW shown, TopBeing(g, shown), NEW f, Reading(f, {Top}), SameKind(g, f),
           f.objs[Top] = g.objs[Top]
    PROVE  TopBeing(f, shown)
<1>1. Reading(g, {Top}) /\ g.objs[Top].parsed /\ NoCaches(g, Top) /\ Seen(g, Top) = shown
  BY DEF TopBeing
<1>2. Shaped(g) /\ Top \in 1..Size(g) BY <1>1, ReadingFacts
<1>3. Seen(f, Top) = Seen(g, Top) BY <1>2, SeenKept
<1>4. NoCaches(f, Top) BY <1>1, Zenon DEF NoCaches
<1> QED BY <1>1, <1>3, <1>4 DEF TopBeing

(* convert_mem of an entry that was not met before: a new object. *)
LEMMA ConvertEntry ==
    ASSUME project \in Projects, NEW h, NEW X, Reading(h, X), NEW i \in Indexed,
           RefidAt(i) \notin DOMAIN h.refs, NEW res,
           res = convert_mem(h, IndexEntries[i], FromIndex(i))
    PROVE  /\ Gives(h, X, res, MemberFor(IndexEntries[i]))
           /\ res.ret = Size(h) + 1 /\ res.ret \in 2..Size(res.heap)
           /\ res.heap.objs[res.ret].cls = ClassAt(i)
           /\ res.heap.objs[res.ret].source = FromIndex(i)
           /\ res.heap.objs[res.ret].refid = RefidAt(i)
           /\ ~res.heap.objs[res.ret].parsed
           /\ DOMAIN res.heap.refs = DOMAIN h.refs \cup {RefidAt(i)}
           /\ res.heap.refs[RefidAt(i)] = res.ret
<1>1. PICK cls : cls = ClassAt(i) OBVIOUS
<1>2. PICK refid : refid = RefidAt(i) OBVIOUS
<1>3. PICK n : n = Size(h) + 1 OBVIOUS
<1> DEFINE x == BaseInit(cls, FromIndex(i), refid)
           a == Allocate(h, x)
           g == add_ref(a, refid)
<1>4. res = Return(g, Len(g.objs))
  <2>1. get_cls(IndexEntries[i]) = cls /\ get_cls(IndexEntries[i]) # ""
    BY <1>1, Zenon DEF ClassAt, Indexed
  <2>2. res = from_parse_data(h, cls, IndexEntries[i], FromIndex(i))
    BY <2>1, Zenon DEF convert_mem
  <2>3. FromIndex(i).kind = "index" BY DEF FromIndex
  <2>4. RefidOf(IndexEntries[i]) = refid BY <1>2, Zenon DEF RefidAt
  <2> QED BY <1>2, <2>2, <2>3, <2>4, Zenon DEF from_parse_data
<1>5. res.heap = g /\ res.ret = Size(g) /\ Ok(res) BY <1>4, Returned DEF Size
<1>6. DOMAIN h = {"objs", "refs"} /\ IsSeq(h.objs) /\ Len(h.objs) = Size(h) /\ Size(h) \in Nat
  BY ReadingFacts DEF Shaped, Size
<1>7. DOMAIN a = {"objs", "refs"} /\ a.objs = Append(h.objs, x) /\ a.refs = h.refs
  BY <1>6 DEF Allocate
<1> HIDE DEF a
<1>8. PICK s : s = h.objs OBVIOUS
<1>9. Len(Append(s, x)) = Len(s) + 1 /\ Append(s, x)[Len(s) + 1] = x
  <2> HIDE DEF x
  <2> QED BY <1>6, <1>8, AppendFacts
<1>10. /\ DOMAIN g = {"objs", "refs"} /\ g.objs = Append(h.objs, x)
       /\ g.refs = Assign(h.refs, refid, n)
  <2>1. g = [a EXCEPT !.refs = Assign(a.refs, refid, Len(a.objs))] BY DEF add_ref
  <2>2. Len(a.objs) = n BY <1>3, <1>6, <1>7, <1>8, <1>9
  <2> HIDE DEF x, g
  <2> QED BY <1>7, <2>1, <2>2
<1>11. g.objs[n] = x BY <1>3, <1>6, <1>8, <1>9, <1>10
<1>12. x.cls = cls /\ x.source = FromIndex(i) /\ x.refid = refid /\ ~x.parsed BY DEF BaseInit
<1> HIDE DEF g, x
<1>13. /\ DOMAIN g.refs = DOMAIN h.refs \cup {refid} /\ g.refs[refid] = n
       /\ \A b \in DOMAIN h.refs : g.refs[b] = h.refs[b]
  BY <1>2, <1>10 DEF Assign
<1>14. FromTheIndex(g, n)
  BY <1>1, <1>2, <1>11, <1>12, <1>13, Zenon DEF FromTheIndex, KnownBy
<1>15. /\ Reading(g, X) /\ More(h, g) /\ Size(g) = n /\ n \in 2..Size(g)
  <2>1. \A b \in DOMAIN h.refs : b \in DOMAIN g.refs /\ g.refs[b] = h.refs[b] BY <1>13
  <2>2. FromIndex(i).kind = "index" BY DEF FromIndex
  <2>3. \A b \in DOMAIN g.refs : b \notin DOMAIN h.refs =>
          g.refs[b] = Size(h) + 1 /\ b = refid /\ FromIndex(i).kind # "memberdef"
    BY <1>3, <1>13, <2>2
  <2>4. g.objs = Append(h.objs, BaseInit(cls, FromIndex(i), refid)) BY <1>10 DEF x
  <2>5. NewObject(h, g, cls, FromIndex(i), refid)
    BY <1>3, <1>10, <1>14, <2>1, <2>3, <2>4, Zenon DEF NewObject
  <2> QED BY <1>3, <2>5, NewObjectFacts
<1>16. n # NONE BY <1>3, <1>6 DEF NONE
<1>17. Showing(g, n) = MemberFor(IndexEntries[i])
  BY <1>1, <1>11, <1>12, <1>16, ShowingIndexed
<1>18. Gives(h, X, res, MemberFor(IndexEntries[i])) BY <1>5, <1>15, <1>17 DEF Gives
<1> QED BY <1>1, <1>2, <1>3, <1>5, <1>11, <1>12, <1>13, <1>15, <1>18

LEMMA KnownNext ==
    ASSUME project \in Projects, NEW g, Shaped(g), RefsTrue(g), NEW k \in Nat, KnownUpTo(g, k),
           k + 1 \in 1..Len(IndexEntries),
           NEW f, More(g, f), DOMAIN f.refs = DOMAIN g.refs \cup {RefidAt(k + 1)},
           f.objs[f.refs[RefidAt(k + 1)]].source = FromIndex(k + 1)
    PROVE  KnownUpTo(f, k + 1)
<1>0. PICK j : j = k + 1 OBVIOUS
<1>1. ASSUME NEW i \in Indexed, i <= k + 1
      PROVE  RefidAt(i) \in DOMAIN f.refs /\ f.objs[f.refs[RefidAt(i)]].source = FromIndex(i)
  <2>1. CASE i = j BY <1>0, <2>1
  <2>2. CASE i # j
    <3>0. i \in 1..Len(IndexEntries) BY DEF Indexed
    <3>1. i <= k BY <1>0, <1>1, <2>2, <3>0, ProjectFacts
    <3>2. PICK r : r = RefidAt(i) OBVIOUS
    <3>3. PICK m : m = g.refs[r] OBVIOUS
    <3>4. r \in DOMAIN g.refs /\ g.objs[m].source = FromIndex(i)
      BY <3>1, <3>2, <3>3, Zenon DEF KnownUpTo
    <3>5. m \in 2..Size(g) /\ Size(g) \in Nat BY <3>3, <3>4, SizeFacts DEF RefsTrue
    <3>6. m \in 1..Size(g) BY <3>5
    <3>7. f.objs[m] = g.objs[m] /\ r \in DOMAIN f.refs /\ f.refs[r] = m
      BY <3>3, <3>4, <3>6 DEF More
    <3> QED BY <3>2, <3>4, <3>7, Zenon
  <2> QED BY <2>1, <2>2
<1>2. ASSUME NEW r \in DOMAIN f.refs PROVE \E i \in 1..(k + 1) : RefidAt(i) = r
  <2>1. CASE r = RefidAt(j)
    <3>1. j \in 1..(k + 1) BY <1>0
    <3> QED BY <2>1, <3>1
  <2>2. CASE r # RefidAt(j)
    <3>1. PICK i \in 1..k : RefidAt(i) = r BY <1>0, <2>2 DEF KnownUpTo
    <3>2. i \in 1..(k + 1) OBVIOUS
    <3> QED BY <3>1, <3>2
  <2> QED BY <2>1, <2>2
<1> QED BY <1>1, <1>2, Zenon DEF KnownUpTo
(* What comes of entry i, from what the members showed before. *)
EntryEnds(i, shown, res) ==
    IF Ok(res)
    THEN /\ Passes(i) /\ KnownUpTo(res.heap, i)
         /\ TopBeing(res.heap, Cat(shown, EntryMembers(i)))
    ELSE /\ ~Passes(i) /\ IndexDone(res.heap)
         /\ \E sh : TopBeing(res.heap, sh)

(* A header or a namespace, the object m of which has just been made. *)
LEMMA WithMembersEnds ==
    ASSUME project \in Projects, NEW c, NEW shown, TopBeing(c, shown), IsSeq(shown),
           NEW i \in Indexed, i \in 1..Len(IndexEntries), KnownUpTo(c, i),
           NEW m \in 2..Size(c), c.objs[m].cls = ClassAt(i), c.objs[m].refid = RefidAt(i),
           Showing(c, m) = MemberFor(IndexEntries[i]), ~c.objs[m].parsed,
           ReadAtOnce(IndexEntries[i]), NEW res, res = WithMembers(c, m)
    PROVE  EntryEnds(i, shown, res)
<1>1. PICK r : r = RefidAt(i) OBVIOUS
<1>2. ClassAt(i) \in {"DoxyFile", "DoxyNamespace"} /\ ClassAt(i) # "DoxyGroup"
  BY Zenon DEF ReadAtOnce, IsHeaderFile, ClassAt
<1>3. PICK read : read = CheckCompound(c, m) OBVIOUS
<1>4. PICK k : k = read.heap OBVIOUS
<1>5. Reading(c, {Top}) BY DEF TopBeing
<1>6. Shaped(c) /\ RefsTrue(c) /\ Size(c) \in Nat /\ Top \in 1..Size(c)
  BY <1>5, ReadingFacts
<1>7. m \notin {Top} /\ m # Top /\ m \in 1..Size(c) BY <1>6 DEF Top
<1>8. Checked(c, m, {Top}, read) BY <1>2, <1>3, <1>5, <1>7, CheckCompoundFacts
<1>9. /\ Reading(k, {Top}) /\ Grown(c, k, m) /\ k.refs = c.refs
      /\ IF r \in DOMAIN project.files
         THEN Ok(read) /\ ~k.objs[m].error /\ Seen(k, m) = DefMembers(r)
         ELSE ~Ok(read)
  BY <1>1, <1>2, <1>4, <1>8, Zenon DEF Checked
<1>10. SameKind(c, k) /\ k.objs[Top] = c.objs[Top] BY <1>6, <1>7, <1>9 DEF Grown
<1>11. TopBeing(k, shown) BY <1>9, <1>10, TopBeingKept
<1>12. KnownUpTo(k, i) BY <1>6, <1>9, <1>10, KnownKept
<1>13. CASE r \notin DOMAIN project.files
  <2>1. ~Ok(read) BY <1>9, <1>13
  <2>2. res = read
    BY <1>3, <2>1, Zenon DEF WithMembers, MembersOf, Confirmed, AndThen, Then, Ok
  <2>3. ~Passes(i) BY <1>1, <1>13, Zenon DEF Passes
  <2>4. IndexDone(k) BY <1>12, <2>3, IndexedUpTo, KnownDone
  <2> QED BY <1>4, <1>11, <2>1, <2>2, <2>3, <2>4, Zenon DEF EntryEnds
<1>14. CASE r \in DOMAIN project.files
  <2>1. Ok(read) /\ ~k.objs[m].error /\ Seen(k, m) = DefMembers(r) BY <1>9, <1>14
  <2>2. PICK old : old = k.objs[Top].members OBVIOUS
  <2>3. PICK mems : mems = k.objs[m].members OBVIOUS
  <2>4. PICK new : new = Cat(Cat(old, mems), One(m)) OBVIOUS
  <2>5. PICK f : f = Put(k, Top, "members", new) OBVIOUS
  <2>6. Shaped(k) /\ Size(k) \in Nat /\ Top \in 1..Size(k) BY <1>9, ReadingFacts
  <2>7. Size(c) <= Size(k) BY <1>10 DEF SameKind
  <2>8. m \in 1..Size(k) /\ m \in 2..Size(k) BY <1>6, <2>6, <2>7
  <2>9. res = Return(f, NONE)
    <3>1. res = Return([k EXCEPT !.objs[Top].members = new], NONE)
      <4>1. res = Return([k EXCEPT !.objs[Top].members = @ \o mems \o <<m>>], NONE)
        <5>1. CheckCompound(c, m).exc = "" BY <1>3, <2>1, Zenon DEF Ok
        <5>2. ~CheckCompound(c, m).heap.objs[m].error BY <1>3, <1>4, <2>1
        <5>3. MembersOf(read, m) = Return(k, mems)
          <6>1. Confirmed(read, m) = Return(k, NONE)
            BY <1>3, <1>4, <2>1, Zenon DEF Confirmed, AndThen, Ok
          <6>2. Return(k, NONE).exc = "" /\ Return(k, NONE).heap = k
            BY Returned, Zenon DEF Ok
          <6> QED BY <2>3, <6>1, <6>2, Zenon DEF MembersOf, AndThen
        <5>4. /\ Return(k, mems).exc = "" /\ Return(k, mems).heap = k
              /\ Return(k, mems).ret = mems
          BY Returned, Zenon DEF Ok
        <5> QED BY <1>3, <5>3, <5>4, Zenon DEF WithMembers, Then
      <4>2. k.objs[Top].members \o mems \o <<m>> = new BY <2>2, <2>4, Zenon DEF Cat, One
      <4> QED BY <4>1, <4>2, Zenon
    <3>2. [k EXCEPT !.objs[Top].members = new] = f BY <2>5, <2>6, FieldsPut
    <3> QED BY <3>1, <3>2, Zenon
  <2>10. res.heap = f /\ Ok(res) BY <2>9, Returned
  <2>11. /\ IsSeq(old) /\ \A j \in 1..Len(old) : old[j] \in {NONE} \cup 2..Size(k)
    BY <2>2, <2>6, MembersFacts
  <2>12. /\ IsSeq(mems) /\ \A j \in 1..Len(mems) : mems[j] \in {NONE} \cup 2..Size(k)
    BY <2>3, <2>6, <2>8, MembersFacts
  <2>13. /\ IsSeq(One(m)) /\ \A j \in 1..Len(One(m)) : One(m)[j] \in {NONE} \cup 2..Size(k)
    <3>1. PICK s : s = One(m) OBVIOUS
    <3>2. IsSeq(s) /\ Len(s) = 1 /\ s[1] = m BY <3>1, OneIsSeq DEF One
    <3>3. \A j \in 1..1 : j = 1 OBVIOUS
    <3> QED BY <2>8, <3>1, <3>2, <3>3
  <2>14. /\ IsSeq(new) /\ \A j \in 1..Len(new) : new[j] \in {NONE} \cup 2..Size(k)
    <3>1. PICK half : half = Cat(old, mems) OBVIOUS
    <3>2. /\ IsSeq(half) /\ \A j \in 1..Len(half) : half[j] \in {NONE} \cup 2..Size(k)
      BY <2>11, <2>12, <3>1, MembersCat
    <3> QED BY <2>4, <2>13, <3>1, <3>2, MembersCat
  <2>15. /\ Reading(f, {Top}) /\ f.refs = k.refs /\ SameKind(k, f)
         /\ f.objs[Top].parsed = k.objs[Top].parsed
         /\ f.objs[Top].cats = k.objs[Top].cats /\ f.objs[Top].dicts = k.objs[Top].dicts
         /\ Seen(f, Top) = ShownBy(k, new)
    BY <1>9, <2>5, <2>6, <2>14, PutMembers
  <2>16. Seen(f, Top) = Cat(shown, EntryMembers(i))
    <3>1. IsSeq(Cat(old, mems)) BY <2>11, <2>12, CatFacts
    <3>2. ShownBy(k, new) = Cat(Cat(ShownBy(k, old), ShownBy(k, mems)), ShownBy(k, One(m)))
      BY <2>4, <2>11, <2>12, <2>13, <3>1, ShownCat
    <3>3. ShownBy(k, old) = shown BY <1>11, <2>2, SeenShown DEF TopBeing
    <3>4. ShownBy(k, mems) = DefMembers(r) BY <2>1, <2>3, SeenShown
    <3>5. ShownBy(k, One(m)) = One(MemberFor(IndexEntries[i]))
      <4>1. m \in {NONE} \cup 2..Size(c) OBVIOUS
      <4>2. Showing(k, m) = Showing(c, m) BY <1>6, <1>10, <4>1, ShowingKept
      <4> QED BY <4>2, ShownOne
    <3>6. PICK x : x = One(MemberFor(IndexEntries[i])) OBVIOUS
    <3>7. IsSeq(DefMembers(r)) /\ IsSeq(x) BY <1>14, <3>6, DefMembersIsSeq, CatFacts
    <3>8. Cat(Cat(shown, DefMembers(r)), x) = Cat(shown, Cat(DefMembers(r), x))
      BY <3>7, CatFacts
    <3>9. EntryMembers(i) = Cat(DefMembers(r), x)
      BY <1>1, <3>6, Zenon DEF EntryMembers, Cat, One
    <3> QED BY <2>15, <3>2, <3>3, <3>4, <3>5, <3>6, <3>8, <3>9
  <2>17. NoCaches(f, Top) BY <1>11, <2>15, Zenon DEF TopBeing, NoCaches
  <2>18. TopBeing(f, Cat(shown, EntryMembers(i)))
    BY <1>11, <2>15, <2>16, <2>17, Zenon DEF TopBeing
  <2>19. KnownUpTo(f, i)
    <3>1. RefsTrue(k) BY <1>9, ReadingFacts
    <3> QED BY <1>12, <2>6, <2>15, <3>1, KnownKept
  <2>20. Passes(i)
    <3>1. ClassAt(i) # "" BY Zenon DEF Indexed
    <3> QED BY <1>1, <1>14, <3>1, Zenon DEF Passes
  <2> QED BY <2>10, <2>18, <2>19, <2>20 DEF EntryEnds
<1> QED BY <1>13, <1>14
LEMMA EntryStep ==
    ASSUME project \in Projects, NEW g, NEW shown, TopBeing(g, shown), IsSeq(shown),
           NEW k \in Nat, KnownUpTo(g, k), \A j \in 1..k : Passes(j),
           k + 1 \in 1..Len(IndexEntries), NEW none, NEW res, res = IndexEntry(g, none, k + 1)
    PROVE  EntryEnds(k + 1, shown, res)
<1>1. PICK i : i = k + 1 OBVIOUS
<1>2. i \in 1..Len(IndexEntries) /\ Len(IndexEntries) \in Nat BY <1>1, ProjectFacts
<1>3. PICK element : element = IndexEntries[i] OBVIOUS
<1>4. PICK cm : cm = convert_mem(g, element, FromIndex(i)) OBVIOUS
<1>5. res = IF Ok(cm) THEN AddEntry(cm.heap, cm.ret, element) ELSE cm
  BY <1>1, <1>3, <1>4, Zenon DEF IndexEntry, Then, Ok
<1>6. Reading(g, {Top}) BY DEF TopBeing
<1>7. Shaped(g) /\ RefsTrue(g) /\ Size(g) \in Nat /\ Top \in 1..Size(g)
  BY <1>6, ReadingFacts
<1>8. get_cls(element) = ClassAt(i) BY <1>3 DEF ClassAt
<1>9. CASE ClassAt(i) = ""
  <2>1. cm = Return(g, NONE) BY <1>4, <1>8, <1>9, Zenon DEF convert_mem
  <2>2. cm.heap = g /\ cm.ret = NONE /\ Ok(cm) BY <2>1, Returned
  <2>3. res = Raise(g, "Exception")
    <3>1. res = AddEntry(g, NONE, element) BY <1>5, <2>2, Zenon
    <3>2. "" # "DoxyFile" /\ "" # "DoxyNamespace" OBVIOUS
    <3> QED BY <1>8, <1>9, <3>1, <3>2, Zenon DEF AddEntry, ReadAtOnce, IsHeaderFile
  <2>4. res.heap = g /\ res.exc = "Exception" BY <2>3, Raised
  <2>5. ~Ok(res) BY <2>4, Zenon DEF Ok
  <2>6. ~Passes(i) BY <1>9, Zenon DEF Passes
  <2>7. \A j \in Indexed : j <= k
    <3>1. \A j \in Indexed : j <= i BY <1>2, <2>6, IndexedUpTo
    <3>2. i \notin Indexed BY <1>9, Zenon DEF Indexed
    <3>3. \A j \in Indexed : j \in 1..Len(IndexEntries) BY DEF Indexed
    <3> QED BY <1>1, <1>2, <3>1, <3>2, <3>3
  <2>8. IndexDone(g) BY <2>7, KnownDone
  <2> QED BY <1>1, <2>4, <2>5, <2>6, <2>8, Zenon DEF EntryEnds
<1>10. CASE ClassAt(i) # ""
  <2>1. i \in Indexed
    <3>1. i - 1 = k BY <1>1
    <3> QED BY <1>2, <1>10, <3>1 DEF Indexed
  <2>2. RefidAt(i) \notin DOMAIN g.refs
    <3>1. ASSUME RefidAt(i) \in DOMAIN g.refs PROVE FALSE
      <4>1. PICK j \in 1..k : RefidAt(j) = RefidAt(i) BY <3>1 DEF KnownUpTo
      <4>2. j \in 1..Len(IndexEntries) /\ j # i BY <1>1, <1>2
      <4> QED BY <1>2, <4>1, <4>2, ProjectFacts
    <3> QED BY <3>1
  <2>3. PICK c : c = cm.heap OBVIOUS
  <2>4. PICK m : m = cm.ret OBVIOUS
  <2>5. /\ Gives(g, {Top}, cm, MemberFor(element))
        /\ m \in 2..Size(c) /\ c.objs[m].cls = ClassAt(i) /\ c.objs[m].source = FromIndex(i)
        /\ c.objs[m].refid = RefidAt(i) /\ ~c.objs[m].parsed
        /\ DOMAIN c.refs = DOMAIN g.refs \cup {RefidAt(i)} /\ c.refs[RefidAt(i)] = m
    BY <1>3, <1>4, <1>6, <2>1, <2>2, <2>3, <2>4, ConvertEntry
  <2>6. /\ Reading(c, {Top}) /\ More(g, c) /\ Showing(c, m) = MemberFor(element) /\ Ok(cm)
    BY <2>3, <2>4, <2>5 DEF Gives
  <2>7. KnownUpTo(c, i) BY <1>1, <1>2, <1>7, <2>5, <2>6, KnownNext
  <2>8. TopBeing(c, shown)
    <3>1. SameKind(g, c) /\ c.objs[Top] = g.objs[Top] BY <1>7, <2>6 DEF More
    <3> QED BY <2>6, <3>1, TopBeingKept
  <2>9. res = AddEntry(c, m, element) BY <1>5, <2>3, <2>4, <2>6, Zenon
  <2>10. CASE ReadAtOnce(element)
    <3>1. res = WithMembers(c, m)
      <4>1. ~(get_cls(element) = "DoxyFile" /\ ~IsHeaderFile(element))
        <5>1. "DoxyFile" # "DoxyNamespace" OBVIOUS
        <5> QED BY <2>10, <5>1, Zenon DEF ReadAtOnce
      <4> QED BY <1>8, <1>10, <2>9, <2>10, <4>1, Zenon DEF AddEntry
    <3>2. EntryEnds(i, shown, res)
      BY <1>2, <1>3, <2>1, <2>5, <2>6, <2>7, <2>8, <2>10, <3>1, WithMembersEnds
    <3> QED BY <1>1, <3>2
  <2>11. CASE ~ReadAtOnce(element)
    <3>1. Passes(i) BY <1>3, <1>10, <2>11, Zenon DEF Passes
    <3>2. CASE ClassAt(i) = "DoxyFile"
      <4>1. res = Return(c, NONE)
        BY <1>8, <1>10, <2>9, <2>11, <3>2, Zenon DEF AddEntry, ReadAtOnce
      <4>2. res.heap = c /\ Ok(res) BY <4>1, Returned
      <4>3. EntryMembers(i) = <<>> BY <1>3, <2>11, <3>2, Zenon DEF EntryMembers
      <4>4. Cat(shown, EntryMembers(i)) = shown BY <4>3, CatFacts
      <4> QED BY <1>1, <2>7, <2>8, <3>1, <4>2, <4>4 DEF EntryEnds
    <3>3. CASE ClassAt(i) # "DoxyFile"
      <4>1. PICK f : f = AddMember(c, Top, m) OBVIOUS
      <4>2. res = Return(f, NONE)
        BY <1>8, <1>10, <2>9, <2>11, <3>3, <4>1, Zenon DEF AddEntry
      <4>3. res.heap = f /\ Ok(res) BY <4>2, Returned
      <4>4. Top \in 1..Size(c) /\ Top \in {Top} BY <2>6, ReadingFacts
      <4>5. /\ Reading(f, {Top}) /\ MoreMembers(c, f, Top) /\ f.refs = c.refs
            /\ Seen(f, Top) = Cat(Seen(c, Top), One(MemberFor(element)))
        BY <2>5, <2>6, <4>1, <4>4, AddMemberFacts
      <4>6. EntryMembers(i) = One(MemberFor(element))
        BY <1>3, <2>11, <3>3, Zenon DEF EntryMembers, One
      <4>7. TopBeing(f, Cat(shown, EntryMembers(i)))
        <5>1. c.objs[Top].parsed /\ NoCaches(c, Top) /\ Seen(c, Top) = shown
          BY <2>8 DEF TopBeing
        <5>2. f.objs[Top].parsed /\ NoCaches(f, Top)
          BY <4>5, <5>1, Zenon DEF MoreMembers, NoCaches
        <5> QED BY <4>5, <4>6, <5>1, <5>2 DEF TopBeing
      <4>8. KnownUpTo(f, i)
        <5>1. SameKind(c, f) BY <4>5 DEF MoreMembers, Grown
        <5> QED BY <2>6, <2>7, <4>5, <5>1, ReadingFacts, KnownKept
      <4> QED BY <1>1, <3>1, <4>3, <4>7, <4>8 DEF EntryEnds
    <3> QED BY <3>2, <3>3
  <2> QED BY <2>10, <2>11
<1> QED BY <1>9, <1>10

-----------------------------------------------------------------------------
(* What the first k entries come to. *)
EntrySeqs == [i \in 1..Len(IndexEntries) |-> EntryMembers(i)]

Stage(k, res) ==
    IF Ok(res)
    THEN /\ \A i \in 1..k : Passes(i)
         /\ KnownUpTo(res.heap, k) /\ TopBeing(res.heap, FirstOfAll(EntrySeqs, k))
    ELSE /\ \E i \in 1..Len(IndexEntries) : ~Passes(i)
         /\ IndexDone(res.heap)
         /\ \E sh : TopBeing(res.heap, sh)

LEMMA EntryMembersIsSeq ==
    ASSUME project \in Projects, NEW k \in 1..Len(IndexEntries), Passes(k)
    PROVE  IsSeq(EntryMembers(k))
<1>1. PICK x : x = MemberFor(IndexEntries[k]) OBVIOUS
<1>2. IsSeq(One(x)) BY CatFacts
<1>3. CASE ReadAtOnce(IndexEntries[k])
  <2>1. PICK r : r = RefidAt(k) OBVIOUS
  <2>2. r \in DOMAIN project.files BY <1>3, <2>1, Zenon DEF Passes
  <2>3. IsSeq(DefMembers(r)) BY <2>2, DefMembersIsSeq
  <2>4. EntryMembers(k) = Cat(DefMembers(r), One(x))
    BY <1>1, <1>3, <2>1, Zenon DEF EntryMembers, Cat, One
  <2> QED BY <1>2, <2>3, <2>4, CatFacts
<1>4. CASE ~ReadAtOnce(IndexEntries[k])
  <2>1. EntryMembers(k) = <<>> \/ EntryMembers(k) = One(x)
    BY <1>1, <1>4, Zenon DEF EntryMembers, One
  <2> QED BY <1>2, <2>1, EmptyIsSeq
<1> QED BY <1>3, <1>4

LEMMA EntryNext ==
    ASSUME project \in Projects, NEW k \in Nat, k + 1 \in 1..Len(IndexEntries),
           \A i \in 1..(k + 1) : Passes(i)
    PROVE  FirstOfAll(EntrySeqs, k + 1) = Cat(FirstOfAll(EntrySeqs, k), EntryMembers(k + 1))
<1>1. PICK seqs : seqs = EntrySeqs OBVIOUS
<1>2. Len(IndexEntries) \in Nat BY ProjectFacts
<1>3. \A i \in 1..Len(IndexEntries) : seqs[i] = EntryMembers(i) BY <1>1, Zenon DEF EntrySeqs
<1>4. ASSUME NEW i \in 1..(k + 1) PROVE IsSeq(seqs[i])
  <2>1. i \in 1..Len(IndexEntries) BY <1>2
  <2> QED BY <1>3, <2>1, EntryMembersIsSeq
<1>5. FirstOfAll(seqs, k + 1) = Cat(FirstOfAll(seqs, k), seqs[k + 1]) BY <1>4, FirstNext
<1> QED BY <1>1, <1>3, <1>5

LEMMA EntriesIsSeq ==
    ASSUME project \in Projects, NEW k \in Nat, k <= Len(IndexEntries),
           \A i \in 1..k : Passes(i)
    PROVE  IsSeq(FirstOfAll(EntrySeqs, k))
<1>1. PICK seqs : seqs = EntrySeqs OBVIOUS
<1>2. Len(IndexEntries) \in Nat BY ProjectFacts
<1>3. \A i \in 1..Len(IndexEntries) : seqs[i] = EntryMembers(i) BY <1>1, Zenon DEF EntrySeqs
<1>4. ASSUME NEW i \in 1..k PROVE IsSeq(seqs[i])
  <2>1. i \in 1..Len(IndexEntries) BY <1>2
  <2> QED BY <1>3, <2>1, EntryMembersIsSeq
<1>5. IsSeq(FirstOfAll(seqs, k)) BY <1>4, AllFlattenIsSeq
<1> QED BY <1>1, <1>5

LEMMA StageNext ==
    ASSUME project \in Projects, NEW k \in Nat, k + 1 \in 1..Len(IndexEntries), NEW res,
           Stage(k, res)
    PROVE  Stage(k + 1, Pass("index", Top, NONE, <<>>, res, k + 1))
<1>1. PICK next : next = Pass("index", Top, NONE, <<>>, res, k + 1) OBVIOUS
<1>2. next = IF ~Ok(res) THEN res ELSE IndexEntry(res.heap, res.ret, k + 1)
  BY <1>1, Zenon DEF Pass
<1>3. CASE ~Ok(res)
  <2>1. next = res BY <1>2, <1>3
  <2> QED BY <1>1, <1>3, <2>1, Zenon DEF Stage
<1>4. CASE Ok(res)
  <2>1. PICK shown : shown = FirstOfAll(EntrySeqs, k) OBVIOUS
  <2>2. PICK g : g = res.heap OBVIOUS
  <2>3. PICK none : none = res.ret OBVIOUS
  <2>4. (\A i \in 1..k : Passes(i)) /\ KnownUpTo(g, k) /\ TopBeing(g, shown)
    BY <1>4, <2>1, <2>2 DEF Stage
  <2>5. next = IndexEntry(g, none, k + 1) BY <1>2, <1>4, <2>2, <2>3
  <2>6. Len(IndexEntries) \in Nat BY ProjectFacts
  <2>7. k <= Len(IndexEntries) BY <2>6
  <2>8. IsSeq(shown) BY <2>1, <2>4, <2>7, EntriesIsSeq
  <2>9. PICK i : i = k + 1 OBVIOUS
  <2>10. EntryEnds(i, shown, next) BY <2>4, <2>5, <2>8, <2>9, EntryStep
  <2>11. CASE Ok(next)
    <3>1. /\ Passes(i) /\ KnownUpTo(next.heap, i)
          /\ TopBeing(next.heap, Cat(shown, EntryMembers(i)))
      BY <2>10, <2>11 DEF EntryEnds
    <3>2. \A j \in 1..(k + 1) : Passes(j)
      <4>1. \A j \in 1..(k + 1) : j \in 1..k \/ j = i BY <2>9
      <4> QED BY <2>4, <3>1, <4>1
    <3>3. FirstOfAll(EntrySeqs, k + 1) = Cat(shown, EntryMembers(i))
      BY <2>1, <2>9, <3>2, EntryNext
    <3> QED BY <1>1, <2>9, <2>11, <3>1, <3>2, <3>3 DEF Stage
  <2>12. CASE ~Ok(next)
    <3>1. ~Passes(i) /\ IndexDone(next.heap) /\ \E sh : TopBeing(next.heap, sh)
      BY <2>10, <2>12 DEF EntryEnds
    <3>2. i \in 1..Len(IndexEntries) BY <2>9
    <3> QED BY <1>1, <2>12, <3>1, <3>2, Zenon DEF Stage
  <2> QED BY <2>11, <2>12
<1> QED BY <1>3, <1>4
(* DoxyIndex._parse, which a client may come to once. *)
LEMMA ParseTopFacts ==
    ASSUME project \in Projects, NEW h, DocInv(h), ~h.objs[Top].parsed,
           NEW res, res = ParseTop(h)
    PROVE  DocInv(res.heap) /\ res.heap.objs[Top].parsed
<1>1. Reading(h, {}) /\ Size(h) = 1 /\ DOMAIN h.refs = {} BY DEF DocInv, Reading
<1>2. Top \in 1..Size(h) /\ Top \notin {} BY <1>1 DEF Top
<1>3. PICK g : g = Begun(h, Top) OBVIOUS
<1>4. Under(h, g, Top, {} \cup {Top}, <<>>) /\ g.refs = h.refs
  BY <1>1, <1>2, <1>3, BeginParse
<1>5. {} \cup {Top} = {Top} OBVIOUS
<1>6. TopBeing(g, <<>>) BY <1>4, <1>5 DEF Under, TopBeing
<1>7. PICK n \in Nat : n = Len(IndexEntries) BY ProjectFacts
<1>8. PICK run : /\ LoopRun(run, "index", Top, NONE, <<>>, Return(g, NONE), n)
                 /\ ParseTop(h) = run[n]
  BY <1>3, <1>7, IndexLoop DEF Begun
<1> DEFINE S == {k \in Nat : k <= n => Stage(k, run[k])}
<1>9. 0 \in S
  <2>1. PICK start : start = Return(g, NONE) OBVIOUS
  <2>2. start.heap = g /\ Ok(start) BY <2>1, Returned
  <2>3. KnownUpTo(g, 0)
    <3>1. \A i \in Indexed : ~(i <= 0)
      <4>1. \A i \in Indexed : i \in 1..n BY <1>7 DEF Indexed
      <4> QED BY <4>1
    <3>2. DOMAIN g.refs = {} BY <1>1, <1>4
    <3> QED BY <3>1, <3>2, Zenon DEF KnownUpTo
  <2>4. TopBeing(g, FirstOfAll(EntrySeqs, 0)) BY <1>6, FirstNone
  <2>5. \A i \in 1..0 : Passes(i) OBVIOUS
  <2>6. Stage(0, start) BY <2>2, <2>3, <2>4, <2>5, Zenon DEF Stage
  <2> QED BY <1>8, <2>1, <2>6 DEF LoopRun
<1>10. ASSUME NEW k \in Nat, k \in S PROVE k + 1 \in S
  <2> SUFFICES ASSUME k + 1 <= n PROVE Stage(k + 1, run[k + 1])
    OBVIOUS
  <2>1. Stage(k, run[k]) BY <1>10
  <2>2. k + 1 \in 1..n /\ (k + 1) - 1 = k OBVIOUS
  <2>3. run[k + 1] = Pass("index", Top, NONE, <<>>, run[k], k + 1)
    BY <1>8, <2>2, Zenon DEF LoopRun
  <2>4. PICK before : before = run[k] OBVIOUS
  <2> HIDE DEF S
  <2>5. Stage(k + 1, Pass("index", Top, NONE, <<>>, before, k + 1))
    BY <1>7, <2>1, <2>2, <2>4, StageNext
  <2> QED BY <2>3, <2>4, <2>5
<1> HIDE DEF S
<1>11. n \in S BY <1>9, <1>10, SetInduction
<1>12. res = run[n] BY <1>8
<1>13. Stage(n, res) BY <1>11, <1>12 DEF S
<1>14. PICK k : k = res.heap OBVIOUS
<1>15. /\ IndexDone(k)
       /\ \E sh : /\ TopBeing(k, sh)
                  /\ (\A i \in 1..n : Passes(i)) => sh = IndexMembers
  <2>1. CASE Ok(res)
    <3>1. KnownUpTo(k, n) /\ TopBeing(k, FirstOfAll(EntrySeqs, n))
      BY <1>13, <1>14, <2>1 DEF Stage
    <3>2. \A i \in Indexed : i <= n
      <4>1. \A i \in Indexed : i \in 1..n BY <1>7 DEF Indexed
      <4> QED BY <4>1
    <3>3. IndexDone(k) BY <3>1, <3>2, KnownDone
    <3>4. FirstOfAll(EntrySeqs, n) = IndexMembers
      <4>1. EntrySeqs = [i \in 1..n |-> EntrySeqs[i]] BY <1>7 DEF EntrySeqs
      <4>2. IndexMembers = FlattenSeq(EntrySeqs) BY Zenon DEF IndexMembers, EntrySeqs
      <4> QED BY <4>1, <4>2, Zenon DEF FirstOfAll
    <3> QED BY <3>1, <3>3, <3>4
  <2>2. CASE ~Ok(res) BY <1>7, <1>13, <1>14, <2>2, Zenon DEF Stage
  <2> QED BY <2>1, <2>2
<1>16. PICK sh : TopBeing(k, sh) /\ ((\A i \in 1..n : Passes(i)) => sh = IndexMembers)
  BY <1>15
<1>17. Reading(k, {Top}) /\ k.objs[Top].parsed /\ NoCaches(k, Top) /\ Seen(k, Top) = sh
  BY <1>16 DEF TopBeing
<1>18. Good(k, Top)
  <2>1. MembersComplete(k, Top) BY <1>7, <1>16, <1>17, Zenon DEF MembersComplete
  <2>2. CatsTrue(k, Top) BY <1>17, Zenon DEF CatsTrue, NoCaches
  <2>3. DictsTrue(k, Top) BY <1>17, Zenon DEF DictsTrue, NoCaches
  <2> QED BY <1>17, <2>1, <2>2, <2>3 DEF Good
<1>19. WellFormed(k) /\ AllGood(k, {}) BY <1>17, <1>18, Zenon DEF Reading, AllGood
<1>20. DocInv(k) BY <1>15, <1>17, <1>19, Zenon DEF DocInv
<1> QED BY <1>14, <1>17, <1>20

-----------------------------------------------------------------------------
(* A method of an object: the heap it leaves. *)
Fine(h, res) == DocInv(res.heap) /\ Size(h) <= Size(res.heap)

LEMMA DocInvFacts ==
    ASSUME NEW h, DocInv(h)
    PROVE  /\ Reading(h, {}) /\ Shaped(h) /\ Size(h) \in Nat /\ Size(h) >= 1
           /\ Top \in 1..Size(h) /\ RefsTrue(h) /\ Sourced(h)
<1>1. Reading(h, {}) BY DEF DocInv, Reading
<1> QED BY <1>1, ReadingFacts

LEMMA FineItself ==
    ASSUME NEW h, DocInv(h), NEW res, res.heap = h
    PROVE  Fine(h, res)
<1>1. Size(h) <= Size(h) BY DocInvFacts
<1> QED BY <1>1, Zenon DEF Fine

LEMMA CheckParsedFacts ==
    ASSUME project \in Projects, NEW h, DocInv(h), NEW o \in 1..Size(h),
           NEW res, res = check_parsed(h, o)
    PROVE  Fine(h, res) /\ res.heap.objs[o].parsed
<1>1. Reading(h, {}) /\ Shaped(h) /\ Size(h) \in Nat /\ Top \in 1..Size(h) BY DocInvFacts
<1>2. PICK k : k = res.heap OBVIOUS
<1>3. CASE o = Top /\ ~h.objs[Top].parsed
  <2>1. res = ParseTop(h) BY <1>3, Zenon DEF check_parsed
  <2>2. DocInv(k) /\ k.objs[Top].parsed BY <1>2, <1>3, <2>1, ParseTopFacts
  <2>3. Size(h) = 1 BY <1>3 DEF DocInv
  <2>4. Size(h) <= Size(k) BY <2>2, <2>3, DocInvFacts
  <2> QED BY <1>2, <1>3, <2>2, <2>4 DEF Fine
<1>4. CASE o = Top /\ h.objs[Top].parsed
  <2>1. res = Return(h, NONE) BY <1>4, Zenon DEF check_parsed, CheckCompound
  <2>2. res.heap = h BY <2>1, Returned
  <2> QED BY <1>4, <2>2, FineItself
<1>5. CASE o # Top
  <2>1. res = CheckCompound(h, o) BY <1>5, Zenon DEF check_parsed
  <2>2. o \in 2..Size(h) /\ Size(h) # 1 BY <1>1, <1>5 DEF Top
  <2>3. h.objs[Top].parsed /\ IndexDone(h) BY <2>2 DEF DocInv
  <2>4. o \notin {} OBVIOUS
  <2>5. Checked(h, o, {}, res) BY <1>1, <2>1, <2>2, <2>3, <2>4, CheckCompoundFacts
  <2>6. Reading(k, {}) /\ Grown(h, k, o) /\ k.objs[o].parsed BY <1>2, <2>5 DEF Checked
  <2>7. IndexDone(k) BY <1>1, <2>3, <2>6, DocInvFacts, IndexDoneKept
  <2>8. k.objs[Top] = h.objs[Top] /\ Size(h) <= Size(k) BY <1>1, <1>5, <2>6 DEF Grown, SameKind
  <2>9. DocInv(k) BY <2>3, <2>6, <2>7, <2>8, Zenon DEF DocInv, Reading
  <2> QED BY <1>2, <2>6, <2>8, <2>9 DEF Fine
<1> QED BY <1>3, <1>4, <1>5

(* The methods that have the object read and change nothing else. *)
LEMMA ConfirmHeap ==
    ASSUME NEW r, NEW o, NEW res, res = Confirmed(r, o)
    PROVE  res.heap = r.heap /\ (Ok(res) => Ok(r))
<1>1. CASE ~Ok(r)
  <2>1. res = r BY <1>1, Zenon DEF Confirmed, AndThen, Ok
  <2> QED BY <1>1, <2>1
<1>2. CASE Ok(r)
  <2>1. PICK g : g = r.heap OBVIOUS
  <2>2. res = Raise(g, "ParsingError") \/ res = Return(g, NONE)
    BY <1>2, <2>1, Zenon DEF Confirmed, AndThen, Ok
  <2>3. res.heap = g BY <2>2, Raised, Returned
  <2> QED BY <1>2, <2>1, <2>3
<1> QED BY <1>1, <1>2

LEMMA ConfirmFacts ==
    ASSUME project \in Projects, NEW h, DocInv(h), NEW o \in 1..Size(h),
           NEW res, res = confirm_no_error(h, o)
    PROVE  Fine(h, res) /\ res.heap.objs[o].parsed
<1>1. PICK r : r = check_parsed(h, o) OBVIOUS
<1>2. res = Confirmed(r, o) BY <1>1, Zenon DEF confirm_no_error
<1>3. res.heap = r.heap BY <1>2, ConfirmHeap
<1>4. Fine(h, r) /\ r.heap.objs[o].parsed BY <1>1, CheckParsedFacts
<1> QED BY <1>3, <1>4 DEF Fine

LEMMA ReadingMethods ==
    ASSUME project \in Projects, NEW h, DocInv(h), NEW o \in 1..Size(h)
    PROVE  /\ Fine(h, error(h, o)) /\ Fine(h, members(h, o))
           /\ \A key : Fine(h, data(h, o, key))
<1>1. PICK r : r = check_parsed(h, o) OBVIOUS
<1>2. PICK g : g = r.heap OBVIOUS
<1>3. Fine(h, r) BY <1>1, CheckParsedFacts
<1>4. \A res : res.heap = g => Fine(h, res) BY <1>2, <1>3 DEF Fine
<1>5. PICK e : e = error(h, o) OBVIOUS
<1>6. e.heap = g
  <2>1. CASE ~Ok(r)
    <3>1. e = r BY <1>1, <1>5, <2>1, Zenon DEF error, AndThen, Ok
    <3> QED BY <1>2, <3>1
  <2>2. CASE Ok(r)
    <3>1. e = Return(g, g.objs[o].error) BY <1>1, <1>2, <1>5, <2>2, Zenon DEF error, AndThen, Ok
    <3>2. PICK v : v = g.objs[o].error OBVIOUS
    <3> QED BY <3>1, <3>2, Returned
  <2> QED BY <2>1, <2>2
<1>7. PICK c : c = Confirmed(r, o) OBVIOUS
<1>8. c.heap = g BY <1>2, <1>7, ConfirmHeap
<1>9. PICK m : m = members(h, o) OBVIOUS
<1>10. m.heap = g
  <2>1. CASE ~Ok(c)
    <3>1. m = c BY <1>1, <1>7, <1>9, <2>1, Zenon DEF members, MembersOf, AndThen, Ok
    <3> QED BY <1>8, <3>1
  <2>2. CASE Ok(c)
    <3>1. m = Return(c.heap, c.heap.objs[o].members)
      BY <1>1, <1>7, <1>9, <2>2, Zenon DEF members, MembersOf, AndThen, Ok
    <3>2. PICK v : v = c.heap.objs[o].members OBVIOUS
    <3>3. m = Return(g, v) BY <1>8, <3>1, <3>2
    <3> QED BY <3>3, Returned
  <2> QED BY <2>1, <2>2
<1>11. ASSUME NEW key PROVE Fine(h, data(h, o, key))
  <2>1. PICK d : d = data(h, o, key) OBVIOUS
  <2>2. c = confirm_no_error(h, o) BY <1>1, <1>7, Zenon DEF confirm_no_error
  <2>3. CASE ~Ok(c)
    <3>1. d = c BY <2>1, <2>2, <2>3, Zenon DEF data, AndThen, Ok
    <3> QED BY <1>4, <1>8, <2>1, <3>1
  <2>4. CASE Ok(c)
    <3>1. d = Return(c.heap, NONE) \/ d = Raise(c.heap, "KeyError")
      BY <2>1, <2>2, <2>4, Zenon DEF data, AndThen, Ok
    <3>2. d = Return(g, NONE) \/ d = Raise(g, "KeyError") BY <1>8, <3>1
    <3>3. d.heap = g BY <3>2, Returned, Raised
    <3> QED BY <1>4, <2>1, <3>3
  <2> QED BY <2>3, <2>4
<1>12. Fine(h, e) /\ Fine(h, m) BY <1>4, <1>6, <1>10
<1> QED BY <1>5, <1>9, <1>11, <1>12

LEMMA NameFacts ==
    ASSUME project \in Projects, NEW h, DocInv(h), NEW o \in {NONE} \cup 1..Size(h),
           NEW res, res = name(h, o)
    PROVE  /\ Fine(h, res)
           /\ Ok(res) => /\ res.heap = h /\ o \in 2..Size(h)
                         /\ res.ret = NameFor(h, o)
<1>0. Size(h) \in Nat /\ Sourced(h) BY DocInvFacts
<1>1. CASE o = NONE
  <2>1. res = Raise(h, "AttributeError") BY <1>1, Zenon DEF name
  <2>2. res.heap = h /\ res.exc = "AttributeError" BY <2>1, Raised
  <2>3. ~Ok(res) BY <2>2, Zenon DEF Ok
  <2> QED BY <2>2, <2>3, FineItself
<1>2. CASE o # NONE /\ h.objs[o].source.kind # "none"
  <2>1. res = Return(h, StringField(ParseData(h, o), "name")) BY <1>2, Zenon DEF name
  <2>2. NameFor(h, o) = StringField(ParseData(h, o), "name") BY <1>2, Zenon DEF NameFor
  <2>3. PICK n : n = NameFor(h, o) OBVIOUS
  <2>4. res.heap = h /\ res.ret = n BY <2>1, <2>2, <2>3, Returned
  <2>5. o # Top
    <3>1. h.objs[Top].source = NoSource BY <1>0 DEF Sourced
    <3>2. NoSource.kind = "none" BY Zenon DEF NoSource
    <3> QED BY <1>2, <3>1, <3>2
  <2>6. o \in 2..Size(h) BY <1>0, <1>2, <2>5 DEF Top
  <2> QED BY <2>3, <2>4, <2>6, FineItself
<1>3. CASE o # NONE /\ h.objs[o].source.kind = "none"
  <2>1. PICK r : r = check_parsed(h, o) OBVIOUS
  <2>2. PICK g : g = r.heap OBVIOUS
  <2>3. Fine(h, r) BY <1>3, <2>1, CheckParsedFacts
  <2>4. CASE ~Ok(r)
    <3>1. res = r BY <1>3, <2>1, <2>4, Zenon DEF name, AndThen, Ok
    <3> QED BY <2>3, <2>4, <3>1
  <2>5. CASE Ok(r)
    <3>1. res = Raise(g, "AttributeError")
      BY <1>3, <2>1, <2>2, <2>5, Zenon DEF name, AndThen, Ok
    <3>2. res.heap = g /\ res.exc = "AttributeError" BY <3>1, Raised
    <3>3. ~Ok(res) BY <3>2, Zenon DEF Ok
    <3> QED BY <2>2, <2>3, <3>2, <3>3 DEF Fine
  <2> QED BY <2>4, <2>5
<1> QED BY <1>1, <1>2, <1>3

-----------------------------------------------------------------------------
(* How a loop's body for a category is written with an opaque sequence: *)
(* members are taken one after the other.                                *)
Taken(h, m, cat) == IF m = NONE THEN FALSE ELSE h.objs[m].cls = cat
TakeOne(found, included, m) == IF included THEN Append(found, m) ELSE found

LEMMA TakeIfFacts ==
    ASSUME NEW h, NEW included, NEW found, NEW m, NEW res,
           res = TakeIf(Return(h, included), found, m)
    PROVE  Ok(res) /\ res.heap = h /\ res.ret = TakeOne(found, included, m)
<1>1. PICK r : r = Return(h, included) OBVIOUS
<1>2. r.heap = h /\ r.ret = included /\ Ok(r) BY <1>1, Returned
<1>3. res = Return(r.heap, IF r.ret THEN Append(found, m) ELSE found)
  BY <1>1, <1>2, Zenon DEF TakeIf, Then, Ok
<1>4. res = Return(h, TakeOne(found, included, m)) BY <1>2, <1>3, Zenon DEF TakeOne
<1> QED BY <1>4, Returned

(* The members that a class takes of the first k. *)
InClass(h, mems, cat, k) == FirstOfAll(Picks(h, mems, cat), k)

LEMMA InClassNext ==
    ASSUME NEW h, NEW mems, Len(mems) \in Nat, NEW cat, NEW k \in Nat, k + 1 \in 1..Len(mems),
           NEW included, included = Taken(h, mems[k + 1], cat)
    PROVE  InClass(h, mems, cat, k + 1) = TakeOne(InClass(h, mems, cat, k), included, mems[k + 1])
<1> DEFINE seqs == Picks(h, mems, cat)
<1>1. ASSUME NEW i \in 1..Len(mems)
      PROVE  seqs[i] = IF mems[i] # NONE /\ h.objs[mems[i]].cls = cat THEN <<mems[i]>> ELSE <<>>
  BY <1>1 DEF Picks
<1>2. ASSUME NEW i \in 1..(k + 1) PROVE IsSeq(seqs[i])
  <2>1. i \in 1..Len(mems) OBVIOUS
  <2>2. seqs[i] = <<mems[i]>> \/ seqs[i] = <<>> BY <1>1, <2>1
  <2>3. IsSeq(<<mems[i]>>) /\ IsSeq(<<>>) BY EmptyIsSeq, OneIsSeq
  <2> HIDE DEF seqs
  <2> QED BY <2>2, <2>3
<1> HIDE DEF seqs
<1>3. /\ IsSeq(FirstOfAll(seqs, k))
      /\ FirstOfAll(seqs, k + 1) = Cat(FirstOfAll(seqs, k), seqs[k + 1])
  BY <1>2, FirstNext
<1>4. PICK s : s = FirstOfAll(seqs, k) OBVIOUS
<1>5. Cat(s, seqs[k + 1]) = TakeOne(s, included, mems[k + 1])
  <2>1. CASE mems[k + 1] # NONE /\ h.objs[mems[k + 1]].cls = cat
    <3>0. PICK m : m = mems[k + 1] OBVIOUS
    <3>1. seqs[k + 1] = One(m) BY <1>1, <2>1, <3>0 DEF One
    <3>2. included BY <2>1 DEF Taken
    <3>3. TakeOne(s, included, m) = Append(s, m) BY <3>2, Zenon DEF TakeOne
    <3>4. IsSeq(s) BY <1>3, <1>4
    <3>5. Append(s, m) = Cat(s, One(m)) BY <3>4, CatFacts
    <3> QED BY <3>0, <3>1, <3>3, <3>5
  <2>2. CASE ~(mems[k + 1] # NONE /\ h.objs[mems[k + 1]].cls = cat)
    <3>1. seqs[k + 1] = <<>> BY <1>1, <2>2
    <3>2. ~included BY <2>2 DEF Taken
    <3>3. TakeOne(s, included, mems[k + 1]) = s BY <3>2, Zenon DEF TakeOne
    <3> QED BY <1>3, <1>4, <3>1, <3>3, CatFacts
  <2> QED BY <2>1, <2>2
<1> QED BY <1>3, <1>4, <1>5 DEF InClass, seqs

(* in_category of an object that has been read. *)
Found(h, o, cat, res) ==
    /\ Fine(h, res)
    /\ Ok(res) => /\ res.ret = InCat(res.heap, o, cat) /\ IsSeq(res.ret)
                  /\ \A i \in 1..Len(res.ret) : res.ret[i] \in {NONE} \cup 2..Size(res.heap)
                  /\ res.heap.objs[o].parsed

LEMMA InCatFacts ==
    ASSUME NEW h, Shaped(h), NEW o \in 1..Size(h), NEW cat
    PROVE  /\ IsSeq(InCat(h, o, cat))
           /\ \A i \in 1..Len(InCat(h, o, cat)) : InCat(h, o, cat)[i] \in {NONE} \cup 2..Size(h)
<1> DEFINE T == {NONE} \cup 2..Size(h)
           mems == h.objs[o].members
           Within(s) == IsSeq(s) /\ \A i \in 1..Len(s) : s[i] \in T
<1>1. IsSeq(mems) /\ Len(mems) \in Nat /\ \A i \in 1..Len(mems) : mems[i] \in T
  BY MembersFacts
<1>2. CASE cat = ALL
  <2>1. InCat(h, o, cat) = mems BY <1>2, InCatPicks
  <2> QED BY <1>1, <2>1
<1>3. CASE cat # ALL
  <2>1. InCat(h, o, cat) = FlattenSeq(Picks(h, mems, cat)) BY <1>3, InCatPicks
  <2> DEFINE seqs == Picks(h, mems, cat)
  <2>2. seqs = [i \in 1..Len(mems) |-> seqs[i]] BY DEF Picks
  <2>3. FirstOfAll(seqs, Len(mems)) = FlattenSeq(seqs) BY <2>2, Zenon DEF FirstOfAll
  <2>4. ASSUME NEW i \in 1..Len(mems)
        PROVE  seqs[i] = IF mems[i] # NONE /\ h.objs[mems[i]].cls = cat THEN One(mems[i]) ELSE <<>>
    BY <2>4 DEF Picks, One
  <2> HIDE DEF seqs
  <2>5. ASSUME NEW i \in 1..Len(mems) PROVE Within(seqs[i])
    <3>1. CASE mems[i] # NONE /\ h.objs[mems[i]].cls = cat
      <4>1. seqs[i] = <<mems[i]>> BY <2>4, <3>1 DEF One
      <4>2. mems[i] \in T BY <1>1
      <4>3. IsSeq(<<mems[i]>>) /\ Len(<<mems[i]>>) = 1 /\ <<mems[i]>>[1] = mems[i] BY OneIsSeq
      <4> HIDE DEF T, mems
      <4>4. \A j \in 1..Len(<<mems[i]>>) : <<mems[i]>>[j] \in T BY <4>2, <4>3
      <4> QED BY <4>1, <4>3, <4>4
    <3>2. CASE ~(mems[i] # NONE /\ h.objs[mems[i]].cls = cat)
      <4>1. seqs[i] = <<>> BY <2>4, <3>2
      <4> QED BY <4>1, EmptyIsSeq
    <3> QED BY <3>1, <3>2
  <2> DEFINE S == {k \in Nat : k <= Len(mems) => Within(FirstOfAll(seqs, k))}
  <2>6. 0 \in S
    <3>1. FirstOfAll(seqs, 0) = <<>> BY FirstNone
    <3>2. Within(<<>>) BY EmptyIsSeq
    <3> QED BY <3>1, <3>2
  <2>7. ASSUME NEW k \in Nat, k \in S PROVE k + 1 \in S
    <3> SUFFICES ASSUME k + 1 <= Len(mems) PROVE Within(FirstOfAll(seqs, k + 1))
      OBVIOUS
    <3> HIDE DEF T, mems
    <3>1. PICK s : s = FirstOfAll(seqs, k) OBVIOUS
    <3>2. PICK t : t = seqs[k + 1] OBVIOUS
    <3>3. Within(s) BY <2>7, <3>1
    <3>4. Within(t)
      <4>1. k + 1 \in 1..Len(mems) BY <1>1
      <4> QED BY <2>5, <3>2, <4>1
    <3>5. \A i \in 1..(k + 1) : IsSeq(seqs[i])
      <4>1. \A i \in 1..(k + 1) : i \in 1..Len(mems) BY <1>1
      <4> QED BY <2>5, <4>1
    <3>6. FirstOfAll(seqs, k + 1) = Cat(s, t) BY <3>1, <3>2, <3>5, FirstNext
    <3>7. Within(Cat(s, t)) BY <3>3, <3>4, MembersCat
    <3> QED BY <3>6, <3>7
  <2> HIDE DEF S
  <2>8. Len(mems) \in S BY <1>1, <2>6, <2>7, SetInduction
  <2>9. Within(FirstOfAll(seqs, Len(mems))) BY <1>1, <2>8 DEF S
  <2>10. FirstOfAll(seqs, Len(mems)) = InCat(h, o, cat) BY <2>1, <2>3 DEF seqs
  <2> QED BY <2>9, <2>10
<1> QED BY <1>2, <1>3

-----------------------------------------------------------------------------
(* A cache of an object that has been read gets another value. *)
CachePut(g, k, o) ==
    /\ Grown(g, k, o) /\ SameKind(g, k) /\ Size(k) = Size(g) /\ Shaped(k)
    /\ k.objs[o].members = g.objs[o].members /\ k.objs[o].parsed

CacheSet(g, k, o, f, v) ==
    /\ Reading(k, {o}) /\ CachePut(g, k, o)
    /\ \A c \in ObjectFields : k.objs[o][c] = IF c = f THEN v ELSE g.objs[o][c]
    /\ k.objs[Top].parsed = g.objs[Top].parsed

LEMMA CacheKeeps ==
    ASSUME NEW g, DocInv(g), NEW o \in 1..Size(g), g.objs[o].parsed,
           NEW f \in {"cats", "dicts"}, NEW v, NEW k, k = Put(g, o, f, v)
    PROVE  CacheSet(g, k, o, f, v)
<1>1. Reading(g, {}) /\ Shaped(g) /\ Top \in 1..Size(g) BY DocInvFacts
<1>2. Reading(g, {o}) BY <1>1 DEF Reading, AllGood
<1>3. f \in ObjectFields \ {"cls", "source", "refid", "members"} BY DEF ObjectFields
<1>4. o \in {o} OBVIOUS
<1>5. /\ Reading(k, {o}) /\ Grown(g, k, o) /\ Size(k) = Size(g)
      /\ \A c \in ObjectFields : k.objs[o][c] = IF c = f THEN v ELSE g.objs[o][c]
  BY <1>2, <1>3, <1>4, PutReading
<1>6. k.objs[o].members = g.objs[o].members /\ k.objs[o].parsed = g.objs[o].parsed
  BY <1>5 DEF ObjectFields
<1>7. Shaped(k) BY <1>5, ReadingFacts
<1>8. k.objs[Top].parsed = g.objs[Top].parsed
  <2>1. CASE o = Top BY <1>6, <2>1
  <2>2. CASE o # Top BY <1>1, <1>5, <2>2 DEF Grown
  <2> QED BY <2>1, <2>2
<1>9. SameKind(g, k) BY <1>5 DEF Grown
<1>10. CachePut(g, k, o) BY <1>5, <1>6, <1>7, <1>9 DEF CachePut
<1> QED BY <1>5, <1>8, <1>10 DEF CacheSet

LEMMA CacheFilled ==
    ASSUME NEW g, DocInv(g), NEW o \in 1..Size(g), g.objs[o].parsed,
           NEW f \in {"cats", "dicts"}, NEW v, NEW k, k = Put(g, o, f, v),
           CatsTrue(k, o), DictsTrue(k, o)
    PROVE  DocInv(k) /\ Size(k) = Size(g)
<1>0. CacheSet(g, k, o, f, v) BY CacheKeeps
<1>1. /\ Reading(k, {o}) /\ CachePut(g, k, o)
      /\ k.objs[Top].parsed = g.objs[Top].parsed
  BY <1>0 DEF CacheSet
<1>2. Shaped(g) /\ RefsTrue(g) /\ Top \in 1..Size(g) /\ Size(g) \in Nat BY DocInvFacts
<1>3. Good(g, o)
  <2>1. o \notin {} OBVIOUS
  <2> QED BY <2>1 DEF DocInv, AllGood
<1>4. Seen(k, o) = Seen(g, o) BY <1>1, <1>2, SeenKept DEF CachePut
<1>5. k.objs[o].cls = g.objs[o].cls /\ k.objs[o].refid = g.objs[o].refid
  BY <1>1 DEF CachePut, SameKind
<1>6. MembersComplete(k, o)
  <2>1. MembersComplete(g, o) BY <1>3 DEF Good
  <2>2. CASE o = Top BY <1>4, <2>1, <2>2, Zenon DEF MembersComplete
  <2>3. CASE o # Top BY <1>4, <1>5, <2>1, <2>3 DEF MembersComplete
  <2> QED BY <2>2, <2>3
<1>7. Good(k, o) BY <1>1, <1>6 DEF CachePut, Good
<1>8. AllGood(k, {}) BY <1>1, <1>7 DEF Reading, AllGood
<1>9. g.objs[Top].parsed => IndexDone(k)
  BY <1>1, <1>2, IndexDoneKept DEF DocInv, CachePut
<1>10. g.objs[Top].parsed
  <2>1. CASE o = Top BY <2>1
  <2>2. CASE o # Top BY <1>2, <2>2 DEF DocInv, Top
  <2> QED BY <2>1, <2>2
<1>11. WellFormed(k) /\ Size(k) = Size(g) BY <1>1 DEF Reading, CachePut
<1> QED BY <1>1, <1>8, <1>9, <1>10, <1>11 DEF DocInv

LEMMA AssignFacts ==
    \A dict, key, x :
      /\ DOMAIN Assign(dict, key, x) = DOMAIN dict \cup {key}
      /\ \A c \in DOMAIN dict \cup {key} :
            Assign(dict, key, x)[c] = IF c = key THEN x ELSE dict[c]
BY DEF Assign

LEMMA DictsTrueKept ==
    ASSUME NEW g, NEW k, NEW o, CachePut(g, k, o), Shaped(g), o \in 1..Size(g),
           NEW cat, NEW dict, DictHolds(g, dict, InCat(g, o, cat)),
           \A i \in 1..Len(InCat(g, o, cat)) : InCat(g, o, cat)[i] \in 2..Size(g)
    PROVE  /\ DictHolds(k, dict, InCat(k, o, cat))
           /\ \A i \in 1..Len(InCat(k, o, cat)) : InCat(k, o, cat)[i] \in 2..Size(k)
<1>1. InCat(k, o, cat) = InCat(g, o, cat) BY InCatKept DEF CachePut
<1>2. PICK found : found = InCat(g, o, cat) OBVIOUS
<1>3. \A i \in 1..Len(found) : found[i] \in 1..Size(g) BY <1>2
<1>4. SameKind(g, k) /\ Size(k) = Size(g) BY DEF CachePut
<1>5. DictHolds(k, dict, found) BY <1>2, <1>3, <1>4, DictKept
<1> QED BY <1>1, <1>2, <1>4, <1>5

CatsWith(h, o, cat, found) == [h EXCEPT !.objs[o].cats = Assign(@, cat, found)]
DictsWith(h, o, cat, dict) == [h EXCEPT !.objs[o].dicts = Assign(@, cat, dict)]

LEMMA CategoryFilled ==
    ASSUME NEW g, DocInv(g), NEW o \in 1..Size(g), g.objs[o].parsed, NEW cat,
           NEW found, found = InCat(g, o, cat), NEW k,
           k = CatsWith(g, o, cat, found)
    PROVE  DocInv(k) /\ Size(k) = Size(g) /\ InCat(k, o, cat) = found /\ k.objs[o].parsed
<1>1. PICK v : v = Assign(g.objs[o].cats, cat, found) OBVIOUS
<1>2. PICK f \in {"cats", "dicts"} : f = "cats" OBVIOUS
<1>3. Shaped(g) BY DocInvFacts
<1>4. k = Put(g, o, f, v)
  <2>1. k = [g EXCEPT !.objs[o].cats = v] BY <1>1, Zenon DEF CatsWith
  <2> QED BY <1>2, <1>3, <2>1, FieldsPut
<1>0. CacheSet(g, k, o, f, v) BY <1>4, CacheKeeps
<1>5. /\ CachePut(g, k, o)
      /\ \A c \in ObjectFields : k.objs[o][c] = IF c = f THEN v ELSE g.objs[o][c]
  BY <1>0 DEF CacheSet
<1>6. k.objs[o].cats = v /\ k.objs[o].dicts = g.objs[o].dicts
  BY <1>2, <1>5 DEF ObjectFields
<1>7. ASSUME NEW c PROVE InCat(k, o, c) = InCat(g, o, c)
  <2>1. SameKind(g, k) /\ k.objs[o].members = g.objs[o].members BY <1>5 DEF CachePut
  <2> QED BY <1>3, <2>1, InCatKept
<1>8. CatsTrue(g, o) /\ DictsTrue(g, o)
  <2>1. o \notin {} OBVIOUS
  <2> QED BY <2>1 DEF DocInv, AllGood, Good
<1>9. CatsTrue(k, o)
  <2> SUFFICES ASSUME NEW c \in DOMAIN v PROVE v[c] = InCat(g, o, c)
    BY <1>6, <1>7 DEF CatsTrue
  <2>1. /\ c \in DOMAIN g.objs[o].cats \cup {cat}
        /\ v[c] = IF c = cat THEN found ELSE g.objs[o].cats[c]
    <3>1. DOMAIN v = DOMAIN g.objs[o].cats \cup {cat} BY <1>1, AssignFacts
    <3>2. \A b \in DOMAIN g.objs[o].cats \cup {cat} :
             v[b] = IF b = cat THEN found ELSE g.objs[o].cats[b]
      BY <1>1, AssignFacts
    <3> QED BY <3>1, <3>2
  <2> QED BY <1>8, <2>1 DEF CatsTrue
<1>10. DictsTrue(k, o)
  <2> SUFFICES ASSUME NEW c \in DOMAIN g.objs[o].dicts, NEW d, d = g.objs[o].dicts[c]
               PROVE  /\ DictHolds(k, d, InCat(k, o, c))
                      /\ \A i \in 1..Len(InCat(k, o, c)) : InCat(k, o, c)[i] \in 2..Size(k)
    BY <1>6 DEF DictsTrue
  <2>1. /\ DictHolds(g, d, InCat(g, o, c))
        /\ \A i \in 1..Len(InCat(g, o, c)) : InCat(g, o, c)[i] \in 2..Size(g)
    BY <1>8 DEF DictsTrue
  <2> QED BY <1>3, <1>5, <2>1, DictsTrueKept
<1>11. DocInv(k) /\ Size(k) = Size(g) BY <1>4, <1>9, <1>10, CacheFilled
<1> QED BY <1>5, <1>7, <1>11 DEF CachePut

LEMMA DictFilled ==
    ASSUME NEW g, DocInv(g), NEW o \in 1..Size(g), g.objs[o].parsed, NEW cat, NEW dict,
           DictHolds(g, dict, InCat(g, o, cat)),
           \A i \in 1..Len(InCat(g, o, cat)) : InCat(g, o, cat)[i] \in 2..Size(g), NEW k,
           k = DictsWith(g, o, cat, dict)
    PROVE  DocInv(k) /\ Size(k) = Size(g) /\ CachePut(g, k, o)
<1>1. PICK v : v = Assign(g.objs[o].dicts, cat, dict) OBVIOUS
<1>2. PICK f \in {"cats", "dicts"} : f = "dicts" OBVIOUS
<1>3. Shaped(g) BY DocInvFacts
<1>4. k = Put(g, o, f, v)
  <2>1. k = [g EXCEPT !.objs[o].dicts = v] BY <1>1, Zenon DEF DictsWith
  <2> QED BY <1>2, <1>3, <2>1, FieldsPut
<1>0. CacheSet(g, k, o, f, v) BY <1>4, CacheKeeps
<1>5. /\ CachePut(g, k, o)
      /\ \A c \in ObjectFields : k.objs[o][c] = IF c = f THEN v ELSE g.objs[o][c]
  BY <1>0 DEF CacheSet
<1>6. k.objs[o].dicts = v /\ k.objs[o].cats = g.objs[o].cats
  BY <1>2, <1>5 DEF ObjectFields
<1>7. ASSUME NEW c PROVE InCat(k, o, c) = InCat(g, o, c)
  <2>1. SameKind(g, k) /\ k.objs[o].members = g.objs[o].members BY <1>5 DEF CachePut
  <2> QED BY <1>3, <2>1, InCatKept
<1>8. CatsTrue(g, o) /\ DictsTrue(g, o)
  <2>1. o \notin {} OBVIOUS
  <2> QED BY <2>1 DEF DocInv, AllGood, Good
<1>9. CatsTrue(k, o) BY <1>6, <1>7, <1>8 DEF CatsTrue
<1>10. DictsTrue(k, o)
  <2> SUFFICES ASSUME NEW c \in DOMAIN v, NEW d, d = v[c]
               PROVE  /\ DictHolds(k, d, InCat(k, o, c))
                      /\ \A i \in 1..Len(InCat(k, o, c)) : InCat(k, o, c)[i] \in 2..Size(k)
    BY <1>6 DEF DictsTrue
  <2>1. c \in DOMAIN g.objs[o].dicts \cup {cat} /\ d = IF c = cat THEN dict ELSE g.objs[o].dicts[c]
    <3>1. DOMAIN v = DOMAIN g.objs[o].dicts \cup {cat} BY <1>1, AssignFacts
    <3>2. \A b \in DOMAIN g.objs[o].dicts \cup {cat} :
             v[b] = IF b = cat THEN dict ELSE g.objs[o].dicts[b]
      BY <1>1, AssignFacts
    <3> QED BY <3>1, <3>2
  <2>2. /\ DictHolds(g, d, InCat(g, o, c))
        /\ \A i \in 1..Len(InCat(g, o, c)) : InCat(g, o, c)[i] \in 2..Size(g)
    <3>1. CASE c = cat
      <4>1. d = dict BY <2>1, <3>1
      <4> QED BY <3>1, <4>1
    <3>2. CASE c # cat BY <1>8, <2>1, <3>2 DEF DictsTrue
    <3> QED BY <3>1, <3>2
  <2> QED BY <1>3, <1>5, <2>2, DictsTrueKept
<1>11. DocInv(k) /\ Size(k) = Size(g) BY <1>4, <1>9, <1>10, CacheFilled
<1> QED BY <1>5, <1>11

-----------------------------------------------------------------------------
LEMMA FineTrans ==
    ASSUME NEW h, DocInv(h), NEW r, Fine(h, r), NEW res, Fine(r.heap, res)
    PROVE  Fine(h, res)
<1>1. Size(h) \in Nat BY DocInvFacts
<1>2. PICK g : g = r.heap OBVIOUS
<1>3. DocInv(g) /\ Size(h) <= Size(g) BY <1>2 DEF Fine
<1>4. Size(g) \in Nat BY <1>3, DocInvFacts
<1>5. PICK k : k = res.heap OBVIOUS
<1>6. DocInv(k) /\ Size(g) <= Size(k) BY <1>2, <1>5 DEF Fine
<1>7. Size(k) \in Nat BY <1>6, DocInvFacts
<1>8. Size(h) <= Size(k) BY <1>1, <1>3, <1>4, <1>6, <1>7
<1> QED BY <1>5, <1>6, <1>8 DEF Fine

(* The members of a class: found, and remembered. *)
LEMMA ByClassFacts ==
    ASSUME NEW g, DocInv(g), NEW o \in 1..Size(g), g.objs[o].parsed,
           NEW cat, cat # ALL, NEW res, res = ByClass(g, o, cat)
    PROVE  Found(g, o, cat, res)
<1>1. Shaped(g) /\ Size(g) \in Nat BY DocInvFacts
<1>2. PICK mems : mems = g.objs[o].members OBVIOUS
<1>3. PICK n : n = Len(mems) OBVIOUS
<1>4. n \in Nat /\ IsSeq(mems) BY <1>1, <1>2, <1>3, MembersFacts
<1>5. PICK run : /\ LoopRun(run, "category", o, cat, mems, Return(g, <<>>), n)
                 /\ ByClass(g, o, cat) =
                      IF Ok(run[n])
                      THEN Return([run[n].heap EXCEPT !.objs[o].cats = Assign(@, cat, run[n].ret)],
                                  run[n].ret)
                      ELSE run[n]
  BY <1>2, <1>3, <1>4, CategoryLoop
<1> DEFINE S == {k \in Nat : k <= n => /\ Ok(run[k]) /\ run[k].heap = g
                                       /\ run[k].ret = InClass(g, mems, cat, k)}
<1>6. 0 \in S
  <2>1. PICK start : start = Return(g, <<>>) OBVIOUS
  <2>2. start.heap = g /\ Ok(start) /\ start.ret = <<>> BY <2>1, Returned
  <2>3. run[0] = start BY <1>5, <2>1 DEF LoopRun
  <2>4. InClass(g, mems, cat, 0) = <<>> BY FirstNone DEF InClass
  <2> QED BY <2>2, <2>3, <2>4
<1>7. ASSUME NEW k \in Nat, k \in S PROVE k + 1 \in S
  <2> SUFFICES ASSUME k + 1 <= n
               PROVE  /\ Ok(run[k + 1]) /\ run[k + 1].heap = g
                      /\ run[k + 1].ret = InClass(g, mems, cat, k + 1)
    OBVIOUS
  <2>1. PICK before : before = run[k] OBVIOUS
  <2>2. Ok(before) /\ before.heap = g /\ before.ret = InClass(g, mems, cat, k)
    BY <1>4, <1>7, <2>1
  <2>3. k + 1 \in 1..n /\ (k + 1) - 1 = k BY <1>4
  <2>4. run[k + 1] = Pass("category", o, cat, mems, before, k + 1)
    BY <1>5, <2>1, <2>3, Zenon DEF LoopRun
  <2> HIDE DEF S
  <2>5. PICK m : m = mems[k + 1] OBVIOUS
  <2>6. PICK included : included = Taken(g, m, cat) OBVIOUS
  <2>7. Pass("category", o, cat, mems, before, k + 1) =
          TakeIf(Return(g, included), before.ret, m)
    <3>1. Pass("category", o, cat, mems, before, k + 1) =
            TakeIf(Return(before.heap, IF mems[k + 1] = NONE THEN FALSE
                                       ELSE before.heap.objs[mems[k + 1]].cls = cat),
                   before.ret, mems[k + 1])
      BY <2>2, Zenon DEF Pass
    <3> QED BY <2>2, <2>5, <2>6, <3>1, Zenon DEF Taken
  <2>8. PICK found : found = before.ret OBVIOUS
  <2>9. PICK after : after = run[k + 1] OBVIOUS
  <2>10. after = TakeIf(Return(g, included), found, m) BY <2>4, <2>7, <2>8, <2>9
  <2>11. Ok(after) /\ after.heap = g /\ after.ret = TakeOne(found, included, m)
    BY <2>10, TakeIfFacts
  <2>12. InClass(g, mems, cat, k + 1) = TakeOne(InClass(g, mems, cat, k), included, mems[k + 1])
    <3>1. Len(mems) \in Nat /\ k + 1 \in 1..Len(mems) BY <1>3, <1>4, <2>3
    <3>2. included = Taken(g, mems[k + 1], cat) BY <2>5, <2>6
    <3> QED BY <3>1, <3>2, InClassNext
  <2> QED BY <2>2, <2>5, <2>8, <2>9, <2>11, <2>12
<1> HIDE DEF S
<1>8. n \in S BY <1>4, <1>6, <1>7, SetInduction
<1>9. PICK last : last = run[n] OBVIOUS
<1>10. Ok(last) /\ last.heap = g /\ last.ret = InClass(g, mems, cat, n)
  BY <1>4, <1>8, <1>9 DEF S
<1>11. PICK found : found = InCat(g, o, cat) OBVIOUS
<1>12. last.ret = found
  <2>1. Picks(g, mems, cat) = [i \in 1..n |-> Picks(g, mems, cat)[i]] BY <1>3 DEF Picks
  <2>2. InClass(g, mems, cat, n) = FlattenSeq(Picks(g, mems, cat))
    BY <2>1, Zenon DEF InClass, FirstOfAll
  <2> QED BY <1>2, <1>10, <1>11, <2>2, InCatPicks
<1>13. PICK k : k = CatsWith(g, o, cat, found) OBVIOUS
<1>14. res = Return(k, found)
  <2>1. res = Return([last.heap EXCEPT !.objs[o].cats = Assign(@, cat, last.ret)], last.ret)
    BY <1>5, <1>9, <1>10
  <2> QED BY <1>10, <1>12, <1>13, <2>1, Zenon DEF CatsWith
<1>15. DocInv(k) /\ Size(k) = Size(g) /\ InCat(k, o, cat) = found /\ k.objs[o].parsed
  BY <1>11, <1>13, CategoryFilled
<1>16. Shaped(k) /\ o \in 1..Size(k) /\ Size(g) <= Size(k) BY <1>1, <1>15, DocInvFacts
<1>17. res.heap = k /\ res.ret = found BY <1>14, Returned
<1>18. IsSeq(found) /\ \A i \in 1..Len(found) : found[i] \in {NONE} \cup 2..Size(k)
  BY <1>15, <1>16, InCatFacts
<1> QED BY <1>15, <1>16, <1>17, <1>18 DEF Found, Fine

LEMMA FoundAfter ==
    ASSUME NEW h, DocInv(h), NEW r, Fine(h, r), NEW o, NEW cat, NEW res,
           Found(r.heap, o, cat, res)
    PROVE  Found(h, o, cat, res)
<1>1. Fine(h, res) BY FineTrans DEF Found
<1> QED BY <1>1, Zenon DEF Found

LEMMA FoundThere ==
    ASSUME NEW g, DocInv(g), NEW o \in 1..Size(g), g.objs[o].parsed, NEW cat, NEW res,
           res = Return(g, InCat(g, o, cat))
    PROVE  Found(g, o, cat, res)
<1>1. PICK found : found = InCat(g, o, cat) OBVIOUS
<1>2. res.heap = g /\ res.ret = found BY <1>1, Returned
<1>3. Shaped(g) BY DocInvFacts
<1>4. IsSeq(found) /\ \A i \in 1..Len(found) : found[i] \in {NONE} \cup 2..Size(g)
  BY <1>1, <1>3, InCatFacts
<1>5. Fine(g, res) BY <1>2, FineItself
<1> QED BY <1>1, <1>2, <1>4, <1>5 DEF Found

LEMMA InCategoryFacts ==
    ASSUME project \in Projects, NEW h, DocInv(h), NEW o \in 1..Size(h), NEW cat,
           NEW res, res = in_category(h, o, cat)
    PROVE  Found(h, o, cat, res)
<1>1. PICK r : r = confirm_no_error(h, o) OBVIOUS
<1>2. PICK g : g = r.heap OBVIOUS
<1>3. Fine(h, r) /\ g.objs[o].parsed BY <1>1, <1>2, ConfirmFacts
<1>4. DocInv(g) /\ o \in 1..Size(g)
  <2>1. DocInv(g) /\ Size(h) <= Size(g) BY <1>2, <1>3 DEF Fine
  <2>2. Size(h) \in Nat /\ Size(g) \in Nat BY <2>1, DocInvFacts
  <2> QED BY <2>1, <2>2
<1>5. CASE ~Ok(r)
  <2>1. res = r BY <1>1, <1>5, Zenon DEF in_category, InCategoryBy, AndThen, Ok
  <2> QED BY <1>3, <1>5, <2>1 DEF Found
<1>6. CASE Ok(r)
  <2>1. CASE cat = ALL
    <3>1. res = Return(g, g.objs[o].members)
      BY <1>1, <1>2, <1>6, <2>1, Zenon DEF in_category, InCategoryBy, AndThen, Ok
    <3>2. InCat(g, o, cat) = g.objs[o].members BY <2>1, InCatPicks
    <3>3. res = Return(g, InCat(g, o, cat)) BY <3>1, <3>2
    <3> QED BY <1>2, <1>3, <1>4, <3>3, FoundThere, FoundAfter
  <2>2. CASE cat # ALL /\ cat \in DOMAIN g.objs[o].cats
    <3>1. res = Return(g, g.objs[o].cats[cat])
      BY <1>1, <1>2, <1>6, <2>2, Zenon DEF in_category, InCategoryBy, AndThen, Ok
    <3>2. InCat(g, o, cat) = g.objs[o].cats[cat]
      <4>1. o \notin {} OBVIOUS
      <4>2. CatsTrue(g, o) BY <1>4, <4>1 DEF DocInv, AllGood, Good
      <4> QED BY <2>2, <4>2 DEF CatsTrue
    <3>3. res = Return(g, InCat(g, o, cat)) BY <3>1, <3>2
    <3> QED BY <1>2, <1>3, <1>4, <3>3, FoundThere, FoundAfter
  <2>3. CASE cat # ALL /\ cat \notin DOMAIN g.objs[o].cats
    <3>1. res = ByClass(g, o, cat)
      BY <1>1, <1>2, <1>6, <2>3, Zenon
      DEF in_category, InCategoryBy, AndThen, Ok, ByClass
    <3>2. Found(g, o, cat, res) BY <1>3, <1>4, <2>3, <3>1, ByClassFacts
    <3> QED BY <1>2, <1>3, <3>2, FoundAfter
  <2> QED BY <2>1, <2>2, <2>3
<1> QED BY <1>5, <1>6

-----------------------------------------------------------------------------
(* The dictionary of the first k members found. *)
DictUpTo(h, dict, found, k) ==
    /\ DOMAIN dict = {NameFor(h, found[i]) : i \in 1..k}
    /\ \A i \in 1..k :
          dict[NameFor(h, found[i])] =
            IF \E j \in 1..k : j # i /\ NameFor(h, found[j]) = NameFor(h, found[i])
            THEN DUPLICATE ELSE found[i]
    /\ \A i \in 1..k : found[i] \in 2..Size(h)

LEMMA DictUpToNext ==
    ASSUME NEW h, NEW dict, NEW found, NEW k \in Nat, DictUpTo(h, dict, found, k),
           found[k + 1] \in 2..Size(h), NEW n, n = NameFor(h, found[k + 1]), NEW e,
           e = IF n \in DOMAIN dict THEN DUPLICATE ELSE found[k + 1]
    PROVE  DictUpTo(h, Assign(dict, n, e), found, k + 1)
<1>1. PICK N : N = [i \in 1..(k + 1) |-> NameFor(h, found[i])] OBVIOUS
<1>2. \A i \in 1..(k + 1) : NameFor(h, found[i]) = N[i] BY <1>1
<1>3. PICK after : after = Assign(dict, n, e) OBVIOUS
<1>4. k + 1 \in 1..(k + 1) /\ \A i \in 1..k : i \in 1..(k + 1) OBVIOUS
<1>5. \A i \in 1..(k + 1) : i \in 1..k \/ i = k + 1 OBVIOUS
<1>6. DOMAIN dict = {N[i] : i \in 1..k} BY <1>2, <1>4 DEF DictUpTo
<1>7. ASSUME NEW i \in 1..k
      PROVE  dict[N[i]] = IF \E j \in 1..k : j # i /\ N[j] = N[i] THEN DUPLICATE ELSE found[i]
  BY <1>2, <1>4 DEF DictUpTo
<1>8. n = N[k + 1] BY <1>2, <1>4
<1>9. DOMAIN after = DOMAIN dict \cup {n} BY <1>3, AssignFacts
<1>10. \A c \in DOMAIN dict \cup {n} : after[c] = IF c = n THEN e ELSE dict[c]
  BY <1>3, AssignFacts
<1>11. DOMAIN after = {N[i] : i \in 1..(k + 1)} BY <1>4, <1>5, <1>6, <1>8, <1>9
<1>12. ASSUME NEW i \in 1..(k + 1)
       PROVE  after[N[i]] = IF \E j \in 1..(k + 1) : j # i /\ N[j] = N[i]
                            THEN DUPLICATE ELSE found[i]
  <2>1. N[i] \in DOMAIN dict \cup {n} BY <1>9, <1>11
  <2>2. after[N[i]] = IF N[i] = n THEN e ELSE dict[N[i]] BY <1>10, <2>1
  <2>3. CASE i = k + 1
    <3>1. (\E j \in 1..(k + 1) : j # i /\ N[j] = N[i]) <=> n \in DOMAIN dict
      BY <1>4, <1>5, <1>6, <1>8, <2>3
    <3> QED BY <1>8, <2>2, <2>3, <3>1
  <2>4. CASE i \in 1..k /\ N[i] = n
    <3>1. n \in DOMAIN dict BY <1>6, <2>4
    <3>2. k + 1 # i BY <2>4
    <3>3. \E j \in 1..(k + 1) : j # i /\ N[j] = N[i] BY <1>4, <1>8, <2>4, <3>2
    <3> QED BY <2>2, <2>4, <3>1, <3>3
  <2>5. CASE i \in 1..k /\ N[i] # n
    <3>1. (\E j \in 1..(k + 1) : j # i /\ N[j] = N[i]) <=> \E j \in 1..k : j # i /\ N[j] = N[i]
      BY <1>4, <1>5, <1>8, <2>5
    <3> QED BY <1>7, <2>2, <2>5, <3>1
  <2> QED BY <1>5, <2>3, <2>4, <2>5
<1>13. \A i \in 1..(k + 1) : found[i] \in 2..Size(h) BY <1>5 DEF DictUpTo
<1>14. DictUpTo(h, after, found, k + 1)
  <2>1. DOMAIN after = {NameFor(h, found[i]) : i \in 1..(k + 1)} BY <1>2, <1>11
  <2>2. ASSUME NEW i \in 1..(k + 1)
        PROVE  after[NameFor(h, found[i])] =
                 IF \E j \in 1..(k + 1) : j # i /\ NameFor(h, found[j]) = NameFor(h, found[i])
                 THEN DUPLICATE ELSE found[i]
    BY <1>2, <1>12
  <2> QED BY <1>13, <2>1, <2>2, Zenon DEF DictUpTo
<1> QED BY <1>3, <1>14

LEMMA DictIsUpTo ==
    ASSUME NEW h, NEW dict, NEW found, DictUpTo(h, dict, found, Len(found))
    PROVE  DictHolds(h, dict, found) /\ \A i \in 1..Len(found) : found[i] \in 2..Size(h)
BY Zenon DEF DictUpTo, DictHolds

(* The loop of _get_dict_members, which ends at a member without a name. *)
DictStage(h, found, k, r) ==
    /\ Fine(h, r)
    /\ Ok(r) => r.heap = h /\ DictUpTo(h, r.ret, found, k)

LEMMA EnteredFacts ==
    ASSUME NEW r, NEW dict, NEW m, NEW res, res = Entered(r, dict, m)
    PROVE  /\ ~Ok(r) => res = r
           /\ Ok(r) => /\ res.heap = r.heap
                       /\ res.ret = Assign(dict, r.ret, IF r.ret \in DOMAIN dict
                                                        THEN DUPLICATE ELSE m)
<1>1. ~Ok(r) => res = r BY Zenon DEF Entered, Then, Ok
<1>2. ASSUME Ok(r)
      PROVE  /\ res.heap = r.heap
             /\ res.ret = Assign(dict, r.ret, IF r.ret \in DOMAIN dict THEN DUPLICATE ELSE m)
  <2>1. PICK after : after = Assign(dict, r.ret, IF r.ret \in DOMAIN dict THEN DUPLICATE ELSE m)
    OBVIOUS
  <2>2. PICK g : g = r.heap OBVIOUS
  <2>3. res = Return(g, after) BY <1>2, <2>1, <2>2, Zenon DEF Entered, Then, Ok
  <2> QED BY <2>1, <2>2, <2>3, Returned
<1> QED BY <1>1, <1>2

LEMMA DictNext ==
    ASSUME project \in Projects, NEW h, DocInv(h), NEW found, NEW k \in Nat,
           found[k + 1] \in {NONE} \cup 2..Size(h),
           NEW before, DictStage(h, found, k, before), NEW after,
           after = Pass("dict", Top, NONE, found, before, k + 1)
    PROVE  DictStage(h, found, k + 1, after)
<1>1. CASE ~Ok(before)
  <2>1. after = before BY <1>1, Zenon DEF Pass
  <2> QED BY <1>1, <2>1 DEF DictStage
<1>2. CASE Ok(before)
  <2>1. after = Entered(name(before.heap, found[k + 1]), before.ret, found[k + 1])
    BY <1>2, Zenon DEF Pass
  <2>2. before.heap = h /\ DictUpTo(h, before.ret, found, k) BY <1>2 DEF DictStage
  <2>3. PICK m : m = found[k + 1] OBVIOUS
  <2>4. PICK dict : dict = before.ret OBVIOUS
  <2>5. PICK r : r = name(h, m) OBVIOUS
  <2>6. after = Entered(r, dict, m) BY <2>1, <2>2, <2>3, <2>4, <2>5
  <2>7. m \in {NONE} \cup 1..Size(h) BY <2>3
  <2>8. /\ Fine(h, r)
        /\ Ok(r) => r.heap = h /\ m \in 2..Size(h) /\ r.ret = NameFor(h, m)
    BY <2>5, <2>7, NameFacts
  <2>9. CASE ~Ok(r)
    <3>1. after = r BY <2>6, <2>9, EnteredFacts
    <3> QED BY <2>8, <2>9, <3>1 DEF DictStage
  <2>10. CASE Ok(r)
    <3>1. PICK n : n = NameFor(h, m) OBVIOUS
    <3>2. PICK e : e = IF n \in DOMAIN dict THEN DUPLICATE ELSE m OBVIOUS
    <3>3. r.heap = h /\ r.ret = n /\ m \in 2..Size(h) BY <2>8, <2>10, <3>1
    <3>4. after.heap = r.heap
      BY <2>6, <2>10, EnteredFacts
    <3>5. after.ret = Assign(dict, r.ret, IF r.ret \in DOMAIN dict THEN DUPLICATE ELSE m)
      BY <2>6, <2>10, EnteredFacts
    <3>6. after.ret = Assign(dict, n, e) BY <3>2, <3>3, <3>5
    <3>7. DictUpTo(h, Assign(dict, n, e), found, k + 1)
      BY <2>2, <2>3, <2>4, <3>1, <3>2, <3>3, DictUpToNext
    <3>8. Fine(h, after) BY <3>3, <3>4, FineItself
    <3> QED BY <3>3, <3>4, <3>6, <3>7, <3>8 DEF DictStage
  <2> QED BY <2>9, <2>10
<1> QED BY <1>1, <1>2

LEMMA DictOfFacts ==
    ASSUME project \in Projects, NEW h, DocInv(h), NEW found, IsSeq(found),
           \A i \in 1..Len(found) : found[i] \in {NONE} \cup 2..Size(h),
           NEW res, res = DictOf(h, found)
    PROVE  /\ Fine(h, res)
           /\ Ok(res) => /\ res.heap = h /\ DictHolds(h, res.ret, found)
                         /\ \A i \in 1..Len(found) : found[i] \in 2..Size(h)
<1>1. PICK n \in Nat : n = Len(found) BY SeqFacts
<1>2. PICK run : /\ LoopRun(run, "dict", Top, NONE, found, Return(h, [b \in {} |-> NONE]), n)
                 /\ DictOf(h, found) = run[n]
  BY <1>1, DictLoop
<1> DEFINE S == {k \in Nat : k <= n => DictStage(h, found, k, run[k])}
<1>3. 0 \in S
  <2>1. PICK none : none = [b \in {} |-> NONE] OBVIOUS
  <2>2. PICK start : start = Return(h, none) OBVIOUS
  <2>3. start.heap = h /\ start.ret = none BY <2>2, Returned
  <2>4. run[0] = start BY <1>2, <2>1, <2>2 DEF LoopRun
  <2>5. DictUpTo(h, none, found, 0)
    <3>1. DOMAIN none = {} BY <2>1
    <3>2. 1..0 = {} OBVIOUS
    <3> QED BY <3>1, <3>2, Zenon DEF DictUpTo
  <2>6. Fine(h, start) BY <2>3, FineItself
  <2> QED BY <2>3, <2>4, <2>5, <2>6 DEF DictStage
<1>4. ASSUME NEW k \in Nat, k \in S PROVE k + 1 \in S
  <2> SUFFICES ASSUME k + 1 <= n PROVE DictStage(h, found, k + 1, run[k + 1])
    OBVIOUS
  <2>1. PICK before : before = run[k] OBVIOUS
  <2>2. DictStage(h, found, k, before) BY <1>4, <2>1
  <2>3. k + 1 \in 1..n /\ (k + 1) - 1 = k OBVIOUS
  <2> HIDE DEF S
  <2>4. run[k + 1] = Pass("dict", Top, NONE, found, before, k + 1)
    BY <1>2, <2>1, <2>3, Zenon DEF LoopRun
  <2>5. found[k + 1] \in {NONE} \cup 2..Size(h) BY <1>1, <2>3
  <2> QED BY <2>2, <2>4, <2>5, DictNext
<1> HIDE DEF S
<1>5. n \in S BY <1>3, <1>4, SetInduction
<1>6. DictStage(h, found, n, res) BY <1>2, <1>5 DEF S
<1> QED BY <1>1, <1>6, DictIsUpTo DEF DictStage

-----------------------------------------------------------------------------
(* _get_dict_members, and what is looked up in it. *)
DictGiven(h, res) ==
    /\ Fine(h, res)
    /\ Ok(res) => \E found : /\ DictHolds(res.heap, res.ret, found)
                             /\ \A i \in 1..Len(found) : found[i] \in 2..Size(res.heap)

LEMMA MakeDictFacts ==
    ASSUME project \in Projects, NEW h, DocInv(h), NEW o \in 1..Size(h), NEW cat,
           NEW res, res = MakeDict(h, o, cat)
    PROVE  DictGiven(h, res)
<1>1. PICK r : r = in_category(h, o, cat) OBVIOUS
<1>2. Found(h, o, cat, r) BY <1>1, InCategoryFacts
<1>3. PICK g : g = r.heap OBVIOUS
<1>4. Fine(h, r) BY <1>2 DEF Found
<1>5. DocInv(g) /\ o \in 1..Size(g)
  <2>1. DocInv(g) /\ Size(h) <= Size(g) BY <1>3, <1>4 DEF Fine
  <2>2. Size(h) \in Nat /\ Size(g) \in Nat BY <2>1, DocInvFacts
  <2> QED BY <2>1, <2>2
<1>6. CASE ~Ok(r)
  <2>1. res = r BY <1>1, <1>6, Zenon DEF MakeDict, Then, Ok
  <2> QED BY <1>4, <1>6, <2>1 DEF DictGiven
<1>7. CASE Ok(r)
  <2>1. PICK found : found = r.ret OBVIOUS
  <2>2. /\ found = InCat(g, o, cat) /\ IsSeq(found) /\ g.objs[o].parsed
        /\ \A i \in 1..Len(found) : found[i] \in {NONE} \cup 2..Size(g)
    BY <1>2, <1>3, <1>7, <2>1 DEF Found
  <2>3. PICK d : d = DictOf(g, found) OBVIOUS
  <2>4. /\ Fine(g, d)
        /\ Ok(d) => /\ d.heap = g /\ DictHolds(g, d.ret, found)
                    /\ \A i \in 1..Len(found) : found[i] \in 2..Size(g)
    BY <1>5, <2>2, <2>3, DictOfFacts
  <2>5. Fine(h, d) BY <1>3, <1>4, <2>4, FineTrans
  <2>6. CASE ~Ok(d)
    <3>1. res = d BY <1>1, <1>3, <1>7, <2>1, <2>3, <2>6, Zenon DEF MakeDict, Then, Ok
    <3> QED BY <2>5, <2>6, <3>1 DEF DictGiven
  <2>7. CASE Ok(d)
    <3>1. PICK dict : dict = d.ret OBVIOUS
    <3>2. PICK k : k = DictsWith(g, o, cat, dict) OBVIOUS
    <3>3. res = Return(k, dict)
      <4>1. res = Return(DictsWith(d.heap, o, cat, d.ret), d.ret)
        BY <1>1, <1>3, <1>7, <2>1, <2>3, <2>7, Zenon DEF MakeDict, Then, Ok, DictsWith
      <4> QED BY <2>4, <2>7, <3>1, <3>2, <4>1
    <3>4. DictHolds(g, dict, found) /\ \A i \in 1..Len(found) : found[i] \in 2..Size(g)
      BY <2>4, <2>7, <3>1
    <3>5. DocInv(k) /\ Size(k) = Size(g) /\ CachePut(g, k, o)
      BY <1>5, <2>2, <3>2, <3>4, DictFilled
    <3>6. res.heap = k /\ res.ret = dict /\ Ok(res) BY <3>3, Returned
    <3>7. SameKind(g, k) BY <3>5 DEF CachePut
    <3>8. \A i \in 1..Len(found) : found[i] \in 1..Size(g) BY <3>4
    <3>9. DictHolds(k, dict, found) BY <3>4, <3>7, <3>8, DictKept
    <3>10. Fine(g, res) BY <3>5, <3>6, <1>5, DocInvFacts DEF Fine
    <3>11. Fine(h, res) BY <1>3, <1>4, <3>10, FineTrans
    <3> QED BY <3>4, <3>5, <3>6, <3>9, <3>11 DEF DictGiven
  <2> QED BY <2>6, <2>7
<1> QED BY <1>6, <1>7

LEMMA GetDictFacts ==
    ASSUME project \in Projects, NEW h, DocInv(h), NEW o \in 1..Size(h), NEW cat,
           NEW res, res = get_dict_members(h, o, cat)
    PROVE  DictGiven(h, res)
<1>1. PICK r : r = confirm_no_error(h, o) OBVIOUS
<1>2. PICK g : g = r.heap OBVIOUS
<1>3. Fine(h, r) BY <1>1, ConfirmFacts
<1>4. DocInv(g) /\ o \in 1..Size(g)
  <2>1. DocInv(g) /\ Size(h) <= Size(g) BY <1>2, <1>3 DEF Fine
  <2>2. Size(h) \in Nat /\ Size(g) \in Nat BY <2>1, DocInvFacts
  <2> QED BY <2>1, <2>2
<1>5. CASE ~Ok(r)
  <2>1. res = r BY <1>1, <1>5, Zenon DEF get_dict_members, AndThen, Ok
  <2> QED BY <1>3, <1>5, <2>1 DEF DictGiven
<1>6. CASE Ok(r) /\ cat \in DOMAIN g.objs[o].dicts
  <2>1. PICK dict : dict = g.objs[o].dicts[cat] OBVIOUS
  <2>2. res = Return(g, dict)
    BY <1>1, <1>2, <1>6, <2>1, Zenon DEF get_dict_members, AndThen, Ok
  <2>3. res.heap = g /\ res.ret = dict BY <2>2, Returned
  <2>4. Fine(h, res) BY <1>2, <1>3, <2>3 DEF Fine
  <2>5. DictsTrue(g, o)
    <3>1. o \notin {} OBVIOUS
    <3> QED BY <1>4, <3>1 DEF DocInv, AllGood, Good
  <2>6. PICK found : found = InCat(g, o, cat) OBVIOUS
  <2>7. DictHolds(g, dict, found) /\ \A i \in 1..Len(found) : found[i] \in 2..Size(g)
    BY <1>6, <2>1, <2>5, <2>6 DEF DictsTrue
  <2> QED BY <2>3, <2>4, <2>7 DEF DictGiven
<1>7. CASE Ok(r) /\ cat \notin DOMAIN g.objs[o].dicts
  <2>1. res = MakeDict(g, o, cat) BY <1>1, <1>2, <1>7, Zenon DEF get_dict_members, AndThen, Ok
  <2>2. DictGiven(g, res) BY <1>4, <2>1, MakeDictFacts
  <2>3. Fine(g, res) BY <2>2 DEF DictGiven
  <2>4. Fine(h, res) BY <1>2, <1>3, <2>3, FineTrans
  <2> QED BY <2>2, <2>4 DEF DictGiven
<1> QED BY <1>5, <1>6, <1>7

(* What a lookup gives is a member with a name. *)
Named(h, res) == Fine(h, res) /\ (Ok(res) => res.ret \in 2..Size(res.heap))

LEMMA LookUpFacts ==
    ASSUME NEW g, DocInv(g), NEW dict, NEW found, DictHolds(g, dict, found),
           \A i \in 1..Len(found) : found[i] \in 2..Size(g), NEW bit,
           NEW res, res = LookUp(g, dict, bit)
    PROVE  Named(g, res)
<1>1. CASE bit \in DOMAIN dict /\ dict[bit] # DUPLICATE
  <2>1. PICK m : m = dict[bit] OBVIOUS
  <2>2. res = Return(g, m) BY <1>1, <2>1, Zenon DEF LookUp
  <2>3. res.heap = g /\ res.ret = m BY <2>2, Returned
  <2>4. PICK i \in 1..Len(found) : bit = NameFor(g, found[i]) BY <1>1 DEF DictHolds
  <2>5. m = found[i] BY <1>1, <2>1, <2>4 DEF DictHolds
  <2> QED BY <2>3, <2>5, FineItself DEF Named
<1>2. CASE ~(bit \in DOMAIN dict /\ dict[bit] # DUPLICATE)
  <2>1. res = Raise(g, "NoSuchMember") \/ res = Raise(g, "Duplicate")
    BY <1>2, Zenon DEF LookUp
  <2>2. res.heap = g /\ (res.exc = "NoSuchMember" \/ res.exc = "Duplicate") BY <2>1, Raised
  <2>3. ~Ok(res)
    <3>1. "NoSuchMember" # "" /\ "Duplicate" # "" BY Zenon
    <3> QED BY <2>2, <3>1, Zenon DEF Ok
  <2> QED BY <2>2, <2>3, FineItself DEF Named
<1> QED BY <1>1, <1>2

LEMMA MemberNamedFacts ==
    ASSUME project \in Projects, NEW h, DocInv(h), NEW o \in 1..Size(h), NEW bit, NEW cat,
           NEW res, res = MemberNamed(h, o, bit, cat)
    PROVE  Named(h, res)
<1>1. PICK c : c = confirm_no_error(h, o) OBVIOUS
<1>2. PICK g : g = c.heap OBVIOUS
<1>3. Fine(h, c) BY <1>1, ConfirmFacts
<1>4. DocInv(g) /\ o \in 1..Size(g)
  <2>1. DocInv(g) /\ Size(h) <= Size(g) BY <1>2, <1>3 DEF Fine
  <2>2. Size(h) \in Nat /\ Size(g) \in Nat BY <2>1, DocInvFacts
  <2> QED BY <2>1, <2>2
<1>5. CASE ~Ok(c)
  <2>1. res = c BY <1>1, <1>5, Zenon DEF MemberNamed, Then, AndThen, Ok
  <2> QED BY <1>3, <1>5, <2>1 DEF Named
<1>6. CASE Ok(c)
  <2>1. PICK r : r = get_dict_members(g, o, cat) OBVIOUS
  <2>2. DictGiven(g, r) BY <1>4, <2>1, GetDictFacts
  <2>3. Fine(h, r) BY <1>2, <1>3, <2>2, FineTrans DEF DictGiven
  <2>4. CASE ~Ok(r)
    <3>1. res = r BY <1>1, <1>2, <1>6, <2>1, <2>4, Zenon DEF MemberNamed, Then, AndThen, Ok
    <3> QED BY <2>3, <2>4, <3>1 DEF Named
  <2>5. CASE Ok(r)
    <3>1. PICK k : k = r.heap OBVIOUS
    <3>2. PICK dict : dict = r.ret OBVIOUS
    <3>3. res = LookUp(k, dict, bit)
      BY <1>1, <1>2, <1>6, <2>1, <2>5, <3>1, <3>2, Zenon DEF MemberNamed, Then, AndThen, Ok
    <3>4. PICK found : /\ DictHolds(k, dict, found)
                       /\ \A i \in 1..Len(found) : found[i] \in 2..Size(k)
      BY <2>2, <2>5, <3>1, <3>2 DEF DictGiven
    <3>5. DocInv(k) BY <2>3, <3>1 DEF Fine
    <3>6. Named(k, res) BY <3>3, <3>4, <3>5, LookUpFacts
    <3>7. Fine(k, res) BY <3>6 DEF Named
    <3>8. Fine(h, res) BY <2>3, <3>1, <3>7, FineTrans
    <3> QED BY <3>6, <3>8 DEF Named
  <2> QED BY <2>4, <2>5
<1> QED BY <1>5, <1>6

-----------------------------------------------------------------------------
(* Split: the bits of the first k words. *)
SplitStep(bits, word, sep) ==
    IF word = sep THEN Append(bits, <<>>)
    ELSE [bits EXCEPT ![Len(bits)] = Append(@, word)]

Splits(text, sep, f, n) ==
    f = [k \in 0..n |-> IF k = 0 THEN <<<<>>>> ELSE SplitStep(f[k - 1], text[k], sep)]

LEMMA SplitsExist ==
    ASSUME NEW text, NEW sep
    PROVE  \A n \in Nat : \E f : Splits(text, sep, f, n)
<1> DEFINE S == {n \in Nat : \E f : Splits(text, sep, f, n)}
<1>1. 0 \in S
  <2> DEFINE f == [k \in 0..0 |-> <<<<>>>>]
  <2>1. f = [k \in 0..0 |-> IF k = 0 THEN <<<<>>>> ELSE SplitStep(f[k - 1], text[k], sep)]
    OBVIOUS
  <2>2. Splits(text, sep, f, 0) BY <2>1, Zenon DEF Splits
  <2> QED BY <2>2
<1>2. ASSUME NEW n \in Nat, n \in S PROVE n + 1 \in S
  <2>1. PICK f : Splits(text, sep, f, n) BY <1>2
  <2> DEFINE g == [k \in 0..(n + 1) |-> IF k = 0 THEN <<<<>>>>
                                        ELSE SplitStep(f[k - 1], text[k], sep)]
  <2>2. ASSUME NEW k \in 0..n PROVE g[k] = f[k]
    <3>1. k \in 0..(n + 1) OBVIOUS
    <3>2. g[k] = IF k = 0 THEN <<<<>>>> ELSE SplitStep(f[k - 1], text[k], sep)
      BY <3>1, Zenon
    <3>3. f[k] = IF k = 0 THEN <<<<>>>> ELSE SplitStep(f[k - 1], text[k], sep)
      BY <2>1, Zenon DEF Splits
    <3> QED BY <3>2, <3>3, Zenon
  <2>3. \A k \in 0..(n + 1) : k # 0 => g[k - 1] = f[k - 1]
    <3> HIDE DEF g
    <3> QED BY <2>2
  <2>4. g = [k \in 0..(n + 1) |-> IF k = 0 THEN <<<<>>>> ELSE SplitStep(g[k - 1], text[k], sep)]
    BY <2>3, Zenon
  <2>5. Splits(text, sep, g, n + 1) BY <2>4, Zenon DEF Splits
  <2> QED BY <2>5
<1> HIDE DEF S
<1>3. Nat \subseteq S BY <1>1, <1>2, SetInduction
<1> QED BY <1>3 DEF S

LEMMA SplitIsSeq ==
    ASSUME NEW text, Len(text) \in Nat, NEW sep
    PROVE  IsSeq(Split(text, sep))
<1>1. PICK n \in Nat : n = Len(text) OBVIOUS
<1> DEFINE P(f) == f = [k \in 0..Len(text) |->
                          IF k = 0 THEN <<<<>>>>
                          ELSE IF text[k] = sep THEN Append(f[k - 1], <<>>)
                          ELSE [f[k - 1] EXCEPT ![Len(f[k - 1])] = Append(@, text[k])]]
           bits == CHOOSE f : P(f)
<1>2. Split(text, sep) = bits[Len(text)] BY Zenon DEF Split
<1>3. ASSUME NEW f PROVE P(f) <=> Splits(text, sep, f, n)
  BY <1>1, Zenon DEF Splits, SplitStep
<1>4. PICK g : Splits(text, sep, g, n) BY SplitsExist
<1>5. P(bits) BY <1>3, <1>4, Zenon
<1>6. Splits(text, sep, bits, n) BY <1>3, <1>5
<1> HIDE DEF bits, P
<1> DEFINE S == {k \in Nat : k <= n => IsSeq(bits[k])}
<1>7. 0 \in S
  <2>1. bits[0] = <<<<>>>> BY <1>6 DEF Splits
  <2> QED BY <2>1, OneIsSeq
<1>8. ASSUME NEW k \in Nat, k \in S PROVE k + 1 \in S
  <2> SUFFICES ASSUME k + 1 <= n PROVE IsSeq(bits[k + 1])
    OBVIOUS
  <2>1. k + 1 \in 0..n /\ k + 1 # 0 /\ (k + 1) - 1 = k OBVIOUS
  <2>2. bits[k + 1] = SplitStep(bits[k], text[k + 1], sep)
    BY <1>6, <2>1, Zenon DEF Splits
  <2>3. PICK s : s = bits[k] OBVIOUS
  <2>4. PICK word : word = text[k + 1] OBVIOUS
  <2>5. IsSeq(s) BY <1>8, <2>3
  <2> HIDE DEF S
  <2>6. IsSeq(SplitStep(s, word, sep))
    <3>1. CASE word = sep
      <4>1. SplitStep(s, word, sep) = Append(s, <<>>) BY <3>1, Zenon DEF SplitStep
      <4> QED BY <2>5, <4>1, AppendFacts
    <3>2. CASE word # sep
      <4>1. PICK e : e = Append(s[Len(s)], word) OBVIOUS
      <4>2. PICK t : t = [s EXCEPT ![Len(s)] = e] OBVIOUS
      <4>3. SplitStep(s, word, sep) = t BY <3>2, <4>1, <4>2, Zenon DEF SplitStep
      <4>4. Len(s) \in Nat /\ DOMAIN s = 1..Len(s) BY <2>5, SeqFacts
      <4>5. t = [i \in 1..Len(s) |-> t[i]] BY <4>2, <4>4
      <4>6. IsSeq(t) BY <4>4, <4>5, FunctionsAreSeqs
      <4> QED BY <4>3, <4>6
    <3> QED BY <3>1, <3>2
  <2> QED BY <2>2, <2>3, <2>4, <2>6
<1> HIDE DEF S
<1>9. n \in S BY <1>7, <1>8, SetInduction
<1> QED BY <1>1, <1>2, <1>9 DEF S

(* get_member: each bit is looked up in what the bits before it gave. *)
OnTheWay(h, r) == Fine(h, r) /\ (Ok(r) => r.ret \in 1..Size(r.heap))

LEMMA NextBit ==
    ASSUME project \in Projects, NEW h, DocInv(h), NEW before, OnTheWay(h, before),
           NEW cat, NEW bits, NEW k, NEW after,
           after = Pass("member", Top, cat, bits, before, k)
    PROVE  OnTheWay(h, after)
<1>1. CASE ~Ok(before)
  <2>1. after = before BY <1>1, Zenon DEF Pass
  <2> QED BY <2>1
<1>2. CASE Ok(before)
  <2>1. PICK g : g = before.heap OBVIOUS
  <2>2. PICK m : m = before.ret OBVIOUS
  <2>3. DocInv(g) /\ Size(h) <= Size(g) /\ m \in 1..Size(g)
    BY <1>2, <2>1, <2>2 DEF OnTheWay, Fine
  <2>4. after = Return(g, m) \/ after = MemberNamed(g, m, bits[k], cat)
    BY <1>2, <2>1, <2>2, Zenon DEF Pass
  <2>5. CASE after = Return(g, m)
    <3>1. after.heap = g /\ after.ret = m BY <2>5, Returned
    <3> QED BY <2>3, <3>1 DEF OnTheWay, Fine
  <2>6. CASE after = MemberNamed(g, m, bits[k], cat)
    <3>1. PICK bit : bit = bits[k] OBVIOUS
    <3>2. after = MemberNamed(g, m, bit, cat) BY <2>6, <3>1
    <3>3. Named(g, after) BY <2>3, <3>2, MemberNamedFacts
    <3>4. Fine(h, after) BY <2>1, <3>3, FineTrans DEF OnTheWay, Named
    <3> QED BY <3>3, <3>4 DEF OnTheWay, Named
  <2> QED BY <2>4, <2>5, <2>6
<1> QED BY <1>1, <1>2

LEMMA GetMemberFacts ==
    ASSUME project \in Projects, NEW h, DocInv(h), NEW o \in 1..Size(h),
           NEW path \in Wanted, NEW cat, NEW res, res = get_member(h, o, path, cat)
    PROVE  Fine(h, res)
<1>1. PICK bits : bits = Split(path, "::") OBVIOUS
<1>2. IsSeq(bits)
  <2>1. path \in Seq(STRING) BY WantedAssumption
  <2>2. Len(path) \in Nat BY <2>1
  <2> QED BY <1>1, <2>2, SplitIsSeq
<1>3. PICK n \in Nat : n = Len(bits) BY <1>2, SeqFacts
<1>4. PICK run : /\ LoopRun(run, "member", Top, cat, bits, Return(h, o), n)
                 /\ res = run[n]
  BY <1>1, <1>3, MemberLoop
<1> DEFINE S == {k \in Nat : k <= n => OnTheWay(h, run[k])}
<1>5. 0 \in S
  <2>1. PICK start : start = Return(h, o) OBVIOUS
  <2>2. start.heap = h /\ start.ret = o BY <2>1, Returned
  <2>3. run[0] = start BY <1>4, <2>1 DEF LoopRun
  <2>4. Fine(h, start) BY <2>2, FineItself
  <2> QED BY <2>2, <2>3, <2>4 DEF OnTheWay
<1>6. ASSUME NEW k \in Nat, k \in S PROVE k + 1 \in S
  <2> SUFFICES ASSUME k + 1 <= n PROVE OnTheWay(h, run[k + 1])
    OBVIOUS
  <2>1. PICK before : before = run[k] OBVIOUS
  <2>2. OnTheWay(h, before) BY <1>6, <2>1
  <2>3. k + 1 \in 1..n /\ (k + 1) - 1 = k OBVIOUS
  <2> HIDE DEF S
  <2>4. PICK after : after = run[k + 1] OBVIOUS
  <2>5. after = Pass("member", Top, cat, bits, before, k + 1)
    BY <1>4, <2>1, <2>3, <2>4, Zenon DEF LoopRun
  <2> QED BY <2>2, <2>4, <2>5, NextBit
<1> HIDE DEF S
<1>7. n \in S BY <1>5, <1>6, SetInduction
<1> QED BY <1>4, <1>7 DEF S, OnTheWay

LEMMA HasMemberFacts ==
    ASSUME project \in Projects, NEW h, DocInv(h), NEW o \in 1..Size(h),
           NEW path \in Wanted, NEW cat, NEW res, res = has_member(h, o, path, cat)
    PROVE  Fine(h, res)
<1>1. PICK r : r = get_member(h, o, path, cat) OBVIOUS
<1>2. Fine(h, r) BY <1>1, GetMemberFacts
<1>3. PICK g : g = r.heap OBVIOUS
<1>4. res = Return(g, TRUE) \/ res = Return(g, FALSE) \/ res = r
  BY <1>1, <1>3, Zenon DEF has_member, IsFound
<1>5. res.heap = g
  <2>1. \A v : Return(g, v).heap = g BY Returned
  <2> QED BY <1>3, <1>4, <2>1, Zenon
<1> QED BY <1>2, <1>3, <1>5 DEF Fine

-----------------------------------------------------------------------------
(* The output that is read stays the same, and with it all that is said of *)
(* a heap by it.                                                           *)
LEMMA SameOutput ==
    ASSUME project' = project
    PROVE  /\ IndexEntries' = IndexEntries
           /\ \A r : MemberdefsOf(r)' = MemberdefsOf(r)
           /\ \A refid, cls : Inner(refid, cls)' <=> Inner(refid, cls)
           /\ \A i : ClassAt(i)' = ClassAt(i) /\ RefidAt(i)' = RefidAt(i)
           /\ \A i : Passes(i)' <=> Passes(i)
           /\ Indexed' = Indexed
<1>1. IndexEntries' = IndexEntries BY DEF IndexEntries
<1>2. \A r : FileOf(r)' = FileOf(r) BY DEF FileOf
<1>3. \A r : MemberdefsOf(r)' = MemberdefsOf(r) BY <1>2 DEF MemberdefsOf
<1>4. \A i : ClassAt(i)' = ClassAt(i) /\ RefidAt(i)' = RefidAt(i)
  BY <1>1 DEF ClassAt, RefidAt
<1>5. \A i : Passes(i)' <=> Passes(i) BY <1>1, <1>4 DEF Passes
<1>6. Indexed' = Indexed BY <1>1, <1>4, <1>5 DEF Indexed
<1>7. \A refid, cls : Inner(refid, cls)' <=> Inner(refid, cls) BY <1>2 DEF Inner
<1> QED BY <1>1, <1>3, <1>4, <1>5, <1>6, <1>7

LEMMA SameContents ==
    ASSUME project' = project
    PROVE  /\ IndexMembers' = IndexMembers
           /\ \A cls, refid : OwnMembers(cls, refid)' = OwnMembers(cls, refid)
<1>1. /\ IndexEntries' = IndexEntries /\ Indexed' = Indexed
      /\ \A r : MemberdefsOf(r)' = MemberdefsOf(r)
      /\ \A i : ClassAt(i)' = ClassAt(i) /\ RefidAt(i)' = RefidAt(i)
  BY SameOutput
<1>2. \A r : FileOf(r)' = FileOf(r) BY DEF FileOf
<1>3. \A r : DefMembers(r)' = DefMembers(r) BY <1>1 DEF DefMembers
<1>4. \A refid, cls : InnerMember(refid, cls)' = InnerMember(refid, cls)
  BY <1>1 DEF InnerMember
<1>5. \A refid, tag, cls : InnerMembers(refid, tag, cls)' = InnerMembers(refid, tag, cls)
  BY <1>2, <1>4 DEF InnerMembers
<1>6. \A cls, refid : OwnMembers(cls, refid)' = OwnMembers(cls, refid)
  BY <1>3, <1>5 DEF OwnMembers
<1>7. \A i : EntryMembers(i)' = EntryMembers(i) BY <1>1, <1>3 DEF EntryMembers
<1>8. IndexMembers' = IndexMembers BY <1>1, <1>7 DEF IndexMembers
<1> QED BY <1>6, <1>8

LEMMA SameNames ==
    ASSUME project' = project
    PROVE  /\ \A h, m : NameFor(h, m)' = NameFor(h, m)
           /\ \A h, o : Seen(h, o)' = Seen(h, o)
<1>1. IndexEntries' = IndexEntries /\ \A r : MemberdefsOf(r)' = MemberdefsOf(r)
  BY SameOutput
<1>2. \A h, m : ParseData(h, m)' = ParseData(h, m) BY <1>1 DEF ParseData
<1>3. \A h, m : NameFor(h, m)' = NameFor(h, m) BY <1>2 DEF NameFor
<1>4. \A h, m : Showing(h, m)' = Showing(h, m) BY <1>3 DEF Showing
<1>5. \A h, o : Seen(h, o)' = Seen(h, o) BY <1>4 DEF Seen
<1> QED BY <1>3, <1>5

LEMMA SameInv ==
    ASSUME project' = project
    PROVE  \A h : DocInv(h) => DocInv(h)'
<1> SUFFICES ASSUME NEW h, DocInv(h) PROVE DocInv(h)'
  OBVIOUS
<1>1. /\ IndexEntries' = IndexEntries /\ Indexed' = Indexed
      /\ \A r : MemberdefsOf(r)' = MemberdefsOf(r)
      /\ \A refid, cls : Inner(refid, cls)' <=> Inner(refid, cls)
      /\ \A i : ClassAt(i)' = ClassAt(i) /\ RefidAt(i)' = RefidAt(i)
      /\ \A i : Passes(i)' <=> Passes(i)
  BY SameOutput
<1>2. /\ \A g, m : NameFor(g, m)' = NameFor(g, m)
      /\ \A g, o : Seen(g, o)' = Seen(g, o)
  BY SameNames
<1>3. /\ IndexMembers' = IndexMembers
      /\ \A cls, refid : OwnMembers(cls, refid)' = OwnMembers(cls, refid)
  BY SameContents
<1>4. Sourced(h)'
  <2>1. \A o : FromTheIndex(h, o)' <=> FromTheIndex(h, o) BY <1>1 DEF FromTheIndex
  <2>2. \A o : FromAGroup(h, o)' <=> FromAGroup(h, o) BY <1>1 DEF FromAGroup
  <2>3. \A o : FromAMemberdef(h, o)' <=> FromAMemberdef(h, o) BY <1>1 DEF FromAMemberdef
  <2>4. Sourced(h) BY DEF DocInv, WellFormed
  <2> QED BY <2>1, <2>2, <2>3, <2>4 DEF Sourced
<1>5. WellFormed(h)' BY <1>4 DEF DocInv, WellFormed
<1>6. ASSUME NEW dict, NEW found PROVE DictHolds(h, dict, found)' <=> DictHolds(h, dict, found)
  <2>1. /\ \A i : NameFor(h, found[i])' = NameFor(h, found[i])
        /\ {NameFor(h, found[i])' : i \in 1..Len(found)} =
             {NameFor(h, found[i]) : i \in 1..Len(found)}
    BY <1>2
  <2>2. ASSUME NEW i
        PROVE  (\E j \in 1..Len(found) : j # i /\ NameFor(h, found[j])' = NameFor(h, found[i])')
               <=> \E j \in 1..Len(found) : j # i /\ NameFor(h, found[j]) = NameFor(h, found[i])
    BY <2>1
  <2>3. (\A i \in 1..Len(found) :
           dict[NameFor(h, found[i])'] =
             IF \E j \in 1..Len(found) : j # i /\ NameFor(h, found[j])' = NameFor(h, found[i])'
             THEN DUPLICATE ELSE found[i])
        <=> \A i \in 1..Len(found) :
           dict[NameFor(h, found[i])] =
             IF \E j \in 1..Len(found) : j # i /\ NameFor(h, found[j]) = NameFor(h, found[i])
             THEN DUPLICATE ELSE found[i]
    BY <2>1, <2>2
  <2> QED BY <2>1, <2>3, Zenon DEF DictHolds
<1>7. \A o : DictsTrue(h, o)' <=> DictsTrue(h, o) BY <1>6 DEF DictsTrue
<1>8. \A o : MembersComplete(h, o)' <=> MembersComplete(h, o)
  BY <1>1, <1>2, <1>3 DEF MembersComplete
<1>9. \A o : Good(h, o)' <=> Good(h, o) BY <1>7, <1>8 DEF Good
<1>10. AllGood(h, {})' BY <1>9 DEF DocInv, AllGood
<1>11. IndexDone(h)' <=> IndexDone(h) BY <1>1 DEF IndexDone
<1> QED BY <1>5, <1>10, <1>11 DEF DocInv

-----------------------------------------------------------------------------
(***************************************************************************)
(* Every call of a client leaves the heap as it should be.                 *)
(***************************************************************************)
ClientInv == project \in Projects /\ DocInv(heap)

LEMMA NewHeapFacts == DocInv(NewHeap)
<1>1. PICK x : x = BaseInit("DoxyIndex", NoSource, NoText) OBVIOUS
<1>2. PICK h : h = NewHeap OBVIOUS
<1>3. h = [objs |-> One(x), refs |-> [r \in {} |-> NONE]]
  BY <1>1, <1>2, Zenon DEF NewHeap, One, NoText
<1>4. DOMAIN h = {"objs", "refs"} /\ h.objs = One(x) /\ DOMAIN h.refs = {} BY <1>3
<1>5. IsSeq(h.objs) /\ Size(h) = 1 /\ h.objs[1] = x BY <1>4, OneIsSeq DEF One, Size
<1>6. /\ DOMAIN x = ObjectFields /\ x.cls = "DoxyIndex" /\ x.source = NoSource
      /\ x.members = <<>> /\ ~x.parsed /\ ~x.error /\ DOMAIN x.cats = {} /\ DOMAIN x.dicts = {}
  BY <1>1 DEF BaseInit, ObjectFields
<1>7. \A o \in 1..Size(h) : o = Top /\ h.objs[o] = x BY <1>5 DEF Top
<1>8. Shaped(h)
  <2>1. IsSeq(x.members) /\ Len(x.members) = 0 BY <1>6, EmptyIsSeq
  <2> QED BY <1>4, <1>5, <1>6, <1>7, <2>1 DEF Shaped
<1>9. RefsTrue(h) BY <1>4 DEF RefsTrue
<1>10. Sourced(h) BY <1>5, <1>6 DEF Sourced, Top
<1>11. AllGood(h, {})
  <2>1. Idle(h, Top) BY <1>5, <1>6, Zenon DEF Idle, NoCaches, Top
  <2>2. ~h.objs[Top].parsed /\ NoCaches(h, Top) BY <1>5, <1>6 DEF NoCaches, Top
  <2>3. MembersComplete(h, Top) BY <2>2, Zenon DEF MembersComplete
  <2>4. CatsTrue(h, Top) BY <2>2, Zenon DEF CatsTrue, NoCaches
  <2>5. DictsTrue(h, Top) BY <2>2, Zenon DEF DictsTrue, NoCaches
  <2>6. Good(h, Top) BY <2>1, <2>3, <2>4, <2>5 DEF Good
  <2> QED BY <1>7, <2>6 DEF AllGood
<1>12. ~h.objs[Top].parsed BY <1>5, <1>6 DEF Top
<1> QED BY <1>2, <1>4, <1>5, <1>8, <1>9, <1>10, <1>11, <1>12 DEF DocInv, WellFormed

LEMMA CallKeeps ==
    ASSUME ClientInv, project' = project, NEW result, heap' = result.heap, Fine(heap, result)
    PROVE  ClientInv'
<1>1. PICK k : k = result.heap OBVIOUS
<1>2. DocInv(k) BY <1>1 DEF Fine
<1>3. DocInv(k)' BY <1>2, SameInv
<1>4. heap' = k BY <1>1
<1>5. DocInv(heap)' BY <1>3, <1>4
<1> QED BY <1>5 DEF ClientInv

LEMMA ClientStep == ASSUME ClientInv, [ClientNext]_docVars PROVE ClientInv'
<1>0. project \in Projects /\ DocInv(heap) BY DEF ClientInv
<1>1. PICK h : h = heap OBVIOUS
<1>2. DocInv(h) BY <1>0, <1>1
<1>3. Objects = 1..Size(h) BY <1>1, <1>2, DocInvFacts, SizeFacts DEF Objects
<1>4. ASSUME NEW r, Call(r), Fine(h, r) PROVE ClientInv'
  BY <1>1, <1>4, CallKeeps DEF Call
<1>5. CASE CallError
  <2>1. PICK o \in Objects : Call(error(heap, o)) BY <1>5 DEF CallError
  <2>2. PICK r : r = error(h, o) OBVIOUS
  <2>3. Call(r) /\ Fine(h, r) BY <1>0, <1>1, <1>2, <1>3, <2>1, <2>2, ReadingMethods
  <2> QED BY <1>4, <2>3
<1>6. CASE CallName
  <2>1. PICK o \in Objects : Call(name(heap, o)) BY <1>6 DEF CallName
  <2>2. PICK r : r = name(h, o) OBVIOUS
  <2>3. o \in {NONE} \cup 1..Size(h) BY <1>3
  <2>4. Fine(h, r) BY <1>0, <1>2, <2>2, <2>3, NameFacts
  <2>5. Call(r) BY <1>1, <2>1, <2>2
  <2> QED BY <1>4, <2>4, <2>5
<1>7. CASE CallMembers
  <2>1. PICK o \in Objects : Call(members(heap, o)) BY <1>7 DEF CallMembers
  <2>2. PICK r : r = members(h, o) OBVIOUS
  <2>3. Call(r) /\ Fine(h, r) BY <1>0, <1>1, <1>2, <1>3, <2>1, <2>2, ReadingMethods
  <2> QED BY <1>4, <2>3
<1>8. CASE CallData
  <2>1. PICK o \in Objects : Call(data(heap, o, "brief_description")) BY <1>8 DEF CallData
  <2>2. PICK r : r = data(h, o, "brief_description") OBVIOUS
  <2>3. Call(r) /\ Fine(h, r) BY <1>0, <1>1, <1>2, <1>3, <2>1, <2>2, ReadingMethods
  <2> QED BY <1>4, <2>3
<1>9. CASE CallInCategory
  <2>1. PICK o \in Objects, cat \in Cats : Call(in_category(heap, o, cat))
    BY <1>9 DEF CallInCategory
  <2>2. PICK r : r = in_category(h, o, cat) OBVIOUS
  <2>3. Found(h, o, cat, r) BY <1>0, <1>2, <1>3, <2>2, InCategoryFacts
  <2>4. Call(r) /\ Fine(h, r) BY <1>1, <2>1, <2>2, <2>3 DEF Found
  <2> QED BY <1>4, <2>4
<1>10. CASE CallHasMember
  <2>1. PICK o \in Objects, cat \in Cats, path \in Wanted :
          Call(has_member(heap, o, path, cat))
    BY <1>10 DEF CallHasMember
  <2>2. PICK r : r = has_member(h, o, path, cat) OBVIOUS
  <2>3. Fine(h, r) BY <1>0, <1>2, <1>3, <2>2, HasMemberFacts
  <2>4. Call(r) BY <1>1, <2>1, <2>2
  <2> QED BY <1>4, <2>3, <2>4
<1>11. CASE UNCHANGED docVars
  <2>1. project' = project /\ heap' = h BY <1>1, <1>11 DEF docVars
  <2>2. DocInv(h)' BY <1>2, <2>1, SameInv
  <2>3. DocInv(heap)' BY <2>1, <2>2
  <2> QED BY <1>0, <2>1, <2>3 DEF ClientInv
<1> QED BY <1>5, <1>6, <1>7, <1>8, <1>9, <1>10, <1>11 DEF ClientNext

(* What the invariant says of the caches. *)
LEMMA ClientInvSuffices == ASSUME ClientInv PROVE LazinessHidden
<1>1. PICK h : h = heap OBVIOUS
<1>2. DocInv(h) BY <1>1 DEF ClientInv
<1>3. Objects = 1..Size(h) BY <1>1, <1>2, DocInvFacts, SizeFacts DEF Objects
<1>4. ASSUME NEW o \in 1..Size(h) PROVE MembersComplete(h, o) /\ CachesTrue(h, o)
  <2>1. o \notin {} OBVIOUS
  <2>2. Good(h, o) BY <1>2, <2>1 DEF DocInv, AllGood
  <2>3. MembersComplete(h, o) /\ CatsTrue(h, o) /\ DictsTrue(h, o) BY <2>2 DEF Good
  <2>4. ASSUME NEW cat \in DOMAIN h.objs[o].dicts PROVE DictTrue(h, o, cat)
    <3> DEFINE dict == h.objs[o].dicts[cat]
               found == InCat(h, o, cat)
    <3>3. DictHolds(h, dict, found) BY <2>3, <2>4 DEF DictsTrue
    <3>4. DOMAIN dict = {NameFor(h, found[i]) : i \in 1..Len(found)} BY <3>3 DEF DictHolds
    <3>5. \A i \in 1..Len(found) :
            dict[NameFor(h, found[i])] =
              IF \E j \in 1..Len(found) : j # i /\ NameFor(h, found[j]) = NameFor(h, found[i])
              THEN DUPLICATE ELSE found[i]
      BY <3>3, Zenon DEF DictHolds
    <3>6. DictTrue(h, o, cat) <=>
            /\ DOMAIN dict = {NameFor(h, found[i]) : i \in 1..Len(found)}
            /\ \A i \in 1..Len(found) :
                  dict[NameFor(h, found[i])] =
                    IF \E j \in 1..Len(found) :
                         j # i /\ NameFor(h, found[j]) = NameFor(h, found[i])
                    THEN DUPLICATE ELSE found[i]
      BY Zenon DEF DictTrue
    <3> QED BY <3>4, <3>5, <3>6, Zenon
  <2>5. CachesTrue(h, o) BY <2>3, <2>4 DEF CachesTrue, CatsTrue
  <2> QED BY <2>3, <2>5
<1> QED BY <1>1, <1>3, <1>4 DEF LazinessHidden

(* Laziness does not show: whatever the output of Doxygen, and whatever a  *)
(* client of doxyxml has called before, whatever raised an exception on    *)
(* the way, an object that has been read has all its members in their      *)
(* order, and what it remembers of lookups is what would be found anew.    *)
THEOREM LazinessNeverShows == ClientSpec => []LazinessHidden
<1>1. ClientInit => ClientInv BY NewHeapFacts DEF ClientInit, ClientInv
<1>2. ClientInv /\ [ClientNext]_docVars => ClientInv' BY ClientStep
<1>3. ClientInv => LazinessHidden BY ClientInvSuffices
<1> QED BY <1>1, <1>2, <1>3, PTL DEF ClientSpec

(* Two objects that doxyxml was to find by one refid are one object: what  *)
(* is read of a file through one of its groups or the index is seen        *)
(* through all of them.                                                    *)
OneObjectPerRefid ==
    \A o, p \in Objects \ {Top} :
      /\ heap.objs[o].source.kind # "memberdef" /\ heap.objs[p].source.kind # "memberdef"
      /\ heap.objs[o].refid = heap.objs[p].refid
      => o = p

(* Of a file there is never a second object, whatever a client calls: the  *)
(* registry of base.py and the objects agree at every moment between calls.*)
THEOREM RefidsIdentify == ClientSpec => []OneObjectPerRefid
<1>1. ClientInit => ClientInv BY NewHeapFacts DEF ClientInit, ClientInv
<1>2. ClientInv /\ [ClientNext]_docVars => ClientInv' BY ClientStep
<1>3. ClientInv => OneObjectPerRefid
  <2> SUFFICES ASSUME ClientInv PROVE OneObjectPerRefid
    OBVIOUS
  <2>1. PICK h : h = heap OBVIOUS
  <2>2. DocInv(h) BY <2>1 DEF ClientInv
  <2>3. Objects = 1..Size(h) /\ Size(h) \in Nat BY <2>1, <2>2, DocInvFacts, SizeFacts DEF Objects
  <2>4. ASSUME NEW o \in 2..Size(h), h.objs[o].source.kind # "memberdef" PROVE KnownBy(h, o)
    <3>1. FromTheIndex(h, o) \/ FromAGroup(h, o) \/ FromAMemberdef(h, o)
      BY <2>2, DocInvFacts DEF Sourced
    <3>2. \A r, k : FromFile(r, k).kind = "memberdef" BY DEF FromFile
    <3>3. ~FromAMemberdef(h, o) BY <2>4, <3>2 DEF FromAMemberdef
    <3> QED BY <3>1, <3>3 DEF FromTheIndex, FromAGroup
  <2>5. \A o \in Objects \ {Top} : o \in 2..Size(h) BY <2>3 DEF Top
  <2> QED BY <2>1, <2>4, <2>5 DEF OneObjectPerRefid, KnownBy
<1> QED BY <1>1, <1>2, <1>3, PTL DEF ClientSpec

=============================================================================
