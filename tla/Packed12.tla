------------------------------ MODULE Packed12 ------------------------------
(***************************************************************************)
(* The blocks ComplexToPacked12 and Packed12ToComplex: a complex sample    *)
(* becomes two 12-bit codes packed into three bytes, and the reverse.      *)
(*                                                                         *)
(* A component x of a sample is given as t = (x + 1) * 4095, so the range  *)
(* -1 to 1 is 0..8190, a code stands for the even number twice its value,  *)
(* and odd numbers are the components half way between two codes.  The     *)
(* arithmetic in between is taken to be exact.                             *)
(***************************************************************************)
EXTENDS Integers, Sequences

CONSTANTS
    Reals, Imags   \* the components of the samples considered

ASSUME Packed12Assumption == Reals \subseteq Int /\ Imags \subseteq Int

USHRT12_MAX == 4095

(* lrintf(t / 2): half way between two integers it takes the even one.     *)
Rounded(t) == IF t % 2 = 0 THEN t \div 2 ELSE 2 * ((t + 1) \div 4)

(* Mutation: the code is not limited. *)
Code_Unlimited(t) == Rounded(t)

(* The 32-bit code of a component, limited from above only. *)
Code(t) == IF Rounded(t) <= USHRT12_MAX THEN Rounded(t) ELSE USHRT12_MAX

(* (n & mask) >> shift, for the mask of the bits from 2^shift up to below  *)
(* 2^shift * span, of a number in two's complement.                        *)
Bits(n, shift, span) == (n \div shift) % span

(* Mutation: the low bits of the one code and the high bits of the other   *)
(* change places in the byte they share.                                   *)
Pack_Swapped(real, imag) ==
    << Bits(real, 16, 256),
       16 * Bits(imag, 256, 16) + Bits(real, 1, 16),
       Bits(imag, 1, 256) >>

(* Mutation: the mask of the low bits is one bit too wide. *)
Pack_WideMask(real, imag) ==
    << Bits(real, 16, 256),
       16 * Bits(real, 1, 32) + Bits(imag, 256, 16),
       Bits(imag, 1, 256) >>

(* The three bytes of two codes: the second has the low bits of the one    *)
(* code and the high bits of the other.                                    *)
Pack(real, imag) ==
    << Bits(real, 16, 256),
       16 * Bits(real, 1, 16) + Bits(imag, 256, 16),
       Bits(imag, 1, 256) >>

(* The two codes that three bytes stand for. *)
Unpack(bytes) ==
    << 16 * bytes[1] + Bits(bytes[2], 16, 16),
       256 * Bits(bytes[2], 1, 16) + bytes[3] >>

VARIABLES
    sample,   \* the components of the sample
    packed,   \* its three bytes, or none yet
    restored  \* the components they are turned back to, or none yet

pkvars == <<sample, packed, restored>>

Init ==
    /\ sample \in Reals \X Imags
    /\ packed = <<>>
    /\ restored = <<>>

ComplexToPacked12 ==
    /\ packed = <<>>
    /\ packed' = Pack(Code(sample[1]), Code(sample[2]))
    /\ UNCHANGED <<sample, restored>>

Packed12ToComplex ==
    /\ packed # <<>> /\ restored = <<>>
    /\ restored' = [k \in 1..2 |-> 2 * Unpack(packed)[k]]
    /\ UNCHANGED <<sample, packed>>

Next == ComplexToPacked12 \/ Packed12ToComplex

Spec == Init /\ [][Next]_pkvars

-----------------------------------------------------------------------------
Byte == 0..255

(* The components from -1 to 1. *)
Range12 == 0..8190

(* Every byte of the stream is one: no sum of two bit fields overflows,    *)
(* for components out of range too.                                        *)
TypeOK ==
    /\ sample \in Reals \X Imags
    /\ packed # <<>> => packed \in Byte \X Byte \X Byte
    /\ restored # <<>> => restored \in Range12 \X Range12

(* Packed12ToComplex "reverses the ComplexToPacked12 process", whatever    *)
(* the other component is, as far as the limits of a code allow: one in    *)
(* the range comes back as the nearest code and one above it as 1.  One    *)
(* below -1 is not limited but wraps: the code it comes back as is the     *)
(* nearest modulo 4096, so the component just below -1 becomes 1.          *)
NearestOrWrapped ==
    restored # <<>> =>
      \A k \in 1..2 :
        LET error == restored[k] - sample[k] IN
        /\ sample[k] > 8190 => restored[k] = 8190
        /\ sample[k] \in Range12 => error \in -1..1
        /\ sample[k] < 0 => (error + 1) % 8192 \in 0..2

(* What has been packed once is packed again without a change: a recording *)
(* that is converted again and again does not drift.                       *)
NoDrift ==
    restored # <<>> => Pack(Code(restored[1]), Code(restored[2])) = packed

=============================================================================
