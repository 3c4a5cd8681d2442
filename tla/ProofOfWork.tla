----------------------------- MODULE ProofOfWork -----------------------------
(***************************************************************************)
(* leadingZeroBits of registration.go, beside the definition that the      *)
(* algorithm sha256-leading-zero-bits-v1 has without a loop: the digest,   *)
(* read as a number, leaves that many of its highest bits unused.  A byte  *)
(* has ByteBits bits and a digest DigestBytes bytes, 8 and 32 in the code. *)
(***************************************************************************)
EXTENDS Integers, Sequences

CONSTANTS ByteBits, DigestBytes

ASSUME WidthAssumption == ByteBits \in Nat \ {0} /\ DigestBytes \in Nat \ {0}

TwoTo[n \in Nat] == IF n = 0 THEN 1 ELSE 2 * TwoTo[n - 1]

DigestBits == ByteBits * DigestBytes
Bytes == 0 .. TwoTo[ByteBits] - 1
Digests == [1 .. DigestBytes -> Bytes]

\* b & mask, for the mask with the given number of bits below its own.
HasBit(b, below) == (b \div TwoTo[below]) % 2 = 1

\* The inner loop: masks from the highest to the lowest, up to a bit of b.
ZerosInByte(b) ==
    CHOOSE n \in 0 .. ByteBits - 1 :
        /\ HasBit(b, ByteBits - 1 - n)
        /\ \A k \in 0 .. n - 1 : ~HasBit(b, ByteBits - 1 - k)

\* Mutant: the inner loop is left, the outer one goes on.
LeadingZeroBitsGoesOn(sum) ==
    LET From[i \in 1 .. DigestBytes + 1] ==
          IF i > DigestBytes THEN 0
          ELSE IF sum[i] = 0 THEN ByteBits + From[i + 1]
          ELSE ZerosInByte(sum[i]) + From[i + 1]
    IN  From[1]

LeadingZeroBits(sum) ==
    LET From[i \in 1 .. DigestBytes + 1] ==
          IF i > DigestBytes THEN 0
          ELSE IF sum[i] = 0 THEN ByteBits + From[i + 1]
          ELSE ZerosInByte(sum[i])
    IN  From[1]

Value(sum) ==
    LET Upto[i \in 0 .. DigestBytes] ==
          IF i = 0 THEN 0 ELSE Upto[i - 1] * TwoTo[ByteBits] + sum[i]
    IN  Upto[DigestBytes]

\* What the server accepts (referenceVerify of registration_test.go).
Accepts(sum, difficulty) ==
    /\ difficulty <= DigestBits
    /\ Value(sum) < TwoTo[DigestBits - difficulty]

\* The loop counts what the server counts, for every digest and difficulty.
CountsAgree ==
    \A sum \in Digests, difficulty \in 0 .. DigestBits + 1 :
        LeadingZeroBits(sum) >= difficulty <=> Accepts(sum, difficulty)
=============================================================================
