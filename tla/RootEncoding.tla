----------------------------- MODULE RootEncoding -----------------------------
(***************************************************************************)
(* How a uint256 travels: Solidity and the relay split it into two words of   *)
(* half its width, Cairo and the relay put the words together again.           *)
(***************************************************************************)
EXTENDS Integers, Sequences

CONSTANT UINT256_PART_SIZE   \* 2^128

ASSUME RootEncodingAssumption == UINT256_PART_SIZE \in Nat \ {0}

VARIABLE root   \* the root under way

UINT256_SIZE == UINT256_PART_SIZE * UINT256_PART_SIZE

\* A root whose encoding is refused.
Refused == -1

\* StarkStateBridge: the lower half by a mask, the upper half by a shift.
uint256_words(value) == <<value % UINT256_PART_SIZE, value \div UINT256_PART_SIZE>>

\* Cairo reads exactly two words, each of which must fit in its half.
deserialize(words) ==
  IF Len(words) = 2 /\ words[1] < UINT256_PART_SIZE /\ words[2] < UINT256_PART_SIZE
  THEN words[1] + words[2] * UINT256_PART_SIZE
  ELSE Refused

\* Mutant: the words are swapped.
into_felt_swapped(value) == <<value \div UINT256_PART_SIZE, value % UINT256_PART_SIZE>>

into_felt(value) == <<value % UINT256_PART_SIZE, value \div UINT256_PART_SIZE>>

\* The shift drops what does not fit; an addition that overflows panics.
felts_to_u256(values) ==
  IF Len(values) # 2 THEN Refused
  ELSE LET sum == values[1] + ((values[2] * UINT256_PART_SIZE) % UINT256_SIZE)
       IN  IF sum < UINT256_SIZE THEN sum ELSE Refused

-----------------------------------------------------------------------------
\* The root L1 starts with is 0, and the next may be any.
EncodingInit == root = 0

NewRoot == root' \in 0..(UINT256_SIZE - 1)

EncodingSpec == EncodingInit /\ [][NewRoot]_root

-----------------------------------------------------------------------------
\* Three languages, one encoding: the words the relay has Starknet estimate a fee
\* for are those the L1 bridge sends, the L2 contract reads the same root from
\* them, and the relay gets back from the words of the L2 view what they encode.
EncodingsAgree ==
  /\ into_felt(root) = uint256_words(root)
  /\ deserialize(uint256_words(root)) = root
  /\ felts_to_u256(uint256_words(root)) = root
=============================================================================
