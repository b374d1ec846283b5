--------------------------- MODULE CoinContracts ---------------------------
(***************************************************************************)
(* What the contracts of the coin service share: their names, the width of *)
(* their integers (Solidity 0.8 and SafeMath revert on overflow, so an     *)
(* addition is a guard), and the cap on reliability.                       *)
(***************************************************************************)
EXTENDS Owned

CONSTANTS
  MaxUint,     \* 2^256 - 1
  MaxLevel     \* reliability counts up to MaxLevel (10) whole units

ASSUME UIntAssumption == MaxUint \in Nat /\ MaxLevel \in Nat

UInt == 0 .. MaxUint

ES == "EternalStorage"
MS == "ManageStorage"
TK == "TokenERC20"
CS == "HolonusCoinService"
=============================================================================
