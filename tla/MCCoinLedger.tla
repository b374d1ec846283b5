---------------------------- MODULE MCCoinLedger ----------------------------
(***************************************************************************)
(* The coin ledger on three addresses with a very small uint256: the       *)
(* supply meets its limit, and a point is worth 0, 1, 2 or 3 coins.        *)
(***************************************************************************)
EXTENDS CoinLedger

CONSTANTS z, a, b

MCContracts == {"EternalStorage", "TokenERC20", "HolonusCoinService"}
MCRestricted == {"EternalStorage"}
MCGrantees == {"TokenERC20", "HolonusCoinService"}
MCAddr == {z, a, b}
=============================================================================
