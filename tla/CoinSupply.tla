----------------------------- MODULE CoinSupply -----------------------------
(***************************************************************************)
(* What the coin promises, whatever contract moves it: coins come into     *)
(* being with the supply that counts them, they are held or they have been *)
(* retired, and nothing else happens to them.                              *)
(***************************************************************************)
EXTENDS Naturals

CONSTANT MaxUint

VARIABLES
  held,        \* the coins on all accounts together
  supply       \* totalSupply

CInit == held = 0 /\ supply = 0

\* New coins: what is added to the accounts is added to the supply.
Mint ==
  \E n \in 1 .. MaxUint :
    /\ supply + n <= MaxUint
    /\ held' = held + n
    /\ supply' = supply + n

\* Retired coins leave the accounts; the supply goes on counting them.
Retire ==
  \E n \in 1 .. held :
    /\ held' = held - n
    /\ UNCHANGED supply

CNext == Mint \/ Retire

CoinSupplySpec == CInit /\ [][CNext]_<<held, supply>>
=============================================================================
