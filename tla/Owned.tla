------------------------------- MODULE Owned -------------------------------
(***************************************************************************)
(* Ownership and allow lists of the deployed contracts.                    *)
(*                                                                         *)
(* Every contract of Holonus inherits `owned' (coin service) or `Owned'    *)
(* (file service); the storages, and the file service itself, also keep an *)
(* allow list of the accounts that may call them.  A call that fails a     *)
(* `require' is reverted by the EVM and changes nothing, so a reverted     *)
(* call is a step that does not exist: each action's guard is the          *)
(* conjunction of the conditions of the call, in every contract it enters. *)
(***************************************************************************)
EXTENDS Integers, FiniteSets

CONSTANTS
  Addr,        \* the account addresses, the zero address included
  Zero,        \* address(0)
  Deployer,    \* accounts[0] of the migrations
  Contracts,   \* the deployed contracts
  Restricted,  \* the contracts that keep an allow list
  Heirs,       \* the accounts an ownership may be handed to
  Grantees     \* the accounts and contracts that enter and leave allow lists

ASSUME AddrAssumption ==
  /\ IsFiniteSet(Addr)
  /\ Zero \in Addr
  /\ Deployer \in Addr \ {Zero}
  /\ Restricted \subseteq Contracts
  /\ Heirs \subseteq Addr
  /\ Grantees \subseteq Addr \cup Contracts

VARIABLES
  owner,       \* owner[c]: the owner of contract c
  allow        \* allow[c]: the accounts and contracts c admits

\* A transaction is sent by an account, never by the zero address.
Caller == Addr \ {Zero}

Principals == Addr \cup Contracts

AccessTypeOK ==
  /\ owner \in [Contracts -> Addr]
  /\ allow \in [Restricted -> SUBSET Principals]

\* The constructors: the deployer owns each contract and is on its allow list.
AccessInit ==
  /\ owner = [c \in Contracts |-> Deployer]
  /\ allow = [c \in Restricted |-> {Deployer}]

onlyOwner(caller, c) == caller = owner[c]

isAllow(p, c) == p \in allow[c]

transferOwnership(caller, c, newOwner) ==
  /\ onlyOwner(caller, c)
  /\ owner' = [owner EXCEPT ![c] = newOwner]
  /\ UNCHANGED allow

enableAllowAccount(caller, c, account, enable) ==
  /\ onlyOwner(caller, c)
  /\ allow' = [allow EXCEPT ![c] = IF enable THEN @ \cup {account}
                                             ELSE @ \ {account}]
  /\ UNCHANGED owner

AccessNext ==
  \E caller \in Caller :
    \/ \E c \in Contracts, heir \in Heirs : transferOwnership(caller, c, heir)
    \/ \E c \in Restricted, p \in Grantees, enable \in BOOLEAN :
          enableAllowAccount(caller, c, p, enable)
=============================================================================
