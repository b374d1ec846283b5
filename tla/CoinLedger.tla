----------------------------- MODULE CoinLedger -----------------------------
(***************************************************************************)
(* The coin: TokenERC20 and the half of HolonusCoinService that mints,     *)
(* retires and hands out coins.  Both contracts keep their state in the    *)
(* rows of one EternalStorage, so the rows are the variables here and a    *)
(* call of either contract needs that contract on the storage's allow      *)
(* list.  Balances are read into locals, changed and written back one row  *)
(* after the other: the actions keep that order of writes, because two     *)
(* names may be the same row.                                              *)
(***************************************************************************)
EXTENDS CoinContracts, Totals

CONSTANTS
  InitialSupply,  \* TokenERC20.initialSupply
  TokenUnit,      \* 10 ** decimals
  FrUnit,         \* 10 ** decimalPoint, the precision of fr
  OwnerShare,     \* the evaluator earns one part in OwnerShare (100)
  Values,         \* the amounts given to calls
  Spenders,       \* the accounts given an allowance
  WorkPoints,     \* the work points given to calls (uint8)
  AdjustUnits     \* 10 ** (18 - decimals), for the decimals given to calls

ASSUME LedgerAssumption ==
  /\ InitialSupply \in 1 .. MaxUint
  /\ FrUnit \in Nat \ {0}
  /\ TokenUnit \in Nat /\ TokenUnit >= FrUnit
  /\ OwnerShare \in Nat \ {0}
  /\ Values \subseteq UInt
  /\ Spenders \subseteq Addr
  /\ WorkPoints \subseteq Nat
  /\ AdjustUnits \subseteq Nat \ {0}
  /\ {ES, TK, CS} \subseteq Contracts
  /\ ES \in Restricted

VARIABLES
  tocken,             \* balances (the row is spelt so in libConst)
  totalSupply,
  allowed,            \* allowed[tokenOwner][spender]
  reflectTocken,      \* coins handed out through the service, by account
  accumulationPoint,  \* coins earned by evaluation, by account
  adjustParameter     \* 0 while it has never been set

coinVars == <<tocken, totalSupply, allowed, reflectTocken, accumulationPoint,
              adjustParameter>>
ledgerVars == <<owner, allow, coinVars>>

LedgerTypeOK ==
  /\ tocken \in [Addr -> UInt]
  /\ totalSupply \in UInt
  /\ allowed \in [Addr -> [Addr -> UInt]]
  /\ reflectTocken \in [Addr -> UInt]
  /\ accumulationPoint \in [Addr -> UInt]
  /\ adjustParameter \in UInt

CoinInit ==
  /\ tocken = [a \in Addr |-> 0]
  /\ totalSupply = 0
  /\ allowed = [a \in Addr |-> [s \in Addr |-> 0]]
  /\ reflectTocken = [a \in Addr |-> 0]
  /\ accumulationPoint = [a \in Addr |-> 0]
  /\ adjustParameter = 0

-----------------------------------------------------------------------------
(* TokenERC20 *)

\* Init without its test.
MutantInitAgain(caller) ==
  /\ onlyOwner(caller, TK) /\ isAllow(TK, ES)
  /\ tocken' = [tocken EXCEPT ![caller] = InitialSupply]
  /\ totalSupply' = InitialSupply
  /\ UNCHANGED <<owner, allow, allowed, reflectTocken, accumulationPoint,
                 adjustParameter>>

\* Init: only while no coin exists.  The call is legal, and does nothing,
\* afterwards; that is a stuttering step and is not an action of its own.
Init(caller) ==
  /\ onlyOwner(caller, TK) /\ isAllow(TK, ES)
  /\ totalSupply <= 0
  /\ tocken' = [tocken EXCEPT ![caller] = InitialSupply]
  /\ totalSupply' = InitialSupply
  /\ UNCHANGED <<owner, allow, allowed, reflectTocken, accumulationPoint,
                 adjustParameter>>

\* The two writes of _transfer, from the balances read before either.
Moved(from, to, value) ==
  [tocken EXCEPT ![from] = tocken[from] - value, ![to] = tocken[to] + value]

\* _transfer without the assertion that ends it.
MutantTransferUnchecked(from, to, value) ==
  /\ to # Zero /\ tocken[from] >= value /\ value > 0
  /\ tocken[to] + value <= MaxUint
  /\ tocken' = Moved(from, to, value)

\* The body of _transfer (the service has its own copy of it): its two
\* requires, the SafeMath assertions and the assertion that ends it.
_transfer(from, to, value) ==
  /\ to # Zero /\ tocken[from] >= value /\ value > 0
  /\ tocken[to] + value <= MaxUint
  /\ tocken[from] + tocken[to] <= MaxUint
  /\ Moved(from, to, value)[from] + Moved(from, to, value)[to]
       = tocken[from] + tocken[to]
  /\ tocken' = Moved(from, to, value)

transfer(caller, to, value) ==
  /\ isAllow(TK, ES)
  /\ _transfer(caller, to, value)
  /\ UNCHANGED <<owner, allow, totalSupply, allowed, reflectTocken,
                 accumulationPoint, adjustParameter>>

\* transferFrom without the test of the allowance.
MutantTransferFromAny(caller, from, to, value) ==
  /\ isAllow(TK, ES)
  /\ allowed' = [allowed EXCEPT ![from][caller] = @ - value]
  /\ _transfer(from, to, value)
  /\ UNCHANGED <<owner, allow, totalSupply, reflectTocken, accumulationPoint,
                 adjustParameter>>

transferFrom(caller, from, to, value) ==
  /\ isAllow(TK, ES)
  /\ value <= allowed[from][caller]
  /\ allowed' = [allowed EXCEPT ![from][caller] = @ - value]
  /\ _transfer(from, to, value)
  /\ UNCHANGED <<owner, allow, totalSupply, reflectTocken, accumulationPoint,
                 adjustParameter>>

approve(caller, spender, value) ==
  /\ isAllow(TK, ES)
  /\ allowed' = [allowed EXCEPT ![caller][spender] = value]
  /\ UNCHANGED <<owner, allow, tocken, totalSupply, reflectTocken,
                 accumulationPoint, adjustParameter>>

-----------------------------------------------------------------------------
(* HolonusCoinService *)

setAdjustParameter(caller, value, mulValue) ==
  /\ onlyOwner(caller, CS) /\ isAllow(CS, ES)
  /\ value * mulValue <= MaxUint
  /\ adjustParameter' = value * mulValue
  /\ UNCHANGED <<owner, allow, tocken, totalSupply, allowed, reflectTocken,
                 accumulationPoint>>

getAdjustParameter == IF adjustParameter = 0 THEN TokenUnit ELSE adjustParameter

\* evaluationConsensus divides by adjustParam: a parameter above one whole
\* unit makes it zero and every evaluation reverts.
adjustParam == TokenUnit \div getAdjustParameter

\* The point earned for work, given the evaluator's reliability in whole
\* units (0 .. MaxLevel); integer division throughout.
fr(level) == (((level + 2) * (level + 2) - 4) * FrUnit) \div 14

evaluationPoint(level, workPoint) ==
  ((workPoint * fr(level)) \div adjustParam) * (TokenUnit \div FrUnit)

ownerPoint(level, workPoint) == evaluationPoint(level, workPoint) \div OwnerShare

\* Two rows credited one after the other from values read before either.
Credited(row, snd, sp, own, op) ==
  [row EXCEPT ![snd] = row[snd] + sp, ![own] = row[own] + op]

\* An evaluation of oneself, and one that totalSupply does not count.
MutantEvaluateOneself(own, snd, workPoint, level) ==
  LET sp == evaluationPoint(level, workPoint)
      op == ownerPoint(level, workPoint)
  IN  /\ isAllow(CS, ES) /\ adjustParam # 0
      /\ tocken[snd] + sp + tocken[own] + op <= MaxUint
      /\ totalSupply + sp + op <= MaxUint
      /\ tocken' = Credited(tocken, snd, sp, own, op)
      /\ totalSupply' = totalSupply + sp + op
      /\ UNCHANGED <<owner, allow, allowed, reflectTocken, accumulationPoint, adjustParameter>>

MutantSupplyNotCounted(own, snd, workPoint, level) ==
  LET sp == evaluationPoint(level, workPoint)
      op == ownerPoint(level, workPoint)
  IN  /\ isAllow(CS, ES) /\ own # snd /\ adjustParam # 0
      /\ tocken[snd] + sp + tocken[own] + op <= MaxUint
      /\ tocken' = Credited(tocken, snd, sp, own, op)
      /\ UNCHANGED <<owner, allow, totalSupply, allowed, reflectTocken, accumulationPoint, adjustParameter>>

\* CallEvaluatePost(owner, sender, workPoint), with the evaluator's level.
\* The sum of the two new balances is computed, checked, for the event.
CallEvaluatePost(own, snd, workPoint, level) ==
  LET sp == evaluationPoint(level, workPoint)
      op == ownerPoint(level, workPoint)
  IN  /\ isAllow(CS, ES)
      /\ own # snd
      /\ adjustParam # 0
      /\ tocken[snd] + sp + tocken[own] + op <= MaxUint
      /\ totalSupply + sp + op <= MaxUint
      /\ accumulationPoint[snd] + sp <= MaxUint
      /\ accumulationPoint[own] + op <= MaxUint
      /\ tocken' = Credited(tocken, snd, sp, own, op)
      /\ totalSupply' = totalSupply + sp + op
      /\ accumulationPoint' = Credited(accumulationPoint, snd, sp, own, op)
      /\ UNCHANGED <<owner, allow, allowed, reflectTocken, adjustParameter>>

\* reflectToken retires coins of an account; totalSupply is left alone.
reflectToken(caller, snd, value) ==
  /\ onlyOwner(caller, CS) /\ isAllow(CS, ES)
  /\ tocken[snd] # 0 /\ value <= tocken[snd]
  /\ reflectTocken[snd] + value <= MaxUint
  /\ reflectTocken' = [reflectTocken EXCEPT ![snd] = @ + value]
  /\ tocken' = [tocken EXCEPT ![snd] = @ - value]
  /\ UNCHANGED <<owner, allow, totalSupply, allowed, accumulationPoint,
                 adjustParameter>>

transferToken(caller, to, value) ==
  /\ onlyOwner(caller, CS) /\ isAllow(CS, ES)
  /\ _transfer(caller, to, value)
  /\ reflectTocken[to] + value <= MaxUint
  /\ reflectTocken' = [reflectTocken EXCEPT ![to] = @ + value]
  /\ UNCHANGED <<owner, allow, totalSupply, allowed, accumulationPoint,
                 adjustParameter>>

-----------------------------------------------------------------------------
TokenNext ==
  \E caller \in Caller :
    \/ Init(caller)
    \/ \E to \in Addr, value \in Values :
         \/ transfer(caller, to, value)
         \/ reflectToken(caller, to, value)
         \/ transferToken(caller, to, value)
         \/ \E from \in Addr : transferFrom(caller, from, to, value)
    \/ \E spender \in Spenders, value \in Values : approve(caller, spender, value)
    \/ \E value \in Values, mulValue \in AdjustUnits :
         setAdjustParameter(caller, value, mulValue)

LedgerInit == AccessInit /\ CoinInit

\* Anyone may call CallEvaluatePost.  On its own the ledger is run with any
\* reliability the evaluator may have.
LedgerNext ==
  \/ AccessNext /\ UNCHANGED coinVars
  \/ TokenNext
  \/ \E own, snd \in Addr, workPoint \in WorkPoints, level \in 0 .. MaxLevel :
       CallEvaluatePost(own, snd, workPoint, level)

LedgerSpec == LedgerInit /\ [][LedgerNext]_ledgerVars

-----------------------------------------------------------------------------
Sum(row) == Total(row, MaxUint)

\* Every coin on an account is counted by totalSupply, and a coin totalSupply
\* counts is on an account or went out through reflectToken: no sequence of
\* transfers, evaluations, Init and reflections (TokenERC20._transfer,
\* CallEvaluatePost, reflectToken, transferToken) creates or loses one, also
\* when the two accounts of a call are the same row.
SupplyBounds ==
  /\ Sum(tocken) <= totalSupply
  /\ totalSupply <= Sum(tocken) + Sum(reflectTocken)

\* totalSupply is the initial supply, or nothing, plus exactly the points the
\* evaluations recorded: Init mints at most once, whether it runs before or
\* after the first evaluation, and CallEvaluatePost's three rows agree.
SupplyIsEarned == totalSupply - Sum(accumulationPoint) \in {0, InitialSupply}

\* A transfer with sufficient funds to another account is never refused for
\* overflow: the checks `toBalances + _value > toBalances' and
\* `fromBalances.add(toBalances)' of _transfer cannot be what fails.
TransferNeverOverflows ==
  \A a, b \in Addr : a # b => tocken[a] + tocken[b] <= MaxUint

\* The ledger implements the abstract coin: a step that changes what all
\* accounts hold together is a mint that the supply counts or a retirement.
Supply == INSTANCE CoinSupply WITH held <- Sum(tocken), supply <- totalSupply
SupplySpec == Supply!CoinSupplySpec
=============================================================================
