-------------------------- MODULE CoinLedgerProofs --------------------------
(***************************************************************************)
(* The coin ledger keeps its books, for every set of accounts, every width *)
(* of uint256 and all parameters of the evaluation.                        *)
(***************************************************************************)
EXTENDS CoinLedger, TotalsProofs

\* A row of the storage: what every balance row is.
Row == [Addr -> UInt]

\* Two rows that agree but on two entries.
LEMMA SumTwoWrites ==
  ASSUME NEW f \in Row, NEW g \in Row, NEW x \in Addr, NEW y \in Addr, x # y,
         \A z \in Addr : z # x /\ z # y => g[z] = f[z]
  PROVE  Sum(g) = Sum(f) - f[x] - f[y] + g[x] + g[y]
  BY AddrAssumption, LedgerAssumption, UIntAssumption, TotalTwoWrites DEF Sum, Row, UInt

\* Two rows that agree but on one entry.
LEMMA SumWrite ==
  ASSUME NEW f \in Row, NEW g \in Row, NEW x \in Addr,
         \A y \in Addr : y # x => g[y] = f[y]
  PROVE  Sum(g) = Sum(f) - f[x] + g[x]
  BY AddrAssumption, LedgerAssumption, UIntAssumption, TotalWrite DEF Sum, Row, UInt

\* The sum of a row is a natural number.
LEMMA SumType ==
  ASSUME NEW f \in Row
  PROVE  Sum(f) \in Nat
  BY AddrAssumption, LedgerAssumption, UIntAssumption, TotalType DEF Sum, Row, UInt

\* An entry of a row is at most the sum of the row.
LEMMA SumBoundsEntry ==
  ASSUME NEW f \in Row, NEW x \in Addr
  PROVE  f[x] <= Sum(f)
  BY AddrAssumption, LedgerAssumption, UIntAssumption, TotalBoundsEntry DEF Sum, Row, UInt

\* The rows are empty at deployment.
LEMMA SumOfZeros == Sum([a \in Addr |-> 0]) = 0
  BY LedgerAssumption, UIntAssumption, TotalOfZeros DEF Sum

\* The assertion at the end of _transfer fails exactly on a transfer to self:
\* the second write is made from a balance read before the first.
LEMMA TransferNotToSelf ==
  ASSUME LedgerTypeOK, NEW from \in Addr, NEW to \in Addr, NEW value \in UInt,
         _transfer(from, to, value)
  PROVE  /\ from # to
         /\ tocken' \in Row
         /\ tocken'[from] = tocken[from] - value
         /\ tocken'[to] = tocken[to] + value
         /\ Sum(tocken') = Sum(tocken)
<1>1. from # to
  BY LedgerAssumption, UIntAssumption DEF _transfer, Moved, LedgerTypeOK, UInt
<1>2. /\ tocken' \in Row
      /\ tocken'[from] = tocken[from] - value
      /\ tocken'[to] = tocken[to] + value
      /\ \A z \in Addr : z # from /\ z # to => tocken'[z] = tocken[z]
  BY <1>1, LedgerAssumption, UIntAssumption DEF _transfer, Moved, LedgerTypeOK, UInt, Row
<1>3. tocken \in Row
  BY DEF LedgerTypeOK, Row
<1>4. Sum(tocken') = Sum(tocken) - tocken[from] - tocken[to]
                       + tocken'[from] + tocken'[to]
  BY <1>1, <1>2, <1>3, SumTwoWrites
<1>5. Sum(tocken) \in Nat /\ tocken[from] \in Nat /\ tocken[to] \in Nat /\ value \in Nat
  BY <1>3, SumType, LedgerAssumption, UIntAssumption DEF Row, UInt
<1> QED
  BY <1>1, <1>2, <1>4, <1>5

\* Crediting two different entries adds both amounts to the sum.
LEMMA CreditedSum ==
  ASSUME NEW row \in Row, NEW snd \in Addr, NEW own \in Addr, own # snd,
         NEW sp \in Nat, NEW op \in Nat,
         row[snd] + sp <= MaxUint, row[own] + op <= MaxUint
  PROVE  /\ Credited(row, snd, sp, own, op) \in Row
         /\ Sum(Credited(row, snd, sp, own, op)) = Sum(row) + sp + op
<1> DEFINE new == Credited(row, snd, sp, own, op)
<1>1. /\ new \in Row
      /\ new[snd] = row[snd] + sp
      /\ new[own] = row[own] + op
      /\ \A z \in Addr : z # snd /\ z # own => new[z] = row[z]
  BY LedgerAssumption, UIntAssumption DEF Credited, Row, UInt
<1> HIDE DEF new
<1>2. Sum(new) = Sum(row) - row[snd] - row[own] + new[snd] + new[own]
  BY <1>1, SumTwoWrites
<1>3. Sum(row) \in Nat /\ row[snd] \in Nat /\ row[own] \in Nat
  BY SumType, LedgerAssumption, UIntAssumption DEF Row, UInt
<1>4. Sum(new) = Sum(row) + sp + op
  BY <1>1, <1>2, <1>3
<1> QED
  BY <1>1, <1>4 DEF new

\* Integer division stays within the natural numbers.
LEMMA DivType ==
  ASSUME NEW m \in Nat, NEW n \in Nat, n # 0
  PROVE  m \div n \in Nat
  OBVIOUS

\* So does multiplication.
LEMMA MulType ==
  ASSUME NEW m \in Nat, NEW n \in Nat
  PROVE  m * n \in Nat
  OBVIOUS

\* The points of an evaluation are natural numbers.
LEMMA PointType ==
  ASSUME LedgerTypeOK, adjustParam # 0,
         NEW level \in Nat, NEW workPoint \in Nat
  PROVE  /\ evaluationPoint(level, workPoint) \in Nat
         /\ ownerPoint(level, workPoint) \in Nat
<1>1. adjustParam \in Nat
  <2>1. getAdjustParameter \in Nat /\ getAdjustParameter # 0
    BY LedgerAssumption, UIntAssumption DEF getAdjustParameter, LedgerTypeOK, UInt
  <2> QED
    BY <2>1, DivType, LedgerAssumption, UIntAssumption DEF adjustParam
<1>2. (level + 2) * (level + 2) - 4 = level * level + 4 * level
  OBVIOUS
<1>3. (level + 2) * (level + 2) - 4 \in Nat
  <2>1. level * level \in Nat
    BY MulType
  <2> QED
    BY <1>2, <2>1
<1>4. fr(level) \in Nat
  <2>1. ((level + 2) * (level + 2) - 4) * FrUnit \in Nat
    BY <1>3, MulType, LedgerAssumption, UIntAssumption
  <2> QED
    BY <2>1, DivType DEF fr
<1>5. (workPoint * fr(level)) \div adjustParam \in Nat
  <2>1. workPoint * fr(level) \in Nat
    BY <1>4, MulType
  <2> QED
    BY <1>1, <2>1, DivType
<1>6. TokenUnit \div FrUnit \in Nat
  BY DivType, LedgerAssumption, UIntAssumption
<1>7. evaluationPoint(level, workPoint) \in Nat
  BY <1>5, <1>6, MulType DEF evaluationPoint
<1>8. ownerPoint(level, workPoint) \in Nat
  BY <1>7, DivType, LedgerAssumption, UIntAssumption DEF ownerPoint
<1> QED
  BY <1>7, <1>8

-----------------------------------------------------------------------------
(* The inductive invariant: the supply invariants need each other (Init   *)
(* overwrites a balance, and is sound because no supply means no balance) *)
(* and the types, and nothing else.                                       *)

LedgerInv == AccessTypeOK /\ LedgerTypeOK /\ SupplyBounds /\ SupplyIsEarned

\* What every step of the ledger is shown to do: it keeps the invariant, and
\* it is a step, or a stutter, of the abstract coin.
SupplyStep == Supply!CNext \/ (Sum(tocken') = Sum(tocken) /\ totalSupply' = totalSupply)

\* The sums of the three balance rows, as numbers.
LEMMA SumsAreNat ==
  ASSUME LedgerTypeOK
  PROVE  /\ tocken \in Row /\ reflectTocken \in Row /\ accumulationPoint \in Row
         /\ Sum(tocken) \in Nat /\ Sum(reflectTocken) \in Nat
         /\ Sum(accumulationPoint) \in Nat
<1>1. tocken \in Row /\ reflectTocken \in Row /\ accumulationPoint \in Row
  BY DEF LedgerTypeOK, Row
<1> QED
  BY <1>1, SumType

\* TokenERC20.Init mints the initial supply, when there is none.
LEMMA StepInit ==
  ASSUME LedgerInv, NEW caller \in Caller, Init(caller)
  PROVE  LedgerInv' /\ SupplyStep
<1> USE DEF LedgerInv
<1>1. caller \in Addr
  BY DEF Caller
<1>2. totalSupply = 0 /\ totalSupply' = InitialSupply /\ InitialSupply \in 1 .. MaxUint
  BY LedgerAssumption, UIntAssumption DEF Init, LedgerTypeOK, UInt
<1>3. AccessTypeOK' /\ LedgerTypeOK'
  BY <1>1, LedgerAssumption, UIntAssumption DEF Init, AccessTypeOK, LedgerTypeOK, UInt
<1>4. Sum(tocken) = 0 /\ Sum(accumulationPoint) = 0 /\ Sum(reflectTocken) \in Nat
  BY <1>2, SumsAreNat, LedgerAssumption, UIntAssumption DEF SupplyBounds, SupplyIsEarned
<1>5. tocken[caller] = 0
  <2>1. tocken[caller] <= 0 /\ tocken[caller] \in Nat
    BY <1>1, <1>4, SumsAreNat, SumBoundsEntry, LedgerAssumption, UIntAssumption DEF LedgerTypeOK, UInt
  <2> QED
    BY <2>1
<1>6. Sum(tocken') = InitialSupply
  <2>1. tocken' \in Row /\ tocken \in Row
    BY <1>3 DEF LedgerTypeOK, Row
  <2>2. tocken'[caller] = InitialSupply /\ \A y \in Addr : y # caller => tocken'[y] = tocken[y]
    BY <1>1 DEF Init, LedgerTypeOK
  <2>3. Sum(tocken') = Sum(tocken) - tocken[caller] + tocken'[caller]
    BY <1>1, <2>1, <2>2, SumWrite
  <2> QED
    BY <1>2, <1>4, <1>5, <2>2, <2>3
<1>7. UNCHANGED <<reflectTocken, accumulationPoint>>
  BY DEF Init
<1>8. SupplyBounds' /\ SupplyIsEarned'
  BY <1>2, <1>4, <1>6, <1>7 DEF SupplyBounds, SupplyIsEarned
<1>9. Supply!Mint
  BY <1>2, <1>4, <1>6 DEF Supply!Mint
<1> QED
  BY <1>3, <1>8, <1>9 DEF SupplyStep, Supply!CNext

\* A transfer, by whichever contract, moves coins and counts none; the service
\* may also record it as handed out.
LEMMA StepTransfer ==
  ASSUME LedgerInv, NEW from \in Addr, NEW to \in Addr, NEW value \in UInt,
         _transfer(from, to, value),
         LedgerTypeOK', AccessTypeOK',
         UNCHANGED <<totalSupply, accumulationPoint>>,
         Sum(reflectTocken') >= Sum(reflectTocken)
  PROVE  LedgerInv' /\ SupplyStep
<1> USE DEF LedgerInv
<1>1. Sum(tocken') = Sum(tocken)
  BY TransferNotToSelf
<1>2. /\ Sum(tocken) \in Nat /\ Sum(reflectTocken) \in Nat
      /\ totalSupply \in Nat /\ Sum(reflectTocken') \in Nat
  <2>1. reflectTocken' \in Row
    BY DEF LedgerTypeOK, Row
  <2> QED
    BY <2>1, SumType, SumsAreNat DEF LedgerTypeOK, UInt
<1>3. SupplyBounds' /\ SupplyIsEarned'
  BY <1>1, <1>2 DEF SupplyBounds, SupplyIsEarned
<1> QED
  BY <1>1, <1>3 DEF SupplyStep

\* TokenERC20.transfer moves coins.
LEMMA Step_transfer ==
  ASSUME LedgerInv, NEW caller \in Caller, NEW to \in Addr, NEW value \in UInt,
         transfer(caller, to, value)
  PROVE  LedgerInv' /\ SupplyStep
<1>1. caller \in Addr /\ _transfer(caller, to, value)
  BY DEF Caller, transfer
<1>2. tocken' \in Row
  BY <1>1, TransferNotToSelf DEF LedgerInv
<1>3. LedgerTypeOK' /\ AccessTypeOK'
  BY <1>2 DEF transfer, LedgerInv, LedgerTypeOK, AccessTypeOK, Row
<1>4. UNCHANGED <<totalSupply, accumulationPoint>> /\ Sum(reflectTocken') >= Sum(reflectTocken)
  BY SumsAreNat DEF transfer, LedgerInv
<1> QED
  BY <1>1, <1>3, <1>4, StepTransfer

\* TokenERC20.transferFrom moves coins and takes them off the allowance.
LEMMA Step_transferFrom ==
  ASSUME LedgerInv, NEW caller \in Caller, NEW from \in Addr, NEW to \in Addr,
         NEW value \in UInt, transferFrom(caller, from, to, value)
  PROVE  LedgerInv' /\ SupplyStep
<1>1. caller \in Addr /\ _transfer(from, to, value)
  BY DEF Caller, transferFrom
<1>2. tocken' \in Row
  BY <1>1, TransferNotToSelf DEF LedgerInv
<1>3. allowed' \in [Addr -> [Addr -> UInt]]
  <2>1. allowed[from][caller] - value \in UInt
    BY <1>1, LedgerAssumption, UIntAssumption DEF transferFrom, LedgerInv, LedgerTypeOK, UInt
  <2> QED
    BY <1>1, <2>1 DEF transferFrom, LedgerInv, LedgerTypeOK
<1>4. LedgerTypeOK' /\ AccessTypeOK'
  BY <1>2, <1>3 DEF transferFrom, LedgerInv, LedgerTypeOK, AccessTypeOK, Row
<1>5. UNCHANGED <<totalSupply, accumulationPoint>> /\ Sum(reflectTocken') >= Sum(reflectTocken)
  BY SumsAreNat DEF transferFrom, LedgerInv
<1> QED
  BY <1>1, <1>4, <1>5, StepTransfer

\* HolonusCoinService.transferToken moves coins and records them.
LEMMA Step_transferToken ==
  ASSUME LedgerInv, NEW caller \in Caller, NEW to \in Addr, NEW value \in UInt,
         transferToken(caller, to, value)
  PROVE  LedgerInv' /\ SupplyStep
<1>1. caller \in Addr /\ _transfer(caller, to, value)
  BY DEF Caller, transferToken
<1>2. tocken' \in Row
  BY <1>1, TransferNotToSelf DEF LedgerInv
<1>3. /\ reflectTocken' \in Row /\ reflectTocken'[to] = reflectTocken[to] + value
      /\ \A y \in Addr : y # to => reflectTocken'[y] = reflectTocken[y]
  BY LedgerAssumption, UIntAssumption DEF transferToken, LedgerInv, LedgerTypeOK, Row, UInt
<1>4. LedgerTypeOK' /\ AccessTypeOK'
  BY <1>2, <1>3 DEF transferToken, LedgerInv, LedgerTypeOK, AccessTypeOK, Row
<1>5. Sum(reflectTocken') >= Sum(reflectTocken)
  <2>1. reflectTocken \in Row /\ Sum(reflectTocken) \in Nat
    BY SumsAreNat DEF LedgerInv
  <2>2. Sum(reflectTocken') = Sum(reflectTocken) - reflectTocken[to] + reflectTocken'[to]
    BY <1>3, <2>1, SumWrite
  <2> QED
    BY <1>3, <2>1, <2>2, LedgerAssumption, UIntAssumption DEF Row, UInt
<1>6. UNCHANGED <<totalSupply, accumulationPoint>>
  BY DEF transferToken
<1> QED
  BY <1>1, <1>4, <1>5, <1>6, StepTransfer

\* TokenERC20.approve leaves the coins alone.
LEMMA Step_approve ==
  ASSUME LedgerInv, NEW caller \in Caller, NEW spender \in Addr, NEW value \in UInt,
         approve(caller, spender, value)
  PROVE  LedgerInv' /\ SupplyStep
<1>1. AccessTypeOK' /\ LedgerTypeOK'
  BY DEF approve, Caller, LedgerInv, LedgerTypeOK, AccessTypeOK
<1>2. UNCHANGED <<tocken, totalSupply, reflectTocken, accumulationPoint>>
  BY DEF approve
<1> QED
  BY <1>1, <1>2 DEF LedgerInv, SupplyBounds, SupplyIsEarned, SupplyStep

\* HolonusCoinService.setAdjustParameter leaves the coins alone.
LEMMA Step_setAdjustParameter ==
  ASSUME LedgerInv, NEW caller \in Caller, NEW value \in UInt, NEW mulValue \in Nat,
         setAdjustParameter(caller, value, mulValue)
  PROVE  LedgerInv' /\ SupplyStep
<1>1. adjustParameter' \in UInt
  <2>1. value * mulValue \in Nat
    BY MulType, LedgerAssumption, UIntAssumption DEF UInt
  <2> QED
    BY <2>1, LedgerAssumption, UIntAssumption DEF setAdjustParameter, UInt
<1>2. AccessTypeOK' /\ LedgerTypeOK'
  BY <1>1 DEF setAdjustParameter, LedgerInv, LedgerTypeOK, AccessTypeOK
<1>3. UNCHANGED <<tocken, totalSupply, reflectTocken, accumulationPoint>>
  BY DEF setAdjustParameter
<1> QED
  BY <1>2, <1>3 DEF LedgerInv, SupplyBounds, SupplyIsEarned, SupplyStep

\* HolonusCoinService.reflectToken retires what it records.
LEMMA Step_reflectToken ==
  ASSUME LedgerInv, NEW caller \in Caller, NEW snd \in Addr, NEW value \in UInt,
         reflectToken(caller, snd, value)
  PROVE  LedgerInv' /\ SupplyStep
<1>1. /\ tocken' \in Row /\ tocken'[snd] = tocken[snd] - value
      /\ \A y \in Addr : y # snd => tocken'[y] = tocken[y]
  BY LedgerAssumption, UIntAssumption DEF reflectToken, LedgerInv, LedgerTypeOK, Row, UInt
<1>2. /\ reflectTocken' \in Row /\ reflectTocken'[snd] = reflectTocken[snd] + value
      /\ \A y \in Addr : y # snd => reflectTocken'[y] = reflectTocken[y]
  BY LedgerAssumption, UIntAssumption DEF reflectToken, LedgerInv, LedgerTypeOK, Row, UInt
<1>3. AccessTypeOK' /\ LedgerTypeOK'
  BY <1>1, <1>2 DEF reflectToken, LedgerInv, LedgerTypeOK, AccessTypeOK, Row
<1>4. /\ tocken \in Row /\ reflectTocken \in Row
      /\ Sum(tocken) \in Nat /\ Sum(reflectTocken) \in Nat
  BY SumsAreNat DEF LedgerInv
<1>5. Sum(tocken') = Sum(tocken) - tocken[snd] + tocken'[snd]
  BY <1>1, <1>4, SumWrite
<1>6. Sum(reflectTocken') = Sum(reflectTocken) - reflectTocken[snd] + reflectTocken'[snd]
  BY <1>2, <1>4, SumWrite
<1>7. /\ value \in Nat /\ tocken[snd] \in Nat /\ reflectTocken[snd] \in Nat
      /\ totalSupply \in Nat
  BY LedgerAssumption, UIntAssumption DEF LedgerInv, LedgerTypeOK, UInt
<1>8. /\ Sum(tocken') = Sum(tocken) - value
      /\ Sum(reflectTocken') = Sum(reflectTocken) + value
  BY <1>1, <1>2, <1>4, <1>5, <1>6, <1>7
<1>9. UNCHANGED <<totalSupply, accumulationPoint>>
  BY DEF reflectToken
<1>10. SupplyBounds' /\ SupplyIsEarned'
  BY <1>4, <1>7, <1>8, <1>9 DEF LedgerInv, SupplyBounds, SupplyIsEarned
<1>11. SupplyStep
  <2>1. value <= Sum(tocken)
    <3>1. tocken[snd] <= Sum(tocken)
      BY <1>4, SumBoundsEntry
    <3> QED
      BY <1>4, <1>7, <3>1 DEF reflectToken
  <2>2. CASE value = 0
    BY <1>4, <1>8, <1>9, <2>2 DEF SupplyStep
  <2>3. CASE value # 0
    <3>1. value \in 1 .. Sum(tocken)
      BY <1>4, <1>7, <2>1, <2>3
    <3>2. Supply!Retire
      BY <1>8, <1>9, <3>1 DEF Supply!Retire
    <3> QED
      BY <3>2 DEF SupplyStep, Supply!CNext
  <2> QED
    BY <2>2, <2>3
<1> QED
  BY <1>3, <1>10, <1>11 DEF LedgerInv

\* HolonusCoinService.CallEvaluatePost mints the points it records.
LEMMA Step_CallEvaluatePost ==
  ASSUME LedgerInv, NEW own \in Addr, NEW snd \in Addr, NEW workPoint \in Nat,
         NEW level \in Nat, CallEvaluatePost(own, snd, workPoint, level)
  PROVE  LedgerInv' /\ SupplyStep
<1> DEFINE sp == evaluationPoint(level, workPoint)
           op == ownerPoint(level, workPoint)
<1>1. sp \in Nat /\ op \in Nat
  BY PointType DEF CallEvaluatePost, LedgerInv
<1>2. /\ own # snd
      /\ tocken[snd] + sp + tocken[own] + op <= MaxUint
      /\ totalSupply + sp + op <= MaxUint
      /\ accumulationPoint[snd] + sp <= MaxUint
      /\ accumulationPoint[own] + op <= MaxUint
      /\ tocken' = Credited(tocken, snd, sp, own, op)
      /\ totalSupply' = totalSupply + sp + op
      /\ accumulationPoint' = Credited(accumulationPoint, snd, sp, own, op)
      /\ UNCHANGED <<owner, allow, allowed, reflectTocken, adjustParameter>>
  BY DEF CallEvaluatePost
<1> HIDE DEF sp, op
<1>3. /\ tocken \in Row /\ reflectTocken \in Row /\ accumulationPoint \in Row
      /\ Sum(tocken) \in Nat /\ Sum(reflectTocken) \in Nat
      /\ Sum(accumulationPoint) \in Nat
  BY SumsAreNat DEF LedgerInv
<1>4. /\ totalSupply \in UInt /\ tocken[snd] \in Nat /\ tocken[own] \in Nat
      /\ MaxUint \in Nat
  BY LedgerAssumption, UIntAssumption DEF LedgerInv, LedgerTypeOK, UInt
<1>5. tocken[snd] + sp <= MaxUint /\ tocken[own] + op <= MaxUint
  BY <1>1, <1>2, <1>4
<1>6. tocken' \in Row /\ Sum(tocken') = Sum(tocken) + sp + op
  BY <1>1, <1>2, <1>3, <1>5, CreditedSum
<1>7. /\ accumulationPoint' \in Row
      /\ Sum(accumulationPoint') = Sum(accumulationPoint) + sp + op
  BY <1>1, <1>2, <1>3, CreditedSum
<1>8. totalSupply' \in UInt
  BY <1>1, <1>2, <1>4 DEF UInt
<1>9. AccessTypeOK' /\ LedgerTypeOK'
  BY <1>2, <1>6, <1>7, <1>8 DEF LedgerInv, LedgerTypeOK, AccessTypeOK, Row
<1>10. SupplyBounds' /\ SupplyIsEarned'
  BY <1>1, <1>2, <1>3, <1>4, <1>6, <1>7, LedgerAssumption, UIntAssumption
  DEF LedgerInv, SupplyBounds, SupplyIsEarned, UInt
<1>11. SupplyStep
  <2>1. CASE sp + op = 0
    BY <1>1, <1>2, <1>3, <1>4, <1>6, <2>1 DEF SupplyStep, UInt
  <2>2. CASE sp + op # 0
    <3>1. sp + op \in 1 .. MaxUint /\ totalSupply + (sp + op) <= MaxUint
      BY <1>1, <1>2, <1>4, <2>2 DEF UInt
    <3>2. Sum(tocken') = Sum(tocken) + (sp + op) /\ totalSupply' = totalSupply + (sp + op)
      BY <1>1, <1>2, <1>3, <1>4, <1>6 DEF UInt
    <3>3. Supply!Mint
      BY <3>1, <3>2 DEF Supply!Mint
    <3> QED
      BY <3>3 DEF SupplyStep, Supply!CNext
  <2> QED
    BY <2>1, <2>2
<1> QED
  BY <1>9, <1>10, <1>11 DEF LedgerInv

\* Changes of ownership and of allow lists leave the coins alone.
LEMMA Step_Access ==
  ASSUME LedgerInv, AccessNext, UNCHANGED coinVars
  PROVE  LedgerInv' /\ SupplyStep
<1>1. AccessTypeOK'
  BY AddrAssumption
  DEF LedgerInv, AccessNext, transferOwnership, enableAllowAccount, AccessTypeOK, Principals
<1>2. UNCHANGED <<tocken, totalSupply, reflectTocken, accumulationPoint>> /\ LedgerTypeOK'
  BY DEF coinVars, LedgerInv, LedgerTypeOK
<1> QED
  BY <1>1, <1>2 DEF LedgerInv, SupplyBounds, SupplyIsEarned, SupplyStep

-----------------------------------------------------------------------------
\* The invariant holds after deployment.
LEMMA InitLedgerInv == LedgerInit => LedgerInv /\ Supply!CInit
<1> SUFFICES ASSUME LedgerInit PROVE LedgerInv /\ Supply!CInit
  OBVIOUS
<1>1. AccessTypeOK /\ LedgerTypeOK
  BY AddrAssumption, LedgerAssumption, UIntAssumption
  DEF LedgerInit, AccessInit, CoinInit, AccessTypeOK, LedgerTypeOK, Principals, UInt
<1>2. Sum(tocken) = 0 /\ Sum(reflectTocken) = 0 /\ Sum(accumulationPoint) = 0
  BY SumOfZeros DEF LedgerInit, CoinInit
<1>3. totalSupply = 0
  BY DEF LedgerInit, CoinInit
<1> QED
  BY <1>1, <1>2, <1>3 DEF LedgerInv, SupplyBounds, SupplyIsEarned, Supply!CInit

\* Every call keeps the invariant, and is a step of the abstract coin.
LEMMA NextLedgerInv ==
  LedgerInv /\ [LedgerNext]_ledgerVars => LedgerInv' /\ SupplyStep
<1> SUFFICES ASSUME LedgerInv, [LedgerNext]_ledgerVars PROVE LedgerInv' /\ SupplyStep
  OBVIOUS
<1>1. CASE AccessNext /\ UNCHANGED coinVars
  BY <1>1, Step_Access
<1>2. CASE TokenNext
  <2>1. PICK caller \in Caller :
          \/ Init(caller)
          \/ \E to \in Addr, value \in Values :
               \/ transfer(caller, to, value)
               \/ reflectToken(caller, to, value)
               \/ transferToken(caller, to, value)
               \/ \E from \in Addr : transferFrom(caller, from, to, value)
          \/ \E spender \in Spenders, value \in Values : approve(caller, spender, value)
          \/ \E value \in Values, mulValue \in AdjustUnits :
               setAdjustParameter(caller, value, mulValue)
    BY <1>2 DEF TokenNext
  <2>2. CASE Init(caller)
    BY <2>2, StepInit
  <2>3. ASSUME NEW to \in Addr, NEW value \in Values,
               \/ transfer(caller, to, value)
               \/ reflectToken(caller, to, value)
               \/ transferToken(caller, to, value)
               \/ \E from \in Addr : transferFrom(caller, from, to, value)
        PROVE  LedgerInv' /\ SupplyStep
    <3>1. value \in UInt
      BY LedgerAssumption, UIntAssumption
    <3> QED
      BY <2>3, <3>1, Step_transfer, Step_reflectToken, Step_transferToken, Step_transferFrom
  <2>4. ASSUME NEW spender \in Spenders, NEW value \in Values,
               approve(caller, spender, value)
        PROVE  LedgerInv' /\ SupplyStep
    BY <2>4, Step_approve, LedgerAssumption, UIntAssumption
  <2>5. ASSUME NEW value \in Values, NEW mulValue \in AdjustUnits,
               setAdjustParameter(caller, value, mulValue)
        PROVE  LedgerInv' /\ SupplyStep
    BY <2>5, Step_setAdjustParameter, LedgerAssumption, UIntAssumption
  <2> QED
    BY <2>1, <2>2, <2>3, <2>4, <2>5
<1>3. CASE \E own, snd \in Addr, workPoint \in WorkPoints, level \in 0 .. MaxLevel :
             CallEvaluatePost(own, snd, workPoint, level)
  <2>1. PICK own \in Addr, snd \in Addr, workPoint \in WorkPoints, level \in 0 .. MaxLevel :
          CallEvaluatePost(own, snd, workPoint, level)
    BY <1>3
  <2>2. workPoint \in Nat /\ level \in Nat
    BY LedgerAssumption, UIntAssumption
  <2> QED
    BY <2>1, <2>2, Step_CallEvaluatePost
<1>4. CASE UNCHANGED ledgerVars
  BY <1>4 DEF ledgerVars, coinVars, LedgerInv, AccessTypeOK, LedgerTypeOK, SupplyBounds,
              SupplyIsEarned, SupplyStep
<1> QED
  BY <1>1, <1>2, <1>3, <1>4 DEF LedgerNext

\* The state of the coin is always well typed: no row ever holds a negative
\* number or one above the width of uint256.
THEOREM LedgerTypeCorrect == LedgerSpec => [](AccessTypeOK /\ LedgerTypeOK)
<1>1. LedgerInv => AccessTypeOK /\ LedgerTypeOK
  BY DEF LedgerInv
<1> QED
  BY <1>1, InitLedgerInv, NextLedgerInv, PTL DEF LedgerSpec

\* The balances never exceed totalSupply, and what totalSupply counts beyond
\* them went out through reflectToken, whatever is transferred, evaluated,
\* reflected or initialised in any order.
THEOREM SupplyIsConserved == LedgerSpec => []SupplyBounds
<1>1. LedgerInv => SupplyBounds
  BY DEF LedgerInv
<1> QED
  BY <1>1, InitLedgerInv, NextLedgerInv, PTL DEF LedgerSpec

\* totalSupply is what evaluations recorded as earned, plus the initial supply
\* once or not at all.
THEOREM SupplyIsAlwaysEarned == LedgerSpec => []SupplyIsEarned
<1>1. LedgerInv => SupplyIsEarned
  BY DEF LedgerInv
<1> QED
  BY <1>1, InitLedgerInv, NextLedgerInv, PTL DEF LedgerSpec

\* No transfer between two accounts is refused for overflow.
THEOREM TransfersNeverOverflow == LedgerSpec => []TransferNeverOverflows
<1>1. LedgerInv => TransferNeverOverflows
  <2> SUFFICES ASSUME LedgerInv, NEW x \in Addr, NEW y \in Addr, x # y
               PROVE  tocken[x] + tocken[y] <= MaxUint
    BY DEF TransferNeverOverflows
  <2>1. tocken \in [Addr -> 0 .. MaxUint] /\ MaxUint \in Nat /\ totalSupply <= MaxUint
        /\ totalSupply \in Nat
    BY LedgerAssumption, UIntAssumption DEF LedgerInv, LedgerTypeOK, UInt
  <2>2. tocken[x] + tocken[y] <= Total(tocken, MaxUint)
    BY <2>1, AddrAssumption, TotalBoundsPairs
  <2>3. Sum(tocken) \in Nat /\ Sum(tocken) <= totalSupply
    BY SumsAreNat DEF LedgerInv, SupplyBounds
  <2> QED
    BY <2>1, <2>2, <2>3 DEF Sum
<1> QED
  BY <1>1, InitLedgerInv, NextLedgerInv, PTL DEF LedgerSpec

\* The ledger implements the abstract coin of CoinSupply: whatever call is
\* made, all accounts together gain exactly what the supply gains, or lose
\* what is retired.
THEOREM LedgerImplementsSupply == LedgerSpec => SupplySpec
<1>1. SupplyStep => [Supply!CNext]_<<Sum(tocken), totalSupply>>
  BY DEF SupplyStep
<1> QED
  BY <1>1, InitLedgerInv, NextLedgerInv, PTL DEF LedgerSpec, SupplySpec, Supply!CoinSupplySpec
=============================================================================
