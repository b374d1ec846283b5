---------------------------- MODULE Reliability ----------------------------
(***************************************************************************)
(* Who trusts whom: the half of HolonusCoinService that keeps, in          *)
(* EternalStorage, the reliability of every account and the evaluations it *)
(* is made of, and in ManageStorage the two lists that index them.         *)
(*                                                                         *)
(* CallEvaluateReliability records one evaluation and, if the account's    *)
(* reliability moved by a whole unit, goes through everyone that account   *)
(* evaluated.  The transaction is one step to everybody else, but its loop *)
(* is a sequence of steps here: `call' is the transaction in progress,     *)
(* with the state a revert would restore.                                  *)
(***************************************************************************)
EXTENDS CoinContracts, Sequences, Functions, Totals

CONSTANTS
  RelUnit,     \* 10 ** reliabilityDecimals, one whole unit
  TrustUnit,   \* 10 ** (reliabilityDecimals - 2)
  Evaluations, \* the pairs <<owner, sender>> that calls name
  Trusts,      \* the values given as trustworthy
  Grants       \* the values given to setReliability

ASSUME ReliabilityAssumption ==
  /\ RelUnit \in Nat \ {0}
  /\ TrustUnit \in Nat \ {0}
  /\ Evaluations \subseteq Addr \X Addr
  /\ Trusts \subseteq Int
  /\ Grants \subseteq UInt
  /\ {ES, MS, CS} \subseteq Contracts
  /\ {ES, MS} \subseteq Restricted

VARIABLES
  reliability,     \* reliability[a], uncapped
  userInfo,        \* userInfo[a][o]: the evaluation of a by o
  evaAccount,      \* evaAccount[a]: who evaluated a, in order of arrival
  accountEvaList,  \* accountEvaList[o]: whom o evaluated, in order
  call,            \* the running CallEvaluateReliability, or Idle
  granted          \* history: what a has beside its recorded evaluations

relRows == <<reliability, userInfo, evaAccount, accountEvaList, granted>>
relVars == <<relRows, call>>

Idle == [sender |-> Zero, i |-> 0, cnt |-> 0, saved |-> <<>>]

Trustworthy == {-1} \cup (1 .. 5)

NoInfo == [user |-> Zero, trust |-> 0, amount |-> 0]
UserInfo == [user : Addr, trust : {0} \cup Trustworthy, amount : UInt]

RowsTypeOK(rel, info, eva, list, grant) ==
  /\ rel \in [Addr -> UInt]
  /\ info \in [Addr -> [Addr -> UserInfo]]
  /\ eva \in [Addr -> Seq(Addr)]
  /\ list \in [Addr -> Seq(Addr)]
  /\ grant \in [Addr -> Int]

RelTypeOK ==
  /\ RowsTypeOK(reliability, userInfo, evaAccount, accountEvaList, granted)
  /\ \/ call = Idle
     \/ /\ call.sender \in Addr /\ call.i \in 1 .. call.cnt
        /\ call.cnt = Len(accountEvaList[call.sender])
        /\ RowsTypeOK(call.saved[1], call.saved[2], call.saved[3], call.saved[4],
                      call.saved[5])

RelInit ==
  /\ reliability = [a \in Addr |-> 0]
  /\ userInfo = [a \in Addr |-> [o \in Addr |-> NoInfo]]
  /\ evaAccount = [a \in Addr |-> <<>>]
  /\ accountEvaList = [a \in Addr |-> <<>>]
  /\ call = Idle
  /\ granted = [a \in Addr |-> 0]

\* getReliability without the cap.
MutantUncapped(a) == reliability[a]

getReliability(a) ==
  IF reliability[a] > MaxLevel * RelUnit THEN MaxLevel * RelUnit ELSE reliability[a]

\* The whole units of an account's reliability: all its evaluations and
\* rewards depend on.
Level(a) == getReliability(a) \div RelUnit

reliabilityConsensus(own, trust) ==
  IF trust <= 0 THEN 0 ELSE Level(own) * (trust * TrustUnit)

\* AddManageAccount without the search.
MutantAddAlways(list, o, a) == [list EXCEPT ![o] = Append(@, a)]

AddManageAccount(list, o, a) ==
  IF a \in Range(list[o]) THEN list ELSE [list EXCEPT ![o] = Append(@, a)]

\* fcUpdateReliability with an addition that does not check for overflow.
MutantUpdateOverflows(own, snd, trustworthy) ==
  LET info   == userInfo[snd][own]
      trust  == IF trustworthy = 0 THEN info.trust ELSE trustworthy
      amount == reliabilityConsensus(own, trust)
      old    == IF info.user # Zero THEN info.amount ELSE 0
  IN  /\ old <= reliability[snd]
      /\ reliability' = [reliability EXCEPT ![snd] = (@ - old) + amount]
      /\ evaAccount' = AddManageAccount(evaAccount, snd, own)
      /\ accountEvaList' = AddManageAccount(accountEvaList, own, snd)
      /\ userInfo' = [userInfo EXCEPT ![snd][own] =
                        [user |-> own, trust |-> trust, amount |-> amount]]
      /\ granted' = [granted EXCEPT ![snd] = IF own = Zero THEN @ + amount ELSE @]

\* fcUpdateReliability that does not take the earlier amount back.
MutantUpdateKeepsOld(own, snd, trustworthy) ==
  LET info   == userInfo[snd][own]
      trust  == IF trustworthy = 0 THEN info.trust ELSE trustworthy
      amount == reliabilityConsensus(own, trust)
      old    == IF info.user # Zero THEN info.amount ELSE 0
  IN  /\ old <= reliability[snd]
      /\ reliability[snd] + amount <= MaxUint
      /\ reliability' = [reliability EXCEPT ![snd] = @ + amount]
      /\ evaAccount' = AddManageAccount(evaAccount, snd, own)
      /\ accountEvaList' = AddManageAccount(accountEvaList, own, snd)
      /\ userInfo' = [userInfo EXCEPT ![snd][own] =
                        [user |-> own, trust |-> trust, amount |-> amount]]
      /\ granted' = [granted EXCEPT ![snd] = IF own = Zero THEN @ + amount ELSE @]

\* fcUpdateReliability that records the new amount but does not add it.
MutantUpdateForgetsNew(own, snd, trustworthy) ==
  LET info   == userInfo[snd][own]
      trust  == IF trustworthy = 0 THEN info.trust ELSE trustworthy
      amount == reliabilityConsensus(own, trust)
      old    == IF info.user # Zero THEN info.amount ELSE 0
  IN  /\ old <= reliability[snd]
      /\ reliability' = [reliability EXCEPT ![snd] = @ - old]
      /\ evaAccount' = AddManageAccount(evaAccount, snd, own)
      /\ accountEvaList' = AddManageAccount(accountEvaList, own, snd)
      /\ userInfo' = [userInfo EXCEPT ![snd][own] =
                        [user |-> own, trust |-> trust, amount |-> amount]]
      /\ granted' = [granted EXCEPT ![snd] = IF own = Zero THEN @ + amount ELSE @]

\* fcUpdateReliability(owner, sender, trustworthy): replace what own gave snd.
\* The earlier gift is taken back if the record names an evaluator, which a
\* record made for the zero address does not.
fcUpdateReliability(own, snd, trustworthy) ==
  LET info   == userInfo[snd][own]
      trust  == IF trustworthy = 0 THEN info.trust ELSE trustworthy
      amount == reliabilityConsensus(own, trust)
      old    == IF info.user # Zero THEN info.amount ELSE 0
  IN  /\ old <= reliability[snd]
      /\ reliability[snd] - old + amount <= MaxUint
      /\ reliability' = [reliability EXCEPT ![snd] = (@ - old) + amount]
      /\ evaAccount' = AddManageAccount(evaAccount, snd, own)
      /\ accountEvaList' = AddManageAccount(accountEvaList, own, snd)
      /\ userInfo' = [userInfo EXCEPT ![snd][own] =
                        [user |-> own, trust |-> trust, amount |-> amount]]
      /\ granted' = [granted EXCEPT ![snd] = IF own = Zero THEN @ + amount ELSE @]

setReliability(caller, a, value) ==
  /\ call = Idle
  /\ onlyOwner(caller, CS) /\ isAllow(CS, ES)
  /\ reliability' = [reliability EXCEPT ![a] = value]
  /\ granted' = [granted EXCEPT ![a] = @ + (value - reliability[a])]
  /\ UNCHANGED <<owner, allow, userInfo, evaAccount, accountEvaList, call>>

\* Anyone may call it, for any pair.  The count of the loop is read once.
CallEvaluateReliability(own, snd, trustworthy) ==
  /\ call = Idle
  /\ isAllow(CS, ES) /\ isAllow(CS, MS)
  /\ trustworthy \in Trustworthy
  /\ fcUpdateReliability(own, snd, trustworthy)
  /\ LET cnt == Len(accountEvaList'[snd])
     IN  call' = IF Level(snd) # Level(snd)' /\ cnt > 0
                   THEN [sender |-> snd, i |-> 1, cnt |-> cnt, saved |-> relRows]
                   ELSE Idle
  /\ UNCHANGED <<owner, allow>>

\* A loop that ends one round early.
MutantPropagateShort ==
  /\ call # Idle
  /\ fcUpdateReliability(call.sender, accountEvaList[call.sender][call.i], 0)
  /\ call' = IF call.i + 1 < call.cnt THEN [call EXCEPT !.i = @ + 1] ELSE Idle
  /\ UNCHANGED <<owner, allow>>

\* One round of the loop: fcUpdateReliability(sender, account, 0).
PropagateReliability ==
  /\ call # Idle
  /\ fcUpdateReliability(call.sender, accountEvaList[call.sender][call.i], 0)
  /\ call' = IF call.i < call.cnt THEN [call EXCEPT !.i = @ + 1] ELSE Idle
  /\ UNCHANGED <<owner, allow>>

\* A round fails (SafeMath.sub, SafeMath.add) or the gas runs out: the EVM
\* undoes the whole transaction.
RevertEvaluation ==
  /\ call # Idle
  /\ reliability' = call.saved[1]
  /\ userInfo' = call.saved[2]
  /\ evaAccount' = call.saved[3]
  /\ accountEvaList' = call.saved[4]
  /\ granted' = call.saved[5]
  /\ call' = Idle
  /\ UNCHANGED <<owner, allow>>

RelNext ==
  \/ \E caller \in Caller, a \in Addr, value \in Grants : setReliability(caller, a, value)
  \/ \E e \in Evaluations, t \in Trusts : CallEvaluateReliability(e[1], e[2], t)
  \/ PropagateReliability
  \/ RevertEvaluation

ReliabilityInit == AccessInit /\ RelInit

ReliabilityNext ==
  \/ RelNext
  \/ AccessNext /\ call = Idle /\ UNCHANGED relVars

ReliabilitySpec == ReliabilityInit /\ [][ReliabilityNext]_<<owner, allow, relVars>>

-----------------------------------------------------------------------------
\* The amounts account a has from the evaluators that can be taken back.
Gifts(a) == [o \in Addr \ {Zero} |-> userInfo[a][o].amount]

\* An account's reliability is what it was granted plus exactly the amounts
\* its evaluations now record: fcUpdateReliability takes back what it gave,
\* once, however often and by whomever the account is evaluated again, in the
\* loop, for oneself or after setReliability.
ReliabilityIsAccounted ==
  \A a \in Addr : reliability[a] = granted[a] + Total(Gifts(a), MaxUint)

\* The subtraction of fcUpdateReliability can fail, and block every further
\* evaluation of the account, only after setReliability took an account below
\* what its evaluations record.
TakeBackNeverFails ==
  \A a \in Addr : granted[a] >= 0
    => \A o \in Addr \ {Zero} : userInfo[a][o].amount <= reliability[a]

\* The two lists of ManageStorage are each other's inverse, name each account
\* once, and name exactly the pairs that EternalStorage has an evaluation of.
ListsAgree ==
  \A a, o \in Addr :
    /\ (o \in Range(evaAccount[a])) <=> (a \in Range(accountEvaList[o]))
    /\ (o \in Range(evaAccount[a])) <=> (userInfo[a][o].trust # 0)
    /\ IsInjective(evaAccount[a]) /\ IsInjective(accountEvaList[o])

Fresh(own, a) == userInfo[a][own].amount = reliabilityConsensus(own, userInfo[a][own].trust)

\* When the loop of CallEvaluateReliability has run to its end, everyone the
\* account evaluated has the amount its new reliability gives, unless it
\* evaluated itself: then its reliability moves while the loop is running.
EvaluationPropagates ==
  [][PropagateReliability /\ call' = Idle
       => \A s \in Addr :
            s = call.sender /\ s \notin Range(accountEvaList[s])
              => \A a \in Range(accountEvaList[s]) : Fresh(s, a)']_relVars
=============================================================================
