---------------------------- MODULE HolonusCoin ----------------------------
(***************************************************************************)
(* The coin service as deployed: the ledger and the reliability over the   *)
(* same EternalStorage, where the points of CallEvaluatePost depend on the *)
(* evaluator's reliability.  Transactions are executed one after the       *)
(* other: while CallEvaluateReliability runs its loop nothing else does.   *)
(***************************************************************************)
EXTENDS CoinLedger, Reliability

coinServiceVars == <<ledgerVars, relVars>>

HolonusCoinInit == LedgerInit /\ RelInit

\* CallEvaluatePost reads getReliability(owner) / 10 ** reliabilityDecimals.
EvaluatePost ==
  \E own, snd \in Addr, workPoint \in WorkPoints :
    CallEvaluatePost(own, snd, workPoint, Level(own))

LedgerTransaction ==
  /\ call = Idle
  /\ TokenNext \/ EvaluatePost \/ (AccessNext /\ UNCHANGED coinVars)
  /\ UNCHANGED relVars

HolonusCoinNext ==
  \/ LedgerTransaction
  \/ RelNext /\ UNCHANGED coinVars

HolonusCoinSpec == HolonusCoinInit /\ [][HolonusCoinNext]_coinServiceVars

-----------------------------------------------------------------------------
\* Whatever reliabilities the evaluations and setReliability bring about, the
\* coin service does to the coins only what the ledger may: getReliability's
\* cap keeps the reward within the levels the ledger is specified for.
LedgerOfTheService == LedgerSpec
=============================================================================
