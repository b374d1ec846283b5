------------------------------- MODULE Mongo -------------------------------
(***************************************************************************)
(* MongoDB transactions as the server uses them (dbUtil.transaction): a    *)
(* transaction sees the database as it was at its first operation, and a   *)
(* write to a document that another open transaction has written, or that  *)
(* changed since, fails at once with a write conflict.  The writes become  *)
(* visible together at the commit.  External: modelled from its use.       *)
(***************************************************************************)
EXTENDS Integers, Sequences, FiniteSets

CONSTANT Procs   \* the requests that may be in progress at a time

VARIABLE txn     \* txn[p]: the transaction of request p

NoTxn == [open |-> FALSE, stale |-> {}, wrote |-> {}]

TxnTypeOK(docs) ==
  txn \in [Procs -> [open : BOOLEAN, stale : SUBSET docs, wrote : SUBSET docs]]

TxnInit == txn = [p \in Procs |-> NoTxn]

CanWrite(p, d) ==
  /\ d \notin txn[p].stale
  /\ \A q \in Procs \ {p} : d \notin txn[q].wrote

\* An operation of p's transaction that writes the documents ds.
TxnWrite(p, ds) ==
  txn' = [txn EXCEPT ![p].open = TRUE, ![p].wrote = @ \cup ds]

TxnAbort(p) == txn' = [txn EXCEPT ![p] = NoTxn]

\* The documents ds have changed: every open transaction but p's is behind.
Changed(p, ds) ==
  [q \in Procs |-> IF q = p THEN NoTxn
                   ELSE IF txn[q].open THEN [txn[q] EXCEPT !.stale = @ \cup ds]
                   ELSE txn[q]]

TxnCommit(p) == txn' = Changed(p, txn[p].wrote)
=============================================================================
