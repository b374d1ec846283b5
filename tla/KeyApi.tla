------------------------------- MODULE KeyApi -------------------------------
(***************************************************************************)
(* The public keys of the users: the handlers of /api/v1/keys              *)
(* (core/api/v1/keys.js), run concurrently and interleaved at every await. *)
(*                                                                         *)
(* A key is a document in MongoDB, a pointer to it in the user's document  *)
(* and a record in the KeyStorage contract.  postKey and deleteKey run in  *)
(* a MongoDB transaction; their checks do not.  Any awaited call may fail  *)
(* (a lost connection, a locked document, a chain error): Fail.  A         *)
(* transaction sent to the chain is mined in the order it was sent, also   *)
(* when the request that sent it has given up waiting.                     *)
(***************************************************************************)
EXTENDS Mongo

CONSTANTS
  Users,
  KeyIds,      \* the ObjectIds MongoDB may hand out
  PubKeys,
  None,
  MaxTries,    \* how often withTransaction runs its callback
  MaxMempool   \* how many transactions may wait to be mined

ASSUME KeyAssumption ==
  /\ None \notin Users \cup KeyIds \cup PubKeys
  /\ Users \cap KeyIds = {}
  /\ MaxTries \in Nat \ {0}
  /\ MaxMempool \in Nat \ {0}

VARIABLES
  keys,        \* keys[k]: the user of the committed document k, or None
  keysId,      \* keysId[u]: _keysId in the document of u
  issued,      \* the ObjectIds handed out
  chainKeys,   \* chainKeys[k]: the public key in KeyStorage, or None
  mempool,     \* transactions sent and not yet mined
  req          \* req[p]: the request p is serving, or Rest

vars == <<txn, keys, keysId, issued, chainKeys, mempool, req>>

Rest == [op |-> "none", pc |-> "rest", user |-> None, id |-> None, pub |-> None, tries |-> 0]

Request == [op : {"none", "postKey", "putKey", "deleteKey"},
            pc : {"rest", "checkConflict", "create", "updateUser", "setKey", "receipt",
                  "log", "checkNotFound", "checkLocked", "deleteOne", "commit"},
            user : Users \cup {None}, id : KeyIds \cup {None},
            pub : PubKeys \cup {None}, tries : 0 .. MaxTries]

TypeOK ==
  /\ TxnTypeOK(KeyIds \cup Users)
  /\ keys \in [KeyIds -> Users \cup {None}]
  /\ keysId \in [Users -> KeyIds \cup {None}]
  /\ issued \subseteq KeyIds
  /\ chainKeys \in [KeyIds -> PubKeys \cup {None}]
  /\ mempool \in Seq([key : KeyIds, pub : PubKeys, from : Procs \cup {None}])
  /\ req \in [Procs -> Request]

Init ==
  /\ TxnInit
  /\ keys = [k \in KeyIds |-> None]
  /\ keysId = [u \in Users |-> None]
  /\ issued = {}
  /\ chainKeys = [k \in KeyIds |-> None]
  /\ mempool = <<>>
  /\ req = [p \in Procs |-> Rest]

At(p, pc) == req[p].pc = pc

Goto(p, pc) == req' = [req EXCEPT ![p].pc = pc]

\* The handler returns or throws: the request is answered, and a transaction
\* that has not been committed is aborted.
Answer(p) == req' = [req EXCEPT ![p] = Rest] /\ TxnAbort(p)

\* A callback that is run again without end, and one that is run once too often.
MutantRerunForever(p, first) ==
  /\ req' = [req EXCEPT ![p].pc = first]
  /\ TxnAbort(p)

MutantRerunOnceMore(p, first) ==
  /\ req' = [req EXCEPT ![p].pc = first, ![p].tries = @ + 1]
  /\ TxnAbort(p)

\* withTransaction runs the callback again, after an error that MongoDB has
\* marked as transient, until its time is up.
Rerun(p, first) ==
  /\ req' = [req EXCEPT ![p] =
       IF @.tries < MaxTries
         THEN [@ EXCEPT !.pc = first, !.tries = @ + 1,
                        !.id = IF req[p].op = "postKey" THEN None ELSE @]
         ELSE Rest]
  /\ TxnAbort(p)

-----------------------------------------------------------------------------
postKey(p, u, pub) ==
  /\ At(p, "rest")
  /\ req' = [req EXCEPT ![p] = [op |-> "postKey", pc |-> "checkConflict", user |-> u,
                                id |-> None, pub |-> pub, tries |-> 1]]
  /\ UNCHANGED <<txn, keys, keysId, issued, chainKeys, mempool>>

putKey(p, u, k, pub) ==
  /\ At(p, "rest")
  /\ req' = [req EXCEPT ![p] = [op |-> "putKey", pc |-> "checkNotFound", user |-> u,
                                id |-> k, pub |-> pub, tries |-> 1]]
  /\ UNCHANGED <<txn, keys, keysId, issued, chainKeys, mempool>>

deleteKey(p, u, k) ==
  /\ At(p, "rest")
  /\ req' = [req EXCEPT ![p] = [op |-> "deleteKey", pc |-> "checkNotFound", user |-> u,
                                id |-> k, pub |-> None, tries |-> 1]]
  /\ UNCHANGED <<txn, keys, keysId, issued, chainKeys, mempool>>

\* keysModel.checkConflict, outside the session.
checkConflict(p) ==
  /\ At(p, "checkConflict")
  /\ IF \E k \in KeyIds : keys[k] = req[p].user
       THEN Answer(p)
       ELSE Goto(p, "create") /\ UNCHANGED txn
  /\ UNCHANGED <<keys, keysId, issued, chainKeys, mempool>>

\* The session is not passed to create.
MutantCreateNoSession(p) ==
  /\ At(p, "create")
  /\ \E k \in KeyIds \ issued :
       /\ issued' = issued \cup {k}
       /\ req' = [req EXCEPT ![p].pc = "updateUser", ![p].id = k]
       /\ keys' = [keys EXCEPT ![k] = req[p].user]
  /\ UNCHANGED <<txn, keysId, chainKeys, mempool>>

\* keysModel.create: the first operation of the transaction.  (With no id left
\* within the bound KeyIds the operation fails.)
create(p) ==
  /\ At(p, "create")
  /\ \/ \E k \in KeyIds \ issued :
          /\ issued' = issued \cup {k}
          /\ req' = [req EXCEPT ![p].pc = "updateUser", ![p].id = k]
          /\ TxnWrite(p, {k})
     \/ KeyIds \subseteq issued /\ Answer(p) /\ UNCHANGED issued
  /\ UNCHANGED <<keys, keysId, chainKeys, mempool>>

\* usersModel.updateOne in the transaction.  A write conflict is turned into a
\* 406, which loses MongoDB's mark, so the callback is not run again.
updateUser(p) ==
  /\ At(p, "updateUser")
  /\ IF CanWrite(p, req[p].user)
       THEN /\ TxnWrite(p, {req[p].user})
            /\ Goto(p, IF req[p].op = "postKey" THEN "setKey" ELSE "commit")
       ELSE Answer(p)
  /\ UNCHANGED <<keys, keysId, issued, chainKeys, mempool>>

\* setKey is not awaited.
MutantSetKeyNotAwaited(p) ==
  /\ At(p, "setKey")
  /\ Len(mempool) < MaxMempool
  /\ mempool' = Append(mempool, [key |-> req[p].id, pub |-> req[p].pub, from |-> None])
  /\ Goto(p, "log")
  /\ UNCHANGED <<txn, keys, keysId, issued, chainKeys>>

\* holonusFileService.setKey sends a transaction and waits for its receipt.
setKey(p) ==
  /\ At(p, "setKey")
  /\ Len(mempool) < MaxMempool
  /\ mempool' = Append(mempool, [key |-> req[p].id, pub |-> req[p].pub, from |-> p])
  /\ Goto(p, "receipt")
  /\ UNCHANGED <<txn, keys, keysId, issued, chainKeys>>

\* KeyStorage.set, when the transaction is mined; postKey goes on, putKey
\* answers.
Mine ==
  /\ mempool # <<>>
  /\ mempool' = Tail(mempool)
  /\ chainKeys' = [chainKeys EXCEPT ![Head(mempool).key] = Head(mempool).pub]
  /\ LET p == Head(mempool).from
     IN  IF p = None THEN UNCHANGED <<req, txn>>
         ELSE IF req[p].op = "postKey" THEN Goto(p, "log") /\ UNCHANGED txn
         ELSE Answer(p)
  /\ UNCHANGED <<keys, keysId, issued>>

\* The transaction is mined and reverts (the contract has been locked since
\* the estimate): nothing is written, and a request that waits for it throws.
Reverted ==
  /\ mempool # <<>>
  /\ mempool' = Tail(mempool)
  /\ IF Head(mempool).from = None THEN UNCHANGED <<req, txn>>
                                  ELSE Answer(Head(mempool).from)
  /\ UNCHANGED <<keys, keysId, issued, chainKeys>>

\* transactionLogsModel.create, outside the session.
log(p) ==
  /\ At(p, "log")
  /\ Goto(p, "commit")
  /\ UNCHANGED <<txn, keys, keysId, issued, chainKeys, mempool>>

\* keysModel.checkNotFound and keysModel.checkLocked, of putKey and deleteKey.
checkNotFound(p) ==
  /\ At(p, "checkNotFound")
  /\ IF keys[req[p].id] = req[p].user
       THEN Goto(p, "checkLocked") /\ UNCHANGED txn
       ELSE Answer(p)
  /\ UNCHANGED <<keys, keysId, issued, chainKeys, mempool>>

checkLocked(p) ==
  /\ At(p, "checkLocked")
  /\ IF keys[req[p].id] # None
       THEN /\ Goto(p, IF req[p].op = "putKey" THEN "setKey" ELSE "deleteOne")
            /\ UNCHANGED txn
       ELSE Answer(p)
  /\ UNCHANGED <<keys, keysId, issued, chainKeys, mempool>>

\* keysModel.deleteOne: the first operation of deleteKey's transaction.  It
\* rethrows MongoDB's error as it is, so a write conflict runs the callback
\* again.  A document that is gone is not an error.
deleteOne(p) ==
  /\ At(p, "deleteOne")
  /\ IF CanWrite(p, req[p].id)
       THEN /\ TxnWrite(p, IF keys[req[p].id] = None THEN {} ELSE {req[p].id})
            /\ Goto(p, "updateUser")
       ELSE Rerun(p, "checkNotFound")
  /\ UNCHANGED <<keys, keysId, issued, chainKeys, mempool>>

\* deleteKey leaves the user's pointer as it is.
MutantCommitKeepsPointer(p) ==
  /\ At(p, "commit")
  /\ keys' = [keys EXCEPT ![req[p].id] =
                IF req[p].op = "postKey" THEN req[p].user ELSE None]
  /\ keysId' = [keysId EXCEPT ![req[p].user] =
                IF req[p].op = "postKey" THEN req[p].id ELSE @]
  /\ req' = [req EXCEPT ![p] = Rest]
  /\ TxnCommit(p)
  /\ UNCHANGED <<issued, chainKeys, mempool>>

\* commitTransaction: the document and the user's pointer change together.
commit(p) ==
  /\ At(p, "commit")
  /\ LET r == req[p]
         posting == r.op = "postKey"
     IN  /\ keys' = [keys EXCEPT ![r.id] = IF posting THEN r.user ELSE None]
         /\ keysId' = [keysId EXCEPT ![r.user] = IF posting THEN r.id ELSE None]
  /\ req' = [req EXCEPT ![p] = Rest]
  /\ TxnCommit(p)
  /\ UNCHANGED <<issued, chainKeys, mempool>>

\* The commit fails with a transient error: nothing of it is visible, and the
\* whole callback runs again, with a new id and a new chain transaction.
commitTransient(p) ==
  /\ At(p, "commit")
  /\ Rerun(p, IF req[p].op = "postKey" THEN "checkConflict" ELSE "checkNotFound")
  /\ UNCHANGED <<keys, keysId, issued, chainKeys, mempool>>

\* An awaited call throws.  What was sent to the chain stays sent.
Fail(p) ==
  /\ ~At(p, "rest")
  /\ Answer(p)
  /\ mempool' = [i \in DOMAIN mempool |->
                   IF mempool[i].from = p THEN [mempool[i] EXCEPT !.from = None]
                                          ELSE mempool[i]]
  /\ UNCHANGED <<keys, keysId, issued, chainKeys>>

-----------------------------------------------------------------------------
Arrive(p) ==
  \E u \in Users :
    \/ \E pub \in PubKeys : postKey(p, u, pub)
    \/ \E k \in issued :
         deleteKey(p, u, k) \/ \E pub \in PubKeys : putKey(p, u, k, pub)

Step(p) ==
  \/ checkConflict(p) \/ create(p) \/ updateUser(p) \/ setKey(p) \/ log(p)
  \/ checkNotFound(p) \/ checkLocked(p) \/ deleteOne(p) \/ commit(p)
  \/ commitTransient(p)

Next == (\E p \in Procs : Arrive(p) \/ Step(p) \/ Fail(p)) \/ Mine \/ Reverted

Spec == Init /\ [][Next]_vars

\* The event loop resumes a handler whose awaited call has returned, the
\* driver's calls return or time out, and the chain keeps mining.  Strong
\* fairness of setKey stands for the weak one it has in the code, where
\* sending never waits for room: only the bound MaxMempool disables it.
FairSpec ==
  /\ Spec
  /\ WF_vars(Mine \/ Reverted)
  /\ \A p \in Procs : WF_vars(Step(p)) /\ SF_vars(setKey(p))

-----------------------------------------------------------------------------
\* A key the database knows is on the chain: postKey commits only after the
\* receipt of setKey, and a callback that is run again does so under a new
\* id.  getKey and postFile answer null and fail otherwise.
RegisteredKeyIsOnChain == \A k \in KeyIds : keys[k] # None => chainKeys[k] # None

\* The user's _keysId names a key of that user, however postKey and deleteKey
\* of the same user interleave: both documents change in one transaction.
KeysIdNamesAKey ==
  \A u \in Users : keysId[u] # None => keys[keysId[u]] = u

\* One request at a time, a user has the key its _keysId names and no other:
\* no failure, retry or late chain transaction leaves a second key or a key
\* without the pointer.
OnlyTheNamedKey ==
  \A k \in KeyIds, u \in Users : keys[k] = u => keysId[u] = k

\* A user never has two keys: postKey refuses with "Key is conflict in
\* database" when there is one.
OneKeyPerUser ==
  \A j, k \in KeyIds : keys[j] # None /\ keys[j] = keys[k] => j = k

\* Every request is answered: no two of them wait for each other, and retries
\* end.
EveryRequestIsAnswered == \A p \in Procs : ~At(p, "rest") ~> At(p, "rest")
=============================================================================
