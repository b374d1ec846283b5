------------------------------ MODULE FileApi ------------------------------
(***************************************************************************)
(* The users' files: the handlers of /api/v1/files (core/api/v1/files.js), *)
(* run concurrently and interleaved at every await that touches a file.    *)
(*                                                                         *)
(* A file is a document in MongoDB (its name), a record in the FileStorage *)
(* contract (the hash of its content) and a block in IPFS.  The three are  *)
(* written one after the other, the document in a MongoDB transaction that *)
(* is open while the chain is written.  An upload is one value of Uploads, *)
(* its name and its attachment together; a content is an attachment        *)
(* encrypted with a key, and stands for its own hash.                      *)
(***************************************************************************)
EXTENDS Mongo

CONSTANTS
  Users,
  FileIds,     \* the ObjectIds MongoDB may hand out
  Uploads,
  PubKeys,
  Throwaway,   \* a key pair made up on the spot, whose private half is dropped
  None,
  MaxTries,    \* how often withTransaction runs its callback
  MaxMempool,  \* how many transactions may wait to be mined
  MayFail      \* whether awaited calls may fail for good

ASSUME FileAssumption ==
  /\ None \notin Users \cup FileIds \cup Uploads \cup PubKeys
  /\ Throwaway \notin PubKeys
  /\ MaxTries \in Nat \ {0}
  /\ MaxMempool \in Nat \ {0}
  /\ MayFail \in BOOLEAN

VARIABLES
  files,       \* files[f]: owner and name of the committed document f, or None
  issued,      \* the ObjectIds handed out
  chainFiles,  \* chainFiles[f]: the content whose hash FileStorage has, or None
  ipfs,        \* the contents added to IPFS
  mempool,     \* transactions sent and not yet mined
  req          \* req[p]: the request p is serving, or Rest

vars == <<txn, files, issued, chainFiles, ipfs, mempool, req>>

Content == [data : Uploads, key : PubKeys \cup {Throwaway}]

File == [user : Users, name : Uploads]

Rest == [op |-> "none", pc |-> "rest", user |-> None, id |-> None,
         data |-> None, content |-> None, tries |-> 0]

Request == [op : {"none", "postFile", "getFile", "putFile", "deleteFile"},
            pc : {"rest", "getKey", "checkNotFound", "checkLocked", "add", "create",
                  "updateOne", "setFile", "receipt", "log", "commit", "findOne",
                  "readChain", "cat", "deleteOne"},
            user : Users \cup {None}, id : FileIds \cup {None},
            data : Uploads \cup {None}, content : Content \cup {None},
            tries : 0 .. MaxTries]

TypeOK ==
  /\ TxnTypeOK(FileIds)
  /\ files \in [FileIds -> File \cup {None}]
  /\ issued \subseteq FileIds
  /\ chainFiles \in [FileIds -> Content \cup {None}]
  /\ ipfs \subseteq Content
  /\ mempool \in Seq([file : FileIds, content : Content, from : Procs \cup {None}])
  /\ req \in [Procs -> Request]

Init ==
  /\ TxnInit
  /\ files = [f \in FileIds |-> None]
  /\ issued = {}
  /\ chainFiles = [f \in FileIds |-> None]
  /\ ipfs = {}
  /\ mempool = <<>>
  /\ req = [p \in Procs |-> Rest]

At(p, pc) == req[p].pc = pc

Goto(p, pc) == req' = [req EXCEPT ![p].pc = pc]

Owns(u, f) == files[f] # None /\ files[f].user = u

\* The handler returns or throws: the request is answered, and a transaction
\* that has not been committed is aborted.
Answer(p) == req' = [req EXCEPT ![p] = Rest] /\ TxnAbort(p)

-----------------------------------------------------------------------------
\* A request arrives.  The first await of each handler reads the user.
Begin(p, op, pc, u, f, d) ==
  /\ At(p, "rest")
  /\ req' = [req EXCEPT ![p] = [op |-> op, pc |-> pc, user |-> u, id |-> f,
                                data |-> d, content |-> None, tries |-> 1]]
  /\ UNCHANGED <<txn, files, issued, chainFiles, ipfs, mempool>>

postFile(p, u, d) == Begin(p, "postFile", "getKey", u, None, d)

getFile(p, u, f) == Begin(p, "getFile", "checkNotFound", u, f, None)

putFile(p, u, f, d) == Begin(p, "putFile", "checkNotFound", u, f, d)

deleteFile(p, u, f) == Begin(p, "deleteFile", "checkNotFound", u, f, None)

\* postFile's keysCore.getKey: a key of the user (which one is a matter of
\* the key handlers), or null, which ends the request.
getKey(p) ==
  /\ At(p, "getKey")
  /\ \/ \E k \in PubKeys :
          /\ req' = [req EXCEPT ![p].pc = "add",
                                ![p].content = [data |-> req[p].data, key |-> k]]
          /\ UNCHANGED txn
     \/ Answer(p)
  /\ UNCHANGED <<files, issued, chainFiles, ipfs, mempool>>

checkNotFound(p) ==
  /\ At(p, "checkNotFound")
  /\ IF Owns(req[p].user, req[p].id)
       THEN Goto(p, "checkLocked") /\ UNCHANGED txn
       ELSE Answer(p)
  /\ UNCHANGED <<files, issued, chainFiles, ipfs, mempool>>

\* filesModel.checkLocked, and in putFile the encryption that follows it.
\* putFile does not await getKey: pem2der is given a promise, for which NodeRSA
\* makes up a new key pair.
checkLocked(p) ==
  /\ At(p, "checkLocked")
  /\ \/ /\ files[req[p].id] = None
        /\ Answer(p)
     \/ /\ files[req[p].id] # None
        /\ req[p].op = "putFile"
        /\ req' = [req EXCEPT ![p].pc = "add",
                              ![p].content = [data |-> req[p].data, key |-> Throwaway]]
        /\ UNCHANGED txn
     \/ /\ files[req[p].id] # None
        /\ req[p].op # "putFile"
        /\ Goto(p, IF req[p].op = "getFile" THEN "findOne" ELSE "deleteOne")
        /\ UNCHANGED txn
  /\ UNCHANGED <<files, issued, chainFiles, ipfs, mempool>>

\* ipfsUtil.add.
add(p) ==
  /\ At(p, "add")
  /\ ipfs' = ipfs \cup {req[p].content}
  /\ Goto(p, IF req[p].op = "postFile" THEN "create" ELSE "updateOne")
  /\ UNCHANGED <<txn, files, issued, chainFiles, mempool>>

\* filesModel.create: the first operation of postFile's transaction.  (With no
\* id left within the bound FileIds the operation fails.)
create(p) ==
  /\ At(p, "create")
  /\ \/ \E f \in FileIds \ issued :
          /\ issued' = issued \cup {f}
          /\ req' = [req EXCEPT ![p].pc = "setFile", ![p].id = f]
          /\ TxnWrite(p, {f})
     \/ FileIds \subseteq issued /\ Answer(p) /\ UNCHANGED issued
  /\ UNCHANGED <<files, chainFiles, ipfs, mempool>>

\* The session is not passed to updateOne, which then meets no write conflict.
MutantUpdateOneNoConflict(p) ==
  /\ At(p, "updateOne")
  /\ TxnWrite(p, IF files[req[p].id] = None THEN {} ELSE {req[p].id})
  /\ Goto(p, "setFile")
  /\ UNCHANGED <<files, issued, chainFiles, ipfs, mempool>>

\* filesModel.updateOne: the first operation of putFile's transaction.  A write
\* conflict is turned into a 406 and the callback is not run again; a document
\* that is gone is not an error (ok is 1, n is 0).
updateOne(p) ==
  /\ At(p, "updateOne")
  /\ IF CanWrite(p, req[p].id)
       THEN /\ TxnWrite(p, IF files[req[p].id] = None THEN {} ELSE {req[p].id})
            /\ Goto(p, "setFile")
       ELSE Answer(p)
  /\ UNCHANGED <<files, issued, chainFiles, ipfs, mempool>>

\* setFile is not awaited.
MutantSetFileNotAwaited(p) ==
  /\ At(p, "setFile")
  /\ Len(mempool) < MaxMempool
  /\ mempool' = Append(mempool, [file |-> req[p].id, content |-> req[p].content, from |-> None])
  /\ Goto(p, "log")
  /\ UNCHANGED <<txn, files, issued, chainFiles, ipfs>>

\* holonusFileService.setFile sends a transaction and waits for its receipt.
setFile(p) ==
  /\ At(p, "setFile")
  /\ Len(mempool) < MaxMempool
  /\ mempool' = Append(mempool, [file |-> req[p].id, content |-> req[p].content, from |-> p])
  /\ Goto(p, "receipt")
  /\ UNCHANGED <<txn, files, issued, chainFiles, ipfs>>

\* FileStorage.set, when the transaction is mined.
Mine ==
  /\ mempool # <<>>
  /\ mempool' = Tail(mempool)
  /\ chainFiles' = [chainFiles EXCEPT ![Head(mempool).file] = Head(mempool).content]
  /\ IF Head(mempool).from = None THEN UNCHANGED req ELSE Goto(Head(mempool).from, "log")
  /\ UNCHANGED <<txn, files, issued, ipfs>>

\* The transaction is mined and reverts (the contract has been locked since
\* the estimate): nothing is written, and a request that waits for it throws.
Reverted ==
  /\ MayFail
  /\ mempool # <<>>
  /\ mempool' = Tail(mempool)
  /\ IF Head(mempool).from = None THEN UNCHANGED <<req, txn>>
                                  ELSE Answer(Head(mempool).from)
  /\ UNCHANGED <<files, issued, chainFiles, ipfs>>

\* transactionLogsModel.create, outside the session.
log(p) ==
  /\ At(p, "log")
  /\ Goto(p, "commit")
  /\ UNCHANGED <<txn, files, issued, chainFiles, ipfs, mempool>>

\* commitTransaction: the document appears, or gets its new name.
commit(p) ==
  /\ At(p, "commit")
  /\ files' = [f \in FileIds |->
                 IF f \in txn[p].wrote THEN [user |-> req[p].user, name |-> req[p].data]
                                       ELSE files[f]]
  /\ req' = [req EXCEPT ![p] = Rest]
  /\ TxnCommit(p)
  /\ UNCHANGED <<issued, chainFiles, ipfs, mempool>>

\* A callback that is run once too often, and one that is run without end.
MutantRunOnceMore(p) ==
  /\ At(p, "commit")
  /\ req' = [req EXCEPT ![p].pc = IF req[p].op = "postFile" THEN "getKey" ELSE "checkNotFound",
                        ![p].tries = @ + 1]
  /\ TxnAbort(p)
  /\ UNCHANGED <<files, issued, chainFiles, ipfs, mempool>>

MutantRunForever(p) ==
  /\ At(p, "commit")
  /\ req' = [req EXCEPT ![p].pc = IF req[p].op = "postFile" THEN "getKey" ELSE "checkNotFound"]
  /\ TxnAbort(p)
  /\ UNCHANGED <<files, issued, chainFiles, ipfs, mempool>>

\* The commit fails with a transient error: withTransaction runs the whole
\* callback again, until its time is up.
commitTransient(p) ==
  /\ At(p, "commit")
  /\ LET r == req[p]
     IN  \/ /\ r.tries < MaxTries
            /\ req' = [req EXCEPT ![p] =
                 IF r.op = "postFile"
                   THEN [r EXCEPT !.pc = "getKey", !.id = None, !.content = None, !.tries = @ + 1]
                   ELSE [r EXCEPT !.pc = "checkNotFound", !.content = None, !.tries = @ + 1]]
         \/ /\ r.tries = MaxTries
            /\ MayFail
            /\ req' = [req EXCEPT ![p] = Rest]
  /\ TxnAbort(p)
  /\ UNCHANGED <<files, issued, chainFiles, ipfs, mempool>>

\* deleteFile also removes the content from IPFS.
MutantDeleteContent(p) ==
  /\ At(p, "deleteOne")
  /\ CanWrite(p, req[p].id)
  /\ files' = [files EXCEPT ![req[p].id] = None]
  /\ ipfs' = ipfs \ {chainFiles[req[p].id]}
  /\ txn' = Changed(p, {req[p].id})
  /\ req' = [req EXCEPT ![p] = Rest]
  /\ UNCHANGED <<issued, chainFiles, mempool>>

\* filesModel.deleteOne drops the session: a delete outside any transaction,
\* which waits for a transaction that has written the document.
deleteOne(p) ==
  /\ At(p, "deleteOne")
  /\ CanWrite(p, req[p].id)
  /\ files' = [files EXCEPT ![req[p].id] = None]
  /\ txn' = Changed(p, {req[p].id})
  /\ req' = [req EXCEPT ![p] = Rest]
  /\ UNCHANGED <<issued, chainFiles, ipfs, mempool>>

\* The reads of getFile: the document (null if it is gone by now, which throws
\* only when the answer is put together), the hash on the chain, the content.
findOne(p) ==
  /\ At(p, "findOne")
  /\ Goto(p, "readChain")
  /\ UNCHANGED <<txn, files, issued, chainFiles, ipfs, mempool>>

readChain(p) ==
  /\ At(p, "readChain")
  /\ IF chainFiles[req[p].id] = None
       THEN Answer(p)
       ELSE /\ req' = [req EXCEPT ![p].pc = "cat", ![p].content = chainFiles[req[p].id]]
            /\ UNCHANGED txn
  /\ UNCHANGED <<files, issued, chainFiles, ipfs, mempool>>

cat(p) ==
  /\ At(p, "cat")
  /\ Answer(p)
  /\ UNCHANGED <<files, issued, chainFiles, ipfs, mempool>>

\* An awaited call throws.  What was sent to the chain stays sent.
Fail(p) ==
  /\ MayFail
  /\ ~At(p, "rest")
  /\ Answer(p)
  /\ mempool' = [i \in DOMAIN mempool |->
                   IF mempool[i].from = p THEN [mempool[i] EXCEPT !.from = None]
                                          ELSE mempool[i]]
  /\ UNCHANGED <<files, issued, chainFiles, ipfs>>

-----------------------------------------------------------------------------
Arrive(p) ==
  \E u \in Users :
    \/ \E d \in Uploads : postFile(p, u, d)
    \/ \E f \in issued :
         \/ getFile(p, u, f)
         \/ deleteFile(p, u, f)
         \/ \E d \in Uploads : putFile(p, u, f, d)

Step(p) ==
  \/ getKey(p) \/ checkNotFound(p) \/ checkLocked(p) \/ add(p) \/ create(p)
  \/ updateOne(p) \/ setFile(p) \/ log(p) \/ commit(p) \/ commitTransient(p)
  \/ deleteOne(p) \/ findOne(p) \/ readChain(p) \/ cat(p)

Next == (\E p \in Procs : Arrive(p) \/ Step(p) \/ Fail(p)) \/ Mine \/ Reverted

Spec == Init /\ [][Next]_vars

\* The event loop resumes a handler whose awaited call has returned, the
\* driver's calls return or time out, and the chain keeps mining.  Strong
\* fairness of setFile stands for the weak one it has in the code, where
\* sending never waits for room; that of deleteOne says that MongoDB, which
\* retries a delete until the document is free, finds it free at last.
FairSpec ==
  /\ Spec
  /\ WF_vars(Mine \/ Reverted)
  /\ \A p \in Procs : WF_vars(Step(p)) /\ SF_vars(setFile(p)) /\ SF_vars(deleteOne(p))

-----------------------------------------------------------------------------
\* A file the database knows has its hash on the chain and its content in
\* IPFS: postFile and putFile write IPFS first, then the chain, and commit
\* last.
StoredFileIsComplete ==
  \A f \in FileIds : files[f] # None => chainFiles[f] \in ipfs

\* A getFile that has found the document finds the hash and the content, also
\* when the file is replaced or deleted under it: no step of getFile answers
\* "not found" after findOne.
ReadNeverDangles ==
  \A p \in Procs :
    /\ At(p, "readChain") => chainFiles[req[p].id] # None
    /\ At(p, "cat") => req[p].content \in ipfs

\* With no call failing for good, concurrent uploads never mix: whenever no
\* request is at work on a file, its name and its content are of the same
\* upload.  What orders two putFiles is the write conflict of updateOne; a
\* callback that is run again does not break it.
NoMixedVersions ==
  \A f \in FileIds :
    files[f] # None /\ (\A p \in Procs : req[p].id # f)
      => chainFiles[f] # None /\ chainFiles[f].data = files[f].name

\* A stored file is encrypted with a key of its owner: postFile throws 'public
\* key not registered' rather than store a file without one.
SealedForItsOwner ==
  \A f \in FileIds : files[f] # None => chainFiles[f].key \in PubKeys

\* Every request is answered: no two of them wait for each other, and retries
\* end.
EveryRequestIsAnswered == \A p \in Procs : ~At(p, "rest") ~> At(p, "rest")
=============================================================================
