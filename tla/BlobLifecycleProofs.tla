------------------------- MODULE BlobLifecycleProofs -------------------------
(***************************************************************************)
(* Proofs about BlobLifecycle, for any number of users, blobs, folders and *)
(* requests: what the handlers keep (SafeInv), how far the quota is kept   *)
(* (SizesInv), and that the handlers implement FileStatus (LockInv: what   *)
(* the row locks of an open transaction keep).                             *)
(***************************************************************************)
EXTENDS BlobRefinement, SumLemmas

\* The labels of a handler that works on one blob, of one that has not yet
\* registered its blob, of one that works on one folder, of one that holds
\* keys to remove from MinIO, and of one whose transaction has written rows.
EarlyLabels == {"init.folder", "init.new", "init.register"}
BlobLabels == EarlyLabels \cup {"init.presign", "init.abort",
    "complete.minio", "complete.stat", "complete.confirm",
    "abort.minio", "abort.row", "move.row", "hard.remove", "hard.row"}
FolderLabels == {"trash.write", "trash.commit", "restore.write", "restore.commit",
    "drop.blobs", "drop.commit"}
KeyLabels == {"empty.folders", "empty.commit", "expire.folders", "expire.commit",
    "remove.keys", "orphan.keys"}
TxLabels == {"trash.commit", "restore.commit", "drop.commit", "empty.commit", "expire.commit"}

\* A handler on a blob or on a folder has one, and an upload has a user.
LocalsOK ==
    \A p \in Procs :
        /\ req[p].pc \in BlobLabels => req[p].blob \in Blobs
        /\ req[p].pc \in FolderLabels => req[p].folder \in Folders
        /\ req[p].pc \in EarlyLabels => req[p].user \in Users

TypeInv == TypeOK /\ LocalsOK

\* What a handler's locals are once it has keys to remove, or none left
\* (the loops over RemoveObject and AbortMultipartUpload).
LEMMA WithKeysFacts ==
    ASSUME NEW label \in Labels, NEW K \in SUBSET Blobs
    PROVE  /\ WithKeys(label, K) \in Request
           /\ WithKeys(label, K).keys = K
           /\ WithKeys(label, K).blob = None
           /\ WithKeys(label, K).pc = IF K = {} THEN "idle" ELSE label
  BY DEF WithKeys, Idle, Request, Labels

\* The initial state is well typed.
LEMMA InitTypeInv == Init => TypeInv
  BY UsersAssumption DEF Init, TypeInv, TypeOK, LocalsOK, Procs, Request, Idle, Labels,
     BlobLabels, EarlyLabels, FolderLabels

\* Every step of every handler keeps the types.
LEMMA NextTypeInv == TypeInv /\ [Next]_vars => TypeInv'
<1> SUFFICES ASSUME TypeInv, [Next]_vars PROVE TypeInv'
  OBVIOUS
<1> USE UsersAssumption, BlobsAssumption, FoldersAssumption, SizesAssumption
<1> USE DEF TypeInv, TypeOK, LocalsOK, Procs, Request, Idle, Labels, BlobLabels,
        EarlyLabels, FolderLabels, blobVars, folderVars, minioVars, histVars
<1>1. ASSUME NEW p \in Reqs, NEW u \in Users, NEW n \in Sizes, NEW f \in Folders \cup {None},
             InitiateCheckQuota(p, u, n, f)
      PROVE  TypeInv'
  <2>1. PICK b \in Blobs \ used :
          /\ used' = used \cup {b}
          /\ req' = [req EXCEPT ![p] = [pc |-> IF f = None THEN "init.new" ELSE "init.folder",
                     user |-> u, blob |-> b, folder |-> f, size |-> n, keys |-> {}, tx |-> {}]]
    BY <1>1 DEF InitiateCheckQuota, Start
  <2>2. [pc |-> IF f = None THEN "init.new" ELSE "init.folder", user |-> u, blob |-> b,
         folder |-> f, size |-> n, keys |-> {}, tx |-> {}] \in Request
    OBVIOUS
  <2>3. req' \in [Procs -> Request] /\ LocalsOK'
    BY <2>1, <2>2
  <2>4. QED
    BY <1>1, <2>1, <2>3 DEF InitiateCheckQuota
<1>2. ASSUME NEW p \in Reqs, NEW u \in Users, NEW b \in Blobs,
             CompleteRead(p, u, b)
      PROVE  TypeInv'
  BY <1>2 DEF CompleteRead, Start, OnBlob, Pending
<1>3. ASSUME NEW p \in Reqs, NEW u \in Users, NEW b \in Blobs,
             AbortRead(p, u, b)
      PROVE  TypeInv'
  BY <1>3 DEF AbortRead, Start, OnBlob, Pending
<1>4. ASSUME NEW p \in Reqs, NEW u \in Users, NEW b \in Blobs,
             HardDeletePeek(p, u, b)
      PROVE  TypeInv'
  BY <1>4 DEF HardDeletePeek, Start, OnBlob, Trashed
<1>5. ASSUME NEW p \in Reqs, NEW u \in Users, NEW b \in Blobs, NEW f \in Folders \cup {None},
             MoveBlobCheck(p, u, b, f)
      PROVE  TypeInv'
  BY <1>5 DEF MoveBlobCheck, Start, OnBlob
<1>6. ASSUME NEW p \in Reqs, NEW u \in Users, NEW f \in Folders,
             TrashFolderRead(p, u, f)
      PROVE  TypeInv'
  BY <1>6 DEF TrashFolderRead, Start, OnFolder
<1>7. ASSUME NEW p \in Reqs, NEW u \in Users, NEW f \in Folders,
             RestoreFolderRead(p, u, f)
      PROVE  TypeInv'
  BY <1>7 DEF RestoreFolderRead, Start, OnFolder
<1>8. ASSUME NEW p \in Reqs, NEW u \in Users, NEW f \in Folders,
             HardDeleteFolderRead(p, u, f)
      PROVE  TypeInv'
  BY <1>8 DEF HardDeleteFolderRead, Start, OnFolder
<1>9. ASSUME NEW p \in Reqs, NEW u \in Users, EmptyTrashBlobs(p, u) PROVE TypeInv'
  BY <1>9 DEF EmptyTrashBlobs, Start, DeleteRows
<1>10. ASSUME NEW p \in Procs, InitiateRequireFolder(p) PROVE TypeInv'
  BY <1>10 DEF InitiateRequireFolder, Goto, Finish
<1>11. ASSUME NEW p \in Procs, InitiateNewUpload(p) PROVE TypeInv'
  BY <1>11 DEF InitiateNewUpload, Goto
<1>12. ASSUME NEW p \in Procs, InitiateRegister(p) PROVE TypeInv'
  BY <1>12 DEF InitiateRegister, InsertRow, Goto
<1>13. ASSUME NEW p \in Procs, InitiatePresign(p) PROVE TypeInv'
  BY <1>13 DEF InitiatePresign, Goto, Finish
<1>14. ASSUME NEW p \in Procs, InitiateAbort(p) PROVE TypeInv'
  BY <1>14 DEF InitiateAbort, Finish
<1>15. ASSUME NEW p \in Procs, CompleteAtMinio(p) PROVE TypeInv'
  BY <1>15 DEF CompleteAtMinio, Goto, Finish
<1>16. ASSUME NEW p \in Procs, CompleteStat(p) PROVE TypeInv'
  BY <1>16 DEF CompleteStat, Finish
<1>17. ASSUME NEW p \in Procs, CompleteConfirm(p) PROVE TypeInv'
  BY <1>17 DEF CompleteConfirm, Finish, Pending
<1>18. ASSUME NEW p \in Procs, AbortAtMinio(p) PROVE TypeInv'
  BY <1>18 DEF AbortAtMinio, Goto, Finish
<1>19. ASSUME NEW p \in Procs, AbortRow(p) PROVE TypeInv'
  BY <1>19 DEF AbortRow, Finish, Pending
<1>20. ASSUME NEW p \in Procs, HardDeleteRemove(p) PROVE TypeInv'
  BY <1>20 DEF HardDeleteRemove, Goto
<1>21. ASSUME NEW p \in Procs, HardDeleteRow(p) PROVE TypeInv'
  BY <1>21 DEF HardDeleteRow, Finish, Trashed
<1>22. ASSUME NEW p \in Procs, MoveBlobRow(p) PROVE TypeInv'
  BY <1>22 DEF MoveBlobRow, Finish
<1>23. ASSUME NEW p \in Procs, TrashFolderWrite(p) PROVE TypeInv'
  BY <1>23 DEF TrashFolderWrite, Write, BlobsIn
<1>24. ASSUME NEW p \in Procs, TrashFolderCommit(p) PROVE TypeInv'
  BY <1>24 DEF TrashFolderCommit, Finish
<1>25. ASSUME NEW p \in Procs, RestoreFolderWrite(p) PROVE TypeInv'
  BY <1>25 DEF RestoreFolderWrite, Write, BlobsIn
<1>26. ASSUME NEW p \in Procs, RestoreFolderCommit(p) PROVE TypeInv'
  BY <1>26 DEF RestoreFolderCommit, Finish
<1>27. ASSUME NEW p \in Procs, RestoreFolderRefused(p) PROVE TypeInv'
  BY <1>27 DEF RestoreFolderRefused, Finish
<1>28. ASSUME NEW p \in Procs, HardDeleteFolderBlobs(p) PROVE TypeInv'
  BY <1>28, SMTT(30) DEF HardDeleteFolderBlobs, Write, BlobsIn
<1>29. ASSUME NEW p \in Procs, HardDeleteFolderCommit(p) PROVE TypeInv'
  <2>1. (req[p].tx) \in SUBSET Blobs
    OBVIOUS
  <2>2. /\ WithKeys("remove.keys", req[p].tx) \in Request
        /\ WithKeys("remove.keys", req[p].tx).pc \in {"idle", "remove.keys"}
    BY <2>1, WithKeysFacts
  <2>3. req' = [req EXCEPT ![p] = WithKeys("remove.keys", req[p].tx)]
    BY <1>29 DEF HardDeleteFolderCommit
  <2>4. req' \in [Procs -> Request] /\ LocalsOK'
    BY <2>2, <2>3
  <2>5. QED
    BY <1>29, <2>4 DEF HardDeleteFolderCommit, DeleteFolders
<1>30. ASSUME NEW p \in Procs, EmptyTrashFolders(p) PROVE TypeInv'
  BY <1>30, SMTT(30) DEF EmptyTrashFolders, Write, BlobsIn, TrashedFolders
<1>31. ASSUME NEW p \in Procs, EmptyTrashCommit(p) PROVE TypeInv'
  <2>1. (req[p].keys \cup req[p].tx) \in SUBSET Blobs
    OBVIOUS
  <2>2. /\ WithKeys("remove.keys", req[p].keys \cup req[p].tx) \in Request
        /\ WithKeys("remove.keys", req[p].keys \cup req[p].tx).pc \in {"idle", "remove.keys"}
    BY <2>1, WithKeysFacts
  <2>3. req' = [req EXCEPT ![p] = WithKeys("remove.keys", req[p].keys \cup req[p].tx)]
    BY <1>31 DEF EmptyTrashCommit
  <2>4. req' \in [Procs -> Request] /\ LocalsOK'
    BY <2>2, <2>3
  <2>5. QED
    BY <1>31, <2>4 DEF EmptyTrashCommit, DeleteFolders
<1>32. ASSUME NEW p \in Procs, RemoveKey(p) PROVE TypeInv'
  <2>1. PICK b \in req[p].keys : DropKey(p, "remove.keys", b)
    BY <1>32 DEF RemoveKey
  <2>2. req[p].keys \ {b} \in SUBSET Blobs
    OBVIOUS
  <2>3. WithKeys("remove.keys", req[p].keys \ {b}) \in Request
    BY <2>2, WithKeysFacts DEF Labels
  <2>4. QED
    BY <1>32, <2>1, <2>3, <2>2, WithKeysFacts DEF RemoveKey, DropKey
<1>33. ASSUME NEW p \in Procs, InitiateRegisterFails(p) PROVE TypeInv'
  BY <1>33 DEF InitiateRegisterFails, InsertRow, Goto
<1>34. ASSUME NEW p \in Procs, Fail(p) PROVE TypeInv'
  BY <1>34 DEF Fail, Finish
<1>35. ASSUME NEW p \in Procs, SkipKey(p) PROVE TypeInv'
  <2>1. PICK b \in req[p].keys : DropKey(p, req[p].pc, b)
    BY <1>35 DEF SkipKey
  <2>2. req[p].keys \ {b} \in SUBSET Blobs /\ req[p].pc \in {"remove.keys", "orphan.keys"}
    BY <1>35 DEF SkipKey
  <2>3. /\ WithKeys(req[p].pc, req[p].keys \ {b}) \in Request
        /\ WithKeys(req[p].pc, req[p].keys \ {b}).pc \in {"idle", "remove.keys", "orphan.keys"}
    BY <2>2, WithKeysFacts
  <2>4. req' \in [Procs -> Request] /\ LocalsOK'
    BY <2>1, <2>3 DEF DropKey
  <2>5. QED
    BY <1>35, <2>4 DEF SkipKey
<1>36. ASSUME NEW u \in Users, NEW b \in Blobs, TrashBlob(u, b) PROVE TypeInv'
  BY <1>36 DEF TrashBlob
<1>37. ASSUME NEW u \in Users, NEW b \in Blobs, RestoreBlob(u, b) PROVE TypeInv'
  BY <1>37 DEF RestoreBlob, Trashed
<1>38. CASE PurgeOrphanedBlobs
  BY <1>38, ZenonT(40) DEF PurgeOrphanedBlobs, Start, WithKeys, DeleteRows, Pending
<1>39. CASE OrphanAbort
  <2>1. PICK b \in req[OrphanJob].keys : DropKey(OrphanJob, "orphan.keys", b)
    BY <1>39 DEF OrphanAbort
  <2>2. req[OrphanJob].keys \ {b} \in SUBSET Blobs
    OBVIOUS
  <2>3. WithKeys("orphan.keys", req[OrphanJob].keys \ {b}) \in Request
    BY <2>2, WithKeysFacts DEF Labels
  <2>4. QED
    BY <1>39, <2>1, <2>3, <2>2, WithKeysFacts DEF OrphanAbort, DropKey
<1>40. CASE PurgeExpiredBlobs
  BY <1>40 DEF PurgeExpiredBlobs, Start, DeleteRows, Trashed
<1>41. CASE PurgeExpiredFolders
  <2> DEFINE S == BlobsIn(ExpiredFolders)
  <2>1. S \in SUBSET Blobs /\ req[TrashJob] \in Request /\ TrashJob \in Procs
    BY DEF BlobsIn
  <2>2. req' = [req EXCEPT ![TrashJob] = [req[TrashJob] EXCEPT !.pc = "expire.commit", !.tx = S]]
    BY <1>41 DEF PurgeExpiredFolders, Write
  <2> HIDE DEF S
  <2>3. [req[TrashJob] EXCEPT !.pc = "expire.commit", !.tx = S] \in Request
    <3>1. \A r \in Request : [r EXCEPT !.pc = "expire.commit", !.tx = S] \in Request
      BY <2>1
    <3>2. QED
      BY <2>1, <3>1
  <2>4. req' \in [Procs -> Request] /\ LocalsOK'
    BY <2>2, <2>3
  <2>5. QED
    BY <1>41, <2>4 DEF PurgeExpiredFolders, Write
<1>42. CASE PurgeExpiredCommit
  <2>1. (req[TrashJob].keys \cup req[TrashJob].tx) \in SUBSET Blobs
    OBVIOUS
  <2>2. /\ WithKeys("remove.keys", req[TrashJob].keys \cup req[TrashJob].tx) \in Request
        /\ WithKeys("remove.keys", req[TrashJob].keys \cup req[TrashJob].tx).pc \in {"idle", "remove.keys"}
    BY <2>1, WithKeysFacts
  <2>3. req' = [req EXCEPT ![TrashJob] = WithKeys("remove.keys", req[TrashJob].keys \cup req[TrashJob].tx)]
    BY <1>42 DEF PurgeExpiredCommit
  <2>4. req' \in [Procs -> Request] /\ LocalsOK'
    BY <2>2, <2>3
  <2>5. QED
    BY <1>42, <2>4 DEF PurgeExpiredCommit, DeleteFolders
<1>43. ASSUME NEW b \in Blobs, AgeRow(b) PROVE TypeInv'
  BY <1>43 DEF AgeRow
<1>44. ASSUME NEW b \in Blobs, AgeTrash(b) PROVE TypeInv'
  BY <1>44 DEF AgeTrash, Trashed
<1>45. ASSUME NEW f \in Folders, AgeFolder(f) PROVE TypeInv'
  BY <1>45 DEF AgeFolder
<1>46. CASE UNCHANGED vars
  BY <1>46 DEF vars
<1>47. QED
  BY <1>1, <1>2, <1>3, <1>4, <1>5, <1>6, <1>7, <1>8, <1>9, <1>10, <1>11, <1>12, <1>13,
     <1>14, <1>15, <1>16, <1>17, <1>18, <1>19, <1>20, <1>21, <1>22, <1>23, <1>24,
     <1>25, <1>26, <1>27, <1>28, <1>29, <1>30, <1>31, <1>32, <1>33, <1>34, <1>35,
     <1>36, <1>37, <1>38, <1>39, <1>40, <1>41, <1>42, <1>43, <1>44, <1>45, <1>46
     DEF Next, Continue

\* The locals and the tables always have the types the code declares.
THEOREM TypeCorrect == Spec => []TypeOK
<1>1. TypeInv => TypeOK
  BY DEF TypeInv
<1>2. QED
  BY <1>1, InitTypeInv, NextTypeInv, PTL DEF Spec
-----------------------------------------------------------------------------
\* Identities.  Ids are handed out once; a blob whose upload is not registered
\* yet is known to its own handler only; keys collected for removal have no
\* row any more and never get one again; rows a transaction wrote are known ids.
RefersTo(p, b) == req[p].blob = b \/ b \in req[p].keys \/ b \in req[p].tx

IdsInv ==
    /\ rows \subseteq used
    /\ uploadedAt \subseteq used
    /\ \A p \in Procs :
        /\ req[p].blob \in used \cup {None}
        /\ req[p].keys \subseteq used \ rows
        /\ req[p].keys # {} => req[p].pc \in KeyLabels
        /\ req[p].tx \subseteq used
        /\ req[p].tx # {} => req[p].pc \in TxLabels
        /\ req[p].pc \in EarlyLabels =>
            /\ req[p].blob \notin rows
            /\ req[p].blob \notin uploadedAt
            /\ \A q \in Procs \ {p} : ~RefersTo(q, req[p].blob)

\* A confirmed upload, or one MinIO has completed, is not open any more.
SpentOK ==
    /\ uploadedAt \cap mpu = {}
    /\ \A p \in Procs :
        req[p].pc \in {"complete.stat", "complete.confirm"} => req[p].blob \notin mpu

\* A hard delete works on a blob that is in the trash, gone, or was restored.
HardOK ==
    \A p \in Procs :
        /\ req[p].pc \in {"hard.remove", "hard.row"}
        /\ req[p].blob \notin restored
        => req[p].blob \notin rows \/ req[p].blob \in deletedAt

\* What is about to be confirmed is there.
ConfirmOK ==
    \A p \in Procs :
        /\ req[p].pc = "complete.confirm"
        /\ Pending(req[p].blob) /\ req[p].blob \notin restored
        => req[p].blob \in objects

\* The orphan job works on uploads that were never confirmed.
OrphanOK ==
    \A p \in Procs : req[p].pc = "orphan.keys" => req[p].keys \cap uploadedAt = {}

SafeInv ==
    /\ SpentOK
    /\ HardOK
    /\ ConfirmOK
    /\ OrphanOK
    /\ ServedBlobHasObject
    /\ RecordOutlivesObject
    /\ Failing = {} => PurgedObjectIsOwed

\* No id is in use at the start.
LEMMA InitIds == Init => IdsInv
  BY DEF Init, IdsInv, Idle, EarlyLabels, RefersTo

\* No step reuses an id or gives a purged blob its row back.
LEMMA NextIds == TypeInv /\ IdsInv /\ [Next]_vars => IdsInv'
<1> SUFFICES ASSUME TypeInv, IdsInv, [Next]_vars PROVE IdsInv'
  OBVIOUS
<1> USE UsersAssumption, BlobsAssumption, ProcsAssumption
<1> USE DEF TypeInv, TypeOK, LocalsOK, Procs, Request, Idle, BlobLabels, EarlyLabels, KeyLabels,
        TxLabels, blobVars, folderVars, minioVars, histVars, IdsInv, RefersTo
<1>1. ASSUME NEW p \in Reqs, NEW u \in Users, NEW n \in Sizes, NEW f \in Folders \cup {None},
             InitiateCheckQuota(p, u, n, f)
      PROVE  IdsInv'
  BY <1>1 DEF InitiateCheckQuota, Start
<1>2. ASSUME NEW p \in Reqs, NEW u \in Users, NEW b \in Blobs,
             CompleteRead(p, u, b)
      PROVE  IdsInv'
  BY <1>2 DEF CompleteRead, Start, OnBlob, Pending
<1>3. ASSUME NEW p \in Reqs, NEW u \in Users, NEW b \in Blobs,
             AbortRead(p, u, b)
      PROVE  IdsInv'
  BY <1>3 DEF AbortRead, Start, OnBlob, Pending
<1>4. ASSUME NEW p \in Reqs, NEW u \in Users, NEW b \in Blobs,
             HardDeletePeek(p, u, b)
      PROVE  IdsInv'
  BY <1>4 DEF HardDeletePeek, Start, OnBlob, Trashed
<1>5. ASSUME NEW p \in Reqs, NEW u \in Users, NEW b \in Blobs, NEW f \in Folders \cup {None},
             MoveBlobCheck(p, u, b, f)
      PROVE  IdsInv'
  BY <1>5 DEF MoveBlobCheck, Start, OnBlob
<1>6. ASSUME NEW p \in Reqs, NEW u \in Users, NEW f \in Folders,
             TrashFolderRead(p, u, f)
      PROVE  IdsInv'
  BY <1>6 DEF TrashFolderRead, Start, OnFolder
<1>7. ASSUME NEW p \in Reqs, NEW u \in Users, NEW f \in Folders,
             RestoreFolderRead(p, u, f)
      PROVE  IdsInv'
  BY <1>7 DEF RestoreFolderRead, Start, OnFolder
<1>8. ASSUME NEW p \in Reqs, NEW u \in Users, NEW f \in Folders,
             HardDeleteFolderRead(p, u, f)
      PROVE  IdsInv'
  BY <1>8 DEF HardDeleteFolderRead, Start, OnFolder
<1>9. ASSUME NEW p \in Reqs, NEW u \in Users, EmptyTrashBlobs(p, u) PROVE IdsInv'
  BY <1>9 DEF EmptyTrashBlobs, Start, DeleteRows
<1>10. ASSUME NEW p \in Procs, InitiateRequireFolder(p) PROVE IdsInv'
  BY <1>10 DEF InitiateRequireFolder, Goto, Finish
<1>11. ASSUME NEW p \in Procs, InitiateNewUpload(p) PROVE IdsInv'
  BY <1>11 DEF InitiateNewUpload, Goto
<1>12. ASSUME NEW p \in Procs, InitiateRegister(p) PROVE IdsInv'
  BY <1>12 DEF InitiateRegister, InsertRow, Goto
<1>13. ASSUME NEW p \in Procs, InitiatePresign(p) PROVE IdsInv'
  BY <1>13 DEF InitiatePresign, Goto, Finish
<1>14. ASSUME NEW p \in Procs, InitiateAbort(p) PROVE IdsInv'
  BY <1>14 DEF InitiateAbort, Finish
<1>15. ASSUME NEW p \in Procs, CompleteAtMinio(p) PROVE IdsInv'
  BY <1>15 DEF CompleteAtMinio, Goto, Finish
<1>16. ASSUME NEW p \in Procs, CompleteStat(p) PROVE IdsInv'
  BY <1>16 DEF CompleteStat, Finish
<1>17. ASSUME NEW p \in Procs, CompleteConfirm(p) PROVE IdsInv'
  BY <1>17 DEF CompleteConfirm, Finish, Pending
<1>18. ASSUME NEW p \in Procs, AbortAtMinio(p) PROVE IdsInv'
  BY <1>18 DEF AbortAtMinio, Goto, Finish
<1>19. ASSUME NEW p \in Procs, AbortRow(p) PROVE IdsInv'
  BY <1>19 DEF AbortRow, Finish, Pending
<1>20. ASSUME NEW p \in Procs, HardDeleteRemove(p) PROVE IdsInv'
  BY <1>20 DEF HardDeleteRemove, Goto
<1>21. ASSUME NEW p \in Procs, HardDeleteRow(p) PROVE IdsInv'
  BY <1>21 DEF HardDeleteRow, Finish, Trashed
<1>22. ASSUME NEW p \in Procs, MoveBlobRow(p) PROVE IdsInv'
  BY <1>22 DEF MoveBlobRow, Finish
<1>23. ASSUME NEW p \in Procs, TrashFolderWrite(p) PROVE IdsInv'
  BY <1>23 DEF TrashFolderWrite, Write, BlobsIn
<1>24. ASSUME NEW p \in Procs, TrashFolderCommit(p) PROVE IdsInv'
  BY <1>24 DEF TrashFolderCommit, Finish
<1>25. ASSUME NEW p \in Procs, RestoreFolderWrite(p) PROVE IdsInv'
  BY <1>25 DEF RestoreFolderWrite, Write, BlobsIn
<1>26. ASSUME NEW p \in Procs, RestoreFolderCommit(p) PROVE IdsInv'
  BY <1>26 DEF RestoreFolderCommit, Finish
<1>27. ASSUME NEW p \in Procs, RestoreFolderRefused(p) PROVE IdsInv'
  BY <1>27 DEF RestoreFolderRefused, Finish
<1>28. ASSUME NEW p \in Procs, HardDeleteFolderBlobs(p) PROVE IdsInv'
  BY <1>28 DEF HardDeleteFolderBlobs, Write, BlobsIn
<1>29. ASSUME NEW p \in Procs, HardDeleteFolderCommit(p) PROVE IdsInv'
  BY <1>29 DEF HardDeleteFolderCommit, WithKeys, DeleteFolders, BlobsIn
<1>30. ASSUME NEW p \in Procs, EmptyTrashFolders(p) PROVE IdsInv'
  BY <1>30 DEF EmptyTrashFolders, Write, BlobsIn
<1>31. ASSUME NEW p \in Procs, EmptyTrashCommit(p) PROVE IdsInv'
  BY <1>31 DEF EmptyTrashCommit, WithKeys, DeleteFolders, BlobsIn
<1>32. ASSUME NEW p \in Procs, RemoveKey(p) PROVE IdsInv'
  BY <1>32 DEF RemoveKey, DropKey, WithKeys
<1>33. ASSUME NEW p \in Procs, InitiateRegisterFails(p) PROVE IdsInv'
  BY <1>33 DEF InitiateRegisterFails, InsertRow, Goto
<1>34. ASSUME NEW p \in Procs, Fail(p) PROVE IdsInv'
  BY <1>34 DEF Fail, Finish
<1>35. ASSUME NEW p \in Procs, SkipKey(p) PROVE IdsInv'
  BY <1>35 DEF SkipKey, DropKey, WithKeys
<1>36. ASSUME NEW u \in Users, NEW b \in Blobs, TrashBlob(u, b) PROVE IdsInv'
  BY <1>36 DEF TrashBlob
<1>37. ASSUME NEW u \in Users, NEW b \in Blobs, RestoreBlob(u, b) PROVE IdsInv'
  BY <1>37 DEF RestoreBlob, Trashed
<1>38. CASE PurgeOrphanedBlobs
  BY <1>38 DEF PurgeOrphanedBlobs, Start, WithKeys, DeleteRows, Pending
<1>39. CASE OrphanAbort
  BY <1>39 DEF OrphanAbort, DropKey, WithKeys
<1>40. CASE PurgeExpiredBlobs
  BY <1>40 DEF PurgeExpiredBlobs, Start, DeleteRows, Trashed
<1>41. CASE PurgeExpiredFolders
  BY <1>41 DEF PurgeExpiredFolders, Write, BlobsIn
<1>42. CASE PurgeExpiredCommit
  BY <1>42 DEF PurgeExpiredCommit, WithKeys, DeleteFolders, BlobsIn
<1>43. ASSUME NEW b \in Blobs, AgeRow(b) PROVE IdsInv'
  BY <1>43 DEF AgeRow
<1>44. ASSUME NEW b \in Blobs, AgeTrash(b) PROVE IdsInv'
  BY <1>44 DEF AgeTrash, Trashed
<1>45. ASSUME NEW f \in Folders, AgeFolder(f) PROVE IdsInv'
  BY <1>45 DEF AgeFolder
<1>46. CASE UNCHANGED vars
  BY <1>46 DEF vars
<1>47. QED
  BY <1>1, <1>2, <1>3, <1>4, <1>5, <1>6, <1>7, <1>8, <1>9, <1>10, <1>11, <1>12, <1>13,
     <1>14, <1>15, <1>16, <1>17, <1>18, <1>19, <1>20, <1>21, <1>22, <1>23, <1>24,
     <1>25, <1>26, <1>27, <1>28, <1>29, <1>30, <1>31, <1>32, <1>33, <1>34, <1>35,
     <1>36, <1>37, <1>38, <1>39, <1>40, <1>41, <1>42, <1>43, <1>44, <1>45, <1>46
     DEF Next, Continue

\* Nothing is stored at the start.
LEMMA InitSafe == Init => SafeInv
  BY DEF Init, SafeInv, SpentOK, HardOK, ConfirmOK, OrphanOK, ServedBlobHasObject,
     RecordOutlivesObject, PurgedObjectIsOwed, Idle, Visible

\* No step of any handler, and no failure, breaks the safety invariant.
LEMMA NextSafe == TypeInv /\ IdsInv /\ SafeInv /\ [Next]_vars => SafeInv'
<1> SUFFICES ASSUME TypeInv, IdsInv, SafeInv, [Next]_vars PROVE SafeInv'
  OBVIOUS
<1> USE UsersAssumption, BlobsAssumption, ProcsAssumption
<1> USE DEF TypeInv, TypeOK, LocalsOK, Procs, Request, Idle, BlobLabels, EarlyLabels, KeyLabels,
        TxLabels, histVars,
        blobVars, folderVars, minioVars, IdsInv, RefersTo,
        SafeInv, SpentOK, HardOK, ConfirmOK, OrphanOK, ServedBlobHasObject,
        RecordOutlivesObject, PurgedObjectIsOwed, Visible, Pending
<1>1. ASSUME NEW p \in Reqs, NEW u \in Users, NEW n \in Sizes, NEW f \in Folders \cup {None},
             InitiateCheckQuota(p, u, n, f)
      PROVE  SafeInv'
  BY <1>1 DEF InitiateCheckQuota, Start
<1>2. ASSUME NEW p \in Reqs, NEW u \in Users, NEW b \in Blobs,
             CompleteRead(p, u, b)
      PROVE  SafeInv'
  BY <1>2 DEF CompleteRead, Start, OnBlob, Pending
<1>3. ASSUME NEW p \in Reqs, NEW u \in Users, NEW b \in Blobs,
             AbortRead(p, u, b)
      PROVE  SafeInv'
  BY <1>3 DEF AbortRead, Start, OnBlob, Pending
<1>4. ASSUME NEW p \in Reqs, NEW u \in Users, NEW b \in Blobs,
             HardDeletePeek(p, u, b)
      PROVE  SafeInv'
  BY <1>4 DEF HardDeletePeek, Start, OnBlob, Trashed
<1>5. ASSUME NEW p \in Reqs, NEW u \in Users, NEW b \in Blobs, NEW f \in Folders \cup {None},
             MoveBlobCheck(p, u, b, f)
      PROVE  SafeInv'
  BY <1>5 DEF MoveBlobCheck, Start, OnBlob
<1>6. ASSUME NEW p \in Reqs, NEW u \in Users, NEW f \in Folders,
             TrashFolderRead(p, u, f)
      PROVE  SafeInv'
  BY <1>6 DEF TrashFolderRead, Start, OnFolder
<1>7. ASSUME NEW p \in Reqs, NEW u \in Users, NEW f \in Folders,
             RestoreFolderRead(p, u, f)
      PROVE  SafeInv'
  BY <1>7 DEF RestoreFolderRead, Start, OnFolder
<1>8. ASSUME NEW p \in Reqs, NEW u \in Users, NEW f \in Folders,
             HardDeleteFolderRead(p, u, f)
      PROVE  SafeInv'
  BY <1>8 DEF HardDeleteFolderRead, Start, OnFolder
<1>9. ASSUME NEW p \in Reqs, NEW u \in Users, EmptyTrashBlobs(p, u) PROVE SafeInv'
  BY <1>9 DEF EmptyTrashBlobs, Start, DeleteRows
<1>10. ASSUME NEW p \in Procs, InitiateRequireFolder(p) PROVE SafeInv'
  BY <1>10 DEF InitiateRequireFolder, Goto, Finish
<1>11. ASSUME NEW p \in Procs, InitiateNewUpload(p) PROVE SafeInv'
  BY <1>11 DEF InitiateNewUpload, Goto
<1>12. ASSUME NEW p \in Procs, InitiateRegister(p) PROVE SafeInv'
  BY <1>12 DEF InitiateRegister, InsertRow, Goto
<1>13. ASSUME NEW p \in Procs, InitiatePresign(p) PROVE SafeInv'
  BY <1>13 DEF InitiatePresign, Goto, Finish
<1>14. ASSUME NEW p \in Procs, InitiateAbort(p) PROVE SafeInv'
  BY <1>14 DEF InitiateAbort, Finish
<1>15. ASSUME NEW p \in Procs, CompleteAtMinio(p) PROVE SafeInv'
  BY <1>15 DEF CompleteAtMinio, Goto, Finish
<1>16. ASSUME NEW p \in Procs, CompleteStat(p) PROVE SafeInv'
  BY <1>16 DEF CompleteStat, Finish
<1>17. ASSUME NEW p \in Procs, CompleteConfirm(p) PROVE SafeInv'
  BY <1>17 DEF CompleteConfirm, Finish, Pending
<1>18. ASSUME NEW p \in Procs, AbortAtMinio(p) PROVE SafeInv'
  BY <1>18 DEF AbortAtMinio, Goto, Finish
<1>19. ASSUME NEW p \in Procs, AbortRow(p) PROVE SafeInv'
  BY <1>19 DEF AbortRow, Finish, Pending
<1>20. ASSUME NEW p \in Procs, HardDeleteRemove(p) PROVE SafeInv'
  BY <1>20 DEF HardDeleteRemove, Goto
<1>21. ASSUME NEW p \in Procs, HardDeleteRow(p) PROVE SafeInv'
  BY <1>21 DEF HardDeleteRow, Finish, Trashed
<1>22. ASSUME NEW p \in Procs, MoveBlobRow(p) PROVE SafeInv'
  BY <1>22 DEF MoveBlobRow, Finish
<1>23. ASSUME NEW p \in Procs, TrashFolderWrite(p) PROVE SafeInv'
  <2>1. /\ \A q \in Procs \ {p} : req'[q] = req[q]
        /\ req'[p].pc = "trash.commit" /\ req'[p].blob = req[p].blob
        /\ req'[p].keys = req[p].keys
    BY <1>23 DEF TrashFolderWrite, Write
  <2>2. UNCHANGED <<blobVars, folderVars, minioVars, histVars>>
    BY <1>23 DEF TrashFolderWrite, Write
  <2>3. QED
    BY <2>1, <2>2
<1>24. ASSUME NEW p \in Procs, TrashFolderCommit(p) PROVE SafeInv'
  BY <1>24 DEF TrashFolderCommit, Finish
<1>25. ASSUME NEW p \in Procs, RestoreFolderWrite(p) PROVE SafeInv'
  <2>1. /\ \A q \in Procs \ {p} : req'[q] = req[q]
        /\ req'[p].pc = "restore.commit" /\ req'[p].blob = req[p].blob
        /\ req'[p].keys = req[p].keys
    BY <1>25 DEF RestoreFolderWrite, Write
  <2>2. UNCHANGED <<blobVars, folderVars, minioVars, histVars>>
    BY <1>25 DEF RestoreFolderWrite, Write
  <2>3. QED
    BY <2>1, <2>2
<1>26. ASSUME NEW p \in Procs, RestoreFolderCommit(p) PROVE SafeInv'
  BY <1>26 DEF RestoreFolderCommit, Finish
<1>27. ASSUME NEW p \in Procs, RestoreFolderRefused(p) PROVE SafeInv'
  BY <1>27 DEF RestoreFolderRefused, Finish
<1>28. ASSUME NEW p \in Procs, HardDeleteFolderBlobs(p) PROVE SafeInv'
  <2>1. /\ \A q \in Procs \ {p} : req'[q] = req[q]
        /\ req'[p].pc = "drop.commit" /\ req'[p].blob = req[p].blob
        /\ req'[p].keys = req[p].keys
    BY <1>28 DEF HardDeleteFolderBlobs, Write
  <2>2. UNCHANGED <<blobVars, folderVars, minioVars, histVars>>
    BY <1>28 DEF HardDeleteFolderBlobs, Write
  <2>3. QED
    BY <2>1, <2>2
<1>29. ASSUME NEW p \in Procs, HardDeleteFolderCommit(p) PROVE SafeInv'
  BY <1>29 DEF HardDeleteFolderCommit, WithKeys, DeleteFolders, BlobsIn
<1>30. ASSUME NEW p \in Procs, EmptyTrashFolders(p) PROVE SafeInv'
  <2>1. /\ \A q \in Procs \ {p} : req'[q] = req[q]
        /\ req'[p].pc = "empty.commit" /\ req'[p].blob = req[p].blob
        /\ req'[p].keys = req[p].keys
    BY <1>30 DEF EmptyTrashFolders, Write
  <2>2. UNCHANGED <<blobVars, folderVars, minioVars, histVars>>
    BY <1>30 DEF EmptyTrashFolders, Write
  <2>3. QED
    BY <2>1, <2>2
<1>31. ASSUME NEW p \in Procs, EmptyTrashCommit(p) PROVE SafeInv'
  BY <1>31 DEF EmptyTrashCommit, WithKeys, DeleteFolders, BlobsIn
<1>32. ASSUME NEW p \in Procs, RemoveKey(p) PROVE SafeInv'
  BY <1>32 DEF RemoveKey, DropKey, WithKeys
<1>33. ASSUME NEW p \in Procs, InitiateRegisterFails(p) PROVE SafeInv'
  BY <1>33 DEF InitiateRegisterFails, InsertRow, Goto
<1>34. ASSUME NEW p \in Procs, Fail(p) PROVE SafeInv'
  BY <1>34 DEF Fail, Finish
<1>35. ASSUME NEW p \in Procs, SkipKey(p) PROVE SafeInv'
  BY <1>35 DEF SkipKey, DropKey, WithKeys
<1>36. ASSUME NEW u \in Users, NEW b \in Blobs, TrashBlob(u, b) PROVE SafeInv'
  BY <1>36 DEF TrashBlob
<1>37. ASSUME NEW u \in Users, NEW b \in Blobs, RestoreBlob(u, b) PROVE SafeInv'
  BY <1>37 DEF RestoreBlob, Trashed
<1>38. CASE PurgeOrphanedBlobs
  BY <1>38 DEF PurgeOrphanedBlobs, Start, WithKeys, DeleteRows, Pending
<1>39. CASE OrphanAbort
  BY <1>39 DEF OrphanAbort, DropKey, WithKeys
<1>40. CASE PurgeExpiredBlobs
  BY <1>40 DEF PurgeExpiredBlobs, Start, DeleteRows, Trashed
<1>41. CASE PurgeExpiredFolders
  <2>1. /\ \A q \in Procs \ {TrashJob} : req'[q] = req[q]
        /\ req'[TrashJob].pc = "expire.commit" /\ req'[TrashJob].blob = req[TrashJob].blob
        /\ req'[TrashJob].keys = req[TrashJob].keys
    BY <1>41 DEF PurgeExpiredFolders, Write
  <2>2. UNCHANGED <<blobVars, folderVars, minioVars, histVars>>
    BY <1>41 DEF PurgeExpiredFolders, Write
  <2>3. QED
    BY <2>1, <2>2
<1>42. CASE PurgeExpiredCommit
  BY <1>42 DEF PurgeExpiredCommit, WithKeys, DeleteFolders, BlobsIn
<1>43. ASSUME NEW b \in Blobs, AgeRow(b) PROVE SafeInv'
  BY <1>43 DEF AgeRow
<1>44. ASSUME NEW b \in Blobs, AgeTrash(b) PROVE SafeInv'
  BY <1>44 DEF AgeTrash, Trashed
<1>45. ASSUME NEW f \in Folders, AgeFolder(f) PROVE SafeInv'
  BY <1>45 DEF AgeFolder
<1>46. CASE UNCHANGED vars
  BY <1>46 DEF vars
<1>47. QED
  BY <1>1, <1>2, <1>3, <1>4, <1>5, <1>6, <1>7, <1>8, <1>9, <1>10, <1>11, <1>12, <1>13,
     <1>14, <1>15, <1>16, <1>17, <1>18, <1>19, <1>20, <1>21, <1>22, <1>23, <1>24,
     <1>25, <1>26, <1>27, <1>28, <1>29, <1>30, <1>31, <1>32, <1>33, <1>34, <1>35,
     <1>36, <1>37, <1>38, <1>39, <1>40, <1>41, <1>42, <1>43, <1>44, <1>45, <1>46
     DEF Next, Continue

-----------------------------------------------------------------------------
\* The three invariants together hold in every reachable state.
LEMMA Inductive == Spec => [](TypeInv /\ IdsInv /\ SafeInv)
<1>1. Init => TypeInv /\ IdsInv /\ SafeInv
  BY InitTypeInv, InitIds, InitSafe
<1>2. TypeInv /\ IdsInv /\ SafeInv /\ [Next]_vars => (TypeInv /\ IdsInv /\ SafeInv)'
  BY NextTypeInv, NextIds, NextSafe
<1>3. QED
  BY <1>1, <1>2, PTL DEF Spec

\* A file that PresignGet serves has its object unless it was once restored
\* from the trash: completing, aborting, purging and failing in any order
\* lose no data.
THEOREM ServedBlobsAreStored == Spec => []ServedBlobHasObject
<1>1. SafeInv => ServedBlobHasObject
  BY DEF SafeInv
<1>2. QED
  BY <1>1, Inductive, PTL

\* HardDeleteBlob deletes a confirmed file's record only after its object,
\* also when calls fail in between.
THEOREM HardDeleteOrder == Spec => []RecordOutlivesObject
<1>1. SafeInv => RecordOutlivesObject
  BY DEF SafeInv
<1>2. QED
  BY <1>1, Inductive, PTL

\* Where no call fails, each of the five ways to delete a confirmed file's
\* row leaves a handler that still removes its object.
THEOREM PurgeCompletes == Spec => [](Failing = {} => PurgedObjectIsOwed)
<1>1. SafeInv => (Failing = {} => PurgedObjectIsOwed)
  BY DEF SafeInv
<1>2. QED
  BY <1>1, Inductive, PTL

-----------------------------------------------------------------------------
\* The quota

\* What a row counts for: no more than the upload was declared to be.
Worth == [b \in Blobs |-> IF size[b] < declared[b] THEN size[b] ELSE declared[b]]

\* An upload on its way to RegisterBlob is a request's and passed the check of
\* MAX_UPLOAD_BYTES; a row has the declared size until its upload is confirmed.
SizesInv ==
    /\ IsFiniteSet(rows)
    /\ \A p \in Procs : req[p].pc \in EarlyLabels =>
        p \in Reqs /\ (MaxUploadBytes > 0 => req[p].size <= MaxUploadBytes)
    /\ \A b \in rows \ uploadedAt : size[b] = declared[b]

\* A step that adds nothing to any user's usage, present or to come.
Quiet ==
    /\ rows' \subseteq rows
    /\ UNCHANGED <<owner, size, declared, uploadedAt>>
    /\ \A p \in Procs : req'[p].pc \in EarlyLabels =>
        /\ req[p].pc \in EarlyLabels
        /\ req'[p].user = req[p].user /\ req'[p].size = req[p].size

\* RegisterBlob of the upload of p commits.
Registers(p) ==
    /\ req[p].pc = "init.register"
    /\ InsertRow(req[p].blob, req[p].user, req[p].size, req[p].folder)
    /\ Goto(p, "init.presign") \/ Goto(p, "init.abort")

\* Which steps are not quiet: the check of the quota, RegisterBlob and
\* ConfirmBlobUpload.
LEMMA QuotaCases ==
    ASSUME TypeInv, IdsInv, [Next]_vars
    PROVE  \/ Quiet
           \/ \E p \in Reqs, u \in Users, n \in Sizes, f \in Folders \cup {None} :
                InitiateCheckQuota(p, u, n, f)
           \/ \E p \in Procs : Registers(p) \/ CompleteConfirm(p)
<1> USE UsersAssumption, BlobsAssumption, ProcsAssumption
<1> USE DEF TypeInv, TypeOK, LocalsOK, Procs, Request, Idle, BlobLabels, EarlyLabels, KeyLabels,
        blobVars, folderVars, minioVars, histVars, Quiet
<1>1. ASSUME NEW p \in Reqs, NEW u \in Users, NEW b \in Blobs,
             CompleteRead(p, u, b)
      PROVE  Quiet
  BY <1>1 DEF CompleteRead, Start, OnBlob, Pending
<1>2. ASSUME NEW p \in Reqs, NEW u \in Users, NEW b \in Blobs,
             AbortRead(p, u, b)
      PROVE  Quiet
  BY <1>2 DEF AbortRead, Start, OnBlob, Pending
<1>3. ASSUME NEW p \in Reqs, NEW u \in Users, NEW b \in Blobs,
             HardDeletePeek(p, u, b)
      PROVE  Quiet
  BY <1>3 DEF HardDeletePeek, Start, OnBlob, Trashed
<1>4. ASSUME NEW p \in Reqs, NEW u \in Users, NEW b \in Blobs, NEW f \in Folders \cup {None},
             MoveBlobCheck(p, u, b, f)
      PROVE  Quiet
  BY <1>4 DEF MoveBlobCheck, Start, OnBlob
<1>5. ASSUME NEW p \in Reqs, NEW u \in Users, NEW f \in Folders,
             TrashFolderRead(p, u, f)
      PROVE  Quiet
  BY <1>5 DEF TrashFolderRead, Start, OnFolder
<1>6. ASSUME NEW p \in Reqs, NEW u \in Users, NEW f \in Folders,
             RestoreFolderRead(p, u, f)
      PROVE  Quiet
  BY <1>6 DEF RestoreFolderRead, Start, OnFolder
<1>7. ASSUME NEW p \in Reqs, NEW u \in Users, NEW f \in Folders,
             HardDeleteFolderRead(p, u, f)
      PROVE  Quiet
  BY <1>7 DEF HardDeleteFolderRead, Start, OnFolder
<1>8. ASSUME NEW p \in Reqs, NEW u \in Users, EmptyTrashBlobs(p, u) PROVE Quiet
  BY <1>8 DEF EmptyTrashBlobs, Start, DeleteRows
<1>9. ASSUME NEW p \in Procs, InitiateRequireFolder(p) PROVE Quiet
  BY <1>9 DEF InitiateRequireFolder, Goto, Finish
<1>10. ASSUME NEW p \in Procs, InitiateNewUpload(p) PROVE Quiet
  BY <1>10 DEF InitiateNewUpload, Goto
<1>11. ASSUME NEW p \in Procs, InitiatePresign(p) PROVE Quiet
  BY <1>11 DEF InitiatePresign, Goto, Finish
<1>12. ASSUME NEW p \in Procs, InitiateAbort(p) PROVE Quiet
  BY <1>12 DEF InitiateAbort, Finish
<1>13. ASSUME NEW p \in Procs, CompleteAtMinio(p) PROVE Quiet
  BY <1>13 DEF CompleteAtMinio, Goto, Finish
<1>14. ASSUME NEW p \in Procs, CompleteStat(p) PROVE Quiet
  BY <1>14 DEF CompleteStat, Finish
<1>15. ASSUME NEW p \in Procs, AbortAtMinio(p) PROVE Quiet
  BY <1>15 DEF AbortAtMinio, Goto, Finish
<1>16. ASSUME NEW p \in Procs, AbortRow(p) PROVE Quiet
  BY <1>16 DEF AbortRow, Finish, Pending
<1>17. ASSUME NEW p \in Procs, HardDeleteRemove(p) PROVE Quiet
  BY <1>17 DEF HardDeleteRemove, Goto
<1>18. ASSUME NEW p \in Procs, HardDeleteRow(p) PROVE Quiet
  BY <1>18 DEF HardDeleteRow, Finish, Trashed
<1>19. ASSUME NEW p \in Procs, MoveBlobRow(p) PROVE Quiet
  BY <1>19 DEF MoveBlobRow, Finish
<1>20. ASSUME NEW p \in Procs, TrashFolderWrite(p) PROVE Quiet
  BY <1>20 DEF TrashFolderWrite, Write, BlobsIn
<1>21. ASSUME NEW p \in Procs, TrashFolderCommit(p) PROVE Quiet
  BY <1>21 DEF TrashFolderCommit, Finish
<1>22. ASSUME NEW p \in Procs, RestoreFolderWrite(p) PROVE Quiet
  BY <1>22 DEF RestoreFolderWrite, Write, BlobsIn
<1>23. ASSUME NEW p \in Procs, RestoreFolderCommit(p) PROVE Quiet
  BY <1>23 DEF RestoreFolderCommit, Finish
<1>24. ASSUME NEW p \in Procs, RestoreFolderRefused(p) PROVE Quiet
  BY <1>24 DEF RestoreFolderRefused, Finish
<1>25. ASSUME NEW p \in Procs, HardDeleteFolderBlobs(p) PROVE Quiet
  BY <1>25 DEF HardDeleteFolderBlobs, Write, BlobsIn
<1>26. ASSUME NEW p \in Procs, HardDeleteFolderCommit(p) PROVE Quiet
  BY <1>26 DEF HardDeleteFolderCommit, WithKeys, DeleteFolders, BlobsIn
<1>27. ASSUME NEW p \in Procs, EmptyTrashFolders(p) PROVE Quiet
  BY <1>27 DEF EmptyTrashFolders, Write, BlobsIn
<1>28. ASSUME NEW p \in Procs, EmptyTrashCommit(p) PROVE Quiet
  BY <1>28 DEF EmptyTrashCommit, WithKeys, DeleteFolders, BlobsIn
<1>29. ASSUME NEW p \in Procs, RemoveKey(p) PROVE Quiet
  BY <1>29 DEF RemoveKey, DropKey, WithKeys
<1>30. ASSUME NEW p \in Procs, Fail(p) PROVE Quiet
  BY <1>30 DEF Fail, Finish
<1>31. ASSUME NEW p \in Procs, SkipKey(p) PROVE Quiet
  BY <1>31 DEF SkipKey, DropKey, WithKeys
<1>32. ASSUME NEW u \in Users, NEW b \in Blobs, TrashBlob(u, b) PROVE Quiet
  BY <1>32 DEF TrashBlob
<1>33. ASSUME NEW u \in Users, NEW b \in Blobs, RestoreBlob(u, b) PROVE Quiet
  BY <1>33 DEF RestoreBlob, Trashed
<1>34. CASE PurgeOrphanedBlobs
  BY <1>34 DEF PurgeOrphanedBlobs, Start, WithKeys, DeleteRows, Pending
<1>35. CASE OrphanAbort
  BY <1>35 DEF OrphanAbort, DropKey, WithKeys
<1>36. CASE PurgeExpiredBlobs
  BY <1>36 DEF PurgeExpiredBlobs, Start, DeleteRows, Trashed
<1>37. CASE PurgeExpiredFolders
  BY <1>37 DEF PurgeExpiredFolders, Write, BlobsIn
<1>38. CASE PurgeExpiredCommit
  BY <1>38 DEF PurgeExpiredCommit, WithKeys, DeleteFolders, BlobsIn
<1>39. ASSUME NEW b \in Blobs, AgeRow(b) PROVE Quiet
  BY <1>39 DEF AgeRow
<1>40. ASSUME NEW b \in Blobs, AgeTrash(b) PROVE Quiet
  BY <1>40 DEF AgeTrash, Trashed
<1>41. ASSUME NEW f \in Folders, AgeFolder(f) PROVE Quiet
  BY <1>41 DEF AgeFolder
<1>42. CASE UNCHANGED vars
  BY <1>42 DEF vars
<1>43. ASSUME NEW p \in Procs, InitiateRegister(p) PROVE Quiet \/ Registers(p)
  <2>1. CASE req[p].folder \in folders \cup {None}
    BY <1>43, <2>1 DEF InitiateRegister, Registers
  <2>2. CASE req[p].folder \notin folders \cup {None}
    BY <1>43, <2>2 DEF InitiateRegister, Goto
  <2>3. QED
    BY <2>1, <2>2
<1>44. ASSUME NEW p \in Procs, InitiateRegisterFails(p) PROVE Quiet \/ Registers(p)
  <2>1. CASE UNCHANGED <<blobVars, declared>>
    BY <1>44, <2>1 DEF InitiateRegisterFails, Goto
  <2>2. CASE ~UNCHANGED <<blobVars, declared>>
    BY <1>44, <2>2 DEF InitiateRegisterFails, Registers
  <2>3. QED
    BY <2>1, <2>2
<1>45. QED
  BY <1>1, <1>2, <1>3, <1>4, <1>5, <1>6, <1>7, <1>8, <1>9, <1>10, <1>11, <1>12, <1>13,
     <1>14, <1>15, <1>16, <1>17, <1>18, <1>19, <1>20, <1>21, <1>22, <1>23, <1>24,
     <1>25, <1>26, <1>27, <1>28, <1>29, <1>30, <1>31, <1>32, <1>33, <1>34, <1>35,
     <1>36, <1>37, <1>38, <1>39, <1>40, <1>41, <1>42, <1>43, <1>44
     DEF Next, Continue

\* At first there are no rows and no uploads.
LEMMA InitSizes == Init => SizesInv
  BY FS_EmptySet DEF Init, SizesInv, Idle, EarlyLabels

\* Every step keeps the sizes.
LEMMA NextSizes == TypeInv /\ IdsInv /\ SizesInv /\ [Next]_vars => SizesInv'
<1> SUFFICES ASSUME TypeInv, IdsInv, SizesInv, [Next]_vars PROVE SizesInv'
  OBVIOUS
<1>1. CASE Quiet
  <2>1. IsFiniteSet(rows')
    BY <1>1, FS_Subset DEF Quiet, SizesInv
  <2>2. QED
    BY <1>1, <2>1 DEF Quiet, SizesInv
<1>2. ASSUME NEW p \in Reqs, NEW u \in Users, NEW n \in Sizes, NEW f \in Folders \cup {None},
             InitiateCheckQuota(p, u, n, f)
      PROVE  SizesInv'
  <2>1. /\ UNCHANGED <<rows, size, declared, uploadedAt>>
        /\ MaxUploadBytes > 0 => n <= MaxUploadBytes
        /\ \A q \in Procs \ {p} : req'[q] = req[q]
        /\ req'[p].size = n /\ req'[p].pc \in {"init.new", "init.folder"}
    BY <1>2 DEF InitiateCheckQuota, Start, blobVars, TypeInv, TypeOK, Procs
  <2>2. QED
    BY <2>1 DEF SizesInv
<1>3. ASSUME NEW p \in Procs, Registers(p) PROVE SizesInv'
  <2> DEFINE b == req[p].blob
             n == req[p].size
  <2>1. /\ rows' = rows \cup {b} /\ uploadedAt' = uploadedAt
        /\ size' = [size EXCEPT ![b] = n]
        /\ declared' = [declared EXCEPT ![b] = n]
        /\ \A q \in Procs \ {p} : req'[q] = req[q]
        /\ req'[p].pc \in {"init.presign", "init.abort"}
    BY <1>3 DEF Registers, InsertRow, Goto, TypeInv, TypeOK, Request
  <2>2. IsFiniteSet(rows')
    BY <2>1, FS_AddElement DEF SizesInv
  <2>3. b \in Blobs
    BY <1>3 DEF Registers, TypeInv, LocalsOK, BlobLabels, EarlyLabels
  <2> HIDE DEF b, n
  <2>4. \A c \in rows' \ uploadedAt' : size'[c] = declared'[c]
    BY <2>1, <2>3 DEF SizesInv, TypeInv, TypeOK
  <2>5. QED
    BY <2>1, <2>2, <2>4 DEF SizesInv, EarlyLabels
<1>4. ASSUME NEW p \in Procs, CompleteConfirm(p) PROVE SizesInv'
  <2>1. /\ rows' = rows /\ declared' = declared
        /\ req' = [req EXCEPT ![p] = Idle]
        /\ \/ uploadedAt' = uploadedAt /\ size' = size
           \/ /\ uploadedAt' = uploadedAt \cup {req[p].blob}
              /\ size' = [size EXCEPT ![req[p].blob] = req[p].size]
    BY <1>4 DEF CompleteConfirm, Finish, histVars
  <2>2. \A c \in rows' \ uploadedAt' : size'[c] = declared'[c]
    BY <2>1 DEF SizesInv, TypeInv, TypeOK
  <2>3. /\ \A q \in Procs \ {p} : req'[q] = req[q]
        /\ req'[p].pc = "idle"
    BY <2>1 DEF TypeInv, TypeOK, Idle
  <2>4. QED
    BY <2>1, <2>2, <2>3 DEF SizesInv, EarlyLabels
<1>5. QED
  BY <1>1, <1>2, <1>3, <1>4, QuotaCases

-----------------------------------------------------------------------------
\* What a user's files and uploads add up to

\* The sizes of a user's rows and of the user's admitted uploads are numbers,
\* there are finitely many of each, and the query of the quota counts no less
\* than what the rows were declared to be.
LEMMA SumsFinite ==
    ASSUME TypeInv, SizesInv, IsFiniteSet(Reqs), NEW u \in Users
    PROVE  /\ IsFiniteSet(UserRows(u)) /\ \A b \in UserRows(u) : Worth[b] \in Nat
           /\ IsFiniteSet(Admitted(u)) /\ Admitted(u) \subseteq Reqs /\ Admitted(u) \subseteq Procs
           /\ \A p \in Procs : [q \in Procs |-> req[q].size][p] \in Nat
           /\ AsDeclared(u) \in Nat /\ InFlight(u) \in Nat
           /\ GetUserStorageUsed(u) \in Nat /\ AsDeclared(u) <= GetUserStorageUsed(u)
<1>1. UserRows(u) \in SUBSET rows /\ IsFiniteSet(rows) /\ rows \subseteq Blobs
  BY DEF UserRows, SizesInv, TypeInv, TypeOK
<1>2. IsFiniteSet(UserRows(u))
  BY <1>1, FS_Subset
<1>3. \A b \in UserRows(u) : Worth[b] \in Nat /\ size[b] \in Nat /\ Worth[b] <= size[b]
  BY <1>1 DEF TypeInv, TypeOK, Worth
<1>4. Admitted(u) \in SUBSET Reqs
  BY DEF Admitted, SizesInv, EarlyLabels
<1>5. IsFiniteSet(Admitted(u))
  BY <1>4, FS_Subset
<1>6. \A p \in Procs : [q \in Procs |-> req[q].size][p] \in Nat
  BY DEF TypeInv, TypeOK, Request
<1>7. Admitted(u) \subseteq Procs
  BY DEF Admitted
<1>8. AsDeclared(u) = SumFunctionOnSet(Worth, UserRows(u))
  BY DEF AsDeclared, Worth
<1>9. /\ SumFunctionOnSet(Worth, UserRows(u)) \in Nat
      /\ GetUserStorageUsed(u) \in Nat
  BY <1>2, <1>3, SumNat DEF GetUserStorageUsed
<1>10. SumFunctionOnSet(Worth, UserRows(u)) <= GetUserStorageUsed(u)
  BY <1>2, <1>3, SumBelow DEF GetUserStorageUsed
<1> DEFINE F == [q \in Procs |-> req[q].size]
<1>11. \A p \in Admitted(u) : F[p] \in Nat
  BY <1>6, <1>7
<1> HIDE DEF F
<1>12. SumFunctionOnSet(F, Admitted(u)) \in Nat
  BY <1>5, <1>11, SumNat
<1>13. QED
  BY <1>2, <1>3, <1>4, <1>5, <1>6, <1>7, <1>8, <1>9, <1>10, <1>12 DEF F, InFlight

\* A quiet step leaves nobody with more.
LEMMA QuietSums ==
    ASSUME TypeInv, SizesInv, TypeInv', SizesInv', IsFiniteSet(Reqs), Quiet, NEW u \in Users
    PROVE  /\ AsDeclared(u)' <= AsDeclared(u)
           /\ InFlight(u)' <= InFlight(u)
<1>1. /\ IsFiniteSet(UserRows(u)) /\ \A b \in UserRows(u) : Worth[b] \in Nat
      /\ IsFiniteSet(Admitted(u)) /\ Admitted(u) \subseteq Procs
      /\ \A p \in Procs : [q \in Procs |-> req[q].size][p] \in Nat
  BY SumsFinite
<1>2. Worth' = Worth /\ UserRows(u)' \in SUBSET UserRows(u)
  BY DEF Quiet, UserRows, Worth
<1>3. AsDeclared(u)' <= AsDeclared(u)
  <2>1. AsDeclared(u) = SumFunctionOnSet(Worth, UserRows(u))
    BY DEF AsDeclared, Worth
  <2>2. AsDeclared(u)' = SumFunctionOnSet(Worth', UserRows(u)')
    BY DEF AsDeclared, Worth
  <2>3. QED
    BY <1>1, <1>2, <2>1, <2>2, SumMonotone
<1> DEFINE F == [q \in Procs |-> req[q].size]
           G == [q \in Procs |-> req'[q].size]
           A == Admitted(u)
           B == Admitted(u)'
<1>4. B \in SUBSET A /\ \A p \in B : G[p] = F[p]
  BY DEF Quiet, Admitted, EarlyLabels
<1>5. \A p \in A : F[p] \in Nat
  BY <1>1
<1> HIDE DEF F, G, A, B
<1>6. IsFiniteSet(A) /\ IsFiniteSet(B)
  BY <1>1, <1>4, FS_Subset DEF A
<1>7. SumFunctionOnSet(G, B) = SumFunctionOnSet(F, B)
  BY <1>4, <1>5, <1>6, SumSame
<1>8. SumFunctionOnSet(F, B) <= SumFunctionOnSet(F, A)
  BY <1>4, <1>5, <1>6, SumMonotone
<1>9. InFlight(u)' <= InFlight(u)
  BY <1>7, <1>8 DEF F, G, A, B, InFlight
<1>10. QED
  BY <1>3, <1>9

\* RegisterBlob turns an admitted upload into a row of the same size.
LEMMA RegisterSums ==
    ASSUME TypeInv, IdsInv, SizesInv, TypeInv', SizesInv', IsFiniteSet(Reqs),
           NEW p \in Procs, Registers(p), NEW u \in Users
    PROVE  AsDeclared(u)' + InFlight(u)' = AsDeclared(u) + InFlight(u)
<1> DEFINE b == req[p].blob
           n == req[p].size
           F == [q \in Procs |-> req[q].size]
           G == [q \in Procs |-> req'[q].size]
           A == Admitted(u)
           B == Admitted(u)'
           R == UserRows(u)
           S == UserRows(u)'
<1>1. /\ IsFiniteSet(R) /\ (\A c \in R : Worth[c] \in Nat)
      /\ IsFiniteSet(A) /\ A \subseteq Procs
      /\ (\A q \in Procs : F[q] \in Nat)
      /\ AsDeclared(u) \in Nat /\ InFlight(u) \in Nat
  BY SumsFinite
<1>2. /\ b \in Blobs /\ b \notin rows /\ n \in Nat /\ req[p].user \in Users
      /\ req[p].pc = "init.register"
  BY DEF Registers, TypeInv, TypeOK, LocalsOK, BlobLabels, EarlyLabels, IdsInv, Request
<1>3. /\ rows' = rows \cup {b} /\ owner' = [owner EXCEPT ![b] = req[p].user]
      /\ size' = [size EXCEPT ![b] = n] /\ declared' = [declared EXCEPT ![b] = n]
      /\ (\A q \in Procs \ {p} : req'[q] = req[q])
      /\ req'[p].pc \in {"init.presign", "init.abort"}
  BY DEF Registers, InsertRow, Goto, TypeInv, TypeOK, Request
<1>4. b \notin R /\ R \subseteq rows /\ rows \subseteq Blobs
  BY <1>2 DEF UserRows, TypeInv, TypeOK
<1>5. /\ \A c \in R : Worth'[c] = Worth[c]
      /\ Worth'[b] = n
  BY <1>2, <1>3, <1>4 DEF TypeInv, TypeOK, Worth
<1>6. B = A \ {p} /\ (p \in A <=> req[p].user = u)
  BY <1>2, <1>3 DEF Admitted
<1>7. \A q \in B : G[q] = F[q]
  BY <1>1, <1>3, <1>6
<1>8. S = IF req[p].user = u THEN R \cup {b} ELSE R
  BY <1>2, <1>3, <1>4 DEF UserRows, TypeInv, TypeOK
<1>9. F[p] = n /\ \A q \in A : F[q] \in Nat
  BY <1>1
<1>10. AsDeclared(u)' = SumFunctionOnSet(Worth', S) /\ InFlight(u)' = SumFunctionOnSet(G, B)
  BY DEF AsDeclared, InFlight, Worth
<1>11. AsDeclared(u) = SumFunctionOnSet(Worth, R) /\ InFlight(u) = SumFunctionOnSet(F, A)
  BY DEF AsDeclared, InFlight, Worth
<1> HIDE DEF F, G, A, B, R, S, b, n
<1>12. IsFiniteSet(B)
  BY <1>1, <1>6, FS_RemoveElement
<1>13. SumFunctionOnSet(G, B) = SumFunctionOnSet(F, B)
  <2>1. \A q \in B : F[q] \in Nat /\ G[q] = F[q]
    BY <1>6, <1>7, <1>9
  <2>2. QED
    BY <1>12, <2>1, SumSame
<1>14. SumFunctionOnSet(Worth', R) = SumFunctionOnSet(Worth, R)
  BY <1>1, <1>5, SumSame
<1>15. CASE req[p].user = u
  <2>1. SumFunctionOnSet(F, A) = n + SumFunctionOnSet(F, B)
    BY <1>1, <1>6, <1>9, <1>15, SumRemove
  <2>2. SumFunctionOnSet(Worth', R \cup {b}) = n + SumFunctionOnSet(Worth', R)
    <3>1. /\ \A c \in R : Worth'[c] \in Nat
          /\ Worth'[b] \in Nat
      BY <1>1, <1>2, <1>5
    <3>2. SumFunctionOnSet(Worth', R \cup {b}) = Worth'[b] + SumFunctionOnSet(Worth', R)
      BY <1>1, <1>4, <3>1, SumAdd
    <3>3. QED
      BY <1>5, <3>2
  <2>3. SumFunctionOnSet(F, B) \in Nat
    <3>1. \A q \in B : F[q] \in Nat
      BY <1>6, <1>9
    <3>2. QED
      BY <1>12, <3>1, SumNat
  <2>4. QED
    BY <1>1, <1>2, <1>8, <1>10, <1>11, <1>13, <1>14, <1>15, <2>1, <2>2, <2>3
<1>16. CASE req[p].user # u
  <2>1. B = A /\ S = R
    BY <1>6, <1>8, <1>16
  <2>2. QED
    BY <1>10, <1>11, <1>13, <1>14, <2>1
<1>17. QED
  BY <1>15, <1>16

\* ConfirmBlobUpload makes no row count for more: it counted for what was declared.
LEMMA ConfirmSums ==
    ASSUME TypeInv, SizesInv, TypeInv', SizesInv', IsFiniteSet(Reqs),
           NEW p \in Procs, CompleteConfirm(p), NEW u \in Users
    PROVE  /\ AsDeclared(u)' <= AsDeclared(u)
           /\ InFlight(u)' <= InFlight(u)
<1>1. CASE ~Pending(req[p].blob)
  <2>1. Quiet
    BY <1>1 DEF CompleteConfirm, Finish, Quiet, Idle, histVars, TypeInv, TypeOK, EarlyLabels
  <2>2. QED
    BY <2>1, QuietSums
<1>2. CASE Pending(req[p].blob)
  <2> DEFINE b == req[p].blob
             n == req[p].size
             R == UserRows(u)
  <2>1. /\ rows' = rows /\ owner' = owner /\ size' = [size EXCEPT ![b] = n]
        /\ declared' = declared
        /\ req' = [req EXCEPT ![p] = Idle] /\ req[p].pc = "complete.confirm"
    BY <1>2 DEF CompleteConfirm, Finish, histVars
  <2>2. b \in Blobs /\ n \in Nat /\ b \notin uploadedAt
    BY <1>2, <2>1 DEF TypeInv, TypeOK, LocalsOK, BlobLabels, Request, Pending
  <2>3. /\ Worth[b] = declared[b] /\ Worth'[b] <= Worth[b]
        /\ Worth[b] \in Nat /\ Worth'[b] \in Nat
    BY <1>2, <2>1, <2>2 DEF SizesInv, Pending, TypeInv, TypeOK, Worth
  <2>4. /\ IsFiniteSet(R) /\ (\A c \in R : Worth[c] \in Nat) /\ R \subseteq Blobs
        /\ AsDeclared(u) \in Nat
    BY SumsFinite DEF UserRows, TypeInv, TypeOK
  <2>5. UserRows(u)' = R
    BY <2>1 DEF UserRows
  <2>6. (\A c \in R : Worth'[c] \in Nat) /\ (\A c \in R \ {b} : Worth'[c] = Worth[c])
    BY <2>1, <2>2, <2>4 DEF TypeInv, TypeOK, Worth
  <2>7. AsDeclared(u)' = SumFunctionOnSet(Worth', R) /\ AsDeclared(u) = SumFunctionOnSet(Worth, R)
    BY <2>5 DEF AsDeclared, Worth
  <2> HIDE DEF R, b, n
  <2>8. AsDeclared(u)' <= AsDeclared(u)
    <3>1. CASE b \in R
      <4>1. SumFunctionOnSet(Worth', R) + Worth[b] = SumFunctionOnSet(Worth, R) + Worth'[b]
        BY <2>4, <2>6, <3>1, SumChange
      <4>2. SumFunctionOnSet(Worth', R) \in Nat
        BY <2>4, <2>6, SumNat
      <4>3. QED
        BY <2>2, <2>3, <2>4, <2>6, <2>7, <4>1, <4>2
    <3>2. CASE b \notin R
      <4>1. SumFunctionOnSet(Worth', R) = SumFunctionOnSet(Worth, R)
        BY <2>4, <2>6, <3>2, SumSame
      <4>2. QED
        BY <2>4, <2>7, <4>1
    <3>3. QED
      BY <3>1, <3>2
  <2>9. InFlight(u)' <= InFlight(u)
    <3> DEFINE F == [q \in Procs |-> req[q].size]
               G == [q \in Procs |-> req'[q].size]
               A == Admitted(u)
    <3>1. Admitted(u)' = A /\ p \notin A /\ A \subseteq Procs
      BY <2>1 DEF Admitted, TypeInv, TypeOK, Idle
    <3>2. \A q \in A : G[q] = F[q] /\ F[q] \in Nat
      BY <2>1, <3>1, SumsFinite DEF TypeInv, TypeOK
    <3>3. IsFiniteSet(A) /\ InFlight(u) \in Nat
      BY SumsFinite
    <3>4. InFlight(u)' = SumFunctionOnSet(G, A) /\ InFlight(u) = SumFunctionOnSet(F, A)
      BY <3>1 DEF InFlight
    <3> HIDE DEF F, G, A
    <3>5. SumFunctionOnSet(G, A) = SumFunctionOnSet(F, A)
      BY <3>2, <3>3, SumSame
    <3>6. QED
      BY <3>3, <3>4, <3>5
  <2>10. QED
    BY <2>8, <2>9
<1>3. QED
  BY <1>1, <1>2

\* An upload that passes the check fits beside the rows; the uploads that were
\* admitted before it, of the other requests, are all that may be too much.
LEMMA AdmitSums ==
    ASSUME TypeInv, SizesInv, TypeInv', SizesInv', IsFiniteSet(Reqs),
           MaxUploadBytes > 0, QuotaBytes > 0,
           NEW p \in Reqs, NEW v \in Users, NEW n \in Sizes, NEW f \in Folders \cup {None},
           InitiateCheckQuota(p, v, n, f), NEW u \in Users
    PROVE  \/ AsDeclared(u)' + InFlight(u)'
                <= QuotaBytes + (Cardinality(Reqs) - 1) * MaxUploadBytes
           \/ AsDeclared(u)' + InFlight(u)' = AsDeclared(u) + InFlight(u)
<1> DEFINE F == [q \in Procs |-> req[q].size]
           G == [q \in Procs |-> req'[q].size]
           A == Admitted(u)
           B == Admitted(u)'
<1>1. /\ UNCHANGED <<rows, owner, size, declared>>
      /\ GetUserStorageUsed(v) + n <= QuotaBytes
      /\ (\A q \in Procs \ {p} : req'[q] = req[q])
      /\ req'[p].pc \in {"init.new", "init.folder"} /\ req'[p].user = v /\ req'[p].size = n
      /\ req[p].pc = "idle" /\ p \in Procs
  BY DEF InitiateCheckQuota, Start, blobVars, TypeInv, TypeOK, Procs
<1>2. AsDeclared(u)' = AsDeclared(u)
  BY <1>1 DEF AsDeclared, UserRows
<1>3. /\ IsFiniteSet(A) /\ A \subseteq Reqs /\ A \subseteq Procs
      /\ (\A q \in Procs : F[q] \in Nat)
      /\ AsDeclared(u) \in Nat /\ InFlight(u) \in Nat
      /\ GetUserStorageUsed(u) \in Nat /\ AsDeclared(u) <= GetUserStorageUsed(u)
  BY SumsFinite
<1>4. p \notin A /\ B = IF u = v THEN A \cup {p} ELSE A
  BY <1>1 DEF Admitted
<1>5. \A q \in A : /\ G[q] = F[q] /\ F[q] \in Nat /\ F[q] <= MaxUploadBytes
  BY <1>1, <1>3, <1>4 DEF SizesInv, Admitted, EarlyLabels
<1>6. G[p] = n /\ n \in Nat /\ MaxUploadBytes \in Nat /\ QuotaBytes \in Nat
  BY <1>1, SizesAssumption
<1>7. InFlight(u)' = SumFunctionOnSet(G, B) /\ InFlight(u) = SumFunctionOnSet(F, A)
  BY DEF InFlight
<1> HIDE DEF F, G, A, B
<1>8. SumFunctionOnSet(G, A) = SumFunctionOnSet(F, A)
  BY <1>3, <1>5, SumSame
<1>9. CASE u # v
  BY <1>2, <1>4, <1>7, <1>8, <1>9
<1>10. CASE u = v
  <2>1. SumFunctionOnSet(G, A \cup {p}) = n + SumFunctionOnSet(G, A)
    <3>1. \A q \in A : G[q] \in Nat
      BY <1>5
    <3>2. SumFunctionOnSet(G, A \cup {p}) = G[p] + SumFunctionOnSet(G, A)
      BY <1>3, <1>4, <1>6, <3>1, SumAdd
    <3>3. QED
      BY <1>6, <3>2
  <2>2. SumFunctionOnSet(F, A) <= Cardinality(A) * MaxUploadBytes
    BY <1>3, <1>5, <1>6, SumBound
  <2>3. /\ Cardinality(A) \in Nat /\ Cardinality(Reqs) \in Nat
        /\ Cardinality(A) <= Cardinality(Reqs) - 1
    <3>1. A \in SUBSET (Reqs \ {p})
      BY <1>3, <1>4
    <3>2. IsFiniteSet(Reqs \ {p}) /\ Cardinality(Reqs \ {p}) = Cardinality(Reqs) - 1
      BY FS_RemoveElement
    <3>3. Cardinality(A) <= Cardinality(Reqs \ {p})
      BY <3>1, <3>2, FS_Subset
    <3>4. QED
      BY <1>3, <3>2, <3>3, FS_CardinalityType
  <2>4. \A i, j, m \in Int : i <= j /\ m >= 0 => i * m <= j * m /\ i * m \in Int /\ j * m \in Int
    OBVIOUS
  <2>5. SumFunctionOnSet(F, A) <= (Cardinality(Reqs) - 1) * MaxUploadBytes
    <3> DEFINE c == Cardinality(A)
               d == Cardinality(Reqs) - 1
    <3>1. c \in Int /\ d \in Int /\ c <= d /\ MaxUploadBytes \in Int /\ MaxUploadBytes >= 0
      BY <1>6, <2>3
    <3>2. SumFunctionOnSet(F, A) <= c * MaxUploadBytes /\ SumFunctionOnSet(F, A) \in Nat
      BY <1>3, <1>7, <2>2
    <3> HIDE DEF c, d
    <3>3. c * MaxUploadBytes <= d * MaxUploadBytes /\ c * MaxUploadBytes \in Int /\ d * MaxUploadBytes \in Int
      BY <2>4, <3>1
    <3>4. SumFunctionOnSet(F, A) <= d * MaxUploadBytes
      BY <3>2, <3>3
    <3>5. QED
      BY <3>4 DEF d
  <2> DEFINE room == (Cardinality(Reqs) - 1) * MaxUploadBytes
             held == SumFunctionOnSet(F, A)
             stored == AsDeclared(u)
  <2>6. room \in Int /\ held \in Nat /\ stored \in Nat /\ held <= room /\ stored + n <= QuotaBytes
    BY <1>1, <1>3, <1>6, <1>7, <1>10, <2>3, <2>5
  <2>7. AsDeclared(u)' + InFlight(u)' = stored + (n + held)
    BY <1>2, <1>4, <1>7, <1>8, <1>10, <2>1
  <2> HIDE DEF room, held, stored
  <2>8. stored + (n + held) <= QuotaBytes + room
    BY <1>6, <2>6
  <2>9. QED
    BY <2>7, <2>8 DEF room
<1>11. QED
  BY <1>9, <1>10

\* The quota is kept up to the uploads of the requests beside the last one that
\* was checked, whatever clients upload: where uploads are limited, a user's files
\* and admitted uploads, none of them counted for more than was declared, never
\* exceed STORAGE_QUOTA_BYTES by more than MAX_UPLOAD_BYTES for each further
\* request in flight.
THEOREM QuotaHolds ==
    ASSUME IsFiniteSet(Reqs), Reqs # {}
    PROVE  Spec => []QuotaOvershootBounded
<1> DEFINE room == (Cardinality(Reqs) - 1) * MaxUploadBytes
<1>1. room \in Nat /\ QuotaBytes \in Nat
  <2>1. Cardinality(Reqs) \in Nat /\ Cardinality(Reqs) # 0
    BY FS_CardinalityType, FS_EmptySet
  <2>2. Cardinality(Reqs) - 1 \in Nat /\ MaxUploadBytes \in Nat
    BY <2>1, SizesAssumption
  <2>3. \A i, j \in Nat : i * j \in Nat
    OBVIOUS
  <2>4. QED
    BY <2>2, <2>3, SizesAssumption
<1>2. Init => QuotaOvershootBounded
  <2> SUFFICES ASSUME Init, NEW u \in Users
               PROVE  AsDeclared(u) + InFlight(u) <= QuotaBytes + room
    BY DEF QuotaOvershootBounded
  <2>1. UserRows(u) = {} /\ Admitted(u) = {}
    BY DEF Init, UserRows, Admitted, Idle
  <2>2. AsDeclared(u) = 0 /\ InFlight(u) = 0
    BY <2>1, SumEmpty DEF AsDeclared, InFlight
  <2> HIDE DEF room
  <2>3. QED
    BY <1>1, <2>2
<1> DEFINE Counted == \A u \in Users : AsDeclared(u) \in Nat /\ InFlight(u) \in Nat
<1>3. TypeInv /\ SizesInv => Counted
  BY SumsFinite
<1>4. TypeInv /\ IdsInv /\ SizesInv /\ QuotaOvershootBounded /\ [Next]_vars
      /\ TypeInv' /\ SizesInv' /\ Counted /\ Counted'
      => QuotaOvershootBounded'
  <2> SUFFICES ASSUME TypeInv, IdsInv, SizesInv, QuotaOvershootBounded, [Next]_vars,
                      TypeInv', SizesInv', Counted, Counted',
                      QuotaBytes > 0, MaxUploadBytes > 0, NEW u \in Users
               PROVE  AsDeclared(u)' + InFlight(u)' <= QuotaBytes + room
    BY DEF QuotaOvershootBounded
  <2>1. /\ AsDeclared(u) \in Nat /\ InFlight(u) \in Nat
        /\ AsDeclared(u)' \in Nat /\ InFlight(u)' \in Nat
    OBVIOUS
  <2>2. AsDeclared(u) + InFlight(u) <= QuotaBytes + room
    BY DEF QuotaOvershootBounded
  <2>3. \/ AsDeclared(u)' <= AsDeclared(u) /\ InFlight(u)' <= InFlight(u)
        \/ AsDeclared(u)' + InFlight(u)' = AsDeclared(u) + InFlight(u)
        \/ AsDeclared(u)' + InFlight(u)' <= QuotaBytes + room
    <3>1. CASE Quiet
      BY <3>1, QuietSums
    <3>2. ASSUME NEW p \in Reqs, NEW v \in Users, NEW n \in Sizes, NEW f \in Folders \cup {None},
                 InitiateCheckQuota(p, v, n, f)
          PROVE  \/ AsDeclared(u)' + InFlight(u)' <= QuotaBytes + room
                 \/ AsDeclared(u)' + InFlight(u)' = AsDeclared(u) + InFlight(u)
      BY <3>2, AdmitSums
    <3>3. ASSUME NEW p \in Procs, Registers(p)
          PROVE  AsDeclared(u)' + InFlight(u)' = AsDeclared(u) + InFlight(u)
      BY <3>3, RegisterSums
    <3>4. ASSUME NEW p \in Procs, CompleteConfirm(p)
          PROVE  AsDeclared(u)' <= AsDeclared(u) /\ InFlight(u)' <= InFlight(u)
      BY <3>4, ConfirmSums
    <3> HIDE DEF room
    <3>5. QED
      BY <3>1, <3>2, <3>3, <3>4, QuotaCases
  <2> HIDE DEF room
  <2>4. QED
    BY <1>1, <2>1, <2>2, <2>3
<1> HIDE DEF Counted
<1>5. QED
  BY <1>2, <1>3, <1>4, InitTypeInv, NextTypeInv, InitIds, NextIds, InitSizes, NextSizes, PTL DEF Spec

-----------------------------------------------------------------------------
\* BlobLifecycle implements FileStatus: what the mapping rests on

\* A file that is not registered yet has not been trashed, and the folder of a
\* row exists (folder_id is a foreign key).
FilesInv ==
    /\ deletedAt \subseteq used
    /\ \A p \in Procs : req[p].pc \in EarlyLabels => req[p].blob \notin deletedAt
    /\ \A b \in rows : folderOf[b] \in folders \cup {None}

\* There are no files at the start.
LEMMA InitFiles == Init => FilesInv
  BY DEF Init, FilesInv, Idle, EarlyLabels

\* Every step keeps the files in folders that exist.
LEMMA NextFiles == TypeInv /\ IdsInv /\ FilesInv /\ [Next]_vars => FilesInv'
<1> SUFFICES ASSUME TypeInv, IdsInv, FilesInv, [Next]_vars PROVE FilesInv'
  OBVIOUS
<1> USE UsersAssumption, BlobsAssumption, FoldersAssumption, ProcsAssumption
<1> USE DEF TypeInv, TypeOK, LocalsOK, Procs, Request, Idle, BlobLabels, EarlyLabels,
        blobVars, folderVars, minioVars, histVars, IdsInv, RefersTo, FilesInv
<1>1. ASSUME NEW p \in Reqs, NEW u \in Users, NEW n \in Sizes, NEW f \in Folders \cup {None},
             InitiateCheckQuota(p, u, n, f)
      PROVE  FilesInv'
  BY <1>1 DEF InitiateCheckQuota, Start
<1>2. ASSUME NEW p \in Reqs, NEW u \in Users, NEW b \in Blobs,
             CompleteRead(p, u, b)
      PROVE  FilesInv'
  BY <1>2 DEF CompleteRead, Start, OnBlob, Pending
<1>3. ASSUME NEW p \in Reqs, NEW u \in Users, NEW b \in Blobs,
             AbortRead(p, u, b)
      PROVE  FilesInv'
  BY <1>3 DEF AbortRead, Start, OnBlob, Pending
<1>4. ASSUME NEW p \in Reqs, NEW u \in Users, NEW b \in Blobs,
             HardDeletePeek(p, u, b)
      PROVE  FilesInv'
  BY <1>4 DEF HardDeletePeek, Start, OnBlob, Trashed
<1>5. ASSUME NEW p \in Reqs, NEW u \in Users, NEW b \in Blobs, NEW f \in Folders \cup {None},
             MoveBlobCheck(p, u, b, f)
      PROVE  FilesInv'
  BY <1>5 DEF MoveBlobCheck, Start, OnBlob, LiveFolder
<1>6. ASSUME NEW p \in Reqs, NEW u \in Users, NEW f \in Folders,
             TrashFolderRead(p, u, f)
      PROVE  FilesInv'
  BY <1>6 DEF TrashFolderRead, Start, OnFolder
<1>7. ASSUME NEW p \in Reqs, NEW u \in Users, NEW f \in Folders,
             RestoreFolderRead(p, u, f)
      PROVE  FilesInv'
  BY <1>7 DEF RestoreFolderRead, Start, OnFolder
<1>8. ASSUME NEW p \in Reqs, NEW u \in Users, NEW f \in Folders,
             HardDeleteFolderRead(p, u, f)
      PROVE  FilesInv'
  BY <1>8 DEF HardDeleteFolderRead, Start, OnFolder
<1>9. ASSUME NEW p \in Reqs, NEW u \in Users, EmptyTrashBlobs(p, u) PROVE FilesInv'
  BY <1>9 DEF EmptyTrashBlobs, Start, DeleteRows
<1>10. ASSUME NEW p \in Procs, InitiateRequireFolder(p) PROVE FilesInv'
  BY <1>10 DEF InitiateRequireFolder, Goto, Finish, LiveFolder
<1>11. ASSUME NEW p \in Procs, InitiateNewUpload(p) PROVE FilesInv'
  BY <1>11 DEF InitiateNewUpload, Goto
<1>12. ASSUME NEW p \in Procs, InitiateRegister(p) PROVE FilesInv'
  BY <1>12 DEF InitiateRegister, InsertRow, Goto
<1>13. ASSUME NEW p \in Procs, InitiatePresign(p) PROVE FilesInv'
  BY <1>13 DEF InitiatePresign, Goto, Finish
<1>14. ASSUME NEW p \in Procs, InitiateAbort(p) PROVE FilesInv'
  BY <1>14 DEF InitiateAbort, Finish
<1>15. ASSUME NEW p \in Procs, CompleteAtMinio(p) PROVE FilesInv'
  BY <1>15 DEF CompleteAtMinio, Goto, Finish
<1>16. ASSUME NEW p \in Procs, CompleteStat(p) PROVE FilesInv'
  BY <1>16 DEF CompleteStat, Finish
<1>17. ASSUME NEW p \in Procs, CompleteConfirm(p) PROVE FilesInv'
  BY <1>17 DEF CompleteConfirm, Finish, Pending
<1>18. ASSUME NEW p \in Procs, AbortAtMinio(p) PROVE FilesInv'
  BY <1>18 DEF AbortAtMinio, Goto, Finish
<1>19. ASSUME NEW p \in Procs, AbortRow(p) PROVE FilesInv'
  BY <1>19 DEF AbortRow, Finish, Pending
<1>20. ASSUME NEW p \in Procs, HardDeleteRemove(p) PROVE FilesInv'
  BY <1>20 DEF HardDeleteRemove, Goto
<1>21. ASSUME NEW p \in Procs, HardDeleteRow(p) PROVE FilesInv'
  BY <1>21 DEF HardDeleteRow, Finish, Trashed
<1>22. ASSUME NEW p \in Procs, MoveBlobRow(p) PROVE FilesInv'
  BY <1>22 DEF MoveBlobRow, Finish
<1>23. ASSUME NEW p \in Procs, TrashFolderWrite(p) PROVE FilesInv'
  BY <1>23 DEF TrashFolderWrite, Write, BlobsIn
<1>24. ASSUME NEW p \in Procs, TrashFolderCommit(p) PROVE FilesInv'
  BY <1>24 DEF TrashFolderCommit, Finish
<1>25. ASSUME NEW p \in Procs, RestoreFolderWrite(p) PROVE FilesInv'
  BY <1>25 DEF RestoreFolderWrite, Write, BlobsIn
<1>26. ASSUME NEW p \in Procs, RestoreFolderCommit(p) PROVE FilesInv'
  BY <1>26 DEF RestoreFolderCommit, Finish
<1>27. ASSUME NEW p \in Procs, RestoreFolderRefused(p) PROVE FilesInv'
  BY <1>27 DEF RestoreFolderRefused, Finish
<1>28. ASSUME NEW p \in Procs, HardDeleteFolderBlobs(p) PROVE FilesInv'
  BY <1>28 DEF HardDeleteFolderBlobs, Write, BlobsIn
<1>29. ASSUME NEW p \in Procs, HardDeleteFolderCommit(p) PROVE FilesInv'
  BY <1>29 DEF HardDeleteFolderCommit, WithKeys, DeleteFolders, BlobsIn
<1>30. ASSUME NEW p \in Procs, EmptyTrashFolders(p) PROVE FilesInv'
  BY <1>30 DEF EmptyTrashFolders, Write, BlobsIn
<1>31. ASSUME NEW p \in Procs, EmptyTrashCommit(p) PROVE FilesInv'
  BY <1>31 DEF EmptyTrashCommit, WithKeys, DeleteFolders, BlobsIn
<1>32. ASSUME NEW p \in Procs, RemoveKey(p) PROVE FilesInv'
  BY <1>32 DEF RemoveKey, DropKey, WithKeys
<1>33. ASSUME NEW p \in Procs, InitiateRegisterFails(p) PROVE FilesInv'
  BY <1>33 DEF InitiateRegisterFails, InsertRow, Goto
<1>34. ASSUME NEW p \in Procs, Fail(p) PROVE FilesInv'
  BY <1>34 DEF Fail, Finish
<1>35. ASSUME NEW p \in Procs, SkipKey(p) PROVE FilesInv'
  BY <1>35 DEF SkipKey, DropKey, WithKeys
<1>36. ASSUME NEW u \in Users, NEW b \in Blobs, TrashBlob(u, b) PROVE FilesInv'
  BY <1>36 DEF TrashBlob
<1>37. ASSUME NEW u \in Users, NEW b \in Blobs, RestoreBlob(u, b) PROVE FilesInv'
  BY <1>37 DEF RestoreBlob, Trashed, LiveFolder
<1>38. CASE PurgeOrphanedBlobs
  BY <1>38 DEF PurgeOrphanedBlobs, Start, WithKeys, DeleteRows, Pending
<1>39. CASE OrphanAbort
  BY <1>39 DEF OrphanAbort, DropKey, WithKeys
<1>40. CASE PurgeExpiredBlobs
  BY <1>40 DEF PurgeExpiredBlobs, Start, DeleteRows, Trashed
<1>41. CASE PurgeExpiredFolders
  BY <1>41 DEF PurgeExpiredFolders, Write, BlobsIn
<1>42. CASE PurgeExpiredCommit
  BY <1>42 DEF PurgeExpiredCommit, WithKeys, DeleteFolders, BlobsIn
<1>43. ASSUME NEW b \in Blobs, AgeRow(b) PROVE FilesInv'
  BY <1>43 DEF AgeRow
<1>44. ASSUME NEW b \in Blobs, AgeTrash(b) PROVE FilesInv'
  BY <1>44 DEF AgeTrash, Trashed
<1>45. ASSUME NEW f \in Folders, AgeFolder(f) PROVE FilesInv'
  BY <1>45 DEF AgeFolder
<1>46. CASE UNCHANGED vars
  BY <1>46 DEF vars
<1>47. QED
  BY <1>1, <1>2, <1>3, <1>4, <1>5, <1>6, <1>7, <1>8, <1>9, <1>10, <1>11, <1>12, <1>13,
     <1>14, <1>15, <1>16, <1>17, <1>18, <1>19, <1>20, <1>21, <1>22, <1>23, <1>24,
     <1>25, <1>26, <1>27, <1>28, <1>29, <1>30, <1>31, <1>32, <1>33, <1>34, <1>35,
     <1>36, <1>37, <1>38, <1>39, <1>40, <1>41, <1>42, <1>43, <1>44, <1>45, <1>46
     DEF Next, Continue

\* The rows that an open transaction has written stay as they were when it wrote
\* them, and no two transactions have written the same row.
LockInv ==
    \A p \in Procs :
        /\ req[p].tx \subseteq rows
        /\ \A q \in Procs \ {p} : req[p].tx \cap req[q].tx = {}
        /\ req[p].pc = "trash.commit" => req[p].tx \cap deletedAt = {}
        /\ req[p].pc = "restore.commit" => req[p].tx \subseteq deletedAt
        /\ req[p].pc \in {"trash.commit", "restore.commit", "drop.commit"}
           => \A b \in req[p].tx : folderOf[b] = req[p].folder
        /\ req[p].pc \in {"empty.commit", "expire.commit"}
           => \A b \in req[p].tx : folderOf[b] \in Folders

\* No transaction is open at the start.
LEMMA InitLock == Init => LockInv
  BY DEF Init, LockInv, Idle

\* Process p leaves the rows alone that other transactions have written.
Respects(p) ==
    \A q \in Procs \ {p} :
        /\ req'[q] = req[q]
        /\ \A b \in req[q].tx : /\ b \in rows'
                                /\ b \in deletedAt' <=> b \in deletedAt
                                /\ folderOf'[b] = folderOf[b]

\* A step that ends p's transaction, if it had one, keeps the locks.
LEMMA EndLock ==
    ASSUME LockInv, NEW p \in Procs, Respects(p), req'[p].tx = {}
    PROVE  LockInv'
  BY DEF LockInv, Respects

\* So does the statement of p's transaction that writes the rows.
LEMMA WriteLock ==
    ASSUME TypeInv, LockInv, NEW p \in Procs, NEW label, NEW S, Write(p, label, S), S \subseteq rows,
           label = "trash.commit" => S \cap deletedAt = {},
           label = "restore.commit" => S \subseteq deletedAt,
           label \in {"trash.commit", "restore.commit", "drop.commit"}
           => \A b \in S : folderOf[b] = req[p].folder,
           label \in {"empty.commit", "expire.commit"} => \A b \in S : folderOf[b] \in Folders
    PROVE  LockInv'
<1>1. /\ UNCHANGED <<rows, deletedAt, folderOf>>
      /\ \A q \in Procs : req[q].tx \cap S = {}
      /\ \A q \in Procs \ {p} : req'[q] = req[q]
      /\ req'[p].pc = label /\ req'[p].tx = S /\ req'[p].folder = req[p].folder
  BY DEF Write, Unlocked, blobVars, TypeInv, TypeOK, Request
<1>2. QED
  BY <1>1 DEF LockInv

\* Every step keeps the locks.
LEMMA NextLock == TypeInv /\ IdsInv /\ FilesInv /\ LockInv /\ [Next]_vars => LockInv'
<1> SUFFICES ASSUME TypeInv, IdsInv, FilesInv, LockInv, [Next]_vars PROVE LockInv'
  OBVIOUS
<1> USE UsersAssumption, BlobsAssumption, FoldersAssumption, ProcsAssumption
<1> USE DEF blobVars, folderVars, minioVars, histVars
<1>r. req \in [Procs -> Request] /\ Reqs \subseteq Procs
      /\ OrphanJob \in Procs /\ TrashJob \in Procs
  BY DEF TypeInv, TypeOK, Procs
<1>t. \A p \in Procs : req[p].tx # {} => req[p].pc \in TxLabels
  BY DEF IdsInv
<1>w. \A p \in Procs : req[p].tx \subseteq rows
  BY DEF LockInv
<1>1. ASSUME NEW p \in Reqs, NEW u \in Users, NEW n \in Sizes, NEW f \in Folders \cup {None},
             InitiateCheckQuota(p, u, n, f)
      PROVE  LockInv'
  <2>1. req'[p].tx = {} /\ \A q \in Procs \ {p} : req'[q] = req[q]
    BY <1>1, <1>r, <1>t DEF InitiateCheckQuota, Start, Idle, Request, TxLabels
  <2>2. Respects(p)
    BY <1>1, <1>r, <1>w, <2>1 DEF InitiateCheckQuota, Start, Respects, TypeInv, TypeOK
  <2>3. QED
    BY <1>r, <2>1, <2>2, EndLock
<1>2. ASSUME NEW p \in Reqs, NEW u \in Users, NEW b \in Blobs,
             CompleteRead(p, u, b)
      PROVE  LockInv'
  <2>1. req'[p].tx = {} /\ \A q \in Procs \ {p} : req'[q] = req[q]
    BY <1>2, <1>r, <1>t DEF CompleteRead, Start, OnBlob, Idle, Request, TxLabels
  <2>2. Respects(p)
    BY <1>2, <1>r, <1>w, <2>1 DEF CompleteRead, Start, OnBlob, Respects, TypeInv, TypeOK
  <2>3. QED
    BY <1>r, <2>1, <2>2, EndLock
<1>3. ASSUME NEW p \in Reqs, NEW u \in Users, NEW b \in Blobs,
             AbortRead(p, u, b)
      PROVE  LockInv'
  <2>1. req'[p].tx = {} /\ \A q \in Procs \ {p} : req'[q] = req[q]
    BY <1>3, <1>r, <1>t DEF AbortRead, Start, OnBlob, Idle, Request, TxLabels
  <2>2. Respects(p)
    BY <1>3, <1>r, <1>w, <2>1 DEF AbortRead, Start, OnBlob, Respects, TypeInv, TypeOK
  <2>3. QED
    BY <1>r, <2>1, <2>2, EndLock
<1>4. ASSUME NEW p \in Reqs, NEW u \in Users, NEW b \in Blobs,
             HardDeletePeek(p, u, b)
      PROVE  LockInv'
  <2>1. req'[p].tx = {} /\ \A q \in Procs \ {p} : req'[q] = req[q]
    BY <1>4, <1>r, <1>t DEF HardDeletePeek, Start, OnBlob, Idle, Request, TxLabels
  <2>2. Respects(p)
    BY <1>4, <1>r, <1>w, <2>1 DEF HardDeletePeek, Start, OnBlob, Respects, TypeInv, TypeOK
  <2>3. QED
    BY <1>r, <2>1, <2>2, EndLock
<1>5. ASSUME NEW p \in Reqs, NEW u \in Users, NEW b \in Blobs, NEW f \in Folders \cup {None},
             MoveBlobCheck(p, u, b, f)
      PROVE  LockInv'
  <2>1. req'[p].tx = {} /\ \A q \in Procs \ {p} : req'[q] = req[q]
    BY <1>5, <1>r, <1>t DEF MoveBlobCheck, Start, OnBlob, Idle, Request, TxLabels
  <2>2. Respects(p)
    BY <1>5, <1>r, <1>w, <2>1 DEF MoveBlobCheck, Start, OnBlob, Respects, TypeInv, TypeOK
  <2>3. QED
    BY <1>r, <2>1, <2>2, EndLock
<1>6. ASSUME NEW p \in Reqs, NEW u \in Users, NEW f \in Folders,
             TrashFolderRead(p, u, f)
      PROVE  LockInv'
  <2>1. req'[p].tx = {} /\ \A q \in Procs \ {p} : req'[q] = req[q]
    BY <1>6, <1>r, <1>t DEF TrashFolderRead, Start, OnFolder, Idle, Request, TxLabels
  <2>2. Respects(p)
    BY <1>6, <1>r, <1>w, <2>1 DEF TrashFolderRead, Start, OnFolder, Respects, TypeInv, TypeOK
  <2>3. QED
    BY <1>r, <2>1, <2>2, EndLock
<1>7. ASSUME NEW p \in Reqs, NEW u \in Users, NEW f \in Folders,
             RestoreFolderRead(p, u, f)
      PROVE  LockInv'
  <2>1. req'[p].tx = {} /\ \A q \in Procs \ {p} : req'[q] = req[q]
    BY <1>7, <1>r, <1>t DEF RestoreFolderRead, Start, OnFolder, Idle, Request, TxLabels
  <2>2. Respects(p)
    BY <1>7, <1>r, <1>w, <2>1 DEF RestoreFolderRead, Start, OnFolder, Respects, TypeInv, TypeOK
  <2>3. QED
    BY <1>r, <2>1, <2>2, EndLock
<1>8. ASSUME NEW p \in Reqs, NEW u \in Users, NEW f \in Folders,
             HardDeleteFolderRead(p, u, f)
      PROVE  LockInv'
  <2>1. req'[p].tx = {} /\ \A q \in Procs \ {p} : req'[q] = req[q]
    BY <1>8, <1>r, <1>t DEF HardDeleteFolderRead, Start, OnFolder, Idle, Request, TxLabels
  <2>2. Respects(p)
    BY <1>8, <1>r, <1>w, <2>1 DEF HardDeleteFolderRead, Start, OnFolder, Respects, TypeInv, TypeOK
  <2>3. QED
    BY <1>r, <2>1, <2>2, EndLock
<1>9. ASSUME NEW p \in Reqs, NEW u \in Users, EmptyTrashBlobs(p, u) PROVE LockInv'
  <2>1. req'[p].tx = {} /\ \A q \in Procs \ {p} : req'[q] = req[q]
    BY <1>9, <1>r, <1>t DEF EmptyTrashBlobs, Start, DeleteRows, Idle, Request, TxLabels
  <2>2. Respects(p)
    BY <1>9, <1>r, <1>w, <2>1 DEF EmptyTrashBlobs, Start, DeleteRows, Unlocked, Respects, TypeInv, TypeOK
  <2>3. QED
    BY <1>r, <2>1, <2>2, EndLock
<1>10. ASSUME NEW p \in Procs, InitiateRequireFolder(p) PROVE LockInv'
  <2>1. req'[p].tx = {} /\ \A q \in Procs \ {p} : req'[q] = req[q]
    BY <1>10, <1>r, <1>t DEF InitiateRequireFolder, Goto, Finish, Idle, Request, TxLabels
  <2>2. Respects(p)
    BY <1>10, <1>r, <1>w, <2>1 DEF InitiateRequireFolder, Goto, Finish, Respects, TypeInv, TypeOK
  <2>3. QED
    BY <1>r, <2>1, <2>2, EndLock
<1>11. ASSUME NEW p \in Procs, InitiateNewUpload(p) PROVE LockInv'
  <2>1. req'[p].tx = {} /\ \A q \in Procs \ {p} : req'[q] = req[q]
    BY <1>11, <1>r, <1>t DEF InitiateNewUpload, Goto, Idle, Request, TxLabels
  <2>2. Respects(p)
    BY <1>11, <1>r, <1>w, <2>1 DEF InitiateNewUpload, Goto, Respects, TypeInv, TypeOK
  <2>3. QED
    BY <1>r, <2>1, <2>2, EndLock
<1>12. ASSUME NEW p \in Procs, InitiateRegister(p) PROVE LockInv'
  <2>1. req'[p].tx = {} /\ \A q \in Procs \ {p} : req'[q] = req[q]
    BY <1>12, <1>r, <1>t DEF InitiateRegister, InsertRow, Goto, Idle, Request, TxLabels
  <2>2. Respects(p)
    BY <1>12, <1>r, <1>w, <2>1 DEF InitiateRegister, InsertRow, Goto, Respects, TypeInv, TypeOK, IdsInv, EarlyLabels
  <2>3. QED
    BY <1>r, <2>1, <2>2, EndLock
<1>13. ASSUME NEW p \in Procs, InitiatePresign(p) PROVE LockInv'
  <2>1. req'[p].tx = {} /\ \A q \in Procs \ {p} : req'[q] = req[q]
    BY <1>13, <1>r, <1>t DEF InitiatePresign, Goto, Finish, Idle, Request, TxLabels
  <2>2. Respects(p)
    BY <1>13, <1>r, <1>w, <2>1 DEF InitiatePresign, Goto, Finish, Respects, TypeInv, TypeOK
  <2>3. QED
    BY <1>r, <2>1, <2>2, EndLock
<1>14. ASSUME NEW p \in Procs, InitiateAbort(p) PROVE LockInv'
  <2>1. req'[p].tx = {} /\ \A q \in Procs \ {p} : req'[q] = req[q]
    BY <1>14, <1>r, <1>t DEF InitiateAbort, Finish, Idle, Request, TxLabels
  <2>2. Respects(p)
    BY <1>14, <1>r, <1>w, <2>1 DEF InitiateAbort, Finish, Respects, TypeInv, TypeOK
  <2>3. QED
    BY <1>r, <2>1, <2>2, EndLock
<1>15. ASSUME NEW p \in Procs, CompleteAtMinio(p) PROVE LockInv'
  <2>1. req'[p].tx = {} /\ \A q \in Procs \ {p} : req'[q] = req[q]
    BY <1>15, <1>r, <1>t DEF CompleteAtMinio, Goto, Finish, Idle, Request, TxLabels
  <2>2. Respects(p)
    BY <1>15, <1>r, <1>w, <2>1 DEF CompleteAtMinio, Goto, Finish, Respects, TypeInv, TypeOK
  <2>3. QED
    BY <1>r, <2>1, <2>2, EndLock
<1>16. ASSUME NEW p \in Procs, CompleteStat(p) PROVE LockInv'
  <2>1. req'[p].tx = {} /\ \A q \in Procs \ {p} : req'[q] = req[q]
    BY <1>16, <1>r, <1>t DEF CompleteStat, Finish, Idle, Request, TxLabels
  <2>2. Respects(p)
    BY <1>16, <1>r, <1>w, <2>1 DEF CompleteStat, Finish, Respects, TypeInv, TypeOK
  <2>3. QED
    BY <1>r, <2>1, <2>2, EndLock
<1>17. ASSUME NEW p \in Procs, CompleteConfirm(p) PROVE LockInv'
  <2>1. req'[p].tx = {} /\ \A q \in Procs \ {p} : req'[q] = req[q]
    BY <1>17, <1>r, <1>t DEF CompleteConfirm, Finish, Idle, Request, TxLabels
  <2>2. Respects(p)
    BY <1>17, <1>r, <1>w, <2>1 DEF CompleteConfirm, Finish, Respects, TypeInv, TypeOK
  <2>3. QED
    BY <1>r, <2>1, <2>2, EndLock
<1>18. ASSUME NEW p \in Procs, AbortAtMinio(p) PROVE LockInv'
  <2>1. req'[p].tx = {} /\ \A q \in Procs \ {p} : req'[q] = req[q]
    BY <1>18, <1>r, <1>t DEF AbortAtMinio, Goto, Finish, Idle, Request, TxLabels
  <2>2. Respects(p)
    BY <1>18, <1>r, <1>w, <2>1 DEF AbortAtMinio, Goto, Finish, Respects, TypeInv, TypeOK
  <2>3. QED
    BY <1>r, <2>1, <2>2, EndLock
<1>19. ASSUME NEW p \in Procs, AbortRow(p) PROVE LockInv'
  <2>1. req'[p].tx = {} /\ \A q \in Procs \ {p} : req'[q] = req[q]
    BY <1>19, <1>r, <1>t DEF AbortRow, Finish, Idle, Request, TxLabels
  <2>2. Respects(p)
    BY <1>19, <1>r, <1>w, <2>1 DEF AbortRow, Finish, Unlocked, Respects, TypeInv, TypeOK
  <2>3. QED
    BY <1>r, <2>1, <2>2, EndLock
<1>20. ASSUME NEW p \in Procs, HardDeleteRemove(p) PROVE LockInv'
  <2>1. req'[p].tx = {} /\ \A q \in Procs \ {p} : req'[q] = req[q]
    BY <1>20, <1>r, <1>t DEF HardDeleteRemove, Goto, Idle, Request, TxLabels
  <2>2. Respects(p)
    BY <1>20, <1>r, <1>w, <2>1 DEF HardDeleteRemove, Goto, Respects, TypeInv, TypeOK
  <2>3. QED
    BY <1>r, <2>1, <2>2, EndLock
<1>21. ASSUME NEW p \in Procs, HardDeleteRow(p) PROVE LockInv'
  <2>1. req'[p].tx = {} /\ \A q \in Procs \ {p} : req'[q] = req[q]
    BY <1>21, <1>r, <1>t DEF HardDeleteRow, Finish, Idle, Request, TxLabels
  <2>2. Respects(p)
    BY <1>21, <1>r, <1>w, <2>1 DEF HardDeleteRow, Finish, Unlocked, Respects, TypeInv, TypeOK
  <2>3. QED
    BY <1>r, <2>1, <2>2, EndLock
<1>22. ASSUME NEW p \in Procs, MoveBlobRow(p) PROVE LockInv'
  <2>1. req'[p].tx = {} /\ \A q \in Procs \ {p} : req'[q] = req[q]
    BY <1>22, <1>r, <1>t DEF MoveBlobRow, Finish, Idle, Request, TxLabels
  <2>2. Respects(p)
    BY <1>22, <1>r, <1>w, <2>1 DEF MoveBlobRow, Finish, Unlocked, Respects, TypeInv, TypeOK
  <2>3. QED
    BY <1>r, <2>1, <2>2, EndLock
<1>23. ASSUME NEW p \in Procs, TrashFolderWrite(p) PROVE LockInv'
  <2> DEFINE S == BlobsIn({req[p].folder}) \ deletedAt
  <2>1. Write(p, "trash.commit", S)
    BY <1>23 DEF TrashFolderWrite
  <2>2. S \subseteq rows /\ S \cap deletedAt = {} /\ \A b \in S : folderOf[b] = req[p].folder
    BY DEF BlobsIn
  <2> HIDE DEF S
  <2>3. QED
    BY <1>r, <2>1, <2>2, WriteLock
<1>24. ASSUME NEW p \in Procs, TrashFolderCommit(p) PROVE LockInv'
  <2>1. req'[p].tx = {} /\ \A q \in Procs \ {p} : req'[q] = req[q]
    BY <1>24, <1>r, <1>t DEF TrashFolderCommit, Finish, Idle, Request, TxLabels
  <2>2. Respects(p)
    BY <1>24, <1>r, <1>w, <2>1 DEF TrashFolderCommit, Finish, Respects, TypeInv, TypeOK, LockInv
  <2>3. QED
    BY <1>r, <2>1, <2>2, EndLock
<1>25. ASSUME NEW p \in Procs, RestoreFolderWrite(p) PROVE LockInv'
  <2> DEFINE S == BlobsIn({req[p].folder}) \cap deletedAt
  <2>1. Write(p, "restore.commit", S)
    BY <1>25 DEF RestoreFolderWrite
  <2>2. S \subseteq rows /\ S \subseteq deletedAt /\ \A b \in S : folderOf[b] = req[p].folder
    BY DEF BlobsIn
  <2> HIDE DEF S
  <2>3. QED
    BY <1>r, <2>1, <2>2, WriteLock
<1>26. ASSUME NEW p \in Procs, RestoreFolderCommit(p) PROVE LockInv'
  <2>1. req'[p].tx = {} /\ \A q \in Procs \ {p} : req'[q] = req[q]
    BY <1>26, <1>r, <1>t DEF RestoreFolderCommit, Finish, Idle, Request, TxLabels
  <2>2. Respects(p)
    BY <1>26, <1>r, <1>w, <2>1 DEF RestoreFolderCommit, Finish, Respects, TypeInv, TypeOK, LockInv
  <2>3. QED
    BY <1>r, <2>1, <2>2, EndLock
<1>27. ASSUME NEW p \in Procs, RestoreFolderRefused(p) PROVE LockInv'
  <2>1. req'[p].tx = {} /\ \A q \in Procs \ {p} : req'[q] = req[q]
    BY <1>27, <1>r, <1>t DEF RestoreFolderRefused, Finish, Idle, Request, TxLabels
  <2>2. Respects(p)
    BY <1>27, <1>r, <1>w, <2>1 DEF RestoreFolderRefused, Finish, Respects, TypeInv, TypeOK
  <2>3. QED
    BY <1>r, <2>1, <2>2, EndLock
<1>28. ASSUME NEW p \in Procs, HardDeleteFolderBlobs(p) PROVE LockInv'
  <2> DEFINE S == BlobsIn({req[p].folder})
  <2>1. Write(p, "drop.commit", S)
    BY <1>28 DEF HardDeleteFolderBlobs
  <2>2. S \subseteq rows /\ \A b \in S : folderOf[b] = req[p].folder
    BY DEF BlobsIn
  <2> HIDE DEF S
  <2>3. QED
    BY <1>r, <2>1, <2>2, WriteLock
<1>29. ASSUME NEW p \in Procs, HardDeleteFolderCommit(p) PROVE LockInv'
  <2>1. req'[p].tx = {} /\ \A q \in Procs \ {p} : req'[q] = req[q]
    BY <1>29, <1>r DEF HardDeleteFolderCommit, WithKeys, Idle
  <2>2. Respects(p)
    BY <1>29, <1>r, <1>w, <2>1 DEF HardDeleteFolderCommit, DeleteFolders, Unlocked, Respects, LockInv, TypeInv, TypeOK
  <2>3. QED
    BY <1>r, <2>1, <2>2, EndLock
<1>30. ASSUME NEW p \in Procs, EmptyTrashFolders(p) PROVE LockInv'
  <2> DEFINE S == {b \in BlobsIn(TrashedFolders(req[p].user)) : owner[b] = req[p].user}
  <2>1. Write(p, "empty.commit", S)
    BY <1>30 DEF EmptyTrashFolders
  <2>2. S \subseteq rows /\ \A b \in S : folderOf[b] \in Folders
    BY DEF BlobsIn, TrashedFolders, ExpiredFolders, TypeInv, TypeOK
  <2> HIDE DEF S
  <2>3. QED
    BY <1>r, <2>1, <2>2, WriteLock
<1>31. ASSUME NEW p \in Procs, EmptyTrashCommit(p) PROVE LockInv'
  <2>1. req'[p].tx = {} /\ \A q \in Procs \ {p} : req'[q] = req[q]
    BY <1>31, <1>r DEF EmptyTrashCommit, WithKeys, Idle
  <2>2. Respects(p)
    BY <1>31, <1>r, <1>w, <2>1 DEF EmptyTrashCommit, DeleteFolders, Unlocked, Respects, LockInv, TypeInv, TypeOK
  <2>3. QED
    BY <1>r, <2>1, <2>2, EndLock
<1>32. ASSUME NEW p \in Procs, RemoveKey(p) PROVE LockInv'
  <2>1. req'[p].tx = {} /\ \A q \in Procs \ {p} : req'[q] = req[q]
    BY <1>32, <1>r, <1>t DEF RemoveKey, DropKey, WithKeys, Idle, Request, TxLabels
  <2>2. Respects(p)
    BY <1>32, <1>r, <1>w, <2>1 DEF RemoveKey, DropKey, WithKeys, Respects, TypeInv, TypeOK
  <2>3. QED
    BY <1>r, <2>1, <2>2, EndLock
<1>33. ASSUME NEW p \in Procs, InitiateRegisterFails(p) PROVE LockInv'
  <2>1. req'[p].tx = {} /\ \A q \in Procs \ {p} : req'[q] = req[q]
    BY <1>33, <1>r, <1>t DEF InitiateRegisterFails, InsertRow, Goto, Idle, Request, TxLabels
  <2>2. Respects(p)
    BY <1>33, <1>r, <1>w, <2>1 DEF InitiateRegisterFails, InsertRow, Goto, Respects, TypeInv, TypeOK, IdsInv, EarlyLabels
  <2>3. QED
    BY <1>r, <2>1, <2>2, EndLock
<1>34. ASSUME NEW p \in Procs, Fail(p) PROVE LockInv'
  <2>1. req'[p].tx = {} /\ \A q \in Procs \ {p} : req'[q] = req[q]
    BY <1>34, <1>r, <1>t DEF Fail, Finish, Idle, Request, TxLabels
  <2>2. Respects(p)
    BY <1>34, <1>r, <1>w, <2>1 DEF Fail, Finish, Respects, TypeInv, TypeOK
  <2>3. QED
    BY <1>r, <2>1, <2>2, EndLock
<1>35. ASSUME NEW p \in Procs, SkipKey(p) PROVE LockInv'
  <2>1. req'[p].tx = {} /\ \A q \in Procs \ {p} : req'[q] = req[q]
    BY <1>35, <1>r, <1>t DEF SkipKey, DropKey, WithKeys, Idle, Request, TxLabels
  <2>2. Respects(p)
    BY <1>35, <1>r, <1>w, <2>1 DEF SkipKey, DropKey, WithKeys, Respects, TypeInv, TypeOK
  <2>3. QED
    BY <1>r, <2>1, <2>2, EndLock
<1>36. ASSUME NEW u \in Users, NEW b \in Blobs, TrashBlob(u, b) PROVE LockInv'
  BY <1>36, <1>r, <1>t, <1>w DEF TrashBlob, Trashed, Unlocked, LockInv, TypeInv, TypeOK
<1>37. ASSUME NEW u \in Users, NEW b \in Blobs, RestoreBlob(u, b) PROVE LockInv'
  BY <1>37, <1>r, <1>t, <1>w DEF RestoreBlob, Trashed, Unlocked, LockInv, TypeInv, TypeOK
<1>38. CASE PurgeOrphanedBlobs
  <2>1. req'[OrphanJob].tx = {} /\ \A q \in Procs \ {OrphanJob} : req'[q] = req[q]
    BY <1>38, <1>r, <1>t DEF PurgeOrphanedBlobs, Start, WithKeys, DeleteRows, Idle, Request, TxLabels
  <2>2. Respects(OrphanJob)
    BY <1>38, <1>r, <1>w, <2>1 DEF PurgeOrphanedBlobs, Start, WithKeys, DeleteRows, Unlocked, Respects, TypeInv, TypeOK
  <2>3. QED
    BY <1>r, <2>1, <2>2, EndLock
<1>39. CASE OrphanAbort
  <2>1. req'[OrphanJob].tx = {} /\ \A q \in Procs \ {OrphanJob} : req'[q] = req[q]
    BY <1>39, <1>r, <1>t DEF OrphanAbort, DropKey, WithKeys, Idle, Request, TxLabels
  <2>2. Respects(OrphanJob)
    BY <1>39, <1>r, <1>w, <2>1 DEF OrphanAbort, DropKey, WithKeys, Respects, TypeInv, TypeOK
  <2>3. QED
    BY <1>r, <2>1, <2>2, EndLock
<1>40. CASE PurgeExpiredBlobs
  <2>1. req'[TrashJob].tx = {} /\ \A q \in Procs \ {TrashJob} : req'[q] = req[q]
    BY <1>40, <1>r, <1>t DEF PurgeExpiredBlobs, Start, DeleteRows, Idle, Request, TxLabels
  <2>2. Respects(TrashJob)
    BY <1>40, <1>r, <1>w, <2>1 DEF PurgeExpiredBlobs, Start, DeleteRows, Unlocked, Respects, TypeInv, TypeOK
  <2>3. QED
    BY <1>r, <2>1, <2>2, EndLock
<1>41. CASE PurgeExpiredFolders
  <2> DEFINE S == BlobsIn(ExpiredFolders)
  <2>1. Write(TrashJob, "expire.commit", S)
    BY <1>41 DEF PurgeExpiredFolders
  <2>2. S \subseteq rows /\ \A b \in S : folderOf[b] \in Folders
    BY DEF BlobsIn, TrashedFolders, ExpiredFolders, TypeInv, TypeOK
  <2> HIDE DEF S
  <2>3. QED
    BY <1>r, <2>1, <2>2, WriteLock
<1>42. CASE PurgeExpiredCommit
  <2>1. req'[TrashJob].tx = {} /\ \A q \in Procs \ {TrashJob} : req'[q] = req[q]
    BY <1>42, <1>r DEF PurgeExpiredCommit, WithKeys, Idle
  <2>2. Respects(TrashJob)
    BY <1>42, <1>r, <1>w, <2>1 DEF PurgeExpiredCommit, DeleteFolders, Unlocked, Respects, LockInv, TypeInv, TypeOK
  <2>3. QED
    BY <1>r, <2>1, <2>2, EndLock
<1>43. ASSUME NEW b \in Blobs, AgeRow(b) PROVE LockInv'
  BY <1>43 DEF AgeRow, LockInv
<1>44. ASSUME NEW b \in Blobs, AgeTrash(b) PROVE LockInv'
  BY <1>44 DEF AgeTrash, LockInv
<1>45. ASSUME NEW f \in Folders, AgeFolder(f) PROVE LockInv'
  BY <1>45 DEF AgeFolder, LockInv
<1>46. CASE UNCHANGED vars
  BY <1>46 DEF vars, LockInv
<1>47. QED
  BY <1>1, <1>2, <1>3, <1>4, <1>5, <1>6, <1>7, <1>8, <1>9, <1>10, <1>11, <1>12, <1>13,
     <1>14, <1>15, <1>16, <1>17, <1>18, <1>19, <1>20, <1>21, <1>22, <1>23, <1>24,
     <1>25, <1>26, <1>27, <1>28, <1>29, <1>30, <1>31, <1>32, <1>33, <1>34, <1>35,
     <1>36, <1>37, <1>38, <1>39, <1>40, <1>41, <1>42, <1>43, <1>44, <1>45, <1>46
     DEF Next, Continue

-----------------------------------------------------------------------------
\* The mapped variables

\* The status of a file, read off the columns.
StatusNow(b) ==
    IF b \in rows
    THEN IF b \in deletedAt THEN IF b \in uploadedAt THEN "binned" ELSE "binnedDraft"
                            ELSE IF b \in uploadedAt THEN "listed" ELSE "draft"
    ELSE IF Unregistered(b) THEN "new" ELSE "gone"

\* The cases of FileStatusOf exclude one another.
LEMMA StatusFacts ==
    ASSUME NEW b \in Blobs
    PROVE  FileStatusOf(b) = StatusNow(b) /\ FileStatusOf(b)' = StatusNow(b)'
<1>1. FileStatusOf(b) = StatusNow(b)
  BY DEF FileStatusOf, StatusNow, Visible, Pending, Trashed
<1>2. FileStatusOf(b)' = StatusNow(b)'
  BY DEF FileStatusOf, StatusNow, Visible, Pending, Trashed
<1>3. QED
  BY <1>1, <1>2

\* The folder a file is in.
Place(b) == IF b \in rows THEN folderOf[b] ELSE None

\* The labels of a handler that is deleting folders.
DeletingLabels == {"drop.blobs", "drop.commit", "empty.commit", "expire.commit"}

\* The folders that listed files may be given up with.
Condemned == InBin \cup Doomed

\* A step of the promise, or none.
Kept == Promise!Next \/ UNCHANGED Promise!fileVars

\* The statuses and places of the files S change as the step says, and no others.
Elsewhere(S) ==
    \A b \in Blobs \ S : StatusNow(b)' = StatusNow(b) /\ Place(b)' = Place(b)

\* What has to be shown of a step that the owner of a file does not see.
LEMMA StutterMaps ==
    ASSUME Elsewhere({}), UNCHANGED <<InBin, Doomed, owner>>
    PROVE  Kept
  BY StatusFacts DEF Kept, Elsewhere, Place, Promise!fileVars

\* What has to be shown of a registration.
LEMMA RegisterMaps ==
    ASSUME NEW x \in Blobs, NEW u \in Users, NEW d \in Folders \cup {None},
           StatusNow(x) = "new", StatusNow(x)' = "draft", Place(x)' = d,
           Elsewhere({x}), owner' = [owner EXCEPT ![x] = u], UNCHANGED <<InBin, Doomed>>
    PROVE  Kept
<1>1. Promise!Advance({x}, [new |-> "draft"])
  BY StatusFacts DEF Elsewhere, Promise!Advance
<1>2. [b \in Blobs |-> Place(b)'] = [[b \in Blobs |-> Place(b)] EXCEPT ![x] = d]
  BY DEF Elsewhere
<1>3. Promise!Register(x, u, d)
  BY <1>1, <1>2 DEF Place, Promise!Register
<1>4. QED
  BY <1>3 DEF Kept, Promise!Next

\* What has to be shown of a confirmation.
LEMMA ConfirmMaps ==
    ASSUME NEW x \in Blobs,
           StatusNow(x) = "draft", StatusNow(x)' = "listed", Place(x)' = Place(x),
           Elsewhere({x}), UNCHANGED <<InBin, Doomed, owner>>
    PROVE  Kept
<1>1. Promise!Confirm(x)
  BY StatusFacts DEF Elsewhere, Place, Promise!Confirm, Promise!Advance
<1>2. QED
  BY <1>1 DEF Kept, Promise!Next

\* The files S go into the trash, or come back from it.
IntoTrash(S) ==
    \A b \in S : \/ StatusNow(b) = "draft" /\ StatusNow(b)' = "binnedDraft"
                 \/ StatusNow(b) = "listed" /\ StatusNow(b)' = "binned"
OutOfTrash(S) ==
    \A b \in S : \/ StatusNow(b) = "binnedDraft" /\ StatusNow(b)' = "draft"
                 \/ StatusNow(b) = "binned" /\ StatusNow(b)' = "listed"

\* What has to be shown of a file put into the trash.
LEMMA TrashMaps ==
    ASSUME NEW x \in Blobs, IntoTrash({x}), Place(x)' = Place(x),
           Elsewhere({x}), UNCHANGED <<InBin, Doomed, owner>>
    PROVE  Kept
<1>1. Promise!Trash(x)
  BY StatusFacts DEF Elsewhere, IntoTrash, Place, Promise!Trash, Promise!Advance, Promise!ToTrash
<1>2. QED
  BY <1>1 DEF Kept, Promise!Next

\* What has to be shown of a file taken back from the trash.
LEMMA RestoreMaps ==
    ASSUME NEW x \in Blobs, OutOfTrash({x}), Place(x)' \in {Place(x), None},
           Elsewhere({x}), UNCHANGED <<InBin, Doomed, owner>>
    PROVE  Kept
<1>1. Promise!Advance({x}, Promise!FromTrash)
  BY StatusFacts DEF Elsewhere, OutOfTrash, Promise!Advance, Promise!FromTrash
<1>2. \/ [b \in Blobs |-> Place(b)'] = [b \in Blobs |-> Place(b)]
      \/ [b \in Blobs |-> Place(b)'] = [[b \in Blobs |-> Place(b)] EXCEPT ![x] = None]
  BY DEF Elsewhere
<1>3. Promise!Restore(x)
  BY <1>1, <1>2 DEF Place, Promise!Restore
<1>4. QED
  BY <1>3 DEF Kept, Promise!Next

\* What has to be shown of a folder put into the trash with its files.
LEMMA TrashFolderMaps ==
    ASSUME NEW d \in Folders, NEW S \in SUBSET Blobs, IntoTrash(S),
           \A b \in S : Place(b) = d /\ Place(b)' = d,
           Elsewhere(S), InBin' = InBin \cup {d}, UNCHANGED <<Doomed, owner>>
    PROVE  Kept
<1>1. Promise!TrashFolder(d, S)
  BY StatusFacts DEF Elsewhere, IntoTrash, Place, Promise!TrashFolder, Promise!Advance,
     Promise!ToTrash
<1>2. S \in SUBSET Promise!FilesAt(d)
  BY DEF Place, Promise!FilesAt
<1>3. QED
  BY <1>1, <1>2 DEF Kept, Promise!Next

\* What has to be shown of a folder taken back from the trash with its files.
LEMMA RestoreFolderMaps ==
    ASSUME NEW d \in Folders, NEW S \in SUBSET Blobs, OutOfTrash(S),
           \A b \in S : Place(b) = d /\ Place(b)' = d,
           Elsewhere(S), InBin' = InBin \ {d}, UNCHANGED <<Doomed, owner>>
    PROVE  Kept
<1>1. Promise!RestoreFolder(d, S)
  BY StatusFacts DEF Elsewhere, OutOfTrash, Place, Promise!RestoreFolder, Promise!Advance,
     Promise!FromTrash
<1>2. S \in SUBSET Promise!FilesAt(d)
  BY DEF Place, Promise!FilesAt
<1>3. QED
  BY <1>1, <1>2 DEF Kept, Promise!Next

\* What has to be shown of a move to another folder.
LEMMA RefileMaps ==
    ASSUME NEW x \in Blobs, NEW d \in Folders \cup {None},
           StatusNow(x) \in {"draft", "listed"}, StatusNow(x)' = StatusNow(x), Place(x)' = d,
           Elsewhere({x}), UNCHANGED <<InBin, Doomed, owner>>
    PROVE  Kept
<1>1. Promise!Refile(x, d)
  BY StatusFacts DEF Elsewhere, Place, Promise!Refile
<1>2. QED
  BY <1>1 DEF Kept, Promise!Next

\* The files S are given up with the folders D.
Dropped(S, D) ==
    /\ \A b \in S : /\ StatusNow(b) # "gone" /\ StatusNow(b)' = "gone"
                    /\ StatusNow(b) = "listed" => Place(b) \in Condemned
    /\ \A b \in Blobs \ S : StatusNow(b)' = StatusNow(b)
    /\ \A b \in Blobs : Place(b)' = IF b \in S \/ Place(b) \in D THEN None ELSE Place(b)

\* What has to be shown of files and folders given up for good.
LEMMA DiscardMaps ==
    ASSUME TypeInv, NEW S \in SUBSET Blobs, NEW D \in SUBSET Condemned, Dropped(S, D),
           InBin' = InBin \ D, Doomed' \subseteq Doomed \ D, UNCHANGED owner
    PROVE  Kept
<1>1. Promise!Discard(S, D)
  BY StatusFacts DEF Dropped, Condemned, Place, Promise!Discard
<1>2. D \in SUBSET Folders
  BY DEF Condemned, InBin, Doomed, TypeInv, TypeOK
<1>3. QED
  BY <1>1, <1>2 DEF Kept, Promise!Next

\* What has to be shown of a deletion that is asked for.
LEMMA DoomMaps ==
    ASSUME TypeInv, Elsewhere({}), NEW D, D \subseteq InBin, Doomed' = Doomed \cup D,
           UNCHANGED <<InBin, owner>>
    PROVE  Kept
<1>1. Promise!Doom(D)
  BY StatusFacts DEF Elsewhere, Place, Promise!Doom
<1>2. D \in SUBSET Folders
  BY DEF InBin, TypeInv, TypeOK
<1>3. QED
  BY <1>1, <1>2 DEF Kept, Promise!Next

-----------------------------------------------------------------------------
\* The steps

\* Process p ends a step outside the part of an upload that precedes
\* RegisterBlob, and no id is handed out.
Past(p) ==
    /\ UNCHANGED used
    /\ \A q \in Procs \ {p} : req'[q] = req[q]
    /\ req'[p].pc \notin EarlyLabels

\* Such a step registers or gives up the blob p held before RegisterBlob, and
\* no other: ids are known to one handler until then.
LEMMA PastFacts ==
    ASSUME TypeInv, IdsInv, NEW p \in Procs, Past(p), NEW b \in Blobs
    PROVE  Unregistered(b)' <=>
               Unregistered(b) /\ ~(req[p].pc \in EarlyLabels /\ req[p].blob = b)
<1>1. req[p].pc \in EarlyLabels => req[p].blob \in used
  BY BlobsAssumption DEF TypeInv, LocalsOK, BlobLabels, IdsInv, EarlyLabels
<1>2. \A q \in Procs : q # p /\ req[p].pc \in EarlyLabels => req[q].blob # req[p].blob
  BY DEF IdsInv, RefersTo
<1>3. QED
  BY <1>1, <1>2 DEF Past, Unregistered, EarlyLabels

\* A step of p that leaves the folders alone, and the places of the files that
\* others delete with their folders, dooms no folder; a deletion that p ends may
\* free some.
LEMMA DoomedFacts ==
    ASSUME NEW p \in Procs, \A q \in Procs \ {p} : req'[q] = req[q],
           \A q \in Procs : \A b \in req[q].tx : folderOf'[b] = folderOf[b],
           UNCHANGED <<folders, fdeleted>>, req'[p].pc \notin DeletingLabels
    PROVE  /\ UNCHANGED InBin
           /\ Doomed' \subseteq Doomed
           /\ req[p].pc \notin DeletingLabels => Doomed' = Doomed
<1>1. ASSUME NEW f PROVE BeingDeleted(f)' => BeingDeleted(f)
  BY DEF BeingDeleted, DeletingLabels
<1>2. ASSUME NEW f, req[p].pc \notin DeletingLabels PROVE BeingDeleted(f) => BeingDeleted(f)'
  BY <1>2 DEF BeingDeleted, DeletingLabels
<1>3. QED
  BY <1>1, <1>2 DEF InBin, Doomed

\* A step that keeps the columns of files is invisible if it dooms no folder and
\* frees none.
LEMMA HiddenStep ==
    ASSUME TypeInv, IdsInv, NEW p \in Procs, Past(p), req[p].pc \notin EarlyLabels,
           UNCHANGED <<rows, uploadedAt, deletedAt, owner, folderOf, InBin, Doomed>>
    PROVE  Kept
<1>1. Elsewhere({})
  BY PastFacts DEF StatusNow, Place, Elsewhere
<1>2. QED
  BY <1>1, StutterMaps

\* A step that keeps the columns of files and folders may ask for a deletion.
LEMMA DoomStep ==
    ASSUME TypeInv, IdsInv, NEW p \in Procs, Past(p), req[p].pc \notin EarlyLabels,
           UNCHANGED <<rows, uploadedAt, deletedAt, owner, folderOf, folders, fdeleted>>,
           NEW D, D \subseteq InBin, \A g \in folders : BeingDeleted(g)' <=> BeingDeleted(g) \/ g \in D
    PROVE  Kept
<1>1. Elsewhere({})
  BY PastFacts DEF StatusNow, Place, Elsewhere
<1>2. Doomed' = Doomed \cup D /\ UNCHANGED InBin
  BY DEF InBin, Doomed
<1>3. QED
  BY <1>1, <1>2, DoomMaps

\* Process p has nothing to do with the deletion of folders, before the step or
\* after it.
Aside(p) == req[p].pc \notin DeletingLabels /\ req'[p].pc \notin DeletingLabels

\* A handler that keeps the columns of files and folders, past RegisterBlob,
\* is invisible.
LEMMA QuietStep ==
    ASSUME TypeInv, IdsInv, NEW p \in Procs, Past(p), Aside(p), req[p].pc \notin EarlyLabels,
           UNCHANGED <<rows, uploadedAt, deletedAt, owner, folderOf, folders, fdeleted>>
    PROVE  Kept
<1>1. UNCHANGED <<InBin, Doomed>>
  BY DoomedFacts DEF Past, Aside
<1>2. QED
  BY <1>1, HiddenStep

\* A step that concerns neither handlers nor files is invisible, too.
LEMMA StillStep ==
    ASSUME UNCHANGED <<rows, uploadedAt, deletedAt, owner, folderOf, folders, fdeleted, req, used>>
    PROVE  Kept
<1>1. Elsewhere({})
  BY DEF StatusNow, Unregistered, Place, Elsewhere
<1>2. UNCHANGED <<InBin, Doomed>>
  BY DEF InBin, Doomed, BeingDeleted
<1>3. QED
  BY <1>1, <1>2, StutterMaps

\* Folders are doomed no more by a handler that fails while it deletes them.
LEMMA GiveUpStep ==
    ASSUME TypeInv, IdsInv, NEW p \in Procs, Past(p), req[p].pc \notin EarlyLabels,
           req'[p].pc \notin DeletingLabels,
           UNCHANGED <<rows, uploadedAt, deletedAt, owner, folderOf, folders, fdeleted>>
    PROVE  Kept
<1>1. UNCHANGED InBin /\ Doomed' \subseteq Doomed
  BY DoomedFacts DEF Past
<1>2. Dropped({}, {})
  BY PastFacts DEF StatusNow, Place, Dropped
<1>3. /\ InBin' = InBin \ {} /\ Doomed' \subseteq Doomed \ {}
      /\ {} \in SUBSET Blobs /\ {} \in SUBSET Condemned
  BY <1>1
<1>4. QED
  BY <1>2, <1>3, DiscardMaps

\* A handler that ends before RegisterBlob gives up its id.
LEMMA EarlyEnd ==
    ASSUME TypeInv, IdsInv, NEW p \in Procs, Past(p), req[p].pc \in EarlyLabels,
           req'[p].pc \notin DeletingLabels,
           UNCHANGED <<rows, uploadedAt, deletedAt, owner, folderOf, folders, fdeleted>>
    PROVE  Kept
<1>1. PICK x \in Blobs : x = req[p].blob
  BY DEF TypeInv, LocalsOK, BlobLabels
<1>2. x \notin rows /\ Unregistered(x)
  BY <1>1 DEF IdsInv, Unregistered, EarlyLabels
<1>3. StatusNow(x) = "new" /\ StatusNow(x)' = "gone"
  BY <1>1, <1>2, PastFacts DEF StatusNow
<1>4. \A b \in Blobs \ {x} : StatusNow(b)' = StatusNow(b)
  BY <1>1, PastFacts DEF StatusNow
<1> DEFINE S == {x}
<1>5. S \in SUBSET Blobs /\ Dropped(S, {})
  BY <1>2, <1>3, <1>4 DEF Dropped, Place
<1>6. InBin' = InBin \ {} /\ Doomed' \subseteq Doomed \ {} /\ {} \in SUBSET Condemned
  BY DoomedFacts DEF Past
<1> HIDE DEF S
<1>7. QED
  BY <1>5, <1>6, DiscardMaps

\* RegisterBlob.
LEMMA RegisterStep ==
    ASSUME TypeInv, IdsInv, FilesInv, LockInv, NEW p \in Procs, Past(p), Aside(p),
           req[p].pc = "init.register", req[p].folder \in folders \cup {None},
           InsertRow(req[p].blob, req[p].user, req[p].size, req[p].folder),
           UNCHANGED folderVars
    PROVE  Kept
<1>x. PICK x \in Blobs, u \in Users, d \in Folders \cup {None} :
        x = req[p].blob /\ u = req[p].user /\ d = req[p].folder
  BY DEF TypeInv, TypeOK, LocalsOK, BlobLabels, EarlyLabels
<1>1. x \notin rows /\ x \notin uploadedAt /\ x \notin deletedAt /\ Unregistered(x)
  BY <1>x DEF IdsInv, FilesInv, Unregistered, EarlyLabels
<1>2. /\ rows' = rows \cup {x} /\ owner' = [owner EXCEPT ![x] = u]
      /\ folderOf' = [folderOf EXCEPT ![x] = d]
      /\ UNCHANGED <<uploadedAt, deletedAt, folders, fdeleted>>
  BY <1>x DEF InsertRow, folderVars
<1>3. \A b \in rows : folderOf'[b] = folderOf[b]
  BY <1>1, <1>2 DEF TypeInv, TypeOK
<1>4. StatusNow(x) = "new" /\ StatusNow(x)' = "draft" /\ Place(x)' = d
  BY <1>1, <1>2 DEF StatusNow, Place, TypeInv, TypeOK
<1>5. Elsewhere({x})
  BY <1>x, <1>1, <1>2, <1>3, PastFacts DEF StatusNow, Place, Elsewhere
<1>6. UNCHANGED <<InBin, Doomed>>
  <2>1. \A q \in Procs : \A b \in req[q].tx : folderOf'[b] = folderOf[b]
    BY <1>3 DEF LockInv
  <2>2. QED
    BY <1>2, <2>1, DoomedFacts DEF Past, Aside
<1>7. QED
  BY <1>2, <1>4, <1>5, <1>6, RegisterMaps

\* A DELETE of files that are not listed.
LEMMA DeleteStep ==
    ASSUME TypeInv, IdsInv, NEW p \in Procs, Past(p), Aside(p), req[p].pc \notin EarlyLabels,
           NEW S, S \subseteq rows, rows' = rows \ S,
           \A b \in S : ~(b \in uploadedAt /\ b \notin deletedAt),
           UNCHANGED <<uploadedAt, deletedAt, owner, folderOf, folders, fdeleted>>
    PROVE  Kept
<1>1. S \in SUBSET Blobs /\ S \subseteq used
  BY DEF TypeInv, TypeOK, IdsInv
<1>2. \A b \in S : ~Unregistered(b)
  BY <1>1 DEF Unregistered, TypeInv, IdsInv, EarlyLabels
<1>3. \A b \in S : StatusNow(b) # "gone" /\ StatusNow(b) # "listed"
  BY DEF StatusNow
<1>4. \A b \in S : StatusNow(b)' = "gone"
  BY <1>1, <1>2, PastFacts DEF StatusNow
<1>5. \A b \in Blobs \ S : StatusNow(b)' = StatusNow(b)
  BY PastFacts DEF StatusNow
<1>6. \A b \in Blobs : Place(b)' = IF b \in S THEN None ELSE Place(b)
  BY DEF Place
<1>7. Dropped(S, {})
  BY <1>3, <1>4, <1>5, <1>6 DEF Dropped
<1>8. InBin' = InBin \ {} /\ Doomed' \subseteq Doomed \ {} /\ {} \in SUBSET Condemned
  BY DoomedFacts DEF Past, Aside
<1>9. QED
  BY <1>1, <1>7, <1>8, DiscardMaps

\* The commit of a deletion of folders: of those in F that exist all are
\* condemned, and so are those of the files that go.
LEMMA DropStep ==
    ASSUME TypeInv, IdsInv, FilesInv, LockInv, NEW p \in Procs, Past(p),
           req[p].pc \notin EarlyLabels, req'[p].pc \notin DeletingLabels,
           NEW F, DeleteFolders(req[p].tx, F), F \cap folders \subseteq Condemned, None \notin F,
           \A b \in req[p].tx : folderOf[b] \in Condemned
    PROVE  Kept
<1> DEFINE S == req[p].tx
           D == F \cap folders
<1>1. /\ rows' = rows \ S /\ folders' = folders \ F
      /\ folderOf' = [b \in Blobs |-> IF b \in BlobsIn(F) \ S THEN None ELSE folderOf[b]]
      /\ UNCHANGED <<uploadedAt, deletedAt, owner, fdeleted>>
  BY DEF DeleteFolders
<1>2. S \subseteq rows /\ S \in SUBSET Blobs /\ S \subseteq used /\ D \in SUBSET Condemned
  BY DEF TypeInv, TypeOK, IdsInv, LockInv
<1>3. \A b \in S : folderOf[b] \in Condemned
  OBVIOUS
<1>4. /\ \A q \in Procs \ {p} : req'[q] = req[q]
      /\ req'[p].pc \notin DeletingLabels
  BY DEF Past
<1> HIDE DEF S
<1>5. \A b \in S : ~Unregistered(b)
  BY <1>2 DEF Unregistered, TypeInv, IdsInv, EarlyLabels
<1>6. \A b \in S : StatusNow(b) # "gone" /\ StatusNow(b)' = "gone" /\ Place(b) \in Condemned
  BY <1>1, <1>2, <1>3, <1>5, PastFacts DEF StatusNow, Place
<1>7. \A b \in Blobs \ S : StatusNow(b)' = StatusNow(b)
  BY <1>1, PastFacts DEF StatusNow
<1>8. \A b \in Blobs : Place(b)' = IF b \in S \/ Place(b) \in D THEN None ELSE Place(b)
  BY <1>1 DEF Place, BlobsIn, FilesInv
<1>9. Dropped(S, D)
  BY <1>6, <1>7, <1>8 DEF Dropped
<1>10. InBin' = InBin \ D /\ Doomed' \subseteq Doomed \ D
  <2>1. ASSUME NEW f \in folders' PROVE f \in folders /\ f \notin D /\ f # None
    BY <1>1, <2>1, FoldersAssumption DEF TypeInv, TypeOK
  <2>2. ASSUME NEW f \in folders', BeingDeleted(f)' PROVE BeingDeleted(f)
    <3>1. PICK q \in Procs :
            \/ req'[q].pc \in {"drop.blobs", "drop.commit"} /\ req'[q].folder = f
            \/ /\ req'[q].pc \in {"empty.commit", "expire.commit"}
               /\ \E b \in req'[q].tx : folderOf'[b] = f
      BY <2>2 DEF BeingDeleted
    <3>2. q # p /\ req'[q] = req[q]
      BY <1>4, <3>1 DEF DeletingLabels
    <3>3. \A b \in req[q].tx : b \in Blobs
      BY DEF TypeInv, TypeOK, LockInv
    <3>4. \A b \in Blobs : folderOf'[b] = f => folderOf[b] = f
      BY <1>1, <2>1
    <3>5. QED
      BY <3>1, <3>2, <3>3, <3>4 DEF BeingDeleted
  <2>3. InBin' = InBin \ D
    BY <1>1 DEF InBin
  <2>4. QED
    BY <2>1, <2>2, <2>3 DEF Doomed
<1> HIDE DEF D
<1>11. QED
  BY <1>1, <1>2, <1>9, <1>10, DiscardMaps

\* Every step of BlobLifecycle is a step of the promise, or none.
LEMMA NextKept == TypeInv /\ IdsInv /\ FilesInv /\ LockInv /\ [Next]_vars => Kept
<1> SUFFICES ASSUME TypeInv, IdsInv, FilesInv, LockInv, [Next]_vars PROVE Kept
  OBVIOUS
<1> USE UsersAssumption, BlobsAssumption, FoldersAssumption, ProcsAssumption
<1> USE DEF blobVars, folderVars, minioVars, histVars
<1>r. req \in [Procs -> Request] /\ Reqs \subseteq Procs
      /\ OrphanJob \in Procs /\ TrashJob \in Procs
  BY DEF TypeInv, TypeOK, Procs
<1>1. ASSUME NEW p \in Reqs, NEW u \in Users, NEW n \in Sizes, NEW f \in Folders \cup {None},
             InitiateCheckQuota(p, u, n, f)
      PROVE  Kept
  <2>1. PICK b \in Blobs \ used :
          /\ used' = used \cup {b}
          /\ Start(p, [pc |-> IF f = None THEN "init.new" ELSE "init.folder", user |-> u, blob |-> b,
                       folder |-> f, size |-> n, keys |-> {}, tx |-> {}])
    BY <1>1 DEF InitiateCheckQuota
  <2>2. /\ req[p].pc = "idle"
        /\ req'[p].blob = b /\ req'[p].pc \in EarlyLabels
        /\ \A q \in Procs \ {p} : req'[q] = req[q]
    BY <1>r, <2>1 DEF Start, EarlyLabels
  <2>3. \A x \in Blobs : Unregistered(x)' <=> Unregistered(x)
    BY <1>r, <2>1, <2>2 DEF Unregistered, EarlyLabels, IdsInv
  <2>4. UNCHANGED <<rows, uploadedAt, deletedAt, owner, folderOf, folders, fdeleted>>
    BY <1>1 DEF InitiateCheckQuota
  <2>5. UNCHANGED <<InBin, Doomed>>
    BY <1>r, <2>2, <2>4, DoomedFacts DEF EarlyLabels, DeletingLabels
  <2>6. Elsewhere({})
    BY <2>3, <2>4 DEF StatusNow, Place, Elsewhere
  <2>7. QED
    BY <2>4, <2>5, <2>6, StutterMaps
<1>2. ASSUME NEW p \in Reqs, NEW u \in Users, NEW b \in Blobs,
             CompleteRead(p, u, b)
      PROVE  Kept
  <2>1. Past(p) /\ Aside(p) /\ req[p].pc \notin EarlyLabels
    BY <1>2, <1>r DEF CompleteRead, Start, OnBlob, Past, Aside, EarlyLabels, DeletingLabels, Request, Idle
  <2>2. QED
    BY <1>2, <1>r, <2>1, QuietStep DEF CompleteRead
<1>3. ASSUME NEW p \in Reqs, NEW u \in Users, NEW b \in Blobs, AbortRead(p, u, b) PROVE Kept
  <2>1. Past(p) /\ Aside(p) /\ req[p].pc \notin EarlyLabels
    BY <1>3, <1>r DEF AbortRead, Start, OnBlob, Past, Aside, EarlyLabels, DeletingLabels, Request, Idle
  <2>2. QED
    BY <1>3, <1>r, <2>1, QuietStep DEF AbortRead
<1>4. ASSUME NEW p \in Reqs, NEW u \in Users, NEW b \in Blobs,
             HardDeletePeek(p, u, b)
      PROVE  Kept
  <2>1. Past(p) /\ Aside(p) /\ req[p].pc \notin EarlyLabels
    BY <1>4, <1>r DEF HardDeletePeek, Start, OnBlob, Past, Aside, EarlyLabels, DeletingLabels, Request, Idle
  <2>2. QED
    BY <1>4, <1>r, <2>1, QuietStep DEF HardDeletePeek
<1>5. ASSUME NEW p \in Reqs, NEW u \in Users, NEW b \in Blobs, NEW f \in Folders \cup {None},
             MoveBlobCheck(p, u, b, f)
      PROVE  Kept
  <2>1. Past(p) /\ Aside(p) /\ req[p].pc \notin EarlyLabels
    BY <1>5, <1>r DEF MoveBlobCheck, Start, OnBlob, Past, Aside, EarlyLabels, DeletingLabels, Request, Idle
  <2>2. QED
    BY <1>5, <1>r, <2>1, QuietStep DEF MoveBlobCheck
<1>6. ASSUME NEW p \in Reqs, NEW u \in Users, NEW f \in Folders,
             TrashFolderRead(p, u, f)
      PROVE  Kept
  <2>1. Past(p) /\ Aside(p) /\ req[p].pc \notin EarlyLabels
    BY <1>6, <1>r DEF TrashFolderRead, Start, OnFolder, Past, Aside, EarlyLabels, DeletingLabels, Request, Idle
  <2>2. QED
    BY <1>6, <1>r, <2>1, QuietStep DEF TrashFolderRead
<1>7. ASSUME NEW p \in Reqs, NEW u \in Users, NEW f \in Folders,
             RestoreFolderRead(p, u, f)
      PROVE  Kept
  <2>1. Past(p) /\ Aside(p) /\ req[p].pc \notin EarlyLabels
    BY <1>7, <1>r DEF RestoreFolderRead, Start, OnFolder, Past, Aside, EarlyLabels, DeletingLabels, Request, Idle
  <2>2. QED
    BY <1>7, <1>r, <2>1, QuietStep DEF RestoreFolderRead
<1>8. ASSUME NEW p \in Reqs, NEW u \in Users, NEW f \in Folders,
             HardDeleteFolderRead(p, u, f)
      PROVE  Kept
  <2>1. Past(p) /\ req[p].pc = "idle"
    BY <1>8, <1>r DEF HardDeleteFolderRead, Start, OnFolder, Past, EarlyLabels, Idle
  <2>2. /\ UNCHANGED <<rows, uploadedAt, deletedAt, owner, folderOf, folders, fdeleted>>
        /\ f \in folders \cap fdeleted
        /\ req'[p].pc = "drop.blobs" /\ req'[p].folder = f
    BY <1>8, <1>r DEF HardDeleteFolderRead, Start, OnFolder, Idle
  <2>3. \A g : BeingDeleted(g)' <=> BeingDeleted(g) \/ g = f
    BY <1>r, <2>1, <2>2 DEF BeingDeleted, Past
  <2> DEFINE D == {f}
  <2>4. D \subseteq InBin /\ \A g \in folders : BeingDeleted(g)' <=> BeingDeleted(g) \/ g \in D
    BY <2>2, <2>3 DEF InBin
  <2> HIDE DEF D
  <2>5. QED
    BY <1>r, <2>1, <2>2, <2>4, DoomStep DEF EarlyLabels
<1>9. ASSUME NEW p \in Reqs, NEW u \in Users, EmptyTrashBlobs(p, u) PROVE Kept
  <2> DEFINE S == {b \in rows : owner[b] = u /\ b \in deletedAt}
  <2>1. Past(p) /\ Aside(p) /\ req[p].pc \notin EarlyLabels
    BY <1>9, <1>r DEF EmptyTrashBlobs, Start, Past, Aside, EarlyLabels, DeletingLabels, Idle
  <2>2. /\ rows' = rows \ S
        /\ UNCHANGED <<uploadedAt, deletedAt, owner, folderOf, folders, fdeleted>>
    BY <1>9 DEF EmptyTrashBlobs, DeleteRows
  <2>3. S \subseteq rows /\ \A b \in S : ~(b \in uploadedAt /\ b \notin deletedAt)
    OBVIOUS
  <2> HIDE DEF S
  <2>4. QED
    BY <1>r, <2>1, <2>2, <2>3, DeleteStep
<1>10. ASSUME NEW p \in Procs, InitiateRequireFolder(p) PROVE Kept
  <2>1. UNCHANGED <<rows, uploadedAt, deletedAt, owner, folderOf, folders, fdeleted, used>>
    BY <1>10 DEF InitiateRequireFolder
  <2>2. CASE Finish(p)
    <3>1. Past(p) /\ req[p].pc \in EarlyLabels /\ req'[p].pc \notin DeletingLabels
      BY <1>10, <1>r, <2>1, <2>2
         DEF InitiateRequireFolder, Finish, Past, EarlyLabels, DeletingLabels, Idle
    <3>2. QED
      BY <2>1, <3>1, EarlyEnd
  <2>3. CASE Goto(p, "init.new")
    <3>1. /\ req[p].pc \in EarlyLabels /\ req'[p].pc \in EarlyLabels /\ req'[p].blob = req[p].blob
          /\ \A q \in Procs \ {p} : req'[q] = req[q]
      BY <1>10, <1>r, <2>3 DEF InitiateRequireFolder, Goto, EarlyLabels, Request
    <3>2. \A x \in Blobs : Unregistered(x)' <=> Unregistered(x)
      BY <2>1, <3>1 DEF Unregistered, EarlyLabels
    <3>3. UNCHANGED <<InBin, Doomed>>
      BY <2>1, <3>1, DoomedFacts DEF EarlyLabels, DeletingLabels
    <3>4. Elsewhere({})
      BY <2>1, <3>2 DEF StatusNow, Place, Elsewhere
    <3>5. QED
      BY <2>1, <3>3, <3>4, StutterMaps
  <2>4. QED
    BY <1>10, <2>2, <2>3 DEF InitiateRequireFolder
<1>11. ASSUME NEW p \in Procs, InitiateNewUpload(p) PROVE Kept
  <2>1. UNCHANGED <<rows, uploadedAt, deletedAt, owner, folderOf, folders, fdeleted, used>>
    BY <1>11 DEF InitiateNewUpload
  <2>2. /\ req[p].pc \in EarlyLabels /\ req'[p].pc \in EarlyLabels /\ req'[p].blob = req[p].blob
        /\ \A q \in Procs \ {p} : req'[q] = req[q]
    BY <1>11, <1>r DEF InitiateNewUpload, Goto, EarlyLabels, Request
  <2>3. \A x \in Blobs : Unregistered(x)' <=> Unregistered(x)
    BY <2>1, <2>2 DEF Unregistered, EarlyLabels
  <2>4. UNCHANGED <<InBin, Doomed>>
    BY <2>1, <2>2, DoomedFacts DEF EarlyLabels, DeletingLabels
  <2>5. Elsewhere({})
    BY <2>1, <2>3 DEF StatusNow, Place, Elsewhere
  <2>6. QED
    BY <2>1, <2>4, <2>5, StutterMaps
<1>12. ASSUME NEW p \in Procs, InitiateRegister(p) PROVE Kept
  <2>1. Past(p) /\ Aside(p) /\ req[p].pc = "init.register" /\ req[p].pc \in EarlyLabels
    BY <1>12, <1>r DEF InitiateRegister, Goto, Past, Aside, EarlyLabels, DeletingLabels, Request
  <2>2. CASE req[p].folder \in folders \cup {None}
    BY <1>12, <2>1, <2>2, RegisterStep DEF InitiateRegister
  <2>3. CASE req[p].folder \notin folders \cup {None}
    BY <1>12, <2>1, <2>3, EarlyEnd DEF InitiateRegister, Aside
  <2>4. QED
    BY <2>2, <2>3
<1>13. ASSUME NEW p \in Procs, InitiatePresign(p) PROVE Kept
  <2>1. Past(p) /\ Aside(p) /\ req[p].pc \notin EarlyLabels
    BY <1>13, <1>r DEF InitiatePresign, Goto, Finish, Past, Aside, EarlyLabels, DeletingLabels, Request, Idle
  <2>2. QED
    BY <1>13, <1>r, <2>1, QuietStep DEF InitiatePresign
<1>14. ASSUME NEW p \in Procs, InitiateAbort(p) PROVE Kept
  <2>1. Past(p) /\ Aside(p) /\ req[p].pc \notin EarlyLabels
    BY <1>14, <1>r DEF InitiateAbort, Finish, Past, Aside, EarlyLabels, DeletingLabels, Request, Idle
  <2>2. QED
    BY <1>14, <1>r, <2>1, QuietStep DEF InitiateAbort
<1>15. ASSUME NEW p \in Procs, CompleteAtMinio(p) PROVE Kept
  <2>1. Past(p) /\ Aside(p) /\ req[p].pc \notin EarlyLabels
    BY <1>15, <1>r DEF CompleteAtMinio, Goto, Finish, Past, Aside, EarlyLabels, DeletingLabels, Request, Idle
  <2>2. QED
    BY <1>15, <1>r, <2>1, QuietStep DEF CompleteAtMinio
<1>16. ASSUME NEW p \in Procs, CompleteStat(p) PROVE Kept
  <2>1. Past(p) /\ Aside(p) /\ req[p].pc \notin EarlyLabels
    BY <1>16, <1>r DEF CompleteStat, Finish, Past, Aside, EarlyLabels, DeletingLabels, Request, Idle
  <2>2. QED
    BY <1>16, <1>r, <2>1, QuietStep DEF CompleteStat
<1>17. ASSUME NEW p \in Procs, CompleteConfirm(p) PROVE Kept
  <2>1. Past(p) /\ Aside(p) /\ req[p].pc \notin EarlyLabels
    BY <1>17, <1>r DEF CompleteConfirm, Finish, Past, Aside, EarlyLabels, DeletingLabels, Idle
  <2>2. UNCHANGED <<rows, deletedAt, owner, folderOf, folders, fdeleted>>
    BY <1>17 DEF CompleteConfirm
  <2>3. CASE Pending(req[p].blob)
    <3>1. PICK x \in Blobs : x = req[p].blob
      BY <2>3 DEF Pending, TypeInv, TypeOK
    <3>2. uploadedAt' = uploadedAt \cup {x}
      BY <1>17, <2>3, <3>1 DEF CompleteConfirm
    <3>3. StatusNow(x) = "draft" /\ StatusNow(x)' = "listed" /\ Place(x)' = Place(x)
      BY <2>2, <2>3, <3>1, <3>2 DEF Pending, StatusNow, Place
    <3>4. Elsewhere({x})
      BY <2>1, <2>2, <3>2, PastFacts DEF StatusNow, Place, Elsewhere
    <3>5. UNCHANGED <<InBin, Doomed, owner>>
      BY <2>1, <2>2, DoomedFacts DEF Past, Aside
    <3>6. QED
      BY <3>3, <3>4, <3>5, ConfirmMaps
  <2>4. CASE ~Pending(req[p].blob)
    BY <1>17, <2>1, <2>2, <2>4, QuietStep DEF CompleteConfirm
  <2>5. QED
    BY <2>3, <2>4
<1>18. ASSUME NEW p \in Procs, AbortAtMinio(p) PROVE Kept
  <2>1. Past(p) /\ Aside(p) /\ req[p].pc \notin EarlyLabels
    BY <1>18, <1>r DEF AbortAtMinio, Goto, Finish, Past, Aside, EarlyLabels, DeletingLabels, Request, Idle
  <2>2. QED
    BY <1>18, <1>r, <2>1, QuietStep DEF AbortAtMinio
<1>19. ASSUME NEW p \in Procs, AbortRow(p) PROVE Kept
  <2> DEFINE S == IF Pending(req[p].blob) THEN {req[p].blob} ELSE {}
  <2>1. Past(p) /\ Aside(p) /\ req[p].pc \notin EarlyLabels
    BY <1>19, <1>r DEF AbortRow, Finish, Past, Aside, EarlyLabels, DeletingLabels, Idle
  <2>2. /\ rows' = rows \ S
        /\ UNCHANGED <<uploadedAt, deletedAt, owner, folderOf, folders, fdeleted>>
    BY <1>19 DEF AbortRow
  <2>3. S \subseteq rows /\ \A b \in S : ~(b \in uploadedAt /\ b \notin deletedAt)
    BY DEF Pending
  <2> HIDE DEF S
  <2>4. QED
    BY <1>r, <2>1, <2>2, <2>3, DeleteStep
<1>20. ASSUME NEW p \in Procs, HardDeleteRemove(p) PROVE Kept
  <2>1. Past(p) /\ Aside(p) /\ req[p].pc \notin EarlyLabels
    BY <1>20, <1>r DEF HardDeleteRemove, Goto, Past, Aside, EarlyLabels, DeletingLabels, Request, Idle
  <2>2. QED
    BY <1>20, <1>r, <2>1, QuietStep DEF HardDeleteRemove
<1>21. ASSUME NEW p \in Procs, HardDeleteRow(p) PROVE Kept
  <2> DEFINE S == IF Trashed(req[p].blob) THEN {req[p].blob} ELSE {}
  <2>1. Past(p) /\ Aside(p) /\ req[p].pc \notin EarlyLabels
    BY <1>21, <1>r DEF HardDeleteRow, Finish, Past, Aside, EarlyLabels, DeletingLabels, Idle
  <2>2. /\ rows' = rows \ S
        /\ UNCHANGED <<uploadedAt, deletedAt, owner, folderOf, folders, fdeleted>>
    BY <1>21 DEF HardDeleteRow
  <2>3. S \subseteq rows /\ \A b \in S : ~(b \in uploadedAt /\ b \notin deletedAt)
    BY DEF Trashed
  <2> HIDE DEF S
  <2>4. QED
    BY <1>r, <2>1, <2>2, <2>3, DeleteStep
<1>22. ASSUME NEW p \in Procs, MoveBlobRow(p) PROVE Kept
  <2>1. Past(p) /\ Aside(p) /\ req[p].pc \notin EarlyLabels
    BY <1>22, <1>r DEF MoveBlobRow, Finish, Past, Aside, EarlyLabels, DeletingLabels, Idle
  <2>2. UNCHANGED <<rows, uploadedAt, deletedAt, owner, folders, fdeleted>>
    BY <1>22 DEF MoveBlobRow
  <2>3. CASE req[p].blob \in rows \ deletedAt /\ req[p].folder \in folders \cup {None}
    <3>1. PICK x \in Blobs, d \in Folders \cup {None} : x = req[p].blob /\ d = req[p].folder
      BY <2>3 DEF TypeInv, TypeOK
    <3>2. folderOf' = [folderOf EXCEPT ![x] = d] /\ x \in rows \ deletedAt
      BY <1>22, <2>3, <3>1 DEF MoveBlobRow
    <3>3. /\ StatusNow(x) \in {"draft", "listed"} /\ StatusNow(x)' = StatusNow(x)
          /\ Place(x)' = d
      BY <2>2, <3>2 DEF StatusNow, Place, TypeInv, TypeOK
    <3>4. Elsewhere({x})
      BY <2>1, <2>2, <3>2, PastFacts DEF StatusNow, Place, Elsewhere, TypeInv, TypeOK
    <3>5. \A q \in Procs : \A b \in req[q].tx : folderOf'[b] = folderOf[b]
      BY <1>22, <3>1, <3>2 DEF MoveBlobRow, Unlocked, TypeInv, TypeOK
    <3>6. UNCHANGED <<InBin, Doomed, owner>>
      BY <2>1, <2>2, <3>5, DoomedFacts DEF Past, Aside
    <3>7. QED
      BY <3>3, <3>4, <3>6, RefileMaps
  <2>4. CASE ~(req[p].blob \in rows \ deletedAt /\ req[p].folder \in folders \cup {None})
    BY <1>22, <2>1, <2>2, <2>4, QuietStep DEF MoveBlobRow
  <2>5. QED
    BY <2>3, <2>4
<1>23. ASSUME NEW p \in Procs, TrashFolderWrite(p) PROVE Kept
  <2>1. Past(p) /\ Aside(p) /\ req[p].pc \notin EarlyLabels
    BY <1>23, <1>r DEF TrashFolderWrite, Write, Past, Aside, EarlyLabels, DeletingLabels, Request
  <2>2. QED
    BY <1>23, <2>1, QuietStep DEF TrashFolderWrite, Write
<1>24. ASSUME NEW p \in Procs, TrashFolderCommit(p) PROVE Kept
  <2>1. Past(p) /\ Aside(p) /\ req[p].pc \notin EarlyLabels
    BY <1>24, <1>r DEF TrashFolderCommit, Finish, Past, Aside, EarlyLabels, DeletingLabels, Idle
  <2>2. PICK d \in Folders, S \in SUBSET Blobs : d = req[p].folder /\ S = req[p].tx
    BY <1>24, <1>r DEF TrashFolderCommit, TypeInv, LocalsOK, FolderLabels, Request
  <2>3. /\ deletedAt' = deletedAt \cup S /\ fdeleted' = fdeleted \cup ({d} \cap folders)
        /\ UNCHANGED <<rows, uploadedAt, owner, folderOf, folders>>
    BY <1>24, <2>2 DEF TrashFolderCommit
  <2>4. S \subseteq rows /\ S \cap deletedAt = {} /\ \A b \in S : folderOf[b] = d
    BY <1>24, <2>2 DEF TrashFolderCommit, LockInv
  <2>5. IntoTrash(S) /\ Elsewhere(S) /\ \A b \in S : Place(b) = d /\ Place(b)' = d
    <3>1. \A b \in S : b \in rows /\ b \in rows' /\ b \notin deletedAt /\ b \in deletedAt'
                       /\ (b \in uploadedAt' <=> b \in uploadedAt)
      BY <2>3, <2>4
    <3>2. IntoTrash(S)
      BY <3>1 DEF StatusNow, IntoTrash
    <3>3. Elsewhere(S)
      BY <2>1, <2>3, PastFacts DEF StatusNow, Place, Elsewhere
    <3>4. QED
      BY <2>3, <2>4, <3>2, <3>3 DEF Place
  <2>6. \A g : BeingDeleted(g)' <=> BeingDeleted(g)
    BY <2>1, <2>3 DEF BeingDeleted, Past, Aside, DeletingLabels
  <2>7. CASE d \in folders
    <3>1. InBin' = InBin \cup {d} /\ UNCHANGED Doomed
      BY <2>3, <2>6, <2>7 DEF InBin, Doomed
    <3>2. QED
      BY <2>3, <2>5, <3>1, TrashFolderMaps
  <2>8. CASE d \notin folders
    <3>1. S = {}
      BY <2>4, <2>8 DEF FilesInv
    <3>2. UNCHANGED <<InBin, Doomed>>
      BY <2>3, <2>6, <2>8 DEF InBin, Doomed
    <3>3. QED
      BY <2>3, <2>5, <3>1, <3>2, StutterMaps
  <2>9. QED
    BY <2>7, <2>8
<1>25. ASSUME NEW p \in Procs, RestoreFolderWrite(p) PROVE Kept
  <2>1. Past(p) /\ Aside(p) /\ req[p].pc \notin EarlyLabels
    BY <1>25, <1>r DEF RestoreFolderWrite, Write, Past, Aside, EarlyLabels, DeletingLabels, Request
  <2>2. QED
    BY <1>25, <2>1, QuietStep DEF RestoreFolderWrite, Write
<1>26. ASSUME NEW p \in Procs, RestoreFolderCommit(p) PROVE Kept
  <2>1. Past(p) /\ Aside(p) /\ req[p].pc \notin EarlyLabels
    BY <1>26, <1>r DEF RestoreFolderCommit, Finish, Past, Aside, EarlyLabels, DeletingLabels, Idle
  <2>2. PICK d \in Folders, S \in SUBSET Blobs : d = req[p].folder /\ S = req[p].tx
    BY <1>26, <1>r DEF RestoreFolderCommit, TypeInv, LocalsOK, FolderLabels, Request
  <2>3. /\ deletedAt' = deletedAt \ S /\ fdeleted' = fdeleted \ {d}
        /\ UNCHANGED <<rows, uploadedAt, owner, folderOf, folders>>
    BY <1>26, <2>2 DEF RestoreFolderCommit
  <2>4. S \subseteq rows /\ S \subseteq deletedAt /\ \A b \in S : folderOf[b] = d
    BY <1>26, <2>2 DEF RestoreFolderCommit, LockInv
  <2>5. OutOfTrash(S) /\ Elsewhere(S) /\ \A b \in S : Place(b) = d /\ Place(b)' = d
    <3>1. \A b \in S : b \in rows /\ b \in rows' /\ b \in deletedAt /\ b \notin deletedAt'
                       /\ (b \in uploadedAt' <=> b \in uploadedAt)
      BY <2>3, <2>4
    <3>2. OutOfTrash(S)
      BY <3>1 DEF StatusNow, OutOfTrash
    <3>3. Elsewhere(S)
      BY <2>1, <2>3, PastFacts DEF StatusNow, Place, Elsewhere
    <3>4. QED
      BY <2>3, <2>4, <3>2, <3>3 DEF Place
  <2>6. \A g : BeingDeleted(g)' <=> BeingDeleted(g)
    BY <2>1, <2>3 DEF BeingDeleted, Past, Aside, DeletingLabels
  <2>7. InBin' = InBin \ {d} /\ UNCHANGED Doomed
    BY <2>3, <2>6 DEF InBin, Doomed
  <2>8. QED
    BY <2>3, <2>5, <2>7, RestoreFolderMaps
<1>27. ASSUME NEW p \in Procs, RestoreFolderRefused(p) PROVE Kept
  <2>1. Past(p) /\ Aside(p) /\ req[p].pc \notin EarlyLabels
    BY <1>27, <1>r DEF RestoreFolderRefused, Finish, Past, Aside, EarlyLabels, DeletingLabels, Request, Idle
  <2>2. QED
    BY <1>27, <1>r, <2>1, QuietStep DEF RestoreFolderRefused
<1>28. ASSUME NEW p \in Procs, HardDeleteFolderBlobs(p) PROVE Kept
  <2>1. Past(p) /\ req[p].pc = "drop.blobs"
    BY <1>28, <1>r DEF HardDeleteFolderBlobs, Write, Past, EarlyLabels, Request
  <2>2. /\ UNCHANGED <<rows, uploadedAt, deletedAt, owner, folderOf, folders, fdeleted>>
        /\ req'[p].pc = "drop.commit" /\ req'[p].folder = req[p].folder
    BY <1>28, <1>r DEF HardDeleteFolderBlobs, Write, Request
  <2>3. \A g : BeingDeleted(g)' <=> BeingDeleted(g)
    BY <2>1, <2>2 DEF BeingDeleted, Past
  <2>4. UNCHANGED <<InBin, Doomed>>
    BY <2>2, <2>3 DEF InBin, Doomed
  <2>5. QED
    BY <2>1, <2>2, <2>4, HiddenStep DEF EarlyLabels
<1>29. ASSUME NEW p \in Procs, HardDeleteFolderCommit(p) PROVE Kept
  <2> DEFINE F == {req[p].folder}
  <2>1. req'[p].pc \in {"idle", "remove.keys"} /\ req[p].pc = "drop.commit"
    BY <1>29, <1>r DEF HardDeleteFolderCommit, WithKeys, Idle
  <2>2. Past(p) /\ req[p].pc \notin EarlyLabels /\ req'[p].pc \notin DeletingLabels
    BY <1>29, <1>r, <2>1 DEF HardDeleteFolderCommit, Past, EarlyLabels, DeletingLabels
  <2>3. DeleteFolders(req[p].tx, F)
    BY <1>29 DEF HardDeleteFolderCommit
  <2>4. F \cap folders \subseteq Condemned /\ None \notin F
    BY <1>r, <2>1 DEF Condemned, Doomed, BeingDeleted, TypeInv, LocalsOK, FolderLabels
  <2>5. \A b \in req[p].tx : folderOf[b] \in Condemned
    <3>1. \A b \in req[p].tx : folderOf[b] \in folders /\ BeingDeleted(folderOf[b])
      BY <1>r, <2>1 DEF LockInv, FilesInv, BeingDeleted, TypeInv, LocalsOK, FolderLabels
    <3>2. QED
      BY <3>1 DEF Condemned, Doomed
  <2> HIDE DEF F
  <2>6. QED
    BY <1>r, <2>2, <2>3, <2>4, <2>5, DropStep
<1>30. ASSUME NEW p \in Procs, EmptyTrashFolders(p) PROVE Kept
  <2> DEFINE S == {b \in BlobsIn(TrashedFolders(req[p].user)) : owner[b] = req[p].user}
  <2>1. Past(p) /\ req[p].pc = "empty.folders"
    BY <1>30, <1>r DEF EmptyTrashFolders, Write, Past, EarlyLabels, Request
  <2>2. /\ UNCHANGED <<rows, uploadedAt, deletedAt, owner, folderOf, folders, fdeleted>>
        /\ req'[p].pc = "empty.commit" /\ req'[p].tx = S
    BY <1>30, <1>r DEF EmptyTrashFolders, Write, Request
  <2> DEFINE D == {folderOf[b] : b \in S}
  <2>3. D \subseteq InBin
    BY DEF BlobsIn, TrashedFolders, InBin
  <2> HIDE DEF S
  <2>4. \A g \in folders : BeingDeleted(g)' <=> BeingDeleted(g) \/ g \in D
    BY <1>r, <2>1, <2>2 DEF BeingDeleted, Past
  <2> HIDE DEF D
  <2>5. QED
    BY <1>r, <2>1, <2>2, <2>3, <2>4, DoomStep DEF EarlyLabels
<1>31. ASSUME NEW p \in Procs, EmptyTrashCommit(p) PROVE Kept
  <2> DEFINE F == TrashedFolders(req[p].user)
  <2>1. req'[p].pc \in {"idle", "remove.keys"} /\ req[p].pc = "empty.commit"
    BY <1>31, <1>r DEF EmptyTrashCommit, WithKeys, Idle
  <2>2. Past(p) /\ req[p].pc \notin EarlyLabels /\ req'[p].pc \notin DeletingLabels
    BY <1>31, <1>r, <2>1 DEF EmptyTrashCommit, Past, EarlyLabels, DeletingLabels
  <2>3. DeleteFolders(req[p].tx, F)
    BY <1>31 DEF EmptyTrashCommit
  <2>4. F \cap folders \subseteq Condemned /\ None \notin F
    BY DEF Condemned, InBin, TrashedFolders, TypeInv, TypeOK
  <2>5. \A b \in req[p].tx : folderOf[b] \in Condemned
    <3>1. \A b \in req[p].tx : folderOf[b] \in folders /\ BeingDeleted(folderOf[b])
      BY <1>r, <2>1 DEF LockInv, FilesInv, BeingDeleted, TypeInv, LocalsOK, FolderLabels
    <3>2. QED
      BY <3>1 DEF Condemned, Doomed
  <2> HIDE DEF F
  <2>6. QED
    BY <1>r, <2>2, <2>3, <2>4, <2>5, DropStep
<1>32. ASSUME NEW p \in Procs, RemoveKey(p) PROVE Kept
  <2>1. Past(p) /\ Aside(p) /\ req[p].pc \notin EarlyLabels
    BY <1>32, <1>r DEF RemoveKey, DropKey, WithKeys, Past, Aside, EarlyLabels, DeletingLabels, Request, Idle
  <2>2. QED
    BY <1>32, <1>r, <2>1, QuietStep DEF RemoveKey
<1>33. ASSUME NEW p \in Procs, InitiateRegisterFails(p) PROVE Kept
  <2>1. Past(p) /\ Aside(p) /\ req[p].pc = "init.register" /\ req[p].pc \in EarlyLabels
    BY <1>33, <1>r DEF InitiateRegisterFails, Goto, Past, Aside, EarlyLabels, DeletingLabels, Request
  <2>2. CASE UNCHANGED blobVars
    BY <1>33, <2>1, <2>2, EarlyEnd DEF InitiateRegisterFails, Aside
  <2>3. CASE /\ req[p].folder \in folders \cup {None}
             /\ InsertRow(req[p].blob, req[p].user, req[p].size, req[p].folder)
    BY <1>33, <2>1, <2>3, RegisterStep DEF InitiateRegisterFails
  <2>4. QED
    BY <1>33, <2>2, <2>3 DEF InitiateRegisterFails
<1>34. ASSUME NEW p \in Procs, Fail(p) PROVE Kept
  <2>1. Past(p) /\ req'[p].pc \notin DeletingLabels
    BY <1>34, <1>r DEF Fail, Finish, Past, EarlyLabels, DeletingLabels, Idle
  <2>2. QED
    BY <1>34, <2>1, GiveUpStep, EarlyEnd DEF Fail
<1>35. ASSUME NEW p \in Procs, SkipKey(p) PROVE Kept
  <2>1. Past(p) /\ Aside(p) /\ req[p].pc \notin EarlyLabels
    BY <1>35, <1>r DEF SkipKey, DropKey, WithKeys, Past, Aside, EarlyLabels, DeletingLabels, Request, Idle
  <2>2. QED
    BY <1>35, <1>r, <2>1, QuietStep DEF SkipKey
<1>36. ASSUME NEW u \in Users, NEW b \in Blobs, TrashBlob(u, b) PROVE Kept
  <2>1. /\ b \in rows /\ b \notin deletedAt /\ deletedAt' = deletedAt \cup {b}
        /\ UNCHANGED <<rows, uploadedAt, owner, folderOf, folders, fdeleted, req, used>>
    BY <1>36 DEF TrashBlob
  <2>2. \A x \in Blobs : Unregistered(x)' <=> Unregistered(x)
    BY <2>1 DEF Unregistered
  <2>3. IntoTrash({b}) /\ Elsewhere({b}) /\ Place(b)' = Place(b)
    BY <2>1, <2>2 DEF StatusNow, Place, IntoTrash, Elsewhere
  <2>4. UNCHANGED <<InBin, Doomed, owner>>
    BY <2>1 DEF InBin, Doomed, BeingDeleted
  <2>5. QED
    BY <2>3, <2>4, TrashMaps
<1>37. ASSUME NEW u \in Users, NEW b \in Blobs, RestoreBlob(u, b) PROVE Kept
  <2>1. /\ b \in rows /\ b \in deletedAt /\ deletedAt' = deletedAt \ {b}
        /\ folderOf' = [folderOf EXCEPT ![b] = IF LiveFolder(@) THEN @ ELSE None]
        /\ UNCHANGED <<rows, uploadedAt, owner, folders, fdeleted, req, used>>
        /\ Unlocked({b})
    BY <1>37 DEF RestoreBlob, Trashed
  <2>2. \A x \in Blobs : Unregistered(x)' <=> Unregistered(x)
    BY <2>1 DEF Unregistered
  <2>3. /\ folderOf'[b] \in {folderOf[b], None}
        /\ \A x \in Blobs \ {b} : folderOf'[x] = folderOf[x]
    BY <2>1 DEF TypeInv, TypeOK
  <2>4. OutOfTrash({b}) /\ Elsewhere({b}) /\ Place(b)' \in {Place(b), None}
    BY <2>1, <2>2, <2>3 DEF StatusNow, Place, OutOfTrash, Elsewhere
  <2>5. \A q \in Procs : \A x \in req[q].tx : folderOf'[x] = folderOf[x]
    BY <1>r, <2>1, <2>3 DEF Unlocked, Request
  <2>6. UNCHANGED <<InBin, Doomed, owner>>
    BY <2>1, <2>5 DEF InBin, Doomed, BeingDeleted
  <2>7. QED
    BY <2>4, <2>6, RestoreMaps
<1>38. CASE PurgeOrphanedBlobs
  <2> DEFINE S == {b \in rows : Pending(b) /\ b \in oldRow}
  <2>1. Past(OrphanJob) /\ Aside(OrphanJob) /\ req[OrphanJob].pc \notin EarlyLabels
    BY <1>38, <1>r DEF PurgeOrphanedBlobs, Start, WithKeys, Past, Aside, EarlyLabels, DeletingLabels, Idle
  <2>2. /\ rows' = rows \ S
        /\ UNCHANGED <<uploadedAt, deletedAt, owner, folderOf, folders, fdeleted>>
    BY <1>38 DEF PurgeOrphanedBlobs, DeleteRows
  <2>3. S \subseteq rows /\ \A b \in S : ~(b \in uploadedAt /\ b \notin deletedAt)
    BY DEF Pending
  <2> HIDE DEF S
  <2>4. QED
    BY <1>r, <2>1, <2>2, <2>3, DeleteStep
<1>39. CASE OrphanAbort
  <2>1. Past(OrphanJob) /\ Aside(OrphanJob) /\ req[OrphanJob].pc \notin EarlyLabels
    BY <1>39, <1>r DEF OrphanAbort, DropKey, WithKeys, Past, Aside, EarlyLabels, DeletingLabels, Request, Idle
  <2>2. QED
    BY <1>39, <1>r, <2>1, QuietStep DEF OrphanAbort
<1>40. CASE PurgeExpiredBlobs
  <2> DEFINE S == {b \in rows : Trashed(b) /\ b \in oldTrash}
  <2>1. Past(TrashJob) /\ Aside(TrashJob) /\ req[TrashJob].pc \notin EarlyLabels
    BY <1>40, <1>r DEF PurgeExpiredBlobs, Start, Past, Aside, EarlyLabels, DeletingLabels, Idle
  <2>2. /\ rows' = rows \ S
        /\ UNCHANGED <<uploadedAt, deletedAt, owner, folderOf, folders, fdeleted>>
    BY <1>40 DEF PurgeExpiredBlobs, DeleteRows
  <2>3. S \subseteq rows /\ \A b \in S : ~(b \in uploadedAt /\ b \notin deletedAt)
    BY DEF Trashed
  <2> HIDE DEF S
  <2>4. QED
    BY <1>r, <2>1, <2>2, <2>3, DeleteStep
<1>41. CASE PurgeExpiredFolders
  <2> DEFINE S == BlobsIn(ExpiredFolders)
  <2>1. Past(TrashJob) /\ req[TrashJob].pc = "expire.folders"
    BY <1>41, <1>r DEF PurgeExpiredFolders, Write, Past, EarlyLabels, Request
  <2>2. /\ UNCHANGED <<rows, uploadedAt, deletedAt, owner, folderOf, folders, fdeleted>>
        /\ req'[TrashJob].pc = "expire.commit" /\ req'[TrashJob].tx = S
    BY <1>41, <1>r DEF PurgeExpiredFolders, Write, Request
  <2> DEFINE D == {folderOf[b] : b \in S}
  <2>3. D \subseteq InBin
    BY DEF BlobsIn, ExpiredFolders, InBin
  <2> HIDE DEF S
  <2>4. \A g \in folders : BeingDeleted(g)' <=> BeingDeleted(g) \/ g \in D
    BY <1>r, <2>1, <2>2 DEF BeingDeleted, Past
  <2> HIDE DEF D
  <2>5. QED
    BY <1>r, <2>1, <2>2, <2>3, <2>4, DoomStep DEF EarlyLabels
<1>42. CASE PurgeExpiredCommit
  <2> DEFINE F == ExpiredFolders
  <2>1. req'[TrashJob].pc \in {"idle", "remove.keys"} /\ req[TrashJob].pc = "expire.commit"
    BY <1>42, <1>r DEF PurgeExpiredCommit, WithKeys, Idle
  <2>2. Past(TrashJob) /\ req[TrashJob].pc \notin EarlyLabels /\ req'[TrashJob].pc \notin DeletingLabels
    BY <1>42, <1>r, <2>1 DEF PurgeExpiredCommit, Past, EarlyLabels, DeletingLabels
  <2>3. DeleteFolders(req[TrashJob].tx, F)
    BY <1>42 DEF PurgeExpiredCommit
  <2>4. F \cap folders \subseteq Condemned /\ None \notin F
    BY DEF Condemned, InBin, ExpiredFolders, TypeInv, TypeOK
  <2>5. \A b \in req[TrashJob].tx : folderOf[b] \in Condemned
    <3>1. \A b \in req[TrashJob].tx : folderOf[b] \in folders /\ BeingDeleted(folderOf[b])
      BY <1>r, <2>1 DEF LockInv, FilesInv, BeingDeleted, TypeInv, LocalsOK, FolderLabels
    <3>2. QED
      BY <3>1 DEF Condemned, Doomed
  <2> HIDE DEF F
  <2>6. QED
    BY <1>r, <2>2, <2>3, <2>4, <2>5, DropStep
<1>43. ASSUME NEW b \in Blobs, AgeRow(b) PROVE Kept
  BY <1>43, StillStep DEF AgeRow
<1>44. ASSUME NEW b \in Blobs, AgeTrash(b) PROVE Kept
  BY <1>44, StillStep DEF AgeTrash
<1>45. ASSUME NEW f \in Folders, AgeFolder(f) PROVE Kept
  BY <1>45, StillStep DEF AgeFolder
<1>46. CASE UNCHANGED vars
  BY <1>46, StillStep DEF vars
<1>47. QED
  BY <1>1, <1>2, <1>3, <1>4, <1>5, <1>6, <1>7, <1>8, <1>9, <1>10, <1>11, <1>12, <1>13,
     <1>14, <1>15, <1>16, <1>17, <1>18, <1>19, <1>20, <1>21, <1>22, <1>23, <1>24,
     <1>25, <1>26, <1>27, <1>28, <1>29, <1>30, <1>31, <1>32, <1>33, <1>34, <1>35,
     <1>36, <1>37, <1>38, <1>39, <1>40, <1>41, <1>42, <1>43, <1>44, <1>45, <1>46
     DEF Next, Continue

\* No file is registered at the start.
LEMMA InitKept == Init => Promise!Init
<1> SUFFICES ASSUME Init PROVE Promise!Init
  OBVIOUS
<1>1. \A b \in Blobs : StatusNow(b) = "new" /\ Place(b) = None
  BY DEF Init, StatusNow, Unregistered, Place
<1>2. InBin = {} /\ Doomed = {} /\ owner \in [Blobs -> Users]
  BY UsersAssumption DEF Init, InBin, Doomed, BeingDeleted, Idle
<1>3. QED
  BY <1>1, <1>2, StatusFacts DEF Promise!Init, Place

\* The handlers, statement by statement, implement what the owner of a file was
\* promised: the invariant that this rests on says what the row locks of an open
\* transaction keep.
THEOREM PromiseKept == Spec => KeepsPromise
<1>1. Spec => [](TypeInv /\ IdsInv /\ FilesInv /\ LockInv)
  BY InitTypeInv, InitIds, InitFiles, InitLock, NextTypeInv, NextIds, NextFiles, NextLock, PTL
     DEF Spec
<1>2. TypeInv /\ IdsInv /\ FilesInv /\ LockInv /\ [Next]_vars
      => [Promise!Next]_(Promise!fileVars)
  BY NextKept DEF Kept
<1>3. QED
  BY <1>1, <1>2, InitKept, PTL DEF Spec, KeepsPromise, Promise!Spec
=============================================================================
