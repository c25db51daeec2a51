---------------------------- MODULE BlobLifecycle ----------------------------
(***************************************************************************)
(* The life of an uploaded file: its row in Postgres (stored_blobs), its   *)
(* multipart upload and its object in MinIO, and the handlers of           *)
(* internal/usecase/storage/service.go that keep the two stores in step.   *)
(*                                                                         *)
(* Neither store takes part in a transaction with the other, so a handler  *)
(* is a sequence of calls and anything may happen between two of them: one *)
(* call of one handler is one action here.  A handler (an HTTP request, or *)
(* one of the two hourly clean-up goroutines of internal/app/app.go) is a  *)
(* process whose record in req holds its program counter and its locals.   *)
(*                                                                         *)
(* A blob stands for its id, its object key (user/id) and its upload id at *)
(* once: all three are generated together and never reused.  Every upload  *)
(* has a non-empty upload id, so the branches for UploadID == "" are dead. *)
(* A folder stands for the subtree that the recursive queries of           *)
(* folders.go collect.                                                     *)
(*                                                                         *)
(* A transaction of folders.go runs at READ COMMITTED, takes no lock when  *)
(* it reads, and each of its statements sees what was committed before it: *)
(* a statement is a step.  Rows it has written are locked (tx) and others  *)
(* see them as they were until it commits; a statement of another handler  *)
(* that would write such a row waits.  The UPDATE of a folder's row is     *)
(* taken together with the statement on the folder's blobs that follows    *)
(* it, and the last statement of a deletion with the commit.               *)
(***************************************************************************)
EXTENDS Naturals, FiniteSets, Functions

CONSTANTS
    Users,           \* the accounts
    Blobs,           \* the blob ids uuid.New() may return; bounds the uploads
    Folders,         \* the folders that exist at the start
    FolderOwner,     \* folders.user_id
    Reqs,            \* the HTTP requests that may be in flight at once
    OrphanJob,       \* the goroutine running CleanOrphanedBlobs
    TrashJob,        \* the goroutine running CleanExpiredTrash
    None,            \* NULL, and the value of an unused local
    Sizes,           \* the sizes in bytes a client declares or uploads
    MaxUploadBytes,  \* MAX_UPLOAD_BYTES, 0 = unlimited
    QuotaBytes,      \* STORAGE_QUOTA_BYTES, 0 = unlimited
    Failing          \* the processes whose calls may fail and that may die between calls

ASSUME UsersAssumption == Users # {} /\ None \notin Users
ASSUME BlobsAssumption == None \notin Blobs
ASSUME FoldersAssumption ==
    None \notin Folders /\ FolderOwner \in [Folders -> Users]
ASSUME ProcsAssumption ==
    /\ OrphanJob # TrashJob
    /\ OrphanJob \notin Reqs
    /\ TrashJob \notin Reqs
ASSUME SizesAssumption ==
    Sizes \subseteq Nat /\ MaxUploadBytes \in Nat /\ QuotaBytes \in Nat

Procs == Reqs \cup {OrphanJob, TrashJob}

ASSUME FailingAssumption == Failing \subseteq Procs

VARIABLES
    \* stored_blobs.  A column keeps its last value when the row is deleted.
    rows,        \* the ids that have a row
    uploadedAt,  \* the ids whose uploaded_at is not NULL
    deletedAt,   \* the ids whose deleted_at is not NULL
    oldRow,      \* the ids whose created_at is more than PresignTTL ago
    oldTrash,    \* the ids whose deleted_at is more than TrashTTL ago
    owner,       \* user_id
    size,        \* file_size
    folderOf,    \* folder_id
    \* folders
    folders,     \* the ids that have a row
    fdeleted,    \* the ids whose deleted_at is not NULL
    oldFolder,   \* the ids whose deleted_at is more than TrashTTL ago
    \* MinIO
    mpu,         \* the blobs whose multipart upload is open
    objects,     \* the blobs whose object exists
    \* the handlers
    req,         \* program counter and locals of each process
    \* history
    used,        \* the blob ids handed out so far
    restored,    \* the blobs that were ever taken back from the trash
    declared     \* the size each blob was registered with

blobVars == <<rows, uploadedAt, deletedAt, oldRow, oldTrash, owner, size, folderOf>>
folderVars == <<folders, fdeleted, oldFolder>>
minioVars == <<mpu, objects>>
histVars == <<used, restored, declared>>
vars == <<rows, uploadedAt, deletedAt, oldRow, oldTrash, owner, size, folderOf,
          folders, fdeleted, oldFolder, mpu, objects, req, used, restored, declared>>

-----------------------------------------------------------------------------
\* Handlers

Labels == {"idle",
    "init.folder", "init.new", "init.register", "init.presign", "init.abort",
    "complete.minio", "complete.stat", "complete.confirm",
    "abort.minio", "abort.row",
    "move.row",
    "hard.remove", "hard.row",
    "trash.write", "trash.commit", "restore.write", "restore.commit",
    "drop.blobs", "drop.commit",
    "empty.folders", "empty.commit", "expire.folders", "expire.commit",
    "remove.keys", "orphan.keys"}

Request == [pc : Labels, user : Users \cup {None}, blob : Blobs \cup {None},
            folder : Folders \cup {None}, size : Nat, keys : SUBSET Blobs,
            tx : SUBSET Blobs]

Idle == [pc |-> "idle", user |-> None, blob |-> None, folder |-> None,
         size |-> 0, keys |-> {}, tx |-> {}]

\* The locals a handler on one blob starts with.
OnBlob(label, b) == [Idle EXCEPT !.pc = label, !.blob = b]

\* The locals a handler on one folder starts with.
OnFolder(label, f) == [Idle EXCEPT !.pc = label, !.folder = f]

\* The locals of a handler that has keys left to remove from MinIO, or none.
WithKeys(label, K) ==
    IF K = {} THEN Idle ELSE [Idle EXCEPT !.pc = label, !.keys = K]

Goto(p, label) == req' = [req EXCEPT ![p].pc = label]
Start(p, r) == req[p].pc = "idle" /\ req' = [req EXCEPT ![p] = r]
Finish(p) == req' = [req EXCEPT ![p] = Idle]

\* What is left of a handler's keys once b has been dealt with.
DropKey(p, label, b) ==
    req' = [req EXCEPT ![p] = WithKeys(label, req[p].keys \ {b})]

-----------------------------------------------------------------------------
\* Queries

\* WHERE uploaded_at IS NULL AND deleted_at IS NULL
Pending(b) == b \in rows /\ b \notin uploadedAt /\ b \notin deletedAt

\* WHERE deleted_at IS NOT NULL
Trashed(b) == b \in rows /\ b \in deletedAt

\* WHERE deleted_at IS NULL AND uploaded_at IS NOT NULL: the blob is listed
\* and PresignGet hands out a download URL for it.
Visible(b) == b \in rows /\ b \in uploadedAt /\ b \notin deletedAt

LiveFolder(f) == f \in folders /\ f \notin fdeleted

BlobsIn(F) == {b \in rows : folderOf[b] \in F}

\* SUM(file_size) over every row of the user, pending and trashed ones too.
UserRows(u) == {b \in rows : owner[b] = u}
GetUserStorageUsed(u) == SumFunctionOnSet(size, UserRows(u))

\* A statement that writes one of these rows need not wait for another
\* transaction to end.
Unlocked(S) == \A p \in Procs : req[p].tx \cap S = {}
FoldersUnlocked(F) ==
    \A p \in Procs : req[p].pc \in {"trash.commit", "restore.commit"} => req[p].folder \notin F

-----------------------------------------------------------------------------
Init ==
    /\ rows = {}
    /\ uploadedAt = {}
    /\ deletedAt = {}
    /\ oldRow = {}
    /\ oldTrash = {}
    /\ owner = [b \in Blobs |-> CHOOSE u \in Users : TRUE]
    /\ size = [b \in Blobs |-> 0]
    /\ folderOf = [b \in Blobs |-> None]
    /\ folders = Folders
    /\ fdeleted = {}
    /\ oldFolder = {}
    /\ mpu = {}
    /\ objects = {}
    /\ req = [p \in Procs |-> Idle]
    /\ used = {}
    /\ restored = {}
    /\ declared = [b \in Blobs |-> 0]

-----------------------------------------------------------------------------
\* InitiateMultipartUpload

\* Faulty variant: the quota check forgets the new upload.
InitiateWithoutNew(p, u, n, f) ==
    /\ MaxUploadBytes > 0 => n <= MaxUploadBytes
    /\ QuotaBytes > 0 => GetUserStorageUsed(u) <= QuotaBytes
    /\ \E b \in Blobs \ used :
        /\ used' = used \cup {b}
        /\ Start(p, [pc |-> IF f = None THEN "init.new" ELSE "init.folder",
                     user |-> u, blob |-> b, folder |-> f, size |-> n, keys |-> {}, tx |-> {}])
    /\ UNCHANGED <<blobVars, folderVars, minioVars, restored, declared>>

\* uuid.New(), then the size and quota checks; the quota is not read again.
InitiateCheckQuota(p, u, n, f) ==
    /\ MaxUploadBytes > 0 => n <= MaxUploadBytes
    /\ QuotaBytes > 0 => GetUserStorageUsed(u) + n <= QuotaBytes
    /\ \E b \in Blobs \ used :
        /\ used' = used \cup {b}
        /\ Start(p, [pc |-> IF f = None THEN "init.new" ELSE "init.folder",
                     user |-> u, blob |-> b, folder |-> f, size |-> n, keys |-> {}, tx |-> {}])
    /\ UNCHANGED <<blobVars, folderVars, minioVars, restored, declared>>

\* requireFolder
InitiateRequireFolder(p) ==
    /\ req[p].pc = "init.folder"
    /\ IF LiveFolder(req[p].folder) /\ FolderOwner[req[p].folder] = req[p].user
       THEN Goto(p, "init.new")
       ELSE Finish(p)
    /\ UNCHANGED <<blobVars, folderVars, minioVars, histVars>>

\* MinIO opens an upload under the blob's object key.
InitiateNewUpload(p) ==
    /\ req[p].pc = "init.new"
    /\ mpu' = mpu \cup {req[p].blob}
    /\ Goto(p, "init.register")
    /\ UNCHANGED <<blobVars, folderVars, objects, histVars>>

\* Faulty variant: user_id and folder_id swapped in the parameter list.
InsertRowSwapped(b, u, n, f) ==
    /\ rows' = rows \cup {b}
    /\ owner' = [owner EXCEPT ![b] = f]
    /\ size' = [size EXCEPT ![b] = n]
    /\ declared' = [declared EXCEPT ![b] = n]
    /\ folderOf' = [folderOf EXCEPT ![b] = u]
    /\ UNCHANGED <<uploadedAt, deletedAt, oldRow, oldTrash>>

\* The INSERT; folder_id is a foreign key.
InsertRow(b, u, n, f) ==
    /\ rows' = rows \cup {b}
    /\ owner' = [owner EXCEPT ![b] = u]
    /\ size' = [size EXCEPT ![b] = n]
    /\ declared' = [declared EXCEPT ![b] = n]
    /\ folderOf' = [folderOf EXCEPT ![b] = f]
    /\ UNCHANGED <<uploadedAt, deletedAt, oldRow, oldTrash>>

InitiateRegister(p) ==
    /\ req[p].pc = "init.register"
    /\ IF req[p].folder \in folders \cup {None}
       THEN /\ InsertRow(req[p].blob, req[p].user, req[p].size, req[p].folder)
            /\ Goto(p, "init.presign")
       ELSE UNCHANGED <<blobVars, declared>> /\ Goto(p, "init.abort")
    /\ UNCHANGED <<folderVars, minioVars, used, restored>>

\* RegisterBlob returns an error, with or without the row committed.
InitiateRegisterFails(p) ==
    /\ p \in Failing
    /\ req[p].pc = "init.register"
    /\ \/ UNCHANGED <<blobVars, declared>>
       \/ /\ req[p].folder \in folders \cup {None}
          /\ InsertRow(req[p].blob, req[p].user, req[p].size, req[p].folder)
    /\ Goto(p, "init.abort")
    /\ UNCHANGED <<folderVars, minioVars, used, restored>>

\* The part URLs are signed; a failure aborts the upload and leaves the row.
InitiatePresign(p) ==
    /\ req[p].pc = "init.presign"
    /\ \/ Finish(p)
       \/ p \in Failing /\ Goto(p, "init.abort")
    /\ UNCHANGED <<blobVars, folderVars, minioVars, histVars>>

\* _ = AbortMultipartUpload: its error is dropped.
InitiateAbort(p) ==
    /\ req[p].pc = "init.abort"
    /\ mpu' = mpu \ {req[p].blob}
    /\ Finish(p)
    /\ UNCHANGED <<blobVars, folderVars, objects, histVars>>

-----------------------------------------------------------------------------
\* CompleteMultipartUpload

CompleteRead(p, u, b) ==
    /\ Pending(b) /\ owner[b] = u
    /\ Start(p, OnBlob("complete.minio", b))
    /\ UNCHANGED <<blobVars, folderVars, minioVars, histVars>>

\* MinIO assembles the parts of an open upload and closes it; an upload that
\* is not open any more is NoSuchUpload.
CompleteAtMinio(p) ==
    /\ req[p].pc = "complete.minio"
    /\ IF req[p].blob \in mpu
       THEN /\ mpu' = mpu \ {req[p].blob}
            /\ objects' = objects \cup {req[p].blob}
            /\ Goto(p, "complete.stat")
       ELSE Finish(p) /\ UNCHANGED minioVars
    /\ UNCHANGED <<blobVars, folderVars, histVars>>

\* StatObject: the size of what the client really uploaded, whatever it declared.
CompleteStat(p) ==
    /\ req[p].pc = "complete.stat"
    /\ IF req[p].blob \in objects
       THEN \E n \in Sizes :
            req' = [req EXCEPT ![p].pc = "complete.confirm", ![p].size = n]
       ELSE Finish(p)
    /\ UNCHANGED <<blobVars, folderVars, minioVars, histVars>>

\* ConfirmBlobUpload
CompleteConfirm(p) ==
    /\ req[p].pc = "complete.confirm"
    /\ Unlocked({req[p].blob})
    /\ IF Pending(req[p].blob)
       THEN /\ uploadedAt' = uploadedAt \cup {req[p].blob}
            /\ size' = [size EXCEPT ![req[p].blob] = req[p].size]
       ELSE UNCHANGED <<uploadedAt, size>>
    /\ Finish(p)
    /\ UNCHANGED <<rows, deletedAt, oldRow, oldTrash, owner, folderOf,
                   folderVars, minioVars, histVars>>

-----------------------------------------------------------------------------
\* AbortUpload

AbortRead(p, u, b) ==
    /\ Pending(b) /\ owner[b] = u
    /\ Start(p, OnBlob("abort.minio", b))
    /\ UNCHANGED <<blobVars, folderVars, minioVars, histVars>>

\* Faulty variant: the abort also removes what the key may hold.
AbortRemovesObject(p) ==
    /\ req[p].pc = "abort.minio"
    /\ mpu' = mpu \ {req[p].blob}
    /\ objects' = objects \ {req[p].blob}
    /\ Goto(p, "abort.row")
    /\ UNCHANGED <<blobVars, folderVars, histVars>>

\* An error of MinIO (NoSuchUpload too) ends the handler and keeps the row.
AbortAtMinio(p) ==
    /\ req[p].pc = "abort.minio"
    /\ mpu' = mpu \ {req[p].blob}
    /\ IF req[p].blob \in mpu THEN Goto(p, "abort.row") ELSE Finish(p)
    /\ UNCHANGED <<blobVars, folderVars, objects, histVars>>

\* AbortPendingBlob
AbortRow(p) ==
    /\ req[p].pc = "abort.row"
    /\ Unlocked({req[p].blob})
    /\ rows' = IF Pending(req[p].blob) THEN rows \ {req[p].blob} ELSE rows
    /\ Finish(p)
    /\ UNCHANGED <<uploadedAt, deletedAt, oldRow, oldTrash, owner, size, folderOf,
                   folderVars, minioVars, histVars>>

-----------------------------------------------------------------------------
\* The trash: DeleteBlob, RestoreBlob, HardDeleteBlob, MoveBlob

\* One UPDATE, on pending rows as well as on uploaded ones.
TrashBlob(u, b) ==
    /\ b \in rows /\ b \notin deletedAt /\ owner[b] = u
    /\ Unlocked({b})
    /\ deletedAt' = deletedAt \cup {b}
    /\ oldTrash' = oldTrash \ {b}
    /\ UNCHANGED <<rows, uploadedAt, oldRow, owner, size, folderOf,
                   folderVars, minioVars, req, histVars>>

\* One UPDATE; the blob returns to the root unless its folder is live.
RestoreBlob(u, b) ==
    /\ Trashed(b) /\ owner[b] = u
    /\ Unlocked({b})
    /\ deletedAt' = deletedAt \ {b}
    /\ oldTrash' = oldTrash \ {b}
    /\ folderOf' = [folderOf EXCEPT ![b] = IF LiveFolder(@) THEN @ ELSE None]
    /\ restored' = restored \cup {b}
    /\ UNCHANGED <<rows, uploadedAt, oldRow, owner, size,
                   folderVars, minioVars, req, used, declared>>

\* PeekTrashedBlob
HardDeletePeek(p, u, b) ==
    /\ Trashed(b) /\ owner[b] = u
    /\ Start(p, OnBlob("hard.remove", b))
    /\ UNCHANGED <<blobVars, folderVars, minioVars, histVars>>

\* Faulty variant: the error of RemoveObject is dropped.
HardDeleteRemoveBestEffort(p) ==
    /\ req[p].pc = "hard.remove"
    /\ \/ objects' = objects \ {req[p].blob}
       \/ p \in Failing /\ UNCHANGED objects
    /\ Goto(p, "hard.row")
    /\ UNCHANGED <<blobVars, folderVars, mpu, histVars>>

\* RemoveObject; a missing key is no error.
HardDeleteRemove(p) ==
    /\ req[p].pc = "hard.remove"
    /\ objects' = objects \ {req[p].blob}
    /\ Goto(p, "hard.row")
    /\ UNCHANGED <<blobVars, folderVars, mpu, histVars>>

\* DELETE ... WHERE deleted_at IS NOT NULL; no row deleted is no error.
HardDeleteRow(p) ==
    /\ req[p].pc = "hard.row"
    /\ Unlocked({req[p].blob})
    /\ rows' = IF Trashed(req[p].blob) THEN rows \ {req[p].blob} ELSE rows
    /\ Finish(p)
    /\ UNCHANGED <<uploadedAt, deletedAt, oldRow, oldTrash, owner, size, folderOf,
                   folderVars, minioVars, histVars>>

\* MoveBlob: GetFolder, then the UPDATE in a later step.
MoveBlobCheck(p, u, b, f) ==
    /\ f # None => LiveFolder(f) /\ FolderOwner[f] = u
    /\ b \in rows /\ owner[b] = u
    /\ Start(p, [OnBlob("move.row", b) EXCEPT !.folder = f])
    /\ UNCHANGED <<blobVars, folderVars, minioVars, histVars>>

MoveBlobRow(p) ==
    /\ req[p].pc = "move.row"
    /\ Unlocked({req[p].blob})
    /\ folderOf' = IF /\ req[p].blob \in rows \ deletedAt
                      /\ req[p].folder \in folders \cup {None}
                   THEN [folderOf EXCEPT ![req[p].blob] = req[p].folder]
                   ELSE folderOf
    /\ Finish(p)
    /\ UNCHANGED <<rows, uploadedAt, deletedAt, oldRow, oldTrash, owner, size,
                   folderVars, minioVars, histVars>>

-----------------------------------------------------------------------------
\* Folders, as far as they change blobs

\* The DELETE of a set of blob rows.
DeleteRows(S) ==
    /\ rows' = rows \ S
    /\ UNCHANGED <<uploadedAt, deletedAt, oldRow, oldTrash, owner, size, folderOf>>

\* The rows a transaction deletes with its folders go when it commits;
\* folder_id is ON DELETE SET NULL, and what is in the folders by then stays.
DeleteFolders(S, F) ==
    /\ FoldersUnlocked(F) /\ Unlocked(BlobsIn(F) \ S)
    /\ rows' = rows \ S
    /\ folders' = folders \ F
    /\ folderOf' = [b \in Blobs |-> IF b \in BlobsIn(F) \ S THEN None ELSE folderOf[b]]
    /\ UNCHANGED <<uploadedAt, deletedAt, oldRow, oldTrash, owner, size, fdeleted, oldFolder>>

\* The statement of an open transaction that writes the blobs S.
Write(p, label, S) ==
    /\ Unlocked(S)
    /\ req' = [req EXCEPT ![p].pc = label, ![p].tx = S]
    /\ UNCHANGED <<blobVars, folderVars, minioVars, histVars>>

\* DeleteFolder: GetFolder and, in TrashFolder, the query of the subtree.
TrashFolderRead(p, u, f) ==
    /\ LiveFolder(f) /\ FolderOwner[f] = u
    /\ Start(p, OnFolder("trash.write", f))
    /\ UNCHANGED <<blobVars, folderVars, minioVars, histVars>>

\* Both UPDATEs.  The first one is unconditional.
TrashFolderWrite(p) ==
    /\ req[p].pc = "trash.write"
    /\ FoldersUnlocked({req[p].folder})
    /\ Write(p, "trash.commit", BlobsIn({req[p].folder}) \ deletedAt)

TrashFolderCommit(p) ==
    /\ req[p].pc = "trash.commit"
    /\ fdeleted' = fdeleted \cup ({req[p].folder} \cap folders)
    /\ oldFolder' = oldFolder \ {req[p].folder}
    /\ deletedAt' = deletedAt \cup req[p].tx
    /\ oldTrash' = oldTrash \ req[p].tx
    /\ Finish(p)
    /\ UNCHANGED <<rows, uploadedAt, oldRow, owner, size, folderOf,
                   folders, minioVars, histVars>>

\* RestoreFolder: the queries of the folder, its subtree and its parent.
RestoreFolderRead(p, u, f) ==
    /\ f \in folders /\ f \in fdeleted /\ FolderOwner[f] = u
    /\ Start(p, OnFolder("restore.write", f))
    /\ UNCHANGED <<blobVars, folderVars, minioVars, histVars>>

\* Both UPDATEs, of every trashed blob of the folder.
RestoreFolderWrite(p) ==
    /\ req[p].pc = "restore.write"
    /\ FoldersUnlocked({req[p].folder})
    /\ Write(p, "restore.commit", BlobsIn({req[p].folder}) \cap deletedAt)

RestoreFolderCommit(p) ==
    /\ req[p].pc = "restore.commit"
    /\ fdeleted' = fdeleted \ {req[p].folder}
    /\ oldFolder' = oldFolder \ {req[p].folder}
    /\ deletedAt' = deletedAt \ req[p].tx
    /\ oldTrash' = oldTrash \ req[p].tx
    /\ restored' = restored \cup req[p].tx
    /\ Finish(p)
    /\ UNCHANGED <<rows, uploadedAt, oldRow, owner, size, folderOf,
                   folders, minioVars, used, declared>>

\* The name was given to another live folder: the UPDATE violates the unique
\* index and the transaction is rolled back.
RestoreFolderRefused(p) ==
    /\ req[p].pc = "restore.write"
    /\ Finish(p)
    /\ UNCHANGED <<blobVars, folderVars, minioVars, histVars>>

\* Faulty variant: the folder need not be in the trash.
HardDeleteFolderAny(p, u, f) ==
    /\ f \in folders /\ FolderOwner[f] = u
    /\ Start(p, OnFolder("drop.blobs", f))
    /\ UNCHANGED <<blobVars, folderVars, minioVars, histVars>>

\* HardDeleteFolder: the folder is looked up in the trash, and its subtree read.
HardDeleteFolderRead(p, u, f) ==
    /\ f \in folders /\ f \in fdeleted /\ FolderOwner[f] = u
    /\ Start(p, OnFolder("drop.blobs", f))
    /\ UNCHANGED <<blobVars, folderVars, minioVars, histVars>>

\* DELETE FROM stored_blobs by folder_id alone, in the trash or not.
HardDeleteFolderBlobs(p) ==
    /\ req[p].pc = "drop.blobs"
    /\ Write(p, "drop.commit", BlobsIn({req[p].folder}))

\* The folder goes, in the trash or not, and the keys are removed one by one.
HardDeleteFolderCommit(p) ==
    /\ req[p].pc = "drop.commit"
    /\ DeleteFolders(req[p].tx, {req[p].folder})
    /\ req' = [req EXCEPT ![p] = WithKeys("remove.keys", req[p].tx)]
    /\ UNCHANGED <<minioVars, histVars>>

-----------------------------------------------------------------------------
\* EmptyTrash

\* EmptyTrashedBlobs commits on its own.
EmptyTrashBlobs(p, u) ==
    LET S == {b \in rows : owner[b] = u /\ b \in deletedAt}
    IN  /\ Unlocked(S)
        /\ Start(p, [Idle EXCEPT !.pc = "empty.folders", !.user = u, !.keys = S])
        /\ DeleteRows(S)
        /\ UNCHANGED <<folderVars, minioVars, histVars>>

TrashedFolders(u) == {f \in folders \cap fdeleted : FolderOwner[f] = u}

\* EmptyTrashedFolders takes every blob of a trashed folder, live ones too.
EmptyTrashFolders(p) ==
    /\ req[p].pc = "empty.folders"
    /\ Write(p, "empty.commit",
             {b \in BlobsIn(TrashedFolders(req[p].user)) : owner[b] = req[p].user})

\* Faulty variant: only the keys of the folders' blobs are kept.
EmptyTrashForgetsBlobs(p) ==
    /\ req[p].pc = "empty.commit"
    /\ DeleteFolders(req[p].tx, TrashedFolders(req[p].user))
    /\ req' = [req EXCEPT ![p] = WithKeys("remove.keys", req[p].tx)]
    /\ UNCHANGED <<minioVars, histVars>>

\* The folders are those that are in the trash by now.
EmptyTrashCommit(p) ==
    /\ req[p].pc = "empty.commit"
    /\ DeleteFolders(req[p].tx, TrashedFolders(req[p].user))
    /\ req' = [req EXCEPT ![p] = WithKeys("remove.keys", req[p].keys \cup req[p].tx)]
    /\ UNCHANGED <<minioVars, histVars>>

\* _ = RemoveObject for each key: an error is dropped.
RemoveKey(p) ==
    /\ req[p].pc = "remove.keys"
    /\ \E b \in req[p].keys :
        /\ objects' = objects \ {b}
        /\ DropKey(p, "remove.keys", b)
    /\ UNCHANGED <<blobVars, folderVars, mpu, histVars>>

-----------------------------------------------------------------------------
\* The clean-up jobs

\* Faulty variant: created_at > $1.
PurgeYoungBlobs ==
    LET S == {b \in rows : Pending(b) /\ b \notin oldRow}
    IN  /\ S # {} /\ Unlocked(S)
        /\ Start(OrphanJob, WithKeys("orphan.keys", S))
        /\ DeleteRows(S)
        /\ UNCHANGED <<folderVars, minioVars, histVars>>

\* CleanOrphanedBlobs: PurgeOrphanedBlobs deletes the rows first.
PurgeOrphanedBlobs ==
    LET S == {b \in rows : Pending(b) /\ b \in oldRow}
    IN  /\ S # {} /\ Unlocked(S)
        /\ Start(OrphanJob, WithKeys("orphan.keys", S))
        /\ DeleteRows(S)
        /\ UNCHANGED <<folderVars, minioVars, histVars>>

\* Faulty variant: RemoveObject where AbortMultipartUpload is needed.
OrphanRemove ==
    /\ req[OrphanJob].pc = "orphan.keys"
    /\ \E b \in req[OrphanJob].keys :
        /\ objects' = objects \ {b}
        /\ DropKey(OrphanJob, "orphan.keys", b)
    /\ UNCHANGED <<blobVars, folderVars, mpu, histVars>>

\* _ = AbortMultipartUpload for each of them.
OrphanAbort ==
    /\ req[OrphanJob].pc = "orphan.keys"
    /\ \E b \in req[OrphanJob].keys :
        /\ mpu' = mpu \ {b}
        /\ DropKey(OrphanJob, "orphan.keys", b)
    /\ UNCHANGED <<blobVars, folderVars, objects, histVars>>

\* Faulty variant: pending rows in the trash are not purged.
PurgeExpiredUploads ==
    LET S == {b \in rows : Trashed(b) /\ b \in oldTrash /\ b \in uploadedAt}
    IN  /\ Unlocked(S)
        /\ Start(TrashJob, [Idle EXCEPT !.pc = "expire.folders", !.keys = S])
        /\ DeleteRows(S)
        /\ UNCHANGED <<folderVars, minioVars, histVars>>

\* CleanExpiredTrash: PurgeExpiredBlobs, then PurgeExpiredFolders.
PurgeExpiredBlobs ==
    LET S == {b \in rows : Trashed(b) /\ b \in oldTrash}
    IN  /\ Unlocked(S)
        /\ Start(TrashJob, [Idle EXCEPT !.pc = "expire.folders", !.keys = S])
        /\ DeleteRows(S)
        /\ UNCHANGED <<folderVars, minioVars, histVars>>

ExpiredFolders == folders \cap fdeleted \cap oldFolder

PurgeExpiredFolders ==
    /\ req[TrashJob].pc = "expire.folders"
    /\ Write(TrashJob, "expire.commit", BlobsIn(ExpiredFolders))

PurgeExpiredCommit ==
    /\ req[TrashJob].pc = "expire.commit"
    /\ DeleteFolders(req[TrashJob].tx, ExpiredFolders)
    /\ req' = [req EXCEPT ![TrashJob] =
                   WithKeys("remove.keys", req[TrashJob].keys \cup req[TrashJob].tx)]
    /\ UNCHANGED <<minioVars, histVars>>

-----------------------------------------------------------------------------
\* Time and failure

\* PresignTTL passes since the blob was registered.
AgeRow(b) ==
    /\ b \in rows \ oldRow
    /\ oldRow' = oldRow \cup {b}
    /\ UNCHANGED <<rows, uploadedAt, deletedAt, oldTrash, owner, size, folderOf,
                   folderVars, minioVars, req, histVars>>

\* TrashTTL passes since the blob, or the folder, was trashed.
AgeTrash(b) ==
    /\ Trashed(b) /\ b \notin oldTrash
    /\ oldTrash' = oldTrash \cup {b}
    /\ UNCHANGED <<rows, uploadedAt, deletedAt, oldRow, owner, size, folderOf,
                   folderVars, minioVars, req, histVars>>

AgeFolder(f) ==
    /\ f \in (folders \cap fdeleted) \ oldFolder
    /\ oldFolder' = oldFolder \cup {f}
    /\ UNCHANGED <<blobVars, folders, fdeleted, minioVars, req, histVars>>

\* The handler ends where it stands: the process dies, the request's context
\* is cancelled, or its next call fails with an error the handler returns.
\* A call that took effect and still returned an error is the step, then this.
\* An open transaction is rolled back.
Fail(p) ==
    /\ p \in Failing
    /\ req[p].pc # "idle"
    /\ Finish(p)
    /\ UNCHANGED <<blobVars, folderVars, minioVars, histVars>>

\* One call of a loop that drops errors fails, and the loop goes on.
SkipKey(p) ==
    /\ p \in Failing
    /\ req[p].pc \in {"remove.keys", "orphan.keys"}
    /\ \E b \in req[p].keys : DropKey(p, req[p].pc, b)
    /\ UNCHANGED <<blobVars, folderVars, minioVars, histVars>>

-----------------------------------------------------------------------------
\* The next step of a handler that is under way.
Continue(p) ==
    \/ InitiateRequireFolder(p)
    \/ InitiateNewUpload(p)
    \/ InitiateRegister(p)
    \/ InitiatePresign(p)
    \/ InitiateAbort(p)
    \/ CompleteAtMinio(p)
    \/ CompleteStat(p)
    \/ CompleteConfirm(p)
    \/ AbortAtMinio(p)
    \/ AbortRow(p)
    \/ HardDeleteRemove(p)
    \/ HardDeleteRow(p)
    \/ MoveBlobRow(p)
    \/ TrashFolderWrite(p)
    \/ TrashFolderCommit(p)
    \/ RestoreFolderWrite(p)
    \/ RestoreFolderCommit(p)
    \/ HardDeleteFolderBlobs(p)
    \/ HardDeleteFolderCommit(p)
    \/ EmptyTrashFolders(p)
    \/ EmptyTrashCommit(p)
    \/ RemoveKey(p)

Next ==
    \/ \E p \in Reqs, u \in Users :
        \/ \E n \in Sizes, f \in Folders \cup {None} : InitiateCheckQuota(p, u, n, f)
        \/ \E b \in Blobs : \/ CompleteRead(p, u, b)
                            \/ AbortRead(p, u, b)
                            \/ HardDeletePeek(p, u, b)
                            \/ \E f \in Folders \cup {None} : MoveBlobCheck(p, u, b, f)
        \/ \E f \in Folders : \/ TrashFolderRead(p, u, f)
                              \/ RestoreFolderRead(p, u, f)
                              \/ HardDeleteFolderRead(p, u, f)
        \/ EmptyTrashBlobs(p, u)
    \/ \E p \in Procs : \/ Continue(p) \/ RestoreFolderRefused(p)
                       \/ InitiateRegisterFails(p) \/ Fail(p) \/ SkipKey(p)
    \/ \E u \in Users, b \in Blobs : TrashBlob(u, b) \/ RestoreBlob(u, b)
    \/ PurgeOrphanedBlobs
    \/ OrphanAbort
    \/ PurgeExpiredBlobs
    \/ PurgeExpiredFolders
    \/ PurgeExpiredCommit
    \/ \E b \in Blobs : AgeRow(b) \/ AgeTrash(b)
    \/ \E f \in Folders : AgeFolder(f)

Spec == Init /\ [][Next]_vars

\* A goroutine that can run does run, and one that waits for a row lock gets it
\* in its turn (Postgres queues them); the tickers of the jobs keep firing
\* (runCleanupJob loops until shutdown); time passes.
Fairness ==
    /\ \A p \in Procs : SF_vars(Continue(p))
    /\ SF_vars(PurgeOrphanedBlobs)
    /\ WF_vars(OrphanAbort)
    /\ SF_vars(PurgeExpiredBlobs)
    /\ SF_vars(PurgeExpiredFolders)
    /\ SF_vars(PurgeExpiredCommit)
    /\ \A b \in Blobs : WF_vars(AgeRow(b)) /\ WF_vars(AgeTrash(b))
    /\ \A f \in Folders : WF_vars(AgeFolder(f))

FairSpec == Spec /\ Fairness

-----------------------------------------------------------------------------
\* Properties

\* Every variable has its type.
TypeOK ==
    /\ rows \subseteq Blobs
    /\ uploadedAt \subseteq Blobs
    /\ deletedAt \subseteq Blobs
    /\ oldRow \subseteq Blobs
    /\ oldTrash \subseteq Blobs
    /\ owner \in [Blobs -> Users]
    /\ size \in [Blobs -> Nat]
    /\ folderOf \in [Blobs -> Folders \cup {None}]
    /\ folders \subseteq Folders
    /\ fdeleted \subseteq Folders
    /\ oldFolder \subseteq Folders
    /\ mpu \subseteq Blobs
    /\ objects \subseteq Blobs
    /\ req \in [Procs -> Request]
    /\ used \subseteq Blobs
    /\ restored \subseteq Blobs
    /\ declared \in [Blobs -> Nat]

\* No data is lost that its owner did not put in the trash: a file that
\* PresignGet serves, and that was never taken back from the trash, has its
\* object, whatever uploads, aborts, purges and failures ran beside it.
ServedBlobHasObject ==
    \A b \in Blobs : Visible(b) /\ b \notin restored => b \in objects

\* HardDeleteBlob gives up the record of a confirmed file only once MinIO has
\* let go of the object, so a removal that failed can be repeated
\* (service.go:167, "DB record stays intact if MinIO removal fails").
RecordOutlivesObject ==
    \A p \in Procs : \A b \in Blobs :
        /\ req[p].pc = "hard.row" /\ req[p].blob = b
        /\ b \in uploadedAt /\ b \notin restored
        => b \notin objects

\* Nothing a user deleted stays behind: without failures, the object of a
\* confirmed file whose row is gone is still owed a removal by the handler
\* that deleted the row.  (Blobs restored from the trash are excluded: see
\* HardDeleteDeletesRecord.)
PurgedObjectIsOwed ==
    \A b \in Blobs :
        b \in objects /\ b \in uploadedAt /\ b \notin rows /\ b \notin restored
        => \E p \in Procs : b \in req[p].keys

\* What admitted uploads not registered yet will add to a user's usage.
Admitted(u) ==
    {p \in Procs : req[p].user = u /\ req[p].pc \in {"init.folder", "init.new", "init.register"}}
InFlight(u) == SumFunctionOnSet([p \in Procs |-> req[p].size], Admitted(u))

\* What a user's rows come to when no upload counts for more than it was
\* declared to be: StatObject's size replaces the declared one unchecked.
AsDeclared(u) ==
    SumFunctionOnSet([b \in Blobs |-> IF size[b] < declared[b] THEN size[b] ELSE declared[b]],
                     UserRows(u))

\* The quota is checked against rows that other requests are about to add, so
\* it may be exceeded, but by no more than one largest upload per request
\* beyond the first that can be in flight, and by what clients uploaded in
\* excess of what they had declared.
QuotaOvershootBounded ==
    QuotaBytes > 0 /\ MaxUploadBytes > 0 =>
        \A u \in Users :
            AsDeclared(u) + InFlight(u)
                <= QuotaBytes + (Cardinality(Reqs) - 1) * MaxUploadBytes

\* An upload nobody finishes does not stay pending for ever (it would count
\* against the quota and never be listed): the hourly job purges it.
AbandonedUploadPurged == \A b \in Blobs : Pending(b) ~> ~Pending(b)

\* The blob's row was deleted for good, or is about to be, and the handler that
\* does so removes its object but aborts no upload.
GivenUp(b) ==
    \E p \in Procs :
        \/ b \in req[p].keys /\ req[p].pc # "orphan.keys"
        \/ b = req[p].blob /\ req[p].pc \in {"hard.remove", "hard.row"}

\* An upload that has a row does not stay open in MinIO for ever either, in or
\* out of the trash, whatever becomes of its folder and whichever calls fail:
\* it is completed or aborted, unless a deletion for good gives it up.  Only
\* the orphan job must not fail: it has deleted the row before it aborts.
UploadReleased ==
    \A b \in Blobs : b \in mpu \cap rows ~> b \notin mpu \/ GivenUp(b)

\* A row does not stay in the trash for ever: it is taken back or deleted, even
\* when the job and the handlers that hold its lock fail again and again.
\* (Its object may stay behind when the call that removes it fails.)
TrashExpires == \A b \in Blobs : Trashed(b) ~> ~Trashed(b)

\* What the code does not keep

\* service.go:181: "MinIO object is gone - now delete the DB record."
HardDeleteDeletesRecord ==
    [][\A p \in Procs :
         /\ req[p].pc = "hard.row" /\ req'[p].pc = "idle"
         /\ req[p].blob \in uploadedAt
         => req[p].blob \notin rows']_vars

\* service.go:500: "Clean up MinIO before removing the DB record. On failure
\* we keep the record so CleanOrphanedBlobs can retry on the next scheduled
\* run": a record that has aged is given up only when nothing is left in
\* MinIO of its unconfirmed upload, or a handler is still at work on it.
AbandonedUploadLeavesNothing ==
    \A b \in oldRow \ (rows \cup uploadedAt) :
        b \in mpu \cup objects
        => \E p \in Procs : req[p].blob = b \/ b \in req[p].keys

\* README.md:47: "Storage limit per user in bytes".
UsedWithinQuota ==
    QuotaBytes > 0 => \A u \in Users : GetUserStorageUsed(u) <= QuotaBytes

\* store.go:87: "verify the real file size against the declared value".
ConfirmedSizeIsDeclared ==
    [][\A b \in uploadedAt' \ uploadedAt : size'[b] <= size[b]]_vars
=============================================================================
