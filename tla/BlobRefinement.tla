---------------------------- MODULE BlobRefinement ----------------------------
(***************************************************************************)
(* The handlers of BlobLifecycle keep the promise of FileStatus.           *)
(***************************************************************************)
EXTENDS BlobLifecycle

\* The id was not handed out yet, or the handler it was handed to has not
\* reached RegisterBlob.
Unregistered(b) ==
    \/ b \notin used
    \/ \E p \in Procs : /\ req[p].blob = b
                        /\ req[p].pc \in {"init.folder", "init.new", "init.register"}

\* The columns of stored_blobs, as the queries of the listings, of the trash
\* and of the clean-up jobs read them.
FileStatusOf(b) ==
    CASE Visible(b) -> "listed"
      [] Pending(b) -> "draft"
      [] Trashed(b) /\ b \in uploadedAt -> "binned"
      [] Trashed(b) /\ b \notin uploadedAt -> "binnedDraft"
      [] b \notin rows /\ Unregistered(b) -> "new"
      [] OTHER -> "gone"

\* A deletion of the folder was asked for while it was in the trash, and has
\* not ended: the folder was looked up, or blobs in it are locked for deletion.
BeingDeleted(f) ==
    \E p \in Procs :
        \/ req[p].pc \in {"drop.blobs", "drop.commit"} /\ req[p].folder = f
        \/ /\ req[p].pc \in {"empty.commit", "expire.commit"}
           /\ \E b \in req[p].tx : folderOf[b] = f

InBin == folders \cap fdeleted
Doomed == {f \in folders : BeingDeleted(f)}

Promise == INSTANCE FileStatus WITH
    Files <- Blobs,
    Holders <- Users,
    Dirs <- Folders,
    Root <- None,
    status <- [b \in Blobs |-> FileStatusOf(b)],
    place <- [b \in Blobs |-> IF b \in rows THEN folderOf[b] ELSE None],
    bin <- InBin,
    doomed <- Doomed,
    holder <- owner

\* Whatever handlers, clean-up jobs and failures interleave, a file moves only
\* as its owner was promised: it is confirmed once and never after it was
\* trashed or purged, it never comes back once it is gone and never changes
\* hands, and nothing listed disappears except from a folder that its owner
\* had put into the trash (a deletion asked for then goes through even if the
\* folder is restored meanwhile: HardDeleteFolder checks only once).
KeepsPromise == Promise!Spec
=============================================================================
