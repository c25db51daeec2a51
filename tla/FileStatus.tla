------------------------------ MODULE FileStatus ------------------------------
(***************************************************************************)
(* What the storage promises the owner of a file, with no handlers, rows   *)
(* or object store in sight: a file is registered once, listed once its    *)
(* upload is confirmed, put into the trash and taken back, and in the end  *)
(* gone for good.  One step may concern several files, because an          *)
(* operation on a folder concerns the files in it.                         *)
(*                                                                         *)
(* A folder is put into the bin and taken back, too.  While it is there a  *)
(* deletion of it may be asked for, and one that was asked for may still   *)
(* go through after the folder was taken back: until it ends the folder is *)
(* doomed.  The files of a folder that is in the bin or doomed may go with *)
(* it, listed or not; no other listed file may.                            *)
(***************************************************************************)
CONSTANTS
    Files,    \* the files there may ever be
    Holders,  \* the accounts
    Dirs,     \* the folders
    Root      \* the place outside every folder, and of files that do not exist

VARIABLES
    status,    \* where each file stands
    place,     \* the folder it is in
    bin,       \* the folders in the trash
    doomed,    \* the folders whose deletion was asked for and has not ended
    holder     \* the account a registered file belongs to

fileVars == <<status, place, bin, doomed, holder>>

\* "draft" and "listed" are what the owner works with: an upload that is not
\* confirmed, and a file.  "binnedDraft" and "binned" are the same two in the
\* trash.
Statuses == {"new", "draft", "listed", "binnedDraft", "binned", "gone"}

\* The files S move on, each as step says for its state.
Advance(S, step) ==
    /\ \A x \in S : status[x] \in DOMAIN step
    /\ status' = [x \in Files |-> IF x \in S THEN step[status[x]] ELSE status[x]]

ToTrash == [draft |-> "binnedDraft", listed |-> "binned"]
FromTrash == [binnedDraft |-> "draft", binned |-> "listed"]

FilesAt(d) == {x \in Files : place[x] = d}

Init ==
    /\ status = [x \in Files |-> "new"]
    /\ place = [x \in Files |-> Root]
    /\ bin = {}
    /\ doomed = {}
    /\ holder \in [Files -> Holders]

\* A file comes into being, for one account.
Register(x, u, d) ==
    /\ Advance({x}, [new |-> "draft"])
    /\ place' = [place EXCEPT ![x] = d]
    /\ holder' = [holder EXCEPT ![x] = u]
    /\ UNCHANGED <<bin, doomed>>

Confirm(x) ==
    /\ Advance({x}, [draft |-> "listed"])
    /\ UNCHANGED <<place, bin, doomed, holder>>

Trash(x) ==
    /\ Advance({x}, ToTrash)
    /\ UNCHANGED <<place, bin, doomed, holder>>

\* A file returns to its folder or, if that is gone or in the trash, to the root.
Restore(x) ==
    /\ Advance({x}, FromTrash)
    /\ place' \in {place, [place EXCEPT ![x] = Root]}
    /\ UNCHANGED <<bin, doomed, holder>>

TrashFolder(d, S) ==
    /\ Advance(S, ToTrash)
    /\ bin' = bin \cup {d}
    /\ UNCHANGED <<place, doomed, holder>>

RestoreFolder(d, S) ==
    /\ Advance(S, FromTrash)
    /\ bin' = bin \ {d}
    /\ UNCHANGED <<place, doomed, holder>>

\* The deletion of folders is asked for: they must be in the bin.
Doom(D) ==
    /\ D \subseteq bin
    /\ doomed' = doomed \cup D
    /\ UNCHANGED <<status, place, bin, holder>>

\* A usable file is moved to another folder.
Refile(x, d) ==
    /\ status[x] \in {"draft", "listed"}
    /\ place' = [place EXCEPT ![x] = d]
    /\ UNCHANGED <<status, bin, doomed, holder>>

\* Files and folders are given up for good: a folder that is in the bin or
\* doomed, a listed file only with such a folder.  Files that stay while their
\* folder goes move to the root.  A deletion that ends, here or in vain, may
\* leave folders doomed no more.
Discard(S, D) ==
    /\ D \subseteq bin \cup doomed
    /\ \A x \in S : /\ status[x] # "gone"
                   /\ status[x] = "listed" => place[x] \in bin \cup doomed
    /\ status' = [x \in Files |-> IF x \in S THEN "gone" ELSE status[x]]
    /\ place' = [x \in Files |-> IF x \in S \/ place[x] \in D THEN Root ELSE place[x]]
    /\ bin' = bin \ D
    /\ doomed' \in SUBSET (doomed \ D)
    /\ UNCHANGED holder

Next ==
    \/ \E x \in Files : \/ Confirm(x) \/ Trash(x) \/ Restore(x)
                        \/ \E d \in Dirs \cup {Root} :
                            Refile(x, d) \/ \E u \in Holders : Register(x, u, d)
    \/ \E d \in Dirs : \E S \in SUBSET FilesAt(d) : TrashFolder(d, S) \/ RestoreFolder(d, S)
    \/ \E D \in SUBSET Dirs : Doom(D) \/ \E S \in SUBSET Files : Discard(S, D)

Spec == Init /\ [][Next]_fileVars
=============================================================================
