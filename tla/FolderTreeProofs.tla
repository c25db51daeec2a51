--------------------------- MODULE FolderTreeProofs ---------------------------
(***************************************************************************)
(* Proofs about FolderTree, for any number of users, folders, names and    *)
(* requests.                                                               *)
(*                                                                         *)
(* What holds for requests of a user that overlap is in TreeInv and        *)
(* RequestInv.  LiveInv, SoloInv and MoveInv are about the instances in    *)
(* which every user waits for an answer: then what a request has read of   *)
(* the user's tree still holds when it writes, because the other users and *)
(* the hourly job change nothing in it but expired trash.                  *)
(***************************************************************************)
EXTENDS FolderTree, FiniteSetTheorems, WellFoundedInduction, TLAPS

\* The tree: ids are not reused, every row has an owner and lies in the tree of
\* its owner, and the names of live siblings differ.
TreeInv ==
    /\ old \subseteq trashed /\ trashed \subseteq rows /\ rows \subseteq used
    /\ \A f \in rows : owner[f] \in Users
    /\ OwnTree
    /\ ~Twins(rows \ trashed, parent)

\* What a request has read names folders of its user, as far as they exist.
RequestInv(p) ==
    LET r == req[p] IN
    /\ r.folder \in used \cup {None} /\ r.ids \subseteq used
    /\ \A f \in rows : f = r.folder \/ f \in r.ids => owner[f] = Client[p]
    /\ r.pc # "move.dst" =>
        /\ r.dst \in used \cup {None}
        /\ r.dst \in rows => owner[r.dst] = Client[p]
    /\ r.pc = "restore.rows" => r.folder \in r.ids

Inv == TypeOK /\ TreeInv /\ \A p \in Reqs : RequestInv(p)

\* No live folder under a trashed one, no fresh one under an expired one.
LiveInv ==
    /\ \A f \in rows \ trashed : parent[f] # None => parent[f] \in rows \ trashed
    /\ \A f \in rows : parent[f] \in old => f \in old

\* S has all the children of its members, of those in T.
Closed(S, T) == \A h \in T : parent[h] \in S => h \in S

\* What a request has read is still so when it writes.
SoloInv(p) ==
    LET r == req[p] IN
    /\ r.pc \in {"create.row", "move.desc", "move.row", "restore.rows"} /\ r.dst # None =>
        OwnLive(r.dst, Client[p])
    /\ r.pc \in {"move.dst", "move.desc"} => OwnLive(r.folder, Client[p])
    /\ r.pc = "trash.rows" => r.ids \cap trashed = {} /\ Closed(r.ids, rows \ trashed)
    /\ r.pc = "restore.rows" =>
        /\ Closed(r.ids, rows)
        /\ \A h \in rows : h \in r.ids /\ h # r.folder => parent[h] \in r.ids
        /\ r.dst # None /\ r.folder \in rows => r.dst = parent[r.folder]

OneInv == OnePerUser => LiveInv /\ \A p \in Reqs : SoloInv(p)

\* A folder that is about to move below dst has dst not below it.
MoveInv(p) ==
    req[p].pc = "move.row" /\ req[p].dst # None =>
        \E D \in SUBSET FolderIds : req[p].folder \in D /\ req[p].dst \notin D /\ Closed(D, rows)

\* IsDescendantOf, which looks DepthLimit levels down, sees the whole subtree.
Shallow == \A f \in rows \ trashed : LiveSubtree(f) \subseteq Within(f)

\* No user has more live folders than IsDescendantOf looks levels down.
OwnFolders(u) == {f \in rows \ trashed : owner[f] = u}
FewFolders == \A u \in Users : IsFiniteSet(OwnFolders(u)) /\ Cardinality(OwnFolders(u)) <= DepthLimit

ForestInv == OnePerUser => Forest /\ \A p \in Reqs : MoveInv(p)
-----------------------------------------------------------------------------
\* The recursive queries

\* A subtree has its root and the children of its members, and lies in every
\* set that does.
LEMMA SubtreeFacts ==
    ASSUME TypeOK, NEW f \in FolderIds
    PROVE  /\ Subtree(f) \subseteq FolderIds /\ f \in Subtree(f) /\ Closed(Subtree(f), rows)
           /\ \A C \in SUBSET FolderIds : f \in C /\ Closed(C, rows) => Subtree(f) \subseteq C
<1>1. Closed(Subtree(f), rows)
  BY DEF Subtree, Closed, TypeOK
<1>2. QED
  BY <1>1 DEF Subtree, Closed

\* The same for the live folders.
LEMMA LiveSubtreeFacts ==
    ASSUME TypeOK, NEW f \in FolderIds
    PROVE  /\ LiveSubtree(f) \subseteq FolderIds /\ f \in LiveSubtree(f)
           /\ Closed(LiveSubtree(f), rows \ trashed)
           /\ \A C \in SUBSET FolderIds :
                 f \in C /\ Closed(C, rows \ trashed) => LiveSubtree(f) \subseteq C
<1>1. Closed(LiveSubtree(f), rows \ trashed)
  BY DEF LiveSubtree, Closed, TypeOK
<1>2. QED
  BY <1>1 DEF LiveSubtree, Closed

\* A recursive query does not leave the tree of the user of its root.
LEMMA SubtreeIsOwn ==
    ASSUME TypeOK, OwnTree, NEW f \in rows
    PROVE  \A g \in Subtree(f) : g \in rows /\ owner[g] = owner[f]
<1> DEFINE C == {g \in rows : owner[g] = owner[f]}
<1>1. C \in SUBSET FolderIds /\ f \in C /\ f \in FolderIds
  BY DEF TypeOK
<1>2. Closed(C, rows)
  BY FoldersAssumption DEF OwnTree, Closed, TypeOK
<1>3. QED
  BY <1>1, <1>2, SubtreeFacts

\* Nor the live folders, from a live root.
LEMMA LiveSubtreeIsOwn ==
    ASSUME TypeOK, OwnTree, NEW f \in rows \ trashed
    PROVE  \A g \in LiveSubtree(f) : g \in rows \ trashed /\ owner[g] = owner[f]
<1> DEFINE C == {g \in rows \ trashed : owner[g] = owner[f]}
<1>1. C \in SUBSET FolderIds /\ f \in C /\ f \in FolderIds
  BY DEF TypeOK
<1>2. Closed(C, rows \ trashed)
  BY FoldersAssumption DEF OwnTree, Closed, TypeOK
<1>3. QED
  BY <1>1, <1>2, LiveSubtreeFacts

\* Every member of a subtree but its root has its parent in it.
LEMMA SubtreeParents ==
    ASSUME TypeOK, NEW f \in FolderIds
    PROVE  \A g \in Subtree(f) : g # f => parent[g] \in Subtree(f)
<1> DEFINE C == {f} \cup {g \in Subtree(f) : parent[g] \in Subtree(f)}
<1>1. C \in SUBSET FolderIds /\ f \in C /\ C \subseteq Subtree(f)
  BY SubtreeFacts
<1>2. Closed(C, rows)
  BY <1>1, SubtreeFacts DEF Closed
<1>3. QED
  BY <1>1, <1>2, SubtreeFacts

-----------------------------------------------------------------------------
\* Types

\* The id of a new folder is one that was never used.
LEMMA NewIdFacts == used # FolderIds /\ used \subseteq FolderIds => NewId \in FolderIds \ used
  BY DEF NewId

\* A handler's locals are one of these when it starts, goes on or ends.
LEMMA BecomeFacts ==
    ASSUME req \in [Reqs -> Request], NEW p \in Reqs, NEW r \in Request, Become(p, r)
    PROVE  /\ req' \in [Reqs -> Request] /\ req'[p] = r
           /\ \A q \in Reqs : q # p => req'[q] = req[q]
  BY DEF Become

\* The initial state satisfies the invariant.
LEMMA InitInv == Init => Inv
<1> SUFFICES ASSUME Init PROVE Inv
  OBVIOUS
<1>1. TypeOK
  BY DEF Init, TypeOK, Idle, Request, Labels
<1>2. TreeInv
  BY DEF Init, TreeInv, OwnTree, Twins
<1>3. ASSUME NEW p \in Reqs PROVE RequestInv(p)
  BY DEF Init, RequestInv, Idle
<1>4. QED
  BY <1>1, <1>2, <1>3 DEF Inv
\* Every step keeps the types.
LEMMA NextTypeOK == TypeOK /\ [Next]_vars => TypeOK'
<1> SUFFICES ASSUME TypeOK, [Next]_vars PROVE TypeOK'
  OBVIOUS
<1> USE DEF treeVars
<1>i. Idle \in Request
  BY DEF Idle, Request, Labels
\* A step that only changes the locals of a request.
<1>r. ASSUME NEW p \in Reqs, NEW r \in Request, Become(p, r), UNCHANGED treeVars
      PROVE  TypeOK'
  BY <1>r DEF TypeOK, Become
<1>f. ASSUME NEW p \in Reqs, Finish(p) PROVE req' \in [Reqs -> Request]
  BY <1>i, <1>f DEF TypeOK, Finish, Become
<1>d. ASSUME NEW S, DeleteFolders(S), req' \in [Reqs -> Request] PROVE TypeOK'
  BY <1>d DEF TypeOK, DeleteFolders, Uprooted
<1>p. ASSUME NEW p \in Reqs PROVE req[p] \in Request /\ Client[p] \in Users
  BY ClientAssumption DEF TypeOK
<1>1. ASSUME NEW p \in Reqs, NEW d \in FolderIds \cup {None}, NEW n \in Names, CreateFolder(p, d, n)
      PROVE  TypeOK'
  <2>1. [Idle EXCEPT !.pc = "create.row", !.dst = d, !.name = n] \in Request
    BY DEF Idle, Request, Labels
  <2>2. QED
    BY <1>1, <1>r, <2>1 DEF CreateFolder, Start
<1>2. ASSUME NEW p \in Reqs, NEW f \in FolderIds, NEW n \in Names, RenameFolder(p, f, n) PROVE TypeOK'
  BY <1>2 DEF TypeOK, RenameFolder
<1>3. ASSUME NEW p \in Reqs, NEW f \in FolderIds, NEW d \in FolderIds \cup {None}, MoveFolder(p, f, d)
      PROVE  TypeOK'
  <2>1. [Idle EXCEPT !.pc = IF d = None THEN "move.row" ELSE "move.dst",
                     !.folder = f, !.dst = d] \in Request
    BY DEF Idle, Request, Labels
  <2>2. QED
    BY <1>3, <1>r, <2>1 DEF MoveFolder, Start
<1>4. ASSUME NEW p \in Reqs, NEW f \in FolderIds, TrashFolder(p, f) PROVE TypeOK'
  <2>1. LiveSubtree(f) \subseteq FolderIds
    BY DEF LiveSubtree
  <2>2. [Idle EXCEPT !.pc = "trash.rows", !.folder = f, !.ids = LiveSubtree(f)] \in Request
    BY <2>1 DEF Idle, Request, Labels
  <2>3. PICK r \in Request : r = [Idle EXCEPT !.pc = "trash.rows", !.folder = f, !.ids = LiveSubtree(f)]
    BY <2>2
  <2>4. QED
    BY <1>4, <1>r, <2>3 DEF TrashFolder, Start
<1>5. ASSUME NEW p \in Reqs, NEW f \in FolderIds, RestoreFolder(p, f) PROVE TypeOK'
  <2>1. PICK ids \in SUBSET FolderIds : ids = Subtree(f)
    BY DEF Subtree
  <2>2. PICK d \in FolderIds \cup {None} : d = IF Live(parent[f]) THEN parent[f] ELSE None
    BY DEF TypeOK
  <2>3. [Idle EXCEPT !.pc = "restore.rows", !.folder = f, !.dst = d, !.ids = ids] \in Request
    BY DEF Idle, Request, Labels
  <2>4. QED
    BY <1>5, <1>r, <2>1, <2>2, <2>3 DEF RestoreFolder, Start
<1>6. ASSUME NEW p \in Reqs, NEW f \in FolderIds, HardDeleteFolder(p, f) PROVE TypeOK'
  <2>1. Subtree(f) \subseteq FolderIds
    BY DEF Subtree
  <2>2. PICK r \in Request : r = [Idle EXCEPT !.pc = "hard.rows", !.folder = f, !.ids = Subtree(f)]
    BY <2>1 DEF Idle, Request, Labels
  <2>3. QED
    BY <1>6, <1>r, <2>2 DEF HardDeleteFolder, Start
<1>7. ASSUME NEW p \in Reqs, EmptyTrashedFolders(p) PROVE TypeOK'
  BY <1>7, <1>d DEF EmptyTrashedFolders, TypeOK
<1>8. ASSUME NEW p \in Reqs, CreateRow(p) PROVE TypeOK'
  <2>1. req' \in [Reqs -> Request]
    BY <1>8, <1>f DEF CreateRow
  <2>2. CASE UNCHANGED <<used, rows, owner, parent, name>>
    BY <1>8, <2>1, <2>2 DEF CreateRow, TypeOK
  <2>3. CASE ~UNCHANGED <<used, rows, owner, parent, name>>
    <3>1. NewId \in FolderIds
      BY <1>8, <2>3, NewIdFacts DEF CreateRow, TypeOK
    <3>2. req[p].dst \in FolderIds \cup {None} /\ req[p].name \in Names \cup {None}
      BY <1>p DEF Request
    <3>3. QED
      BY <1>8, <1>p, <2>1, <2>3, <3>1, <3>2 DEF CreateRow, InsertFolder, TypeOK
  <2>4. QED
    BY <2>2, <2>3
<1>9. ASSUME NEW p \in Reqs, MoveDst(p) \/ MoveDesc(p) PROVE TypeOK'
  <2>1. /\ [req[p] EXCEPT !.pc = "move.desc"] \in Request
        /\ [req[p] EXCEPT !.pc = "move.row"] \in Request
    BY <1>p DEF Request, Labels
  <2>2. PICK r \in Request : Become(p, r)
    BY <1>9, <1>i, <2>1 DEF MoveDst, MoveDesc, Goto, Finish
  <2>3. QED
    BY <1>9, <1>r, <2>2 DEF MoveDst, MoveDesc
<1>10. ASSUME NEW p \in Reqs, MoveRow(p) PROVE TypeOK'
  <2>1. req' \in [Reqs -> Request] /\ req[p].dst \in FolderIds \cup {None}
    BY <1>10, <1>f, <1>p DEF MoveRow, Request
  <2>2. QED
    BY <1>10, <2>1 DEF MoveRow, TypeOK
<1>11. ASSUME NEW p \in Reqs, TrashRows(p) PROVE TypeOK'
  <2>1. req' \in [Reqs -> Request] /\ req[p].ids \subseteq FolderIds
    BY <1>11, <1>f, <1>p DEF TrashRows, Request
  <2>2. QED
    BY <1>11, <2>1 DEF TrashRows, TypeOK
<1>12. ASSUME NEW p \in Reqs, RestoreRows(p) PROVE TypeOK'
  <2>1. req' \in [Reqs -> Request] /\ req[p].dst \in FolderIds \cup {None}
    BY <1>12, <1>f, <1>p DEF RestoreRows, Request
  <2>2. QED
    BY <1>12, <2>1 DEF RestoreRows, TypeOK
<1>13. ASSUME NEW p \in Reqs, HardDeleteRows(p) PROVE TypeOK'
  <2>1. req' \in [Reqs -> Request]
    BY <1>13, <1>f DEF HardDeleteRows
  <2>2. CASE UNCHANGED treeVars
    BY <2>1, <2>2 DEF TypeOK
  <2>3. QED
    BY <1>13, <1>d, <2>1, <2>2 DEF HardDeleteRows
<1>14. ASSUME NEW p \in Reqs, Fail(p) PROVE TypeOK'
  BY <1>14, <1>i, <1>r DEF Fail, Finish
<1>15. CASE PurgeExpiredFolders
  BY <1>15, <1>d DEF PurgeExpiredFolders, TypeOK
<1>16. CASE Age
  BY <1>16 DEF Age, TypeOK
<1>17. CASE UNCHANGED vars
  BY <1>17 DEF vars, TypeOK
<1>18. QED
  BY <1>1, <1>2, <1>3, <1>4, <1>5, <1>6, <1>7, <1>8, <1>9, <1>10, <1>11, <1>12, <1>13, <1>14,
     <1>15, <1>16, <1>17 DEF Next, Handle, Continue
-----------------------------------------------------------------------------
\* The tree of every user

\* Every folder of the new state is an old one that has kept its owner, or new.
Kept == used \subseteq used' /\ \A f \in rows' : (f \in rows /\ owner'[f] = owner[f]) \/ f \notin used

\* What a request has read of the tree survives the steps of the others.
LEMMA RequestStays ==
    ASSUME TypeOK', NEW q \in Reqs, RequestInv(q), req'[q] = req[q], Kept
    PROVE  RequestInv(q)'
<1>1. None \notin rows'
  BY FoldersAssumption DEF TypeOK
<1>2. QED
  BY <1>1 DEF RequestInv, Kept

\* A request that has ended has read nothing.
LEMMA RequestEnds ==
    ASSUME TypeOK', NEW p \in Reqs, req'[p] = Idle
    PROVE  RequestInv(p)' /\ SoloInv(p)' /\ MoveInv(p)'
<1>1. None \notin rows'
  BY FoldersAssumption DEF TypeOK
<1>2. RequestInv(p)'
  BY <1>1 DEF RequestInv, Idle
<1>3. SoloInv(p)' /\ MoveInv(p)'
  BY DEF SoloInv, MoveInv, Idle
<1>4. QED
  BY <1>2, <1>3

\* A step that leaves the tree alone.
LEMMA TreeStays ==
    ASSUME TreeInv, UNCHANGED treeVars
    PROVE  TreeInv' /\ Kept
<1>1. (~Twins(rows \ trashed, parent))'
  BY DEF TreeInv, treeVars, Twins
<1>2. QED
  BY <1>1 DEF TreeInv, treeVars, Kept, OwnTree

\* The deletion of a set of folders.
LEMMA DeleteKeepsTree ==
    ASSUME TypeOK, TreeInv, NEW S, Deletable(S), DeleteFolders(S)
    PROVE  /\ TreeInv' /\ Kept
           /\ rows' = rows \ S /\ trashed' = trashed \ S /\ old' = old \ S
           /\ \A f \in rows' : owner'[f] = owner[f] /\ parent'[f] = parent[f] /\ name'[f] = name[f]
           /\ \A f \in rows' : parent[f] \notin S
<1>1. /\ rows' = rows \ S /\ trashed' = trashed \ S /\ old' = old \ S /\ used' = used
      /\ \A f \in rows' : owner'[f] = owner[f] /\ parent'[f] = parent[f] /\ name'[f] = name[f]
      /\ \A f \in rows' : parent[f] \notin S
  BY DEF DeleteFolders, Deletable, Uprooted, TypeOK
<1>2. OwnTree'
  BY <1>1 DEF TreeInv, OwnTree
<1>3. (~Twins(rows \ trashed, parent))'
  BY <1>1 DEF TreeInv, Twins
<1>4. QED
  BY <1>1, <1>2, <1>3 DEF TreeInv, Kept

\* Every step keeps each user's folders in a tree of their own.
LEMMA NextInv == Inv /\ [Next]_vars => Inv'
<1> SUFFICES ASSUME Inv, [Next]_vars PROVE Inv'
  OBVIOUS
<1>t. TypeOK /\ TypeOK' /\ TreeInv /\ \A q \in Reqs : RequestInv(q)
  BY NextTypeOK DEF Inv
<1>o. OwnTree
  BY <1>t DEF TreeInv
<1>p. ASSUME NEW p \in Reqs
      PROVE  req[p] \in Request /\ Client[p] \in Users /\ req \in [Reqs -> Request]
  BY <1>t, ClientAssumption DEF TypeOK
\* It is enough to look at the tree and at the request that takes the step.
<1>q. ASSUME NEW p \in Reqs, NEW r, Become(p, r), RequestInv(p)', TreeInv', Kept PROVE Inv'
  <2>1. \A q \in Reqs : q # p => req'[q] = req[q]
    BY <1>p, <1>q DEF Become
  <2>2. \A q \in Reqs : RequestInv(q)'
    BY <1>t, <1>q, <2>1, RequestStays
  <2>3. QED
    BY <1>t, <1>q, <2>2 DEF Inv
<1>f. ASSUME NEW p \in Reqs, Finish(p), TreeInv', Kept PROVE Inv'
  <2>1. req'[p] = Idle
    BY <1>p, <1>f DEF Finish, Become
  <2>2. QED
    BY <1>t, <1>f, <1>q, <2>1, RequestEnds DEF Finish
<1>u. ASSUME UNCHANGED req, TreeInv', Kept PROVE Inv'
  BY <1>t, <1>u, RequestStays DEF Inv
<1>1. ASSUME NEW p \in Reqs, NEW d \in FolderIds \cup {None}, NEW n \in Names, CreateFolder(p, d, n)
      PROVE  Inv'
  <2>1. req'[p] = [Idle EXCEPT !.pc = "create.row", !.dst = d, !.name = n]
    BY <1>1, <1>p DEF CreateFolder, Start, Become
  <2>2. TreeInv' /\ Kept /\ UNCHANGED treeVars
    BY <1>1, <1>t, TreeStays DEF CreateFolder
  <2>3. d = None \/ (d \in rows /\ owner[d] = Client[p])
    BY <1>1 DEF CreateFolder, OwnLive, Live
  <2>4. RequestInv(p)'
    BY <1>t, <2>1, <2>2, <2>3, FoldersAssumption DEF RequestInv, TreeInv, Idle, treeVars, TypeOK
  <2>5. QED
    BY <1>1, <1>q, <2>2, <2>4 DEF CreateFolder, Start
<1>2. ASSUME NEW p \in Reqs, NEW f \in FolderIds, NEW n \in Names, RenameFolder(p, f, n) PROVE Inv'
  <2>1. (~Twins(rows \ trashed, parent))'
    <3>1. /\ \A g \in FolderIds : name'[g] = IF g = f THEN n ELSE name[g]
          /\ UNCHANGED <<rows, trashed, owner, parent>> /\ owner[f] = Client[p]
          /\ \A g \in (rows \ trashed) \ {f} :
                ~(owner[g] = Client[p] /\ parent[g] = parent[f] /\ name[g] = n)
      BY <1>2, <1>t DEF RenameFolder, Taken, OwnLive, TypeOK
    <3>2. rows \ trashed \subseteq FolderIds
      BY <1>t DEF TypeOK
    <3>3. QED
      BY <1>t, <3>1, <3>2 DEF TreeInv, Twins
  <2>2. UNCHANGED <<rows, trashed, old, owner, parent, req, used>>
    BY <1>2 DEF RenameFolder
  <2>3. TreeInv' /\ Kept
    BY <1>t, <2>1, <2>2 DEF TreeInv, OwnTree, Kept
  <2>4. QED
    BY <1>u, <2>2, <2>3
<1>3. ASSUME NEW p \in Reqs, NEW f \in FolderIds, NEW d \in FolderIds \cup {None}, MoveFolder(p, f, d)
      PROVE  Inv'
  <2>1. req'[p] = [Idle EXCEPT !.pc = IF d = None THEN "move.row" ELSE "move.dst",
                               !.folder = f, !.dst = d]
    BY <1>3, <1>p DEF MoveFolder, Start, Become
  <2>2. TreeInv' /\ Kept /\ UNCHANGED treeVars
    BY <1>3, <1>t, TreeStays DEF MoveFolder
  <2>3. f \in rows /\ owner[f] = Client[p]
    BY <1>3 DEF MoveFolder, OwnLive, Live
  <2>4. RequestInv(p)'
    BY <1>t, <2>1, <2>2, <2>3, FoldersAssumption DEF RequestInv, TreeInv, Idle, treeVars, TypeOK
  <2>5. QED
    BY <1>3, <1>q, <2>2, <2>4 DEF MoveFolder, Start
<1>4. ASSUME NEW p \in Reqs, NEW f \in FolderIds, TrashFolder(p, f) PROVE Inv'
  <2>1. req'[p] = [Idle EXCEPT !.pc = "trash.rows", !.folder = f, !.ids = LiveSubtree(f)]
    BY <1>4, <1>p DEF TrashFolder, Start, Become
  <2>2. TreeInv' /\ Kept /\ UNCHANGED treeVars
    BY <1>4, <1>t, TreeStays DEF TrashFolder
  <2>3. f \in rows \ trashed /\ owner[f] = Client[p]
    BY <1>4 DEF TrashFolder, OwnLive, Live
  <2>4. \A g \in LiveSubtree(f) : g \in rows /\ owner[g] = Client[p]
    BY <1>t, <1>o, <2>3, LiveSubtreeIsOwn
  <2>5. RequestInv(p)'
    BY <1>t, <2>1, <2>2, <2>3, <2>4, FoldersAssumption
    DEF RequestInv, TreeInv, Idle, treeVars, TypeOK
  <2>6. QED
    BY <1>4, <1>q, <2>2, <2>5 DEF TrashFolder, Start
<1>5. ASSUME NEW p \in Reqs, NEW f \in FolderIds, RestoreFolder(p, f) PROVE Inv'
  <2>1. req'[p] = [Idle EXCEPT !.pc = "restore.rows", !.folder = f,
                               !.dst = IF Live(parent[f]) THEN parent[f] ELSE None,
                               !.ids = Subtree(f)]
    BY <1>5, <1>p DEF RestoreFolder, Start, Become
  <2>2. TreeInv' /\ Kept /\ UNCHANGED treeVars
    BY <1>5, <1>t, TreeStays DEF RestoreFolder
  <2>3. f \in rows /\ owner[f] = Client[p]
    BY <1>5 DEF RestoreFolder, OwnTrashed
  <2>4. \A g \in Subtree(f) : g \in rows /\ owner[g] = Client[p]
    BY <1>t, <1>o, <2>3, SubtreeIsOwn
  <2>5. f \in Subtree(f)
    BY <1>t, SubtreeFacts
  <2>6. Live(parent[f]) => parent[f] \in rows /\ owner[parent[f]] = Client[p]
    BY <1>t, <1>o, <2>3, FoldersAssumption DEF Live, OwnTree, TypeOK
  <2>7. RequestInv(p)'
    BY <1>t, <2>1, <2>2, <2>3, <2>4, <2>5, <2>6, FoldersAssumption
    DEF RequestInv, TreeInv, Idle, treeVars, TypeOK
  <2>8. QED
    BY <1>5, <1>q, <2>2, <2>7 DEF RestoreFolder, Start
<1>6. ASSUME NEW p \in Reqs, NEW f \in FolderIds, HardDeleteFolder(p, f) PROVE Inv'
  <2>1. req'[p] = [Idle EXCEPT !.pc = "hard.rows", !.folder = f, !.ids = Subtree(f)]
    BY <1>6, <1>p DEF HardDeleteFolder, Start, Become
  <2>2. TreeInv' /\ Kept /\ UNCHANGED treeVars
    BY <1>6, <1>t, TreeStays DEF HardDeleteFolder
  <2>3. f \in rows /\ owner[f] = Client[p]
    BY <1>6 DEF HardDeleteFolder, OwnTrashed
  <2>4. \A g \in Subtree(f) : g \in rows /\ owner[g] = Client[p]
    BY <1>t, <1>o, <2>3, SubtreeIsOwn
  <2>5. RequestInv(p)'
    BY <1>t, <2>1, <2>2, <2>3, <2>4, FoldersAssumption
    DEF RequestInv, TreeInv, Idle, treeVars, TypeOK
  <2>6. QED
    BY <1>6, <1>q, <2>2, <2>5 DEF HardDeleteFolder, Start
<1>7. ASSUME NEW p \in Reqs, EmptyTrashedFolders(p) PROVE Inv'
  <2>1. TreeInv' /\ Kept
    BY <1>7, <1>t, DeleteKeepsTree DEF EmptyTrashedFolders
  <2>2. QED
    BY <1>7, <1>u, <2>1 DEF EmptyTrashedFolders
<1>8. ASSUME NEW p \in Reqs, CreateRow(p) PROVE Inv'
  <2> DEFINE r == req[p]
  <2>1. CASE UNCHANGED <<used, rows, owner, parent, name>>
    <3>1. TreeInv' /\ Kept
      BY <1>8, <1>t, <2>1, TreeStays DEF CreateRow, treeVars
    <3>2. QED
      BY <1>8, <1>f, <3>1 DEF CreateRow
  <2>2. CASE ~UNCHANGED <<used, rows, owner, parent, name>>
    <3>1. PICK f \in FolderIds \ used : f = NewId
      BY <1>8, <1>t, <2>2, NewIdFacts DEF CreateRow, TypeOK
    <3>2. /\ used' = used \cup {f} /\ rows' = rows \cup {f} /\ UNCHANGED <<trashed, old>>
          /\ owner' = [owner EXCEPT ![f] = Client[p]]
          /\ parent' = [parent EXCEPT ![f] = r.dst]
          /\ name' = [name EXCEPT ![f] = r.name]
          /\ r.dst \in rows \cup {None} /\ ~Taken(r.name, Client[p], r.dst, None)
          /\ r.pc = "create.row"
      BY <1>8, <2>2, <3>1 DEF CreateRow, InsertFolder
    <3>3. /\ \A g \in rows : g # f /\ owner'[g] = owner[g] /\ parent'[g] = parent[g]
                             /\ name'[g] = name[g] /\ parent[g] # f
          /\ owner'[f] = Client[p] /\ parent'[f] = r.dst /\ name'[f] = r.name
          /\ f \notin rows /\ r.dst # f
      BY <1>t, <3>1, <3>2, FoldersAssumption DEF TypeOK, TreeInv, OwnTree
    <3>4. r.dst \in rows => owner[r.dst] = Client[p]
      BY <1>t, <3>2 DEF RequestInv
    <3>5. OwnTree'
      BY <1>t, <3>2, <3>3, <3>4, FoldersAssumption DEF TreeInv, OwnTree, TypeOK
    <3>6. (~Twins(rows \ trashed, parent))'
      <4>1. \A g \in rows \ trashed :
               ~(owner[g] = Client[p] /\ parent[g] = r.dst /\ name[g] = r.name)
        BY <1>t, <3>2, FoldersAssumption DEF Taken, TypeOK
      <4>2. \A g \in rows' \ trashed' : g = f \/ g \in rows \ trashed
        BY <3>2
      <4>3. QED
        BY <1>t, <3>3, <4>1, <4>2 DEF TreeInv, Twins
    <3>7. TreeInv' /\ Kept
      BY <1>t, <1>p, <3>1, <3>2, <3>3, <3>5, <3>6 DEF TreeInv, Kept
    <3>8. QED
      BY <1>8, <1>f, <3>7 DEF CreateRow
  <2>3. QED
    BY <2>1, <2>2
<1>9. ASSUME NEW p \in Reqs, MoveDst(p) PROVE Inv'
  <2>1. TreeInv' /\ Kept /\ UNCHANGED treeVars
    BY <1>9, <1>t, TreeStays DEF MoveDst
  <2>2. CASE Finish(p)
    BY <1>f, <2>1, <2>2
  <2>3. CASE OwnLive(req[p].dst, Client[p]) /\ Goto(p, "move.desc")
    <3>1. req'[p] = [req[p] EXCEPT !.pc = "move.desc"]
      BY <1>p, <2>3 DEF Goto, Become
    <3>2. req'[p] = [pc |-> "move.desc", folder |-> req[p].folder, dst |-> req[p].dst,
                     name |-> req[p].name, ids |-> req[p].ids]
      BY <1>p, <3>1 DEF Request
    <3>3. req[p].dst \in rows /\ owner[req[p].dst] = Client[p]
      BY <2>3 DEF OwnLive, Live
    <3>4. RequestInv(p)'
      BY <1>t, <2>1, <3>2, <3>3 DEF RequestInv, TreeInv, treeVars
    <3>5. QED
      BY <1>q, <2>1, <2>3, <3>4 DEF Goto
  <2>4. QED
    BY <1>9, <2>2, <2>3 DEF MoveDst
<1>10. ASSUME NEW p \in Reqs, MoveDesc(p) PROVE Inv'
  <2>1. TreeInv' /\ Kept /\ UNCHANGED treeVars /\ req[p].pc = "move.desc"
    BY <1>10, <1>t, TreeStays DEF MoveDesc
  <2>2. CASE Finish(p)
    BY <1>f, <2>1, <2>2
  <2>3. CASE Goto(p, "move.row")
    <3>1. req'[p] = [req[p] EXCEPT !.pc = "move.row"]
      BY <1>p, <2>3 DEF Goto, Become
    <3>2. req'[p] = [pc |-> "move.row", folder |-> req[p].folder, dst |-> req[p].dst,
                     name |-> req[p].name, ids |-> req[p].ids]
      BY <1>p, <3>1 DEF Request
    <3>3. RequestInv(p)'
      BY <1>t, <2>1, <3>2 DEF RequestInv, treeVars
    <3>4. QED
      BY <1>q, <2>1, <2>3, <3>3 DEF Goto
  <2>4. QED
    BY <1>10, <2>2, <2>3 DEF MoveDesc
<1>11. ASSUME NEW p \in Reqs, MoveRow(p) PROVE Inv'
  <2> DEFINE f == req[p].folder
  <2> DEFINE d == req[p].dst
  <2>1. /\ UNCHANGED <<rows, trashed, old, owner, name, used>> /\ Finish(p)
        /\ req[p].pc = "move.row"
    BY <1>11 DEF MoveRow
  <2>2. CASE parent' = parent
    <3>1. TreeInv' /\ Kept
      BY <1>t, <2>1, <2>2, TreeStays DEF treeVars
    <3>2. QED
      BY <1>f, <2>1, <3>1
  <2>3. CASE parent' # parent
    <3>1. /\ f \in rows /\ owner[f] = Client[p] /\ d \in rows \cup {None}
          /\ ~Taken(name[f], Client[p], d, f) /\ parent' = [parent EXCEPT ![f] = d]
      BY <1>11, <2>3 DEF MoveRow, OwnLive, Live
    <3>2. d \in rows => owner[d] = Client[p]
      BY <1>t, <2>1 DEF RequestInv
    <3>3. \A g \in rows : parent'[g] = IF g = f THEN d ELSE parent[g]
      BY <1>t, <3>1 DEF TypeOK
    <3>4. OwnTree'
      BY <1>t, <2>1, <3>1, <3>2, <3>3, FoldersAssumption DEF TreeInv, OwnTree, TypeOK
    <3>5. (~Twins(rows \ trashed, parent))'
      BY <1>t, <2>1, <3>1, <3>3 DEF TreeInv, Twins, Taken
    <3>6. TreeInv' /\ Kept
      BY <1>t, <2>1, <3>4, <3>5 DEF TreeInv, Kept
    <3>7. QED
      BY <1>f, <2>1, <3>6
  <2>4. QED
    BY <2>2, <2>3
<1>12. ASSUME NEW p \in Reqs, TrashRows(p) PROVE Inv'
  <2>1. /\ UNCHANGED <<rows, owner, parent, name, used>> /\ Finish(p)
        /\ trashed' = trashed \cup (req[p].ids \cap rows) /\ old' = old \ req[p].ids
    BY <1>12 DEF TrashRows
  <2>2. (~Twins(rows \ trashed, parent))'
    BY <1>t, <2>1 DEF TreeInv, Twins
  <2>3. TreeInv' /\ Kept
    BY <1>t, <2>1, <2>2 DEF TreeInv, OwnTree, Kept
  <2>4. QED
    BY <1>f, <2>1, <2>3
<1>13. ASSUME NEW p \in Reqs, RestoreRows(p) PROVE Inv'
  <2> DEFINE r == req[p]
  <2>1. UNCHANGED <<rows, owner, name, used>> /\ Finish(p) /\ r.pc = "restore.rows"
    BY <1>13 DEF RestoreRows
  <2>2. CASE UNCHANGED <<trashed, old, parent>>
    <3>1. TreeInv' /\ Kept
      BY <1>t, <2>1, <2>2, TreeStays DEF treeVars
    <3>2. QED
      BY <1>f, <2>1, <3>1
  <2>3. CASE ~UNCHANGED <<trashed, old, parent>>
    <3>1. /\ trashed' = trashed \ r.ids /\ old' = old \ r.ids
          /\ parent' = [parent EXCEPT ![r.folder] = r.dst]
          /\ r.dst \in rows \cup {None}
          /\ ~Twins(rows \ (trashed \ r.ids), parent')
      BY <1>13, <2>3 DEF RestoreRows
    <3>2. \A g \in rows : parent'[g] = IF g = r.folder THEN r.dst ELSE parent[g]
      BY <1>t, <3>1 DEF TypeOK
    <3>3. /\ r.dst \in rows => owner[r.dst] = Client[p]
          /\ r.folder \in rows => owner[r.folder] = Client[p]
      BY <1>t, <2>1 DEF RequestInv
    <3>4. OwnTree'
      BY <1>t, <2>1, <3>1, <3>2, <3>3, FoldersAssumption DEF TreeInv, OwnTree, TypeOK
    <3>5. (~Twins(rows \ trashed, parent))'
      BY <2>1, <3>1 DEF Twins
    <3>6. TreeInv' /\ Kept
      BY <1>t, <2>1, <3>1, <3>4, <3>5 DEF TreeInv, Kept
    <3>7. QED
      BY <1>f, <2>1, <3>6
  <2>4. QED
    BY <2>2, <2>3
<1>14. ASSUME NEW p \in Reqs, HardDeleteRows(p) PROVE Inv'
  <2>1. TreeInv' /\ Kept
    BY <1>14, <1>t, DeleteKeepsTree, TreeStays DEF HardDeleteRows
  <2>2. QED
    BY <1>14, <1>f, <2>1 DEF HardDeleteRows
<1>15. ASSUME NEW p \in Reqs, Fail(p) PROVE Inv'
  BY <1>15, <1>t, <1>f, TreeStays DEF Fail
<1>16. CASE PurgeExpiredFolders
  BY <1>16, <1>t, <1>u, DeleteKeepsTree DEF PurgeExpiredFolders
<1>17. CASE Age
  <2>1. old' = old \cup (rows \cap trashed) /\ UNCHANGED <<rows, trashed, owner, parent, name, req, used>>
    BY <1>17 DEF Age
  <2>2. (~Twins(rows \ trashed, parent))'
    BY <1>t, <2>1 DEF TreeInv, Twins
  <2>3. TreeInv' /\ Kept
    BY <1>t, <2>1, <2>2 DEF TreeInv, OwnTree, Kept
  <2>4. QED
    BY <1>u, <2>1, <2>3
<1>18. CASE UNCHANGED vars
  BY <1>18, <1>t, <1>u, TreeStays DEF vars, treeVars
<1>19. QED
  BY <1>1, <1>2, <1>3, <1>4, <1>5, <1>6, <1>7, <1>8, <1>9, <1>10, <1>11, <1>12, <1>13, <1>14,
     <1>15, <1>16, <1>17, <1>18 DEF Next, Handle, Continue

\* Every variable has its type.
THEOREM TypeCorrect == Spec => []TypeOK
<1>1. Inv => TypeOK
  BY DEF Inv
<1>2. QED
  BY <1>1, InitInv, NextInv, PTL DEF Spec

\* A folder's parent exists and belongs to the same user, whatever requests
\* overlap: the checks of CreateFolder and MoveFolder may be stale when they
\* write, but ids are not reused and rows do not change hands.
THEOREM TreesStayApart == Spec => []OwnTree
<1>1. Inv => OwnTree
  BY DEF Inv, TreeInv
<1>2. QED
  BY <1>1, InitInv, NextInv, PTL DEF Spec
-----------------------------------------------------------------------------
\* One request at a time for each user

\* The tree of u stays as it is, but for trashed folders that are deleted.
SameTree(u) ==
    /\ \A f \in rows' :
        /\ owner'[f] = u <=> f \in rows /\ owner[f] = u
        /\ owner'[f] = u => parent'[f] = parent[f] /\ (f \in trashed' <=> f \in trashed)
    /\ \A f \in rows \ trashed : owner[f] = u => f \in rows'

\* While the tree of its user stays the same, what a request has read holds.
LEMMA SoloStays ==
    ASSUME TypeOK', TreeInv', NEW q \in Reqs, RequestInv(q)', SoloInv(q), req'[q] = req[q],
           SameTree(Client[q])
    PROVE  SoloInv(q)'
<1>1. \A h \in rows' : parent'[h] \in req[q].ids =>
         h \in rows /\ parent'[h] = parent[h] /\ (h \in trashed' <=> h \in trashed)
  <2>1. SUFFICES ASSUME NEW h \in rows', parent'[h] \in req[q].ids
                 PROVE  owner'[h] = Client[q]
    BY DEF SameTree
  <2>2. parent'[h] \in FolderIds
    BY <2>1 DEF TypeOK, Request
  <2>3. parent'[h] \in rows' /\ owner'[parent'[h]] = owner'[h]
    BY <2>2, FoldersAssumption DEF TreeInv, OwnTree
  <2>4. QED
    BY <2>1, <2>3 DEF RequestInv
<1>2. \A h \in rows' : h \in req[q].ids \/ h = req[q].folder =>
         h \in rows /\ parent'[h] = parent[h] /\ (h \in trashed' <=> h \in trashed)
  BY DEF RequestInv, SameTree
<1>3. \A d : OwnLive(d, Client[q]) => OwnLive(d, Client[q])'
  BY DEF OwnLive, Live, SameTree
<1>4. req[q].pc = "trash.rows" =>
         /\ req[q].ids \cap trashed' = {}
         /\ \A h \in rows' \ trashed' : parent'[h] \in req[q].ids => h \in req[q].ids
  BY <1>1, <1>2 DEF SoloInv, Closed, TreeInv
<1>5. req[q].pc = "restore.rows" =>
         /\ \A h \in rows' : parent'[h] \in req[q].ids => h \in req[q].ids
         /\ \A h \in rows' : h \in req[q].ids /\ h # req[q].folder => parent'[h] \in req[q].ids
         /\ req[q].dst # None /\ req[q].folder \in rows' => req[q].dst = parent'[req[q].folder]
  BY <1>1, <1>2 DEF SoloInv, Closed
<1>6. QED
  BY <1>3, <1>4, <1>5 DEF SoloInv, Closed

\* Nor does the folder it is about to move come to lie above the new parent.
LEMMA MoveStays ==
    ASSUME TypeOK, TypeOK', TreeInv', NEW q \in Reqs, RequestInv(q)', MoveInv(q), req'[q] = req[q],
           SameTree(Client[q])
    PROVE  MoveInv(q)'
<1> SUFFICES ASSUME req[q].pc = "move.row", req[q].dst # None
             PROVE  \E D \in SUBSET FolderIds :
                       req[q].folder \in D /\ req[q].dst \notin D /\ Closed(D, rows)'
  BY DEF MoveInv
<1>1. PICK D \in SUBSET FolderIds : req[q].folder \in D /\ req[q].dst \notin D /\ Closed(D, rows)
  BY DEF MoveInv
<1>e. PICK E \in SUBSET FolderIds :
         E = {x \in D : x \in rows /\ owner[x] = Client[q]} \cup {req[q].folder}
  BY <1>1
<1>2. E \in SUBSET FolderIds /\ req[q].folder \in E /\ req[q].dst \notin E
  BY <1>e, <1>1
<1>3. ASSUME NEW h \in rows', parent'[h] \in E PROVE h \in E
  <2>1. parent'[h] \in FolderIds
    BY <1>2, <1>3
  <2>2. parent'[h] \in rows' /\ owner'[parent'[h]] = owner'[h]
    BY <2>1, FoldersAssumption DEF TreeInv, OwnTree
  <2>3. owner'[parent'[h]] = Client[q]
    <3>1. CASE parent'[h] = req[q].folder
      BY <2>2, <3>1 DEF RequestInv
    <3>2. CASE parent'[h] \in rows /\ owner[parent'[h]] = Client[q]
      BY <2>2, <3>2 DEF SameTree
    <3>3. QED
      BY <1>e, <1>3, <3>1, <3>2
  <2>4. h \in rows /\ owner[h] = Client[q] /\ parent'[h] = parent[h]
    BY <2>2, <2>3 DEF SameTree
  <2>5. h \in D
    BY <1>e, <1>1, <1>3, <2>4 DEF Closed
  <2>6. QED
    BY <1>e, <2>4, <2>5
<1>4. Closed(E, rows)'
  BY <1>3 DEF Closed
<1>5. QED
  BY <1>2, <1>4
\* The initial state satisfies it.
LEMMA InitOneInv == Init => OneInv
  BY DEF Init, OneInv, LiveInv, SoloInv, Idle

\* A step of one request leaves the others and the trees of other users alone.
LEMMA OthersStay ==
    ASSUME Inv, Inv', NEW p \in Reqs, Handle(p), NEW q \in Reqs, Client[q] # Client[p]
    PROVE  req'[q] = req[q] /\ SameTree(Client[q])
<1>t. TypeOK /\ TypeOK' /\ TreeInv /\ TreeInv' /\ RequestInv(p) /\ RequestInv(p)' /\ p # q
  BY DEF Inv
<1>r. \A r : Become(p, r) => req'[q] = req[q]
  BY <1>t DEF Become, TypeOK
<1>u. ASSUME UNCHANGED treeVars PROVE SameTree(Client[q])
  BY <1>u DEF treeVars, SameTree
\* It is enough that all the folders that differ are those of the client.
<1>c. ASSUME \A f \in rows' : f \in rows \/ owner'[f] = Client[p],
             \A f \in rows : owner[f] # Client[p] => f \in rows' \/ f \in trashed,
             \A f \in rows \cap rows' :
                /\ owner'[f] = owner[f]
                /\ owner[f] # Client[p] => parent'[f] = parent[f] /\ (f \in trashed' <=> f \in trashed)
      PROVE  SameTree(Client[q])
  BY <1>c DEF SameTree
<1>d. ASSUME NEW S, \A f \in rows : f \in S => owner[f] = Client[p],
             Deletable(S), DeleteFolders(S)
      PROVE  SameTree(Client[q])
  <2>1. /\ rows' = rows \ S /\ trashed' = trashed \ S
        /\ \A f \in rows' : owner'[f] = owner[f] /\ parent'[f] = parent[f]
    BY <1>d, <1>t, DeleteKeepsTree
  <2>2. QED
    BY <1>c, <1>d, <2>1
<1>1. CASE \/ \E d \in FolderIds \cup {None}, n \in Names : CreateFolder(p, d, n)
           \/ \E f \in FolderIds, d \in FolderIds \cup {None} : MoveFolder(p, f, d)
           \/ \E f \in FolderIds : TrashFolder(p, f) \/ RestoreFolder(p, f) \/ HardDeleteFolder(p, f)
           \/ MoveDst(p) \/ MoveDesc(p) \/ Fail(p)
  <2>1. UNCHANGED treeVars /\ \E r : Become(p, r)
    BY <1>1 DEF CreateFolder, MoveFolder, TrashFolder, RestoreFolder, HardDeleteFolder,
                MoveDst, MoveDesc, Fail, Start, Goto, Finish
  <2>2. QED
    BY <1>r, <1>u, <2>1
<1>2. CASE \E f \in FolderIds, n \in Names : RenameFolder(p, f, n)
  BY <1>2, <1>c DEF RenameFolder
<1>3. CASE EmptyTrashedFolders(p)
  BY <1>3, <1>d DEF EmptyTrashedFolders
<1>4. CASE CreateRow(p)
  <2>1. req'[q] = req[q]
    BY <1>4, <1>r DEF CreateRow, Finish
  <2>2. CASE UNCHANGED <<used, rows, owner, parent, name>>
    BY <1>4, <1>u, <2>1, <2>2 DEF CreateRow, treeVars
  <2>3. CASE ~UNCHANGED <<used, rows, owner, parent, name>>
    <3>1. PICK f \in FolderIds \ used : f = NewId
      BY <1>4, <1>t, <2>3, NewIdFacts DEF CreateRow, TypeOK
    <3>2. /\ rows' = rows \cup {f} /\ UNCHANGED <<trashed, old>>
          /\ owner' = [owner EXCEPT ![f] = Client[p]]
          /\ parent' = [parent EXCEPT ![f] = req[p].dst]
      BY <1>4, <2>3, <3>1 DEF CreateRow, InsertFolder
    <3>3. f \notin rows /\ \A g \in rows : owner'[g] = owner[g] /\ parent'[g] = parent[g]
      BY <1>t, <3>1, <3>2 DEF TypeOK, TreeInv
    <3>4. owner'[f] = Client[p]
      BY <1>t, <3>2 DEF TypeOK
    <3>5. QED
      BY <1>c, <2>1, <3>2, <3>3, <3>4
  <2>4. QED
    BY <2>2, <2>3
<1>5. CASE MoveRow(p)
  <2>1. UNCHANGED <<rows, trashed, owner>> /\ req'[q] = req[q]
    BY <1>5, <1>r DEF MoveRow, Finish
  <2>2. \A f \in rows : f # req[p].folder => parent'[f] = parent[f]
    BY <1>5, <1>t DEF MoveRow, TypeOK
  <2>3. \A f \in rows : owner[f] # Client[p] => f # req[p].folder
    BY <1>t DEF RequestInv
  <2>4. QED
    BY <1>c, <2>1, <2>2, <2>3
<1>6. CASE TrashRows(p)
  <2>1. UNCHANGED <<rows, owner, parent>> /\ req'[q] = req[q]
        /\ trashed' = trashed \cup (req[p].ids \cap rows)
    BY <1>6, <1>r DEF TrashRows, Finish
  <2>2. \A f \in rows : owner[f] # Client[p] => f \notin req[p].ids
    BY <1>t DEF RequestInv
  <2>3. QED
    BY <1>c, <2>1, <2>2
<1>7. CASE RestoreRows(p)
  <2>1. UNCHANGED <<rows, owner>> /\ req'[q] = req[q]
        /\ trashed' \in {trashed, trashed \ req[p].ids}
    BY <1>7, <1>r DEF RestoreRows, Finish
  <2>2. \A f \in rows : f # req[p].folder => parent'[f] = parent[f]
    BY <1>7, <1>t DEF RestoreRows, TypeOK
  <2>3. \A f \in rows : owner[f] # Client[p] => f \notin req[p].ids /\ f # req[p].folder
    BY <1>t DEF RequestInv
  <2>4. QED
    BY <1>c, <2>1, <2>2, <2>3
<1>8. CASE HardDeleteRows(p)
  <2>1. req'[q] = req[q] /\ \A f \in rows : f \in req[p].ids => owner[f] = Client[p]
    BY <1>8, <1>r, <1>t DEF HardDeleteRows, Finish, RequestInv
  <2>2. QED
    BY <1>8, <1>d, <1>u, <2>1 DEF HardDeleteRows
<1>9. QED
  BY <1>1, <1>2, <1>3, <1>4, <1>5, <1>6, <1>7, <1>8 DEF Handle, Continue

\* The hourly job deletes expired folders only, and time changes no folder.
LEMMA AllStay ==
    ASSUME Inv, PurgeExpiredFolders \/ Age \/ UNCHANGED vars, NEW q \in Reqs
    PROVE  req'[q] = req[q] /\ SameTree(Client[q])
<1>1. CASE PurgeExpiredFolders
  <2>1. /\ rows' = rows \ Expired /\ trashed' = trashed \ Expired /\ UNCHANGED req
        /\ \A f \in rows' : owner'[f] = owner[f] /\ parent'[f] = parent[f]
    BY <1>1, DeleteKeepsTree DEF PurgeExpiredFolders, Inv
  <2>2. QED
    BY <2>1 DEF SameTree, Expired
<1>2. CASE Age \/ UNCHANGED vars
  BY <1>2 DEF Age, vars, SameTree
<1>3. QED
  BY <1>1, <1>2
\* A deletion keeps live folders under live ones and expired ones together.
LEMMA DeleteKeepsLive ==
    ASSUME TypeOK, TreeInv, TreeInv', LiveInv, NEW S, Deletable(S), DeleteFolders(S)
    PROVE  LiveInv'
<1>1. /\ rows' = rows \ S /\ trashed' = trashed \ S /\ old' = old \ S
      /\ \A f \in rows' : parent'[f] = parent[f] /\ parent[f] \notin S
  BY DeleteKeepsTree
<1>2. QED
  BY <1>1 DEF LiveInv

\* A request whose reads still hold keeps them so too.
LEMMA HandleKeepsLive ==
    ASSUME Inv, Inv', LiveInv, NEW p \in Reqs, SoloInv(p), Handle(p)
    PROVE  LiveInv'
<1>t. TypeOK /\ TypeOK' /\ TreeInv /\ TreeInv' /\ RequestInv(p)
  BY DEF Inv
<1>n. None \notin rows
  BY <1>t, FoldersAssumption DEF TypeOK
<1>u. ASSUME UNCHANGED <<rows, trashed, old, parent>> PROVE LiveInv'
  BY <1>u DEF LiveInv
<1>1. CASE \/ \E d \in FolderIds \cup {None}, n \in Names : CreateFolder(p, d, n)
           \/ \E f \in FolderIds, d \in FolderIds \cup {None} : MoveFolder(p, f, d)
           \/ \E f \in FolderIds : TrashFolder(p, f) \/ RestoreFolder(p, f) \/ HardDeleteFolder(p, f)
           \/ MoveDst(p) \/ MoveDesc(p) \/ Fail(p)
  BY <1>1, <1>u DEF CreateFolder, MoveFolder, TrashFolder, RestoreFolder, HardDeleteFolder,
                    MoveDst, MoveDesc, Fail, treeVars
<1>2. CASE \E f \in FolderIds, n \in Names : RenameFolder(p, f, n)
  BY <1>2, <1>u DEF RenameFolder
<1>3. CASE EmptyTrashedFolders(p)
  BY <1>3, <1>t, DeleteKeepsLive DEF EmptyTrashedFolders
<1>4. CASE CreateRow(p)
  <2>1. CASE UNCHANGED <<used, rows, owner, parent, name>>
    BY <1>4, <1>u, <2>1 DEF CreateRow
  <2>2. CASE ~UNCHANGED <<used, rows, owner, parent, name>>
    <3>1. PICK f \in FolderIds \ used : f = NewId
      BY <1>4, <1>t, <2>2, NewIdFacts DEF CreateRow, TypeOK
    <3>2. /\ rows' = rows \cup {f} /\ UNCHANGED <<trashed, old>>
          /\ parent' = [parent EXCEPT ![f] = req[p].dst] /\ req[p].pc = "create.row"
      BY <1>4, <2>2, <3>1 DEF CreateRow, InsertFolder
    <3>3. /\ parent'[f] = req[p].dst /\ f \notin rows /\ f \notin old
          /\ \A g \in rows : parent'[g] = parent[g] /\ g # f
      BY <1>t, <3>1, <3>2 DEF TypeOK, TreeInv
    <3>4. req[p].dst # None => req[p].dst \in rows \ trashed
      BY <3>2 DEF SoloInv, OwnLive, Live
    <3>5. req[p].dst \notin old
      BY <1>t, <1>n, <3>4 DEF TreeInv
    <3>6. QED
      BY <3>2, <3>3, <3>4, <3>5 DEF LiveInv
  <2>3. QED
    BY <2>1, <2>2
<1>5. CASE MoveRow(p)
  <2> DEFINE f == req[p].folder
  <2> DEFINE d == req[p].dst
  <2>1. UNCHANGED <<rows, trashed, old>> /\ req[p].pc = "move.row"
    BY <1>5 DEF MoveRow
  <2>2. CASE parent' = parent
    BY <1>u, <2>1, <2>2
  <2>3. CASE parent' # parent
    <3>1. parent' = [parent EXCEPT ![f] = d]
      BY <1>5, <2>3 DEF MoveRow
    <3>2. \A g \in rows : parent'[g] = IF g = f THEN d ELSE parent[g]
      BY <1>t, <3>1 DEF TypeOK
    <3>3. d # None => d \in rows \ trashed
      BY <2>1 DEF SoloInv, OwnLive, Live
    <3>4. d \notin old
      BY <1>t, <1>n, <3>3 DEF TreeInv
    <3>5. QED
      BY <2>1, <3>2, <3>3, <3>4 DEF LiveInv
  <2>4. QED
    BY <2>2, <2>3
<1>6. CASE TrashRows(p)
  <2>1. UNCHANGED <<rows, parent>> /\ trashed' = trashed \cup (req[p].ids \cap rows)
        /\ old' = old \ req[p].ids /\ req[p].pc = "trash.rows"
    BY <1>6 DEF TrashRows
  <2>2. req[p].ids \cap trashed = {} /\ \A h \in rows \ trashed : parent[h] \in req[p].ids => h \in req[p].ids
    BY <2>1 DEF SoloInv, Closed
  <2>3. \A f \in rows : f \in old /\ f \in trashed => f \in old'
    BY <2>1, <2>2
  <2>4. old \subseteq trashed
    BY <1>t DEF TreeInv
  <2>5. QED
    BY <2>1, <2>2, <2>3, <2>4 DEF LiveInv
<1>7. CASE RestoreRows(p)
  <2> DEFINE r == req[p]
  <2>1. UNCHANGED rows /\ r.pc = "restore.rows" /\ r.folder \in r.ids
    BY <1>7, <1>t DEF RestoreRows, RequestInv
  <2>2. CASE UNCHANGED <<trashed, old, parent>>
    BY <1>u, <2>1, <2>2
  <2>3. CASE ~UNCHANGED <<trashed, old, parent>>
    <3>1. /\ trashed' = trashed \ r.ids /\ old' = old \ r.ids
          /\ parent' = [parent EXCEPT ![r.folder] = r.dst]
      BY <1>7, <2>3 DEF RestoreRows
    <3>2. \A g \in rows : parent'[g] = IF g = r.folder THEN r.dst ELSE parent[g]
      BY <1>t, <3>1 DEF TypeOK
    <3>3. /\ r.dst # None => r.dst \in rows \ trashed
          /\ \A h \in rows : parent[h] \in r.ids => h \in r.ids
          /\ \A h \in rows : h \in r.ids /\ h # r.folder => parent[h] \in r.ids
      BY <2>1 DEF SoloInv, OwnLive, Live, Closed
    <3>4. r.dst \notin old /\ old \subseteq trashed
      BY <1>t, <1>n, <3>3 DEF TreeInv
    <3>5. \A h \in rows : parent[h] # None => parent[h] \in rows
      BY <1>t DEF TreeInv, OwnTree
    <3>6. ASSUME NEW h \in rows' \ trashed', parent'[h] # None PROVE parent'[h] \in rows' \ trashed'
      <4>1. CASE h = r.folder
        BY <2>1, <3>1, <3>2, <3>3, <3>6, <4>1
      <4>2. CASE h # r.folder /\ h \in r.ids
        BY <2>1, <3>1, <3>2, <3>3, <3>5, <3>6, <4>2
      <4>3. CASE h # r.folder /\ h \notin r.ids
        <5>1. h \in rows \ trashed /\ parent'[h] = parent[h]
          BY <2>1, <3>1, <3>2, <4>3
        <5>2. parent[h] \in rows \ trashed
          BY <3>6, <5>1 DEF LiveInv
        <5>3. QED
          BY <2>1, <3>1, <5>1, <5>2
      <4>4. QED
        BY <4>1, <4>2, <4>3
    <3>7. ASSUME NEW h \in rows', parent'[h] \in old' PROVE h \in old'
      <4>1. h # r.folder /\ parent'[h] = parent[h] /\ parent[h] \in old /\ parent[h] \notin r.ids
        BY <2>1, <3>1, <3>2, <3>4, <3>7
      <4>2. h \in old /\ h \notin r.ids
        BY <2>1, <3>3, <4>1 DEF LiveInv
      <4>3. QED
        BY <3>1, <4>2
    <3>8. QED
      BY <3>6, <3>7 DEF LiveInv
  <2>4. QED
    BY <2>2, <2>3
<1>8. CASE HardDeleteRows(p)
  <2>1. CASE UNCHANGED treeVars
    BY <1>u, <2>1 DEF treeVars
  <2>2. QED
    BY <1>8, <1>t, <2>1, DeleteKeepsLive DEF HardDeleteRows
<1>9. QED
  BY <1>1, <1>2, <1>3, <1>4, <1>5, <1>6, <1>7, <1>8 DEF Handle, Continue

\* What a request has read in its last step is so.
LEMMA HandleReads ==
    ASSUME Inv, Inv', NEW p \in Reqs, SoloInv(p), Handle(p)
    PROVE  SoloInv(p)'
<1>t. TypeOK /\ TypeOK' /\ TreeInv /\ OwnTree /\ RequestInv(p) /\ req[p] \in Request /\ req \in [Reqs -> Request]
  BY DEF Inv, TypeOK, TreeInv
<1>b. \A r : Become(p, r) => req'[p] = r
  BY <1>t DEF Become
<1>f. ASSUME Finish(p) PROVE SoloInv(p)'
  BY <1>f, <1>b, <1>t, RequestEnds DEF Finish
<1>i. ASSUME req[p].pc = "idle", UNCHANGED req PROVE SoloInv(p)'
  BY <1>i DEF SoloInv
<1>1. ASSUME NEW d \in FolderIds \cup {None}, NEW n \in Names, CreateFolder(p, d, n)
      PROVE  SoloInv(p)'
  <2>1. /\ req'[p] = [Idle EXCEPT !.pc = "create.row", !.dst = d, !.name = n]
        /\ UNCHANGED treeVars /\ (d # None => OwnLive(d, Client[p]))
    BY <1>1, <1>b DEF CreateFolder, Start
  <2>2. d # None => OwnLive(d, Client[p])'
    BY <2>1 DEF OwnLive, Live, treeVars
  <2>3. QED
    BY <2>1, <2>2 DEF SoloInv, Idle
<1>2. ASSUME NEW f \in FolderIds, NEW d \in FolderIds \cup {None}, MoveFolder(p, f, d)
      PROVE  SoloInv(p)'
  <2>1. req'[p] = [Idle EXCEPT !.pc = IF d = None THEN "move.row" ELSE "move.dst",
                               !.folder = f, !.dst = d]
    BY <1>2, <1>b DEF MoveFolder, Start
  <2>2. OwnLive(f, Client[p])'
    BY <1>2 DEF MoveFolder, OwnLive, Live, treeVars
  <2>3. QED
    BY <2>1, <2>2 DEF SoloInv, Idle
<1>3. ASSUME NEW f \in FolderIds, TrashFolder(p, f) PROVE SoloInv(p)'
  <2>1. PICK ids : ids = LiveSubtree(f)
    OBVIOUS
  <2>2. /\ req'[p] = [Idle EXCEPT !.pc = "trash.rows", !.folder = f, !.ids = ids]
        /\ UNCHANGED treeVars /\ f \in rows \ trashed
    BY <1>3, <1>b, <2>1 DEF TrashFolder, Start, OwnLive, Live
  <2>3. ids \cap trashed = {} /\ Closed(ids, rows \ trashed)
    BY <1>t, <2>1, <2>2, LiveSubtreeIsOwn, LiveSubtreeFacts
  <2>4. ids \cap trashed' = {} /\ Closed(ids, rows \ trashed)'
    BY <2>2, <2>3 DEF Closed, treeVars
  <2>5. QED
    BY <2>2, <2>4 DEF SoloInv, Idle, Closed
<1>4. ASSUME NEW f \in FolderIds, RestoreFolder(p, f) PROVE SoloInv(p)'
  <2>1. PICK ids : ids = Subtree(f)
    OBVIOUS
  <2>2. PICK d : d = IF Live(parent[f]) THEN parent[f] ELSE None
    OBVIOUS
  <2>3. /\ req'[p] = [Idle EXCEPT !.pc = "restore.rows", !.folder = f, !.dst = d, !.ids = ids]
        /\ UNCHANGED treeVars /\ f \in rows /\ owner[f] = Client[p]
    BY <1>4, <1>b, <2>1, <2>2 DEF RestoreFolder, Start, OwnTrashed
  <2>4. \A h \in rows : parent[h] \in ids => h \in ids
    BY <1>t, <2>1, SubtreeFacts DEF Closed
  <2>5. \A h \in rows : h \in ids /\ h # f => parent[h] \in ids
    BY <1>t, <2>1, SubtreeParents
  <2>6. d # None => d = parent[f] /\ OwnLive(d, Client[p])
    BY <1>t, <2>2, <2>3 DEF Live, OwnLive, OwnTree
  <2>7. d # None => OwnLive(d, Client[p])'
    BY <2>3, <2>6 DEF Live, OwnLive, treeVars
  <2>8. QED
    BY <2>3, <2>4, <2>5, <2>6, <2>7 DEF SoloInv, Idle, Closed, treeVars
<1>5. ASSUME NEW f \in FolderIds, HardDeleteFolder(p, f) PROVE SoloInv(p)'
  <2>1. req'[p] = [Idle EXCEPT !.pc = "hard.rows", !.folder = f, !.ids = Subtree(f)]
    BY <1>5, <1>b DEF HardDeleteFolder, Start
  <2>2. req'[p].pc = "hard.rows"
    BY <2>1 DEF Idle
  <2>3. QED
    BY <2>2 DEF SoloInv
<1>6. CASE MoveDst(p)
  <2>1. CASE Finish(p)
    BY <1>f, <2>1
  <2>2. CASE OwnLive(req[p].dst, Client[p]) /\ Goto(p, "move.desc")
    <3>1. req'[p] = [req[p] EXCEPT !.pc = "move.desc"]
      BY <1>b, <2>2 DEF Goto
    <3>2. req'[p].pc = "move.desc" /\ req'[p].dst = req[p].dst /\ req'[p].folder = req[p].folder
      BY <1>t, <3>1 DEF Request
    <3>3. req'[p].dst \in rows' /\ req'[p].dst \notin trashed' /\ owner'[req'[p].dst] = Client[p]
      BY <1>6, <2>2, <3>2 DEF MoveDst, OwnLive, Live, treeVars
    <3>4. /\ req'[p].folder \in rows' /\ req'[p].folder \notin trashed'
          /\ owner'[req'[p].folder] = Client[p]
      BY <1>6, <3>2 DEF MoveDst, SoloInv, OwnLive, Live, treeVars
    <3>5. QED
      BY <3>2, <3>3, <3>4 DEF SoloInv, OwnLive, Live
  <2>3. QED
    BY <1>6, <2>1, <2>2 DEF MoveDst
<1>7. CASE MoveDesc(p)
  <2>1. CASE Finish(p)
    BY <1>f, <2>1
  <2>2. CASE Goto(p, "move.row")
    <3>1. req'[p] = [req[p] EXCEPT !.pc = "move.row"]
      BY <1>b, <2>2 DEF Goto
    <3>2. req'[p].pc = "move.row" /\ req'[p].dst = req[p].dst
      BY <1>t, <3>1 DEF Request
    <3>3. req'[p].dst # None =>
             req'[p].dst \in rows' /\ req'[p].dst \notin trashed' /\ owner'[req'[p].dst] = Client[p]
      BY <1>7, <3>2 DEF MoveDesc, SoloInv, OwnLive, Live, treeVars
    <3>4. QED
      BY <3>2, <3>3 DEF SoloInv, OwnLive, Live
  <2>3. QED
    BY <1>7, <2>1, <2>2 DEF MoveDesc
<1>8. CASE \/ CreateRow(p) \/ MoveRow(p) \/ TrashRows(p) \/ RestoreRows(p) \/ HardDeleteRows(p)
           \/ Fail(p)
  BY <1>8, <1>f DEF CreateRow, MoveRow, TrashRows, RestoreRows, HardDeleteRows, Fail
<1>9. CASE EmptyTrashedFolders(p) \/ \E f \in FolderIds, n \in Names : RenameFolder(p, f, n)
  BY <1>9, <1>i DEF EmptyTrashedFolders, RenameFolder
<1>10. QED
  BY <1>1, <1>2, <1>3, <1>4, <1>5, <1>6, <1>7, <1>8, <1>9 DEF Handle, Continue
\* Every step keeps what a request has read, and the order in the trash.
LEMMA NextOneInv == Inv /\ Inv' /\ OneInv /\ [Next]_vars => OneInv'
<1> SUFFICES ASSUME Inv, Inv', OneInv, [Next]_vars, OnePerUser
             PROVE  LiveInv' /\ \A q \in Reqs : SoloInv(q)'
  BY DEF OneInv, OnePerUser
<1>t. /\ TypeOK /\ TypeOK' /\ TreeInv /\ TreeInv' /\ LiveInv
      /\ \A q \in Reqs : RequestInv(q)' /\ SoloInv(q)
  BY DEF Inv, OneInv
<1>s. ASSUME NEW q \in Reqs, req'[q] = req[q], SameTree(Client[q]) PROVE SoloInv(q)'
  BY <1>t, <1>s, SoloStays
<1>1. ASSUME NEW p \in Reqs, Handle(p) PROVE LiveInv' /\ \A q \in Reqs : SoloInv(q)'
  <2>1. LiveInv' /\ SoloInv(p)'
    BY <1>t, <1>1, HandleKeepsLive, HandleReads
  <2>2. ASSUME NEW q \in Reqs, q # p PROVE SoloInv(q)'
    <3>1. Client[q] # Client[p]
      BY <2>2 DEF OnePerUser
    <3>2. QED
      BY <1>1, <1>s, <3>1, OthersStay
  <2>3. QED
    BY <2>1, <2>2
<1>2. CASE PurgeExpiredFolders \/ Age \/ UNCHANGED vars
  <2>1. \A q \in Reqs : SoloInv(q)'
    BY <1>2, <1>s, AllStay
  <2>2. LiveInv'
    <3>1. CASE PurgeExpiredFolders
      BY <1>t, <3>1, DeleteKeepsLive DEF PurgeExpiredFolders
    <3>2. CASE Age
      <4>1. None \notin rows
        BY <1>t, FoldersAssumption DEF TypeOK
      <4>2. QED
        BY <1>t, <3>2, <4>1 DEF Age, LiveInv, TreeInv
    <3>3. CASE UNCHANGED vars
      BY <1>t, <3>3 DEF vars, LiveInv
    <3>4. QED
      BY <1>2, <3>1, <3>2, <3>3
  <2>3. QED
    BY <2>1, <2>2
<1>3. QED
  BY <1>1, <1>2 DEF Next

\* A user who waits for each answer never has a live folder under a trashed
\* one, whatever the other users and the hourly job do.
THEOREM LiveFoldersAreListed == Spec => []LiveUnderLive
<1>1. Inv /\ OneInv => LiveUnderLive
  BY DEF Inv, OneInv, LiveInv, LiveUnderLive, Live
<1>2. QED
  BY <1>1, InitInv, NextInv, InitOneInv, NextOneInv, PTL DEF Spec

\* Nor does the foreign key or the unique index ever make the purge fail: with
\* an expired folder everything below it has expired.
THEOREM PurgeStaysEnabled == Spec => []PurgeNeverBlocked
<1>1. Inv /\ OneInv => PurgeNeverBlocked
  <2> SUFFICES ASSUME Inv, OneInv, OnePerUser PROVE Deletable(Expired)
    BY DEF PurgeNeverBlocked
  <2>1. TypeOK /\ TreeInv /\ LiveInv
    BY DEF Inv, OneInv
  <2>2. \A g \in rows \ Expired : parent[g] \notin Expired
    BY <2>1 DEF LiveInv, TreeInv, Expired
  <2>3. \A g \in rows \ trashed : Uprooted(Expired)[g] = parent[g]
    BY <2>1 DEF Uprooted, Expired, TypeOK
  <2>4. ~Twins(rows \ trashed, Uprooted(Expired))
    BY <2>1, <2>3 DEF TreeInv, Twins
  <2>5. QED
    BY <2>2, <2>4 DEF Deletable
<1>2. QED
  BY <1>1, InitInv, NextInv, InitOneInv, NextOneInv, PTL DEF Spec

\* Only a restore takes folders out of the trash that stay.
LEMMA OnlyRestore ==
    ASSUME Inv, [Next]_vars, NEW f \in rows', f \in trashed, f \notin trashed'
    PROVE  \E p \in Reqs : RestoreRows(p)
<1>t. TypeOK /\ TreeInv
  BY DEF Inv
<1>d. ASSUME NEW S, DeleteFolders(S) PROVE FALSE
  BY <1>d DEF DeleteFolders
<1>1. ASSUME NEW p \in Reqs, Handle(p), ~RestoreRows(p) PROVE FALSE
  <2>1. ~UNCHANGED trashed
    OBVIOUS
  <2>2. HardDeleteRows(p) \/ EmptyTrashedFolders(p) \/ TrashRows(p)
    BY <1>1, <2>1 DEF Handle, Continue, CreateFolder, RenameFolder, MoveFolder, TrashFolder,
       RestoreFolder, HardDeleteFolder, CreateRow, MoveDst, MoveDesc, MoveRow, Fail, treeVars
  <2>3. QED
    BY <1>d, <2>1, <2>2 DEF HardDeleteRows, EmptyTrashedFolders, TrashRows, treeVars
<1>2. CASE PurgeExpiredFolders \/ Age \/ UNCHANGED vars
  BY <1>2, <1>d DEF PurgeExpiredFolders, Age, vars
<1>3. QED
  BY <1>1, <1>2 DEF Next

\* A restore brings back all that is below the folder, although the subtree was
\* read before, a part of it may be purged since, and other users go on.
THEOREM RestoresAreWhole == Spec => RestoreIsWhole
<1>1. Inv /\ Inv' /\ OneInv /\ [Next]_vars =>
        [\A f \in rows' : OnePerUser /\ f \in trashed /\ f \notin trashed' =>
            Subtree(f)' \cap trashed' = {}]_vars
  <2> SUFFICES ASSUME Inv, Inv', OneInv, [Next]_vars, OnePerUser,
                      NEW f \in rows', f \in trashed, f \notin trashed'
               PROVE  Subtree(f)' \cap trashed' = {}
    BY DEF OnePerUser
  <2>1. PICK p \in Reqs : RestoreRows(p)
    BY OnlyRestore
  <2>2. PICK ids \in SUBSET FolderIds : ids = req[p].ids
    BY DEF Inv, TypeOK, Request
  <2>3. /\ trashed' = trashed \ ids /\ f \in ids /\ rows' = rows /\ req[p].pc = "restore.rows"
        /\ parent' = [parent EXCEPT ![req[p].folder] = req[p].dst]
    BY <2>1, <2>2 DEF RestoreRows
  <2>4. /\ req[p].folder \in ids
        /\ \A h \in rows : parent[h] \in ids => h \in ids
    BY <2>2, <2>3 DEF Inv, OneInv, RequestInv, SoloInv, Closed
  <2>5. \A h \in rows' : parent'[h] \in ids => h \in ids
    BY <2>3, <2>4 DEF Inv, TypeOK
  <2>6. Subtree(f)' \subseteq ids
    BY <2>5, <2>3 DEF Subtree
  <2>7. QED
    BY <2>3, <2>6
<1>2. QED
  BY <1>1, InitInv, NextInv, InitOneInv, NextOneInv, PTL DEF Spec, RestoreIsWhole
-----------------------------------------------------------------------------
\* No cycles

\* The initial state satisfies it.
LEMMA InitForestInv == Init => ForestInv
  BY DEF Init, ForestInv, Forest, MoveInv, Idle

\* A set of folders keeps a member with its parent outside when they keep theirs.
LEMMA ForestShrinks ==
    ASSUME Forest, rows' \subseteq rows, \A f \in rows' : parent'[f] = parent[f]
    PROVE  Forest'
  BY DEF Forest

\* A folder that is put under d makes no cycle when there is a set with it and
\* all below it that d is not in.
LEMMA ForestGraft ==
    ASSUME TypeOK, Forest, NEW f \in FolderIds, NEW d \in FolderIds \cup {None}, rows' = rows,
           parent' = [parent EXCEPT ![f] = d],
           d # None => \E D \in SUBSET FolderIds : f \in D /\ d \notin D /\ Closed(D, rows)
    PROVE  Forest'
<1> SUFFICES ASSUME NEW C \in SUBSET rows, C # {}, \A g \in C : parent'[g] \in C
             PROVE  FALSE
  BY DEF Forest
<1>1. \A g \in rows : parent'[g] = IF g = f THEN d ELSE parent[g]
  BY DEF TypeOK
<1>2. CASE f \notin C
  BY <1>1, <1>2 DEF Forest
<1>3. CASE f \in C
  <2>1. d \in C /\ d # None
    BY <1>1, <1>3, FoldersAssumption DEF TypeOK
  <2>2. PICK D \in SUBSET FolderIds : f \in D /\ d \notin D /\ Closed(D, rows)
    BY <2>1
  <2>3. \A g \in C \ D : parent[g] \in C \ D
    BY <1>1, <2>2 DEF Closed
  <2>4. C \ D \in SUBSET rows /\ d \in C \ D
    BY <2>1, <2>2
  <2>5. QED
    BY <2>3, <2>4 DEF Forest
<1>4. QED
  BY <1>2, <1>3

\* A new folder, which is nobody's parent, makes no cycle.
LEMMA ForestGrows ==
    ASSUME TypeOK, TreeInv, Forest, NEW f \in FolderIds \ used, NEW d, d \in rows \cup {None},
           rows' = rows \cup {f}, parent' = [parent EXCEPT ![f] = d]
    PROVE  Forest'
<1> SUFFICES ASSUME NEW C \in SUBSET rows', C # {}, \A g \in C : parent'[g] \in C
             PROVE  FALSE
  BY DEF Forest
<1>1. /\ parent'[f] = d /\ d # f /\ f \notin rows
      /\ \A g \in rows : parent'[g] = parent[g] /\ parent[g] # f
  BY FoldersAssumption DEF TypeOK, TreeInv, OwnTree
<1>2. \A g \in C \ {f} : parent[g] \in C \ {f}
  BY <1>1
<1>3. C \ {f} \in SUBSET rows /\ C \ {f} # {}
  BY <1>1
<1>4. QED
  BY <1>2, <1>3 DEF Forest

\* With live folders under live ones, the live folders of a subtree are the
\* live subtree: it is closed together with the trash.
LEMMA LiveSubtreeSuffices ==
    ASSUME TypeOK, LiveInv, NEW f \in FolderIds
    PROVE  Closed(LiveSubtree(f) \cup trashed, rows)
<1>1. \A h \in rows \ trashed : parent[h] \in LiveSubtree(f) => h \in LiveSubtree(f)
  BY LiveSubtreeFacts DEF Closed
<1>2. \A h \in rows \ trashed : parent[h] \notin trashed
  BY FoldersAssumption DEF LiveInv, TypeOK
<1>3. QED
  BY <1>1, <1>2 DEF Closed

\* A request keeps the forest, and moves only what it has checked.
LEMMA HandleKeepsForest ==
    ASSUME Inv, Inv', LiveInv, Shallow, Forest, NEW p \in Reqs, SoloInv(p), MoveInv(p), Handle(p)
    PROVE  Forest' /\ MoveInv(p)'
<1>t. /\ TypeOK /\ TypeOK' /\ TreeInv /\ RequestInv(p) /\ req[p] \in Request
      /\ req \in [Reqs -> Request]
      /\ req[p].folder \in FolderIds \cup {None} /\ req[p].dst \in FolderIds \cup {None}
  BY DEF Inv, TypeOK, Request
<1>b. \A r : Become(p, r) => req'[p] = r
  BY <1>t DEF Become
<1>f. ASSUME Finish(p) PROVE MoveInv(p)'
  BY <1>f, <1>b, <1>t, RequestEnds DEF Finish
<1>u. ASSUME UNCHANGED <<rows, parent>> PROVE Forest'
  BY <1>u, ForestShrinks
<1>r. ASSUME NEW r, req'[p] = r, r.pc # "move.row" \/ r.dst = None PROVE MoveInv(p)'
  BY <1>r DEF MoveInv
<1>d. ASSUME NEW S, Deletable(S), DeleteFolders(S) PROVE Forest'
  BY <1>d, <1>t, DeleteKeepsTree, ForestShrinks
<1>1. CASE \/ \E d \in FolderIds \cup {None}, n \in Names : CreateFolder(p, d, n)
           \/ \E f \in FolderIds : TrashFolder(p, f) \/ RestoreFolder(p, f) \/ HardDeleteFolder(p, f)
  <2>1. UNCHANGED <<rows, parent>>
    BY <1>1 DEF CreateFolder, TrashFolder, RestoreFolder, HardDeleteFolder, treeVars
  <2>2. req'[p].pc # "move.row"
    BY <1>1, <1>b DEF CreateFolder, TrashFolder, RestoreFolder, HardDeleteFolder, Start, Idle
  <2>3. QED
    BY <1>u, <1>r, <2>1, <2>2
<1>2. ASSUME NEW f \in FolderIds, NEW d \in FolderIds \cup {None}, MoveFolder(p, f, d)
      PROVE  Forest' /\ MoveInv(p)'
  <2>1. UNCHANGED <<rows, parent>>
    BY <1>2 DEF MoveFolder, treeVars
  <2>2. req'[p].pc # "move.row" \/ req'[p].dst = None
    BY <1>2, <1>b DEF MoveFolder, Start, Idle
  <2>3. QED
    BY <1>u, <1>r, <2>1, <2>2
<1>3. CASE EmptyTrashedFolders(p) \/ \E f \in FolderIds, n \in Names : RenameFolder(p, f, n)
  <2>1. req'[p].pc # "move.row"
    BY <1>3 DEF EmptyTrashedFolders, RenameFolder
  <2>2. Forest'
    BY <1>3, <1>u, <1>d DEF EmptyTrashedFolders, RenameFolder
  <2>3. QED
    BY <1>r, <2>1, <2>2
<1>4. CASE CreateRow(p)
  <2>1. MoveInv(p)'
    BY <1>4, <1>f DEF CreateRow
  <2>2. CASE UNCHANGED <<used, rows, owner, parent, name>>
    BY <1>u, <2>1, <2>2
  <2>3. CASE ~UNCHANGED <<used, rows, owner, parent, name>>
    <3>1. PICK f \in FolderIds \ used : f = NewId
      BY <1>4, <1>t, <2>3, NewIdFacts DEF CreateRow, TypeOK
    <3>2. PICK d : d = req[p].dst
      OBVIOUS
    <3>3. /\ rows' = rows \cup {f} /\ parent' = [parent EXCEPT ![f] = d]
          /\ d \in rows \cup {None}
      BY <1>4, <2>3, <3>1, <3>2 DEF CreateRow, InsertFolder
    <3>4. QED
      BY <1>t, <2>1, <3>3, ForestGrows
  <2>4. QED
    BY <2>2, <2>3
<1>5. CASE MoveDst(p)
  <2>1. UNCHANGED <<rows, parent>>
    BY <1>5 DEF MoveDst, treeVars
  <2>2. CASE Finish(p)
    BY <1>f, <1>u, <2>1, <2>2
  <2>3. CASE Goto(p, "move.desc")
    <3>1. req'[p].pc = "move.desc"
      BY <1>b, <1>t, <2>3 DEF Goto, Request
    <3>2. QED
      BY <1>u, <1>r, <2>1, <3>1
  <2>4. QED
    BY <1>5, <2>2, <2>3 DEF MoveDst
<1>6. CASE MoveDesc(p)
  <2>1. UNCHANGED <<rows, parent>> /\ req[p].pc = "move.desc"
    BY <1>6 DEF MoveDesc, treeVars
  <2>2. CASE Finish(p)
    BY <1>f, <1>u, <2>1, <2>2
  <2>3. CASE ~IsDescendantOf(req[p].folder, req[p].dst) /\ Goto(p, "move.row")
    <3>1. PICK f : f = req[p].folder
      OBVIOUS
    <3>2. PICK d : d = req[p].dst
      OBVIOUS
    <3>3. f \in rows \ trashed /\ f \in FolderIds /\ (d # None => d \in rows \ trashed)
      BY <1>t, <2>1, <3>1, <3>2 DEF SoloInv, OwnLive, Live, TypeOK
    <3>4. req'[p].folder = f /\ req'[p].dst = d
      BY <1>b, <1>t, <2>3, <3>1, <3>2 DEF Goto, Request
    <3>5. PICK D \in SUBSET FolderIds : D = LiveSubtree(f) \cup trashed
      BY <1>t, <3>3, LiveSubtreeFacts DEF TypeOK
    <3>6. f \in D /\ Closed(D, rows)
      BY <1>t, <3>3, <3>5, LiveSubtreeFacts, LiveSubtreeSuffices
    <3>7. d \notin LiveSubtree(f)
      BY <2>3, <3>1, <3>2, <3>3 DEF Shallow, IsDescendantOf
    <3>8. d # None => d \notin D
      BY <3>3, <3>5, <3>7
    <3>9. Closed(D, rows)'
      BY <2>1, <3>6 DEF Closed
    <3>10. MoveInv(p)'
      BY <3>4, <3>6, <3>8, <3>9 DEF MoveInv
    <3>11. QED
      BY <1>u, <2>1, <3>10
  <2>4. QED
    BY <1>6, <2>2, <2>3 DEF MoveDesc
<1>7. CASE MoveRow(p)
  <2>1. MoveInv(p)' /\ rows' = rows /\ req[p].pc = "move.row"
    BY <1>7, <1>f DEF MoveRow
  <2>2. CASE parent' = parent
    BY <1>u, <2>1, <2>2
  <2>3. CASE parent' # parent
    <3>1. PICK f : f = req[p].folder
      OBVIOUS
    <3>2. PICK d : d = req[p].dst
      OBVIOUS
    <3>3. f \in rows /\ parent' = [parent EXCEPT ![f] = d]
      BY <1>7, <2>3, <3>1, <3>2 DEF MoveRow, OwnLive, Live
    <3>4. f \in FolderIds /\ d \in FolderIds \cup {None}
      BY <1>t, <3>2, <3>3 DEF TypeOK
    <3>5. d # None => \E D \in SUBSET FolderIds : f \in D /\ d \notin D /\ Closed(D, rows)
      BY <2>1, <3>1, <3>2 DEF MoveInv
    <3>6. QED
      BY <1>t, <2>1, <3>3, <3>4, <3>5, ForestGraft
  <2>4. QED
    BY <2>2, <2>3
<1>8. CASE TrashRows(p)
  BY <1>8, <1>f, <1>u DEF TrashRows
<1>9. CASE RestoreRows(p)
  <2>1. MoveInv(p)' /\ rows' = rows /\ req[p].pc = "restore.rows"
    BY <1>9, <1>f DEF RestoreRows
  <2>2. CASE parent' = parent
    BY <1>u, <2>1, <2>2
  <2>3. CASE parent' # parent
    <3>1. parent' = [parent EXCEPT ![req[p].folder] = req[p].dst]
      BY <1>9, <2>3 DEF RestoreRows
    <3>2. \A g \in rows : parent'[g] = IF g = req[p].folder THEN req[p].dst ELSE parent[g]
      BY <1>t, <3>1 DEF TypeOK
    <3>3. req[p].dst # None /\ req[p].folder \in rows => req[p].dst = parent[req[p].folder]
      BY <2>1 DEF SoloInv
    <3>4. None \notin rows
      BY <1>t, FoldersAssumption DEF TypeOK
    <3>5. \A g \in rows : parent'[g] = parent[g] \/ parent'[g] = None
      BY <3>2, <3>3
    <3>6. Forest'
      BY <2>1, <3>4, <3>5 DEF Forest
    <3>7. QED
      BY <2>1, <3>6
  <2>4. QED
    BY <2>2, <2>3
<1>10. CASE HardDeleteRows(p)
  <2>1. MoveInv(p)'
    BY <1>10, <1>f DEF HardDeleteRows
  <2>2. CASE UNCHANGED treeVars
    BY <1>u, <2>1, <2>2 DEF treeVars
  <2>3. QED
    BY <1>10, <1>d, <2>1, <2>2 DEF HardDeleteRows
<1>11. CASE Fail(p)
  BY <1>11, <1>f, <1>u DEF Fail, treeVars
<1>12. QED
  BY <1>1, <1>2, <1>3, <1>4, <1>5, <1>6, <1>7, <1>8, <1>9, <1>10, <1>11 DEF Handle, Continue

\* Every step keeps the forest while IsDescendantOf sees whole subtrees.
LEMMA NextForestInv == Inv /\ Inv' /\ OneInv /\ Shallow /\ ForestInv /\ [Next]_vars => ForestInv'
<1> SUFFICES ASSUME Inv, Inv', OneInv, Shallow, ForestInv, [Next]_vars, OnePerUser
             PROVE  Forest' /\ \A q \in Reqs : MoveInv(q)'
  BY DEF ForestInv, OnePerUser
<1>t. /\ TypeOK /\ TypeOK' /\ TreeInv /\ TreeInv' /\ LiveInv /\ Forest
      /\ \A q \in Reqs : RequestInv(q)' /\ SoloInv(q) /\ MoveInv(q)
  BY DEF Inv, OneInv, ForestInv
<1>s. ASSUME NEW q \in Reqs, req'[q] = req[q], SameTree(Client[q]) PROVE MoveInv(q)'
  BY <1>t, <1>s, MoveStays
<1>1. ASSUME NEW p \in Reqs, Handle(p) PROVE Forest' /\ \A q \in Reqs : MoveInv(q)'
  <2>1. Forest' /\ MoveInv(p)'
    BY <1>t, <1>1, HandleKeepsForest
  <2>2. ASSUME NEW q \in Reqs, q # p PROVE MoveInv(q)'
    <3>1. Client[q] # Client[p]
      BY <2>2 DEF OnePerUser
    <3>2. QED
      BY <1>1, <1>s, <3>1, OthersStay
  <2>3. QED
    BY <2>1, <2>2
<1>2. CASE PurgeExpiredFolders \/ Age \/ UNCHANGED vars
  <2>1. \A q \in Reqs : MoveInv(q)'
    BY <1>2, <1>s, AllStay
  <2>2. Forest'
    <3>1. CASE PurgeExpiredFolders
      BY <1>t, <3>1, DeleteKeepsTree, ForestShrinks DEF PurgeExpiredFolders
    <3>2. CASE Age \/ UNCHANGED vars
      BY <1>t, <3>2, ForestShrinks DEF Age, vars
    <3>3. QED
      BY <1>2, <3>1, <3>2
  <2>3. QED
    BY <2>1, <2>2
<1>3. QED
  BY <1>1, <1>2 DEF Next
\* While IsDescendantOf sees whole subtrees, the requests of a user who waits
\* for each answer never make a cycle, whatever the other users and the hourly
\* job do.
THEOREM MovesKeepForest == Spec /\ []Shallow => []ForestOnePerUser
<1>1. ForestInv => ForestOnePerUser
  BY DEF ForestInv, ForestOnePerUser
<1>2. QED
  BY <1>1, InitInv, NextInv, InitOneInv, NextOneInv, InitForestInv, NextForestInv, PTL DEF Spec

\* Then every trashed folder is below one that the page of the trash shows.
THEOREM TrashStaysListed == Spec /\ []Shallow => []TrashIsListed
<1>1. Inv /\ ForestInv => TrashIsListed
  <2> SUFFICES ASSUME Inv, ForestInv, OnePerUser, NEW f \in rows \cap trashed
               PROVE  \E g \in ListTrashedFolders(owner[f]) : f \in Subtree(g)
    BY DEF TrashIsListed
  <2>1. TypeOK /\ OwnTree /\ Forest /\ rows \subseteq FolderIds
    BY DEF Inv, TreeInv, ForestInv, TypeOK
  <2> DEFINE C == {g \in rows \cap trashed : f \in Subtree(g)}
  <2>2. f \in C
    BY <2>1, SubtreeFacts
  <2>3. PICK g \in C : parent[g] \notin C
    BY <2>1, <2>2 DEF Forest
  <2>4. ASSUME parent[g] \in rows \cap trashed PROVE FALSE
    <3>1. g \in Subtree(parent[g]) /\ Closed(Subtree(parent[g]), rows)
      BY <2>1, <2>4, SubtreeFacts DEF Closed
    <3>2. Subtree(g) \subseteq Subtree(parent[g])
      BY <2>1, <2>4, <3>1, SubtreeFacts
    <3>3. QED
      BY <2>3, <2>4, <3>2
  <2>5. owner[g] = owner[f]
    BY <2>1, <2>3, SubtreeIsOwn
  <2>6. QED
    BY <2>3, <2>4, <2>5 DEF ListTrashedFolders
<1>2. QED
  BY <1>1, InitInv, NextInv, InitOneInv, NextOneInv, InitForestInv, NextForestInv, PTL DEF Spec

-----------------------------------------------------------------------------
\* How deep IsDescendantOf looks

\* A set of numbers that is not empty has a least one.
LEMMA LeastNumber ==
    ASSUME NEW T, T \subseteq Nat, T # {}
    PROVE  \E x \in T : \A y \in T : x <= y
<1>1. PICK x \in T : \A y \in T : ~(<<y, x>> \in OpToRel(<, Nat))
  BY NatLessThanWellFounded, WFMin
<1>2. \A y \in T : ~(y < x)
  BY <1>1 DEF OpToRel
<1>3. QED
  BY <1>2

\* A set of numbers with zero and the successors of its members up to N - 1 has
\* all the numbers up to N.
LEMMA CountUp ==
    ASSUME NEW N \in Nat, NEW T, 0 \in T, \A n \in 0..(N - 1) : n \in T => n + 1 \in T
    PROVE  \A n \in 0..N : n \in T
<1> SUFFICES ASSUME (0..N) \ T # {} PROVE FALSE
  OBVIOUS
<1>1. PICK x \in (0..N) \ T : \A y \in (0..N) \ T : x <= y
  <2>1. (0..N) \ T \subseteq Nat
    OBVIOUS
  <2>2. QED
    BY <2>1, LeastNumber
<1>2. x - 1 \in 0..(N - 1) /\ ~(x <= x - 1)
  BY <1>1
<1>3. x - 1 \in T
  BY <1>1, <1>2
<1>4. (x - 1) + 1 \in T
  BY <1>2, <1>3
<1>5. QED
  BY <1>1, <1>4

\* One level more.
Below(X) == X \cup {g \in rows \ trashed : parent[g] \in X}

\* The levels that Within counts exist: each is made from the one before.
LEMMA LevelsExist ==
    ASSUME TypeOK, NEW a \in FolderIds
    PROVE  \A N \in 0..DepthLimit : \E L \in [0..N -> SUBSET FolderIds] :
              L[0] = {a} /\ \A n \in 1..N : L[n] = Below(L[n - 1])
<1> DEFINE Good(N, L) == L[0] = {a} /\ \A n \in 1..N : L[n] = Below(L[n - 1])
<1> DEFINE T == {N \in Nat : \E L \in [0..N -> SUBSET FolderIds] : Good(N, L)}
<1>1. 0 \in T
  <2>1. [n \in 0..0 |-> {a}] \in [0..0 -> SUBSET FolderIds]
    OBVIOUS
  <2>2. Good(0, [n \in 0..0 |-> {a}])
    OBVIOUS
  <2>3. QED
    BY <2>1, <2>2
<1>2. ASSUME NEW N \in 0..(DepthLimit - 1), N \in T PROVE N + 1 \in T
  <2>1. N \in Nat
    BY DepthAssumption
  <2>2. PICK L \in [0..N -> SUBSET FolderIds] : Good(N, L)
    BY <1>2
  <2> DEFINE M == [n \in 0..(N + 1) |-> IF n = N + 1 THEN Below(L[N]) ELSE L[n]]
  <2>3. Below(L[N]) \subseteq FolderIds
    BY <2>1 DEF Below, TypeOK
  <2>4. M \in [0..(N + 1) -> SUBSET FolderIds]
    BY <2>1, <2>3
  <2>5. /\ M[N + 1] = Below(L[N])
        /\ \A n \in 0..N : M[n] = L[n]
    BY <2>1
  <2>6. M[0] = {a}
    BY <2>1, <2>2, <2>5
  <2>7. ASSUME NEW n \in 1..(N + 1) PROVE M[n] = Below(M[n - 1])
    <3>1. n - 1 \in 0..N /\ M[n - 1] = L[n - 1]
      BY <2>1, <2>5
    <3>2. CASE n = N + 1
      BY <2>1, <2>5, <3>1, <3>2
    <3>3. CASE n \in 1..N
      BY <2>1, <2>2, <2>5, <3>1, <3>3
    <3>4. QED
      BY <2>1, <3>2, <3>3
  <2> HIDE DEF M
  <2>8. Good(N + 1, M)
    BY <2>6, <2>7
  <2>9. QED
    BY <2>1, <2>4, <2>8
<1> HIDE DEF T
<1>3. \A N \in 0..DepthLimit : N \in T
  BY <1>1, <1>2, DepthAssumption, CountUp
<1>4. QED
  BY <1>3 DEF T
\* Within is the last of the levels.
LEMMA WithinLevels ==
    ASSUME TypeOK, NEW a \in FolderIds
    PROVE  \E L \in [0..DepthLimit -> SUBSET FolderIds] :
              /\ L[0] = {a} /\ \A n \in 1..DepthLimit : L[n] = Below(L[n - 1])
              /\ Within(a) = L[DepthLimit]
<1> DEFINE Levels(L) ==
        L = [n \in 0..DepthLimit |->
               IF n = 0 THEN {a}
               ELSE L[n - 1] \cup {g \in rows \ trashed : parent[g] \in L[n - 1]}]
<1>1. PICK L \in [0..DepthLimit -> SUBSET FolderIds] :
         L[0] = {a} /\ \A n \in 1..DepthLimit : L[n] = Below(L[n - 1])
  <2>1. DepthLimit \in 0..DepthLimit
    BY DepthAssumption
  <2>2. QED
    BY <2>1, LevelsExist
<1>2. Levels(L)
  <2>1. \A n \in 0..DepthLimit :
           L[n] = IF n = 0 THEN {a}
                  ELSE L[n - 1] \cup {g \in rows \ trashed : parent[g] \in L[n - 1]}
    BY <1>1, DepthAssumption DEF Below
  <2>2. QED
    BY <2>1
<1>3. Within(a) = (CHOOSE M : Levels(M))[DepthLimit]
  BY DEF Within
<1> HIDE DEF Levels
<1>4. PICK M : M = (CHOOSE K : Levels(K)) /\ Levels(M)
  BY <1>2
<1>5. M[0] = {a} /\ \A n \in 1..DepthLimit : M[n] = Below(M[n - 1])
  <2> DEFINE F == [n \in 0..DepthLimit |->
                     IF n = 0 THEN {a}
                     ELSE M[n - 1] \cup {g \in rows \ trashed : parent[g] \in M[n - 1]}]
  <2>1. M = F
    BY <1>4 DEF Levels
  <2>2. F[0] = {a} /\ \A n \in 1..DepthLimit : F[n] = Below(M[n - 1])
    BY DepthAssumption DEF Below
  <2> HIDE DEF F
  <2>3. QED
    BY <2>1, <2>2
<1>6. \A n \in 0..DepthLimit : M[n] = L[n]
  <2> DEFINE T == {n \in 0..DepthLimit : M[n] = L[n]}
  <2>1. 0 \in T
    <3>1. 0 \in 0..DepthLimit
      BY DepthAssumption
    <3>2. QED
      BY <1>1, <1>5, <3>1
  <2>2. ASSUME NEW n \in 0..(DepthLimit - 1), n \in T PROVE n + 1 \in T
    <3>1. n + 1 \in 1..DepthLimit /\ (n + 1) - 1 = n
      BY DepthAssumption
    <3>2. M[n + 1] = Below(M[n]) /\ L[n + 1] = Below(L[n])
      BY <1>1, <1>5, <3>1
    <3>3. QED
      BY <2>2, <3>1, <3>2
  <2> HIDE DEF T
  <2>3. \A n \in 0..DepthLimit : n \in T
    BY <2>1, <2>2, DepthAssumption, CountUp
  <2>4. QED
    BY <2>3 DEF T
<1>7. Within(a) = L[DepthLimit]
  BY <1>3, <1>4, <1>6, DepthAssumption
<1>8. QED
  BY <1>1, <1>7

\* With no more than DepthLimit folders, the last level has nothing below it:
\* each level before would have had a folder more than the one above.
LEMMA FewIsShallow ==
    ASSUME TypeOK, TreeInv, FewFolders
    PROVE  Shallow
<1> SUFFICES ASSUME NEW a \in rows \ trashed PROVE LiveSubtree(a) \subseteq Within(a)
  BY DEF Shallow
<1> DEFINE M == OwnFolders(owner[a])
<1>1. /\ a \in FolderIds /\ a \in M /\ IsFiniteSet(M) /\ Cardinality(M) <= DepthLimit
      /\ M \subseteq FolderIds /\ DepthLimit \in Nat
  BY DepthAssumption DEF TypeOK, TreeInv, FewFolders, OwnFolders
<1>2. PICK L \in [0..DepthLimit -> SUBSET FolderIds] :
         /\ L[0] = {a} /\ \A n \in 1..DepthLimit : L[n] = Below(L[n - 1])
         /\ Within(a) = L[DepthLimit]
  BY <1>1, WithinLevels
<1>3. \A n \in 0..(DepthLimit - 1) : n \in 0..DepthLimit /\ n + 1 \in 1..DepthLimit /\ L[n + 1] = Below(L[n])
  BY <1>1, <1>2
<1>4. \A X : X \subseteq M => Below(X) \subseteq M
  BY FoldersAssumption DEF Below, OwnFolders, TreeInv, OwnTree, TypeOK
<1>5. \A n \in 0..DepthLimit : a \in L[n] /\ L[n] \subseteq M
  <2> DEFINE T == {n \in 0..DepthLimit : a \in L[n] /\ L[n] \subseteq M}
  <2>1. 0 \in T
    BY <1>1, <1>2
  <2>2. ASSUME NEW n \in 0..(DepthLimit - 1), n \in T PROVE n + 1 \in T
    <3>1. a \in L[n + 1]
      BY <1>3, <2>2 DEF Below
    <3>2. L[n + 1] \subseteq M
      BY <1>3, <1>4, <2>2
    <3>3. QED
      BY <1>1, <1>3, <3>1, <3>2
  <2> HIDE DEF T
  <2>3. \A n \in 0..DepthLimit : n \in T
    BY <1>1, <2>1, <2>2, CountUp
  <2>4. QED
    BY <2>3 DEF T
<1>6. Below(L[DepthLimit]) = L[DepthLimit]
  <2> SUFFICES ASSUME Below(L[DepthLimit]) # L[DepthLimit] PROVE FALSE
    OBVIOUS
  <2>1. \A n \in 0..DepthLimit : Below(L[n]) # L[n]
    <3> DEFINE T == {k \in 0..DepthLimit : Below(L[DepthLimit - k]) # L[DepthLimit - k]}
    <3>1. 0 \in T
      BY <1>1
    <3>2. ASSUME NEW k \in 0..(DepthLimit - 1), k \in T PROVE k + 1 \in T
      <4>1. PICK n \in 0..(DepthLimit - 1) : n = DepthLimit - (k + 1) /\ n + 1 = DepthLimit - k
        BY <1>1
      <4>2. Below(L[n + 1]) # L[n + 1] /\ L[n + 1] = Below(L[n])
        BY <1>3, <3>2, <4>1
      <4>3. Below(L[n]) # L[n]
        BY <4>2
      <4>4. QED
        BY <1>1, <4>1, <4>3
    <3> HIDE DEF T
    <3>3. \A k \in 0..DepthLimit : k \in T
      BY <1>1, <3>1, <3>2, CountUp
    <3>4. ASSUME NEW n \in 0..DepthLimit PROVE Below(L[n]) # L[n]
      <4>1. DepthLimit - n \in 0..DepthLimit /\ DepthLimit - (DepthLimit - n) = n
        BY <1>1
      <4>2. DepthLimit - n \in T
        BY <3>3, <4>1
      <4>3. Below(L[DepthLimit - (DepthLimit - n)]) # L[DepthLimit - (DepthLimit - n)]
        BY <4>2 DEF T
      <4>4. QED
        BY <4>1, <4>3
    <3>5. QED
      BY <3>4
  <2>2. \A n \in 0..DepthLimit : IsFiniteSet(L[n]) /\ Cardinality(L[n]) \in Nat
    BY <1>1, <1>5, FS_Subset, FS_CardinalityType
  <2>3. \A n \in 0..DepthLimit : Cardinality(L[n]) >= n + 1
    <3> DEFINE T == {n \in 0..DepthLimit : Cardinality(L[n]) >= n + 1}
    <3>1. 0 \in T
      <4>1. Cardinality({a}) = 1
        BY FS_Singleton
      <4>2. 0 \in 0..DepthLimit /\ Cardinality(L[0]) = 1
        BY <1>1, <1>2, <4>1
      <4>3. Cardinality(L[0]) >= 0 + 1
        BY <4>2
      <4>4. QED
        BY <4>2, <4>3
    <3>2. ASSUME NEW n \in 0..(DepthLimit - 1), n \in T PROVE n + 1 \in T
      <4>1. PICK g : g \in L[n + 1] /\ g \notin L[n]
        BY <1>3, <2>1 DEF Below
      <4>2. L[n] \cup {g} \subseteq L[n + 1]
        BY <1>3, <4>1 DEF Below
      <4>3. n \in 0..DepthLimit /\ n + 1 \in 0..DepthLimit
        BY <1>1
      <4>4. Cardinality(L[n] \cup {g}) = Cardinality(L[n]) + 1
        BY <2>2, <4>1, <4>3, FS_AddElement
      <4>5. Cardinality(L[n] \cup {g}) <= Cardinality(L[n + 1])
        BY <2>2, <4>2, <4>3, FS_Subset
      <4>6. Cardinality(L[n]) \in Nat /\ Cardinality(L[n + 1]) \in Nat /\ Cardinality(L[n]) >= n + 1
        BY <2>2, <3>2, <4>3
      <4>7. Cardinality(L[n + 1]) >= (n + 1) + 1
        BY <4>4, <4>5, <4>6
      <4>8. QED
        BY <4>3, <4>7
    <3> HIDE DEF T
    <3>3. \A n \in 0..DepthLimit : n \in T
      BY <1>1, <3>1, <3>2, CountUp
    <3>4. QED
      BY <3>3 DEF T
  <2>4. DepthLimit \in 0..DepthLimit
    BY <1>1
  <2>5. Cardinality(L[DepthLimit]) <= Cardinality(M)
    BY <1>1, <1>5, <2>4, FS_Subset
  <2>6. Cardinality(M) \in Nat /\ Cardinality(L[DepthLimit]) \in Nat
    BY <1>1, <2>2, <2>4, FS_CardinalityType
  <2>7. Cardinality(L[DepthLimit]) >= DepthLimit + 1
    BY <2>3, <2>4
  <2>8. QED
    BY <1>1, <2>5, <2>6, <2>7
<1>7. DepthLimit \in 0..DepthLimit
  BY <1>1
<1>8. a \in L[DepthLimit] /\ Closed(L[DepthLimit], rows \ trashed) /\ L[DepthLimit] \in SUBSET FolderIds
  BY <1>5, <1>6, <1>7 DEF Below, Closed
<1>9. a \in FolderIds /\ Within(a) = L[DepthLimit]
  BY <1>1, <1>2
<1> DEFINE C == L[DepthLimit]
<1>10. a \in C /\ Closed(C, rows \ trashed) /\ C \in SUBSET FolderIds /\ Within(a) = C
  BY <1>8, <1>9
<1> HIDE DEF C
<1>11. LiveSubtree(a) \subseteq C
  BY <1>9, <1>10, LiveSubtreeFacts
<1>12. QED
  BY <1>10, <1>11

\* As long as no user has more live folders than IsDescendantOf looks levels
\* down, 100 in the code, no request of a user who waits for each answer makes a
\* cycle.
THEOREM FewFoldersKeepForest == Spec /\ []FewFolders => []ForestOnePerUser
<1>1. Inv /\ FewFolders => Shallow
  BY FewIsShallow DEF Inv
<1>2. ForestInv => ForestOnePerUser
  BY DEF ForestInv, ForestOnePerUser
<1>3. QED
  BY <1>1, <1>2, InitInv, NextInv, InitOneInv, NextOneInv, InitForestInv, NextForestInv, PTL DEF Spec
=============================================================================
