------------------------------ MODULE FolderTree ------------------------------
(***************************************************************************)
(* The tree of folders: the table folders (internal/repo/persistent/       *)
(* postgres/folders.go) and the folder operations of internal/usecase/     *)
(* storage/service.go.                                                     *)
(*                                                                         *)
(* A handler checks with SELECTs and changes with a later statement, and   *)
(* the transactions run at READ COMMITTED without row locks: what a        *)
(* handler read may be stale when it writes.  The reads of a handler are   *)
(* one action for each call of the repository; the writes of one           *)
(* transaction are one action, or none when one of them fails.             *)
(*                                                                         *)
(* Two partial unique indexes keep the names of live siblings apart, at    *)
(* the root and below: a write that would make twins is refused as a       *)
(* whole.  The files in the folders are the subject of BlobLifecycle.      *)
(***************************************************************************)
EXTENDS Naturals, FiniteSets

CONSTANTS
    Users,       \* the accounts
    FolderIds,   \* the ids gen_random_uuid() may return; bounds the creations
    Names,       \* the names a folder may have
    Reqs,        \* the HTTP requests that may be in flight at once
    Client,      \* the user a request is authenticated as
    None,        \* NULL, and the value of an unused local
    DepthLimit   \* how deep IsDescendantOf looks, 100 in the code

ASSUME UsersAssumption == Users # {} /\ None \notin Users
ASSUME FoldersAssumption == None \notin FolderIds \cup Names
ASSUME ClientAssumption == Client \in [Reqs -> Users]
ASSUME DepthAssumption == DepthLimit \in Nat

VARIABLES
    rows,      \* the ids that have a row
    trashed,   \* the ids whose deleted_at is not NULL
    old,       \* the ids whose deleted_at is more than TrashTTL ago
    owner,     \* user_id
    parent,    \* parent_id
    name,      \* name
    req,       \* program counter and locals of each request
    used       \* history: the ids handed out so far

treeVars == <<rows, trashed, old, owner, parent, name, used>>
vars == <<rows, trashed, old, owner, parent, name, req, used>>

-----------------------------------------------------------------------------
\* Handlers

Labels == {"idle", "create.row", "move.dst", "move.desc", "move.row",
           "trash.rows", "restore.rows", "hard.rows"}

Request == [pc : Labels, folder : FolderIds \cup {None}, dst : FolderIds \cup {None},
            name : Names \cup {None}, ids : SUBSET FolderIds]

Idle == [pc |-> "idle", folder |-> None, dst |-> None, name |-> None, ids |-> {}]

Become(p, r) == req' = [req EXCEPT ![p] = r]
Goto(p, label) == Become(p, [req[p] EXCEPT !.pc = label])
Finish(p) == Become(p, Idle)

Start(p, r) == req[p].pc = "idle" /\ Become(p, r)

\* The instances in which every user waits for an answer before asking again.
OnePerUser == \A p, q \in Reqs : Client[p] = Client[q] => p = q

-----------------------------------------------------------------------------
\* Queries

Live(f) == f \in rows /\ f \notin trashed
OwnLive(f, u) == Live(f) /\ owner[f] = u
OwnTrashed(f, u) == f \in rows /\ f \in trashed /\ owner[f] = u

\* The unique indexes: with the parents up, two folders of S have the same user,
\* parent and name; and the name n is taken by a live folder other than f.
Twins(S, up) ==
    \E g, h \in S : g # h /\ owner[g] = owner[h] /\ up[g] = up[h] /\ name[g] = name[h]
Taken(n, u, d, f) ==
    \E g \in (rows \ trashed) \ {f} : owner[g] = u /\ parent[g] = d /\ name[g] = n

\* What the recursive queries collect from f: the smallest set with f that has
\* the children of its members, only the live ones in LiveSubtree.
Subtree(f) ==
    {g \in FolderIds : \A C \in SUBSET FolderIds :
        (f \in C /\ \A h \in rows : parent[h] \in C => h \in C) => g \in C}
LiveSubtree(f) ==
    {g \in FolderIds : \A C \in SUBSET FolderIds :
        (f \in C /\ \A h \in rows \ trashed : parent[h] \in C => h \in C) => g \in C}

\* UNION ALL visits a cycle for ever: the query runs into its timeout.
Terminates(S) == \A C \in SUBSET S : C # {} => \E g \in C : parent[g] \notin C

\* The live folders at most DepthLimit levels below a.
Within(a) ==
    LET level[n \in 0..DepthLimit] ==
            IF n = 0 THEN {a}
            ELSE LET above == level[n - 1]
                 IN  above \cup {g \in rows \ trashed : parent[g] \in above}
    IN  level[DepthLimit]

\* Faulty variant: only what was trashed at the root level is listed.
ListTrashedAtRoot(u) == {f \in rows \cap trashed : owner[f] = u /\ parent[f] = None}

\* The page of the trash: a trashed folder under a trashed one is not shown.
ListTrashedFolders(u) ==
    {f \in rows \cap trashed : owner[f] = u /\ parent[f] \notin rows \cap trashed}

\* Faulty variant: only the direct children are looked at.
IsChildOf(a, c) == c = a \/ (c \in rows /\ parent[c] = a)

IsDescendantOf(a, c) == c \in Within(a)

-----------------------------------------------------------------------------
Init ==
    /\ rows = {}
    /\ trashed = {}
    /\ old = {}
    /\ owner = [f \in FolderIds |-> None]
    /\ parent = [f \in FolderIds |-> None]
    /\ name = [f \in FolderIds |-> None]
    /\ req = [p \in Reqs |-> Idle]
    /\ used = {}

-----------------------------------------------------------------------------
\* CreateFolder

CreateFolder(p, d, n) ==
    /\ d # None => OwnLive(d, Client[p])
    /\ Start(p, [Idle EXCEPT !.pc = "create.row", !.dst = d, !.name = n])
    /\ UNCHANGED treeVars

InsertFolder(f, u, d, n) ==
    /\ owner' = [owner EXCEPT ![f] = u]
    /\ parent' = [parent EXCEPT ![f] = d]
    /\ name' = [name EXCEPT ![f] = n]

\* gen_random_uuid(): ids are only ever compared, so any unused one will do.
NewId == CHOOSE f \in FolderIds \ used : TRUE

\* The INSERT, refused when the parent is gone (a foreign key) or the name taken.
CreateRow(p) ==
    LET r == req[p]
        ok == r.dst \in rows \cup {None} /\ ~Taken(r.name, Client[p], r.dst, None)
    IN  /\ r.pc = "create.row"
        /\ \/ /\ ok
              /\ used # FolderIds
              /\ used' = used \cup {NewId}
              /\ rows' = rows \cup {NewId}
              /\ InsertFolder(NewId, Client[p], r.dst, r.name)
           \/ ~ok /\ UNCHANGED <<used, rows, owner, parent, name>>
        /\ Finish(p)
        /\ UNCHANGED <<trashed, old>>

-----------------------------------------------------------------------------
\* RenameFolder is one statement.
RenameFolder(p, f, n) ==
    /\ req[p].pc = "idle"
    /\ OwnLive(f, Client[p])
    /\ ~Taken(n, Client[p], parent[f], f)
    /\ name' = [name EXCEPT ![f] = n]
    /\ UNCHANGED <<rows, trashed, old, owner, parent, req, used>>

-----------------------------------------------------------------------------
\* MoveFolder

MoveFolder(p, f, d) ==
    /\ OwnLive(f, Client[p])
    /\ d # f
    /\ Start(p, [Idle EXCEPT !.pc = IF d = None THEN "move.row" ELSE "move.dst",
                             !.folder = f, !.dst = d])
    /\ UNCHANGED treeVars

\* Faulty variant: the new parent may be anybody's.
MoveDstAny(p) ==
    /\ req[p].pc = "move.dst"
    /\ IF Live(req[p].dst) THEN Goto(p, "move.desc") ELSE Finish(p)
    /\ UNCHANGED treeVars

\* GetFolder of the new parent.
MoveDst(p) ==
    /\ req[p].pc = "move.dst"
    /\ IF OwnLive(req[p].dst, Client[p]) THEN Goto(p, "move.desc") ELSE Finish(p)
    /\ UNCHANGED treeVars

MoveDesc(p) ==
    /\ req[p].pc = "move.desc"
    /\ IF IsDescendantOf(req[p].folder, req[p].dst) THEN Finish(p) ELSE Goto(p, "move.row")
    /\ UNCHANGED treeVars

\* The UPDATE of parent_id, a foreign key.
MoveRow(p) ==
    LET f == req[p].folder
        d == req[p].dst
    IN  /\ req[p].pc = "move.row"
        /\ parent' = IF /\ OwnLive(f, Client[p])
                        /\ d \in rows \cup {None}
                        /\ ~Taken(name[f], Client[p], d, f)
                     THEN [parent EXCEPT ![f] = d]
                     ELSE parent
        /\ Finish(p)
        /\ UNCHANGED <<rows, trashed, old, owner, name, used>>

-----------------------------------------------------------------------------
\* The trash: DeleteFolder, RestoreFolder, HardDeleteFolder, EmptyTrash

TrashFolder(p, f) ==
    /\ OwnLive(f, Client[p])
    /\ Terminates(LiveSubtree(f))
    /\ Start(p, [Idle EXCEPT !.pc = "trash.rows", !.folder = f, !.ids = LiveSubtree(f)])
    /\ UNCHANGED treeVars

\* Faulty variant: the subfolders are forgotten.
TrashRootOnly(p) ==
    /\ req[p].pc = "trash.rows"
    /\ trashed' = trashed \cup ({req[p].folder} \cap rows)
    /\ old' = old \ {req[p].folder}
    /\ Finish(p)
    /\ UNCHANGED <<rows, owner, parent, name, used>>

\* The UPDATE by id also renews the deleted_at of a folder trashed meanwhile.
TrashRows(p) ==
    /\ req[p].pc = "trash.rows"
    /\ trashed' = trashed \cup (req[p].ids \cap rows)
    /\ old' = old \ req[p].ids
    /\ Finish(p)
    /\ UNCHANGED <<rows, owner, parent, name, used>>

\* The row, its subtree and its parent are read one after the other.
RestoreFolder(p, f) ==
    /\ OwnTrashed(f, Client[p])
    /\ Terminates(Subtree(f))
    /\ Start(p, [Idle EXCEPT !.pc = "restore.rows", !.folder = f,
                             !.dst = IF Live(parent[f]) THEN parent[f] ELSE None,
                             !.ids = Subtree(f)])
    /\ UNCHANGED treeVars

\* Faulty variant: the folder comes back without its subfolders.
RestoreRootOnly(p) ==
    LET r == req[p]
        up == [parent EXCEPT ![r.folder] = r.dst]
    IN  /\ r.pc = "restore.rows"
        /\ IF r.dst \in rows \cup {None} /\ ~Twins(rows \ (trashed \ {r.folder}), up)
           THEN /\ trashed' = trashed \ {r.folder}
                /\ old' = old \ {r.folder}
                /\ parent' = up
           ELSE UNCHANGED <<trashed, old, parent>>
        /\ Finish(p)
        /\ UNCHANGED <<rows, owner, name, used>>

\* Faulty variant: the folder always goes back under its old parent.
RestoreInPlace(p) ==
    /\ req[p].pc = "restore.rows"
    /\ trashed' = trashed \ req[p].ids
    /\ old' = old \ req[p].ids
    /\ Finish(p)
    /\ UNCHANGED <<rows, owner, parent, name, used>>

\* One UPDATE for the whole subtree: a taken name anywhere in it fails them all.
RestoreRows(p) ==
    LET r == req[p]
        up == [parent EXCEPT ![r.folder] = r.dst]
    IN  /\ r.pc = "restore.rows"
        /\ IF r.dst \in rows \cup {None} /\ ~Twins(rows \ (trashed \ r.ids), up)
           THEN trashed' = trashed \ r.ids /\ old' = old \ r.ids /\ parent' = up
           ELSE UNCHANGED <<trashed, old, parent>>
        /\ Finish(p)
        /\ UNCHANGED <<rows, owner, name, used>>

\* What rows, parents and names are once the folders of S have no parent.
Uprooted(S) == [f \in FolderIds |-> IF f \in S THEN None ELSE parent[f]]

\* ON DELETE RESTRICT: no folder outside S has its parent in S.  And parent_id =
\* NULL, which comes first, makes no twins at the root.
Deletable(S) ==
    /\ \A g \in rows \ S : parent[g] \notin S
    /\ ~Twins(rows \ trashed, Uprooted(S))

\* parent_id = NULL for all of S, then the DELETE.
DeleteFolders(S) ==
    /\ rows' = rows \ S
    /\ trashed' = trashed \ S
    /\ old' = old \ S
    /\ parent' = Uprooted(S)
    /\ name' = [f \in FolderIds |-> IF f \in S THEN None ELSE name[f]]
    /\ owner' = [f \in FolderIds |-> IF f \in S THEN None ELSE owner[f]]
    /\ UNCHANGED used

HardDeleteFolder(p, f) ==
    /\ OwnTrashed(f, Client[p])
    /\ Terminates(Subtree(f))
    /\ Start(p, [Idle EXCEPT !.pc = "hard.rows", !.folder = f, !.ids = Subtree(f)])
    /\ UNCHANGED treeVars

HardDeleteRows(p) ==
    /\ req[p].pc = "hard.rows"
    /\ IF Deletable(req[p].ids) THEN DeleteFolders(req[p].ids) ELSE UNCHANGED treeVars
    /\ Finish(p)

\* One transaction; it fails as a whole when it is not deletable.
EmptyTrashedFolders(p) ==
    LET S == {f \in rows \cap trashed : owner[f] = Client[p]}
    IN  /\ req[p].pc = "idle"
        /\ Deletable(S)
        /\ DeleteFolders(S)
        /\ UNCHANGED req

Expired == rows \cap trashed \cap old

\* Faulty variant: deleted_at is compared in the wrong direction.
PurgeFreshFolders ==
    LET S == (rows \cap trashed) \ old
    IN  /\ Deletable(S)
        /\ DeleteFolders(S)
        /\ UNCHANGED req

\* The hourly job, for all users in one transaction.
PurgeExpiredFolders ==
    /\ Deletable(Expired)
    /\ DeleteFolders(Expired)
    /\ UNCHANGED req

-----------------------------------------------------------------------------
\* TrashTTL passes for everything in the trash.
Age ==
    /\ old' = old \cup (rows \cap trashed)
    /\ UNCHANGED <<rows, trashed, owner, parent, name, req, used>>

\* A statement fails, or the handler dies.
Fail(p) ==
    /\ req[p].pc # "idle"
    /\ Finish(p)
    /\ UNCHANGED treeVars

-----------------------------------------------------------------------------
Continue(p) ==
    \/ CreateRow(p)
    \/ MoveDst(p)
    \/ MoveDesc(p)
    \/ MoveRow(p)
    \/ TrashRows(p)
    \/ RestoreRows(p)
    \/ HardDeleteRows(p)

\* A step of the request p.
Handle(p) ==
    \/ \E d \in FolderIds \cup {None}, n \in Names : CreateFolder(p, d, n)
    \/ \E f \in FolderIds :
        \/ \E n \in Names : RenameFolder(p, f, n)
        \/ \E d \in FolderIds \cup {None} : MoveFolder(p, f, d)
        \/ TrashFolder(p, f)
        \/ RestoreFolder(p, f)
        \/ HardDeleteFolder(p, f)
    \/ EmptyTrashedFolders(p)
    \/ Continue(p)
    \/ Fail(p)

Next ==
    \/ \E p \in Reqs : Handle(p)
    \/ PurgeExpiredFolders
    \/ Age

Spec == Init /\ [][Next]_vars

\* A request that can go on ends; the hourly job keeps running; time passes.
Fairness ==
    /\ \A p \in Reqs : WF_vars(Continue(p) \/ Fail(p))
    /\ WF_vars(PurgeExpiredFolders)
    /\ WF_vars(Age)

FairSpec == Spec /\ Fairness

-----------------------------------------------------------------------------
\* Properties

\* Every variable has its type.
TypeOK ==
    /\ rows \subseteq FolderIds
    /\ trashed \subseteq FolderIds
    /\ old \subseteq FolderIds
    /\ owner \in [FolderIds -> Users \cup {None}]
    /\ parent \in [FolderIds -> FolderIds \cup {None}]
    /\ name \in [FolderIds -> Names \cup {None}]
    /\ req \in [Reqs -> Request]
    /\ used \subseteq FolderIds

\* A folder's parent exists and belongs to the same user, whatever the users'
\* requests do at the same time: a recursive query never leaves the tree of
\* the user it was started for, although only its root is checked.
OwnTree ==
    \A f \in rows : parent[f] # None => parent[f] \in rows /\ owner[parent[f]] = owner[f]

\* The folders form a forest: no set of folders is closed under parent
\* (folders.go:148: IsDescendantOf is "Used to prevent cycles when moving a
\* folder into one of its own descendants").
Forest == \A C \in SUBSET rows : C # {} => \E g \in C : parent[g] \notin C

\* The requests of a user, taken one at a time, never make a cycle, whatever
\* the other users and the hourly job do.
ForestOnePerUser == OnePerUser => Forest

\* No live folder hides in the trash: taken one at a time, a user's requests
\* keep a live folder under live folders, so that it can be listed.
LiveUnderLive ==
    OnePerUser => \A f \in rows \ trashed : parent[f] # None => Live(parent[f])

\* Taken one at a time, requests never leave the trash in a state in which the
\* foreign key makes the purge, which is one transaction for all users, fail.
PurgeNeverBlocked == OnePerUser => Deletable(Expired)

\* Taken one at a time, requests lose no folder in the trash: each trashed one
\* is below a folder that the page of the trash shows, from which a restore
\* brings it back, however its ancestors were trashed, restored and moved.
TrashIsListed ==
    OnePerUser => \A f \in rows \cap trashed :
        \E g \in ListTrashedFolders(owner[f]) : f \in Subtree(g)

\* A restore is never partial (folders.go:210: it "restores a trashed folder and
\* its entire subtree"): when a folder comes back, nothing below it stays in the
\* trash, although the subtree was read before and a part may be purged since.
RestoreIsWhole ==
    [][\A f \in rows' :
         OnePerUser /\ f \in trashed /\ f \notin trashed' => Subtree(f)' \cap trashed' = {}]_vars

\* Every trashed folder is restored or deleted for good in the end
\* (.env.example:28: TRASH_TTL is the time after which what is in the trash is
\* deleted for ever).
TrashedFolderLeaves ==
    \A f \in FolderIds : []<>(f \notin rows \cap trashed)

\* What the code does not keep

\* folders.go:210: RestoreFolder "restores a trashed folder and its entire
\* subtree".  It cannot when the subtree holds twins, one of them trashed before
\* the other was created: the single UPDATE violates the unique index each time.
SubtreeRestorable == \A f \in rows \cap trashed : ~Twins(Subtree(f), parent)
=============================================================================
