-------------------------------- MODULE Sharing --------------------------------
(***************************************************************************)
(* Sharing a file with another account: CreateShare, GetSharedFile and     *)
(* RevokeShare of internal/usecase/sharing/service.go over the table       *)
(* file_shares, while the owner moves the file in and out of the trash.    *)
(*                                                                         *)
(* A handler reads with one statement and acts with a later one: each is   *)
(* an action.  The public keys never change, so looking up the recipient   *)
(* is part of the first action.  The wrapped key is left out: the server   *)
(* stores and returns it unread.  The rows of stored_blobs change by the   *)
(* statements of BlobLifecycle, one action for each statement here.        *)
(***************************************************************************)
EXTENDS Naturals, FiniteSets

CONSTANTS
    Users,       \* the accounts
    Keyed,       \* the accounts that have a public key
    Blobs,       \* the blob ids; bounds the uploads
    BlobOwner,   \* stored_blobs.user_id
    ShareIds,    \* the ids gen_random_uuid() may return; bounds the shares
    Reqs,        \* the HTTP requests that may be in flight at once
    None         \* the value of an unused local

ASSUME UsersAssumption == Keyed \subseteq Users /\ None \notin Users
ASSUME BlobsAssumption == None \notin Blobs /\ BlobOwner \in [Blobs -> Users]
ASSUME SharesAssumption == None \notin ShareIds

VARIABLES
    \* stored_blobs
    blobs,      \* the ids that have a row
    uploaded,   \* the ids whose uploaded_at is not NULL
    trashed,    \* the ids whose deleted_at is not NULL
    \* file_shares
    shares,     \* the ids that have a row
    revoked,    \* the ids whose revoked_at is not NULL
    expired,    \* the ids whose expires_at has passed
    timed,      \* the ids whose expires_at is not NULL
    blobOf,     \* blob_id
    ownerOf,    \* owner_id
    rcptOf,     \* recipient_id
    \* the world
    urls,       \* the download URLs that still work, with who got them
    req,        \* program counter and locals of each request
    \* history
    usedBlobs,  \* the blob ids handed out so far
    usedShares  \* the share ids handed out so far

blobVars == <<blobs, uploaded, trashed, usedBlobs>>
shareVars == <<shares, revoked, expired, timed, blobOf, ownerOf, rcptOf, usedShares>>
vars == <<blobs, uploaded, trashed, shares, revoked, expired, timed, blobOf, ownerOf,
          rcptOf, urls, req, usedBlobs, usedShares>>

-----------------------------------------------------------------------------
\* Handlers

Labels == {"idle", "create.row", "get.info"}

Request == [pc : Labels, user : Users \cup {None}, blob : Blobs \cup {None},
            rcpt : Users \cup {None}, timed : BOOLEAN, share : ShareIds \cup {None}]

Idle == [pc |-> "idle", user |-> None, blob |-> None, rcpt |-> None, timed |-> FALSE,
         share |-> None]

Start(p, r) == req[p].pc = "idle" /\ req' = [req EXCEPT ![p] = r]
Finish(p) == req' = [req EXCEPT ![p] = Idle]

Url == [share : ShareIds, blob : Blobs, user : Users]

-----------------------------------------------------------------------------
\* Queries

\* deleted_at IS NULL; a pending upload qualifies.
GetBlobInfo(b) == b \in blobs /\ b \notin trashed

\* An account is found, and has a public key.
GetPublicKeyByEmail(r) == r \in Keyed

\* The partial unique index refuses a second row; an expired one counts.
DuplicateShare(b, r) ==
    \E s \in shares \ revoked : blobOf[s] = b /\ rcptOf[s] = r

\* Faulty variant: expired shares are filtered as in ListSharedWithUser.
ListUnexpiredShares(b, u) ==
    {s \in shares \ (revoked \cup expired) : blobOf[s] = b /\ ownerOf[s] = u}

ListSharesForBlob(b, u) == {s \in shares \ revoked : blobOf[s] = b /\ ownerOf[s] = u}

\* Faulty variant: revocation is not looked at.
validateExpiryOnly(s, u) == rcptOf[s] = u /\ s \notin expired

validateShareAccess(s, u) == rcptOf[s] = u /\ s \notin revoked /\ s \notin expired

-----------------------------------------------------------------------------
Init ==
    /\ blobs = {} /\ uploaded = {} /\ trashed = {}
    /\ shares = {} /\ revoked = {} /\ expired = {} /\ timed = {}
    /\ blobOf = [s \in ShareIds |-> None]
    /\ ownerOf = [s \in ShareIds |-> None]
    /\ rcptOf = [s \in ShareIds |-> None]
    /\ urls = {}
    /\ req = [p \in Reqs |-> Idle]
    /\ usedBlobs = {} /\ usedShares = {}

-----------------------------------------------------------------------------
\* CreateShare

CreateShare(p, u, b, r, t) ==
    /\ GetBlobInfo(b) /\ BlobOwner[b] = u
    /\ GetPublicKeyByEmail(r)
    /\ r # u
    /\ Start(p, [pc |-> "create.row", user |-> u, blob |-> b, rcpt |-> r, timed |-> t,
                 share |-> None])
    /\ UNCHANGED <<blobVars, shareVars, urls>>

InsertShare(s, r) ==
    /\ ownerOf' = [ownerOf EXCEPT ![s] = r.user]
    /\ rcptOf' = [rcptOf EXCEPT ![s] = r.rcpt]
    /\ blobOf' = [blobOf EXCEPT ![s] = r.blob]

\* Faulty variant: there is no unique index.
RefusedNever(r) == r.blob \notin blobs

\* What the foreign key and the unique index refuse.
Refused(r) == r.blob \notin blobs \/ DuplicateShare(r.blob, r.rcpt)

\* The INSERT; the blob may have gone to the trash meanwhile.
CreateShareRow(p) ==
    /\ req[p].pc = "create.row"
    /\ IF Refused(req[p])
       THEN UNCHANGED shareVars
       ELSE \E s \in ShareIds \ usedShares :
               /\ usedShares' = usedShares \cup {s}
               /\ shares' = shares \cup {s}
               /\ timed' = IF req[p].timed THEN timed \cup {s} ELSE timed
               /\ InsertShare(s, req[p])
               /\ UNCHANGED <<revoked, expired>>
    /\ Finish(p)
    /\ UNCHANGED <<blobVars, urls>>

-----------------------------------------------------------------------------
\* GetSharedFile and RevokeShare

\* GetShare and validateShareAccess; otherwise the caller gets an error.
GetSharedFile(p, u, s) ==
    /\ IF s \in shares /\ validateShareAccess(s, u)
       THEN Start(p, [Idle EXCEPT !.pc = "get.info", !.user = u, !.share = s,
                                  !.blob = blobOf[s]])
       ELSE req[p].pc = "idle" /\ UNCHANGED req
    /\ UNCHANGED <<blobVars, shareVars, urls>>

\* GetBlobInfo; signing the URL asks nobody.
SharedFileUrl(p) ==
    /\ req[p].pc = "get.info"
    /\ urls' = IF GetBlobInfo(req[p].blob)
               THEN urls \cup {[share |-> req[p].share, blob |-> req[p].blob,
                                user |-> req[p].user]}
               ELSE urls
    /\ Finish(p)
    /\ UNCHANGED <<blobVars, shareVars>>

\* One UPDATE.
Revocable(u, s) == s \in shares \ revoked /\ ownerOf[s] = u

RevokeShare(u, s) ==
    /\ Revocable(u, s)
    /\ revoked' = revoked \cup {s}
    /\ UNCHANGED <<blobVars, shares, expired, timed, blobOf, ownerOf, rcptOf, usedShares,
                   urls, req>>

-----------------------------------------------------------------------------
\* stored_blobs

RegisterBlob(b) ==
    /\ b \notin usedBlobs
    /\ blobs' = blobs \cup {b}
    /\ usedBlobs' = usedBlobs \cup {b}
    /\ UNCHANGED <<uploaded, trashed, shareVars, urls, req>>

ConfirmBlobUpload(b) ==
    /\ GetBlobInfo(b) /\ b \notin uploaded
    /\ uploaded' = uploaded \cup {b}
    /\ UNCHANGED <<blobs, trashed, usedBlobs, shareVars, urls, req>>

TrashBlob(b) ==
    /\ GetBlobInfo(b)
    /\ trashed' = trashed \cup {b}
    /\ UNCHANGED <<blobs, uploaded, usedBlobs, shareVars, urls, req>>

RestoreBlob(b) ==
    /\ b \in blobs \cap trashed
    /\ trashed' = trashed \ {b}
    /\ UNCHANGED <<blobs, uploaded, usedBlobs, shareVars, urls, req>>

\* Faulty variant: blob_id without ON DELETE CASCADE.
KeepShares(b) == UNCHANGED <<shares, revoked, expired, timed>>

\* ON DELETE CASCADE
CascadeShares(b) ==
    LET S == {s \in shares : blobOf[s] = b}
    IN  /\ shares' = shares \ S
        /\ revoked' = revoked \ S
        /\ expired' = expired \ S
        /\ timed' = timed \ S

\* A trashed blob is deleted for good, or a pending one is given up.
DeleteBlobRow(b) ==
    /\ b \in blobs
    /\ b \in trashed \/ b \notin uploaded
    /\ blobs' = blobs \ {b}
    /\ uploaded' = uploaded \ {b}
    /\ trashed' = trashed \ {b}
    /\ CascadeShares(b)
    /\ UNCHANGED <<usedBlobs, blobOf, ownerOf, rcptOf, usedShares, urls, req>>

-----------------------------------------------------------------------------
\* Time and failure

ExpireShare(s) ==
    /\ s \in timed \ expired
    /\ expired' = expired \cup {s}
    /\ UNCHANGED <<blobVars, shares, revoked, timed, blobOf, ownerOf, rcptOf, usedShares,
                   urls, req>>

\* PresignTTL has passed since the URL was signed.
ExpireUrl(x) ==
    /\ x \in urls
    /\ urls' = urls \ {x}
    /\ UNCHANGED <<blobVars, shareVars, req>>

\* A call of the handler fails, or its process dies.
Fail(p) ==
    /\ req[p].pc # "idle"
    /\ Finish(p)
    /\ UNCHANGED <<blobVars, shareVars, urls>>

-----------------------------------------------------------------------------
Next ==
    \/ \E p \in Reqs :
        \/ \E u, r \in Users : \E b \in Blobs : \E t \in BOOLEAN : CreateShare(p, u, b, r, t)
        \/ \E u \in Users : \E s \in ShareIds : GetSharedFile(p, u, s)
        \/ CreateShareRow(p)
        \/ SharedFileUrl(p)
        \/ Fail(p)
    \/ \E u \in Users : \E s \in ShareIds : RevokeShare(u, s)
    \/ \E b \in Blobs :
        \/ RegisterBlob(b)
        \/ ConfirmBlobUpload(b)
        \/ TrashBlob(b)
        \/ RestoreBlob(b)
        \/ DeleteBlobRow(b)
    \/ \E s \in ShareIds : ExpireShare(s)
    \/ \E x \in urls : ExpireUrl(x)

Spec == Init /\ [][Next]_vars

\* A handler ends, by its timeout at the latest, and a URL expires.
Fairness ==
    /\ \A p \in Reqs : WF_vars(CreateShareRow(p) \/ SharedFileUrl(p) \/ Fail(p))
    /\ \A x \in Url : WF_vars(ExpireUrl(x))

FairSpec == Spec /\ Fairness

-----------------------------------------------------------------------------
\* Properties

\* Every variable has its type.
TypeOK ==
    /\ blobs \subseteq usedBlobs /\ usedBlobs \subseteq Blobs
    /\ uploaded \subseteq blobs
    /\ trashed \subseteq blobs
    /\ shares \subseteq usedShares /\ usedShares \subseteq ShareIds
    /\ revoked \subseteq shares
    /\ timed \subseteq shares
    /\ expired \subseteq timed
    /\ blobOf \in [ShareIds -> Blobs \cup {None}]
    /\ ownerOf \in [ShareIds -> Users \cup {None}]
    /\ rcptOf \in [ShareIds -> Users \cup {None}]
    /\ urls \subseteq Url
    /\ req \in [Reqs -> Request]

\* A share always belongs to a file that exists and to the file's owner, and
\* goes to somebody else, although CreateShare reads the file and inserts the
\* share in two statements and the file may be deleted between them.  A URL that
\* still works, its share deleted or not, is of the shared file and in the hands
\* of the recipient its owner chose.
SharesMatchBlobs ==
    /\ \A s \in shares :
        /\ blobOf[s] \in blobs
        /\ ownerOf[s] = BlobOwner[blobOf[s]]
        /\ rcptOf[s] # ownerOf[s]
    /\ \A x \in urls :
        /\ x.user = rcptOf[x.share]
        /\ x.blob = blobOf[x.share]
        /\ x.user # BlobOwner[x.blob]

\* Whatever requests race, a file has one unrevoked share for each recipient
\* (migrations/000006_file_shares.up.sql:22), so that one RevokeShare ends a
\* recipient's access to it.
OneActiveShare ==
    \A s1, s2 \in shares \ revoked :
        blobOf[s1] = blobOf[s2] /\ rcptOf[s1] = rcptOf[s2] => s1 = s2

\* A share that stands in the way of sharing the file again, an expired one
\* too, is one the owner sees in ListSharesForBlob and can revoke there.
ObstacleIsListed ==
    \A b \in blobs, r \in Users :
        DuplicateShare(b, r) =>
            \E s \in ListSharesForBlob(b, BlobOwner[b]) :
                rcptOf[s] = r /\ Revocable(BlobOwner[b], s)

\* Once a share is revoked, expired or deleted, its recipient's access ends
\* for good: the URLs handed out before, and by the requests then in flight,
\* run out, and there are no new ones.
Over(s) == s \in usedShares /\ (s \notin shares \/ s \in revoked \cup expired)
AccessEnds == \A s \in ShareIds : Over(s) ~> [](\A x \in urls : x.share # s)
=============================================================================
