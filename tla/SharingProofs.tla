---------------------------- MODULE SharingProofs ----------------------------
(***************************************************************************)
(* Proofs about Sharing, for any number of accounts, files, shares and     *)
(* requests.                                                               *)
(***************************************************************************)
EXTENDS Sharing, TLAPS

\* What a handler read, and what a URL says, still agrees with the columns that
\* never change, although the rows may be gone.
LocalsInv ==
    /\ \A p \in Reqs :
        /\ req[p].pc = "create.row" =>
            /\ req[p].blob \in usedBlobs
            /\ req[p].user = BlobOwner[req[p].blob]
            /\ req[p].rcpt \in Users \ {req[p].user}
        /\ req[p].pc = "get.info" =>
            /\ req[p].share \in usedShares
            /\ req[p].blob \in Blobs
            /\ req[p].user \in Users
            /\ req[p].user = rcptOf[req[p].share]
            /\ req[p].blob = blobOf[req[p].share]
            /\ req[p].user # BlobOwner[req[p].blob]
    /\ \A x \in urls : x.share \in usedShares

\* The inductive invariant.
Inv == TypeOK /\ LocalsInv /\ SharesMatchBlobs /\ OneActiveShare

\* A step of request p leaves the locals of the other requests alone.
OnlyMoves(p) ==
    /\ req' \in [Reqs -> Request]
    /\ \A q \in Reqs \ {p} : req'[q] = req[q]

-----------------------------------------------------------------------------
\* The locals after each step

\* What a step does to the handlers.
LEMMA BecomeFacts ==
    ASSUME TypeOK, NEW p \in Reqs, NEW r \in Request, req' = [req EXCEPT ![p] = r]
    PROVE  OnlyMoves(p) /\ req'[p] = r
  BY DEF TypeOK, OnlyMoves

\* A handler that ends is idle again.
LEMMA FinishFacts ==
    ASSUME TypeOK, NEW p \in Reqs, Finish(p)
    PROVE  OnlyMoves(p) /\ req'[p].pc = "idle"
<1>1. Idle \in Request /\ Idle.pc = "idle"
  BY DEF Idle, Request, Labels
<1>2. QED
  BY <1>1, BecomeFacts DEF Finish

\* CreateShare goes on with a file of the caller and another account.
LEMMA CreateShareLocals ==
    ASSUME Inv, NEW p \in Reqs, NEW u \in Users, NEW r \in Users, NEW b \in Blobs,
           NEW t \in BOOLEAN, CreateShare(p, u, b, r, t)
    PROVE  /\ OnlyMoves(p)
           /\ req'[p].pc = "create.row"
           /\ req'[p].blob = b /\ b \in usedBlobs
           /\ req'[p].user = u /\ u = BlobOwner[b]
           /\ req'[p].rcpt = r /\ r # u
<1> DEFINE l == [pc |-> "create.row", user |-> u, blob |-> b, rcpt |-> r, timed |-> t,
                 share |-> None]
<1>1. l \in Request /\ l.pc = "create.row" /\ l.blob = b /\ l.user = u /\ l.rcpt = r
  BY DEF Request, Labels
<1>2. req' = [req EXCEPT ![p] = l] /\ b \in usedBlobs /\ u = BlobOwner[b] /\ r # u
  BY DEF CreateShare, Start, GetBlobInfo, Inv, TypeOK
<1> HIDE DEF l
<1>3. QED
  BY <1>1, <1>2, BecomeFacts DEF Inv

\* GetSharedFile goes on with a share of the caller, or refuses.
LEMMA GetSharedFileLocals ==
    ASSUME Inv, NEW p \in Reqs, NEW u \in Users, NEW s \in ShareIds, GetSharedFile(p, u, s)
    PROVE  \/ UNCHANGED req
           \/ /\ OnlyMoves(p)
              /\ s \in shares /\ validateShareAccess(s, u)
              /\ req'[p].pc = "get.info"
              /\ req'[p].user = u
              /\ req'[p].share = s
              /\ req'[p].blob = blobOf[s] /\ blobOf[s] \in Blobs
<1>1. CASE s \in shares /\ validateShareAccess(s, u)
  <2> DEFINE l == [Idle EXCEPT !.pc = "get.info", !.user = u, !.share = s, !.blob = blobOf[s]]
  <2>1. blobOf[s] \in Blobs
    BY <1>1 DEF Inv, SharesMatchBlobs, TypeOK
  <2>2. /\ l \in Request /\ l.pc = "get.info" /\ l.user = u /\ l.share = s
        /\ l.blob = blobOf[s]
    BY <2>1 DEF Request, Labels, Idle
  <2>3. req' = [req EXCEPT ![p] = l]
    BY <1>1 DEF GetSharedFile, Start
  <2> HIDE DEF l
  <2>4. QED
    BY <1>1, <2>1, <2>2, <2>3, BecomeFacts DEF Inv
<1>2. CASE ~(s \in shares /\ validateShareAccess(s, u))
  BY <1>2 DEF GetSharedFile
<1>3. QED
  BY <1>1, <1>2

\* The INSERT adds a row for what CreateShare read, unless it is refused.
LEMMA CreateShareRowFacts ==
    ASSUME Inv, NEW p \in Reqs, CreateShareRow(p)
    PROVE  /\ OnlyMoves(p) /\ req'[p].pc = "idle"
           /\ req[p].pc = "create.row"
           /\ UNCHANGED <<blobVars, urls>>
           /\ \/ UNCHANGED shareVars
              \/ \E s \in ShareIds \ usedShares :
                   /\ usedShares' = usedShares \cup {s}
                   /\ shares' = shares \cup {s}
                   /\ timed' \in {timed, timed \cup {s}}
                   /\ UNCHANGED <<revoked, expired>>
                   /\ blobOf' = [blobOf EXCEPT ![s] = req[p].blob]
                   /\ ownerOf' = [ownerOf EXCEPT ![s] = req[p].user]
                   /\ rcptOf' = [rcptOf EXCEPT ![s] = req[p].rcpt]
                   /\ req[p].blob \in blobs
                   /\ ~DuplicateShare(req[p].blob, req[p].rcpt)
<1>1. OnlyMoves(p) /\ req'[p].pc = "idle"
  BY FinishFacts DEF CreateShareRow, Inv
<1>2. req[p].pc = "create.row" /\ UNCHANGED <<blobVars, urls>>
  BY DEF CreateShareRow
<1>3. CASE Refused(req[p])
  BY <1>1, <1>2, <1>3 DEF CreateShareRow
<1>4. CASE ~Refused(req[p])
  <2>1. PICK s \in ShareIds \ usedShares :
          /\ usedShares' = usedShares \cup {s}
          /\ shares' = shares \cup {s}
          /\ timed' = IF req[p].timed THEN timed \cup {s} ELSE timed
          /\ InsertShare(s, req[p])
          /\ UNCHANGED <<revoked, expired>>
    BY <1>4 DEF CreateShareRow
  <2>2. timed' \in {timed, timed \cup {s}}
    BY <2>1
  <2>3. req[p].blob \in blobs /\ ~DuplicateShare(req[p].blob, req[p].rcpt)
    BY <1>4 DEF Refused
  <2>4. QED
    BY <1>1, <1>2, <2>1, <2>2, <2>3 DEF InsertShare
<1>5. QED
  BY <1>3, <1>4

-----------------------------------------------------------------------------
\* The invariant

\* There is nothing to share initially.
LEMMA InitInv == Init => Inv
  BY DEF Init, Inv, TypeOK, LocalsInv, SharesMatchBlobs, OneActiveShare, Request, Idle, Labels

\* Every step of every handler, and every change of the files, keeps it.
LEMMA NextInv == Inv /\ [Next]_vars => Inv'
<1> SUFFICES ASSUME Inv, [Next]_vars PROVE Inv'
  OBVIOUS
<1> USE UsersAssumption, BlobsAssumption, SharesAssumption
<1> USE DEF blobVars, shareVars
<1>t. TypeOK /\ LocalsInv /\ SharesMatchBlobs /\ OneActiveShare
  BY DEF Inv
<1>1. ASSUME NEW p \in Reqs, NEW u \in Users, NEW r \in Users, NEW b \in Blobs,
             NEW t \in BOOLEAN, CreateShare(p, u, b, r, t)
      PROVE  Inv'
  <2>1. /\ OnlyMoves(p)
        /\ req'[p].pc = "create.row"
        /\ req'[p].blob = b /\ b \in usedBlobs
        /\ req'[p].user = u /\ u = BlobOwner[b]
        /\ req'[p].rcpt = r /\ r # u
    BY <1>1, CreateShareLocals
  <2>2. UNCHANGED <<blobVars, shareVars, urls>>
    BY <1>1 DEF CreateShare
  <2>3. TypeOK' /\ SharesMatchBlobs' /\ OneActiveShare'
    BY <1>t, <2>1, <2>2 DEF TypeOK, SharesMatchBlobs, OneActiveShare, OnlyMoves
  <2>4. LocalsInv'
    BY <1>t, <2>1, <2>2 DEF LocalsInv, OnlyMoves
  <2>5. QED
    BY <2>3, <2>4 DEF Inv
<1>2. ASSUME NEW p \in Reqs, NEW u \in Users, NEW s \in ShareIds, GetSharedFile(p, u, s)
      PROVE  Inv'
  <2>1. UNCHANGED <<blobVars, shareVars, urls>>
    BY <1>2 DEF GetSharedFile
  <2>2. CASE UNCHANGED req
    BY <1>t, <2>1, <2>2 DEF Inv, TypeOK, LocalsInv, SharesMatchBlobs, OneActiveShare
  <2>3. CASE /\ OnlyMoves(p)
             /\ s \in shares /\ validateShareAccess(s, u)
             /\ req'[p].pc = "get.info"
             /\ req'[p].user = u
             /\ req'[p].share = s
             /\ req'[p].blob = blobOf[s] /\ blobOf[s] \in Blobs
    <3>1. TypeOK' /\ SharesMatchBlobs' /\ OneActiveShare'
      BY <1>t, <2>1, <2>3 DEF TypeOK, SharesMatchBlobs, OneActiveShare, OnlyMoves
    <3>2. u = rcptOf[s] /\ u # BlobOwner[blobOf[s]] /\ s \in usedShares
      BY <1>t, <2>3 DEF validateShareAccess, SharesMatchBlobs, TypeOK
    <3>3. LocalsInv'
      BY <1>t, <2>1, <2>3, <3>2 DEF LocalsInv, OnlyMoves
    <3>4. QED
      BY <3>1, <3>3 DEF Inv
  <2>4. QED
    BY <1>2, <2>2, <2>3, GetSharedFileLocals
<1>3. ASSUME NEW p \in Reqs, CreateShareRow(p) PROVE Inv'
  <2>1. OnlyMoves(p) /\ req'[p].pc = "idle" /\ UNCHANGED <<blobVars, urls>>
    BY <1>3, CreateShareRowFacts
  <2>2. CASE UNCHANGED shareVars
    BY <1>t, <2>1, <2>2
       DEF Inv, TypeOK, LocalsInv, SharesMatchBlobs, OneActiveShare, OnlyMoves
  <2>3. ASSUME NEW s \in ShareIds \ usedShares,
               usedShares' = usedShares \cup {s},
               shares' = shares \cup {s},
               timed' \in {timed, timed \cup {s}},
               UNCHANGED <<revoked, expired>>,
               blobOf' = [blobOf EXCEPT ![s] = req[p].blob],
               ownerOf' = [ownerOf EXCEPT ![s] = req[p].user],
               rcptOf' = [rcptOf EXCEPT ![s] = req[p].rcpt],
               req[p].blob \in blobs,
               ~DuplicateShare(req[p].blob, req[p].rcpt)
        PROVE  Inv'
    <3>1. /\ req[p].blob \in Blobs
          /\ req[p].user = BlobOwner[req[p].blob] /\ req[p].user \in Users
          /\ req[p].rcpt \in Users /\ req[p].rcpt # req[p].user
      BY <1>3, <1>t, CreateShareRowFacts DEF LocalsInv, TypeOK
    <3>2. /\ blobOf'[s] = req[p].blob /\ ownerOf'[s] = req[p].user /\ rcptOf'[s] = req[p].rcpt
          /\ \A k \in usedShares :
               /\ k # s
               /\ blobOf'[k] = blobOf[k] /\ ownerOf'[k] = ownerOf[k] /\ rcptOf'[k] = rcptOf[k]
      BY <1>t, <2>3 DEF TypeOK
    <3>3. TypeOK'
      BY <1>t, <2>1, <2>3, <3>1 DEF TypeOK, OnlyMoves
    <3>4. LocalsInv'
      BY <1>t, <2>1, <2>3, <3>2 DEF LocalsInv, OnlyMoves
    <3>5. SharesMatchBlobs'
      BY <1>t, <2>1, <2>3, <3>1, <3>2 DEF SharesMatchBlobs, LocalsInv, TypeOK
    <3>6. OneActiveShare'
      BY <1>t, <2>3, <3>2 DEF OneActiveShare, DuplicateShare, TypeOK
    <3>7. QED
      BY <3>3, <3>4, <3>5, <3>6 DEF Inv
  <2>4. QED
    BY <1>3, <2>2, <2>3, CreateShareRowFacts
<1>4. ASSUME NEW p \in Reqs, SharedFileUrl(p) PROVE Inv'
  <2>1. OnlyMoves(p) /\ req'[p].pc = "idle" /\ UNCHANGED <<blobVars, shareVars>>
    BY <1>4, <1>t, FinishFacts DEF SharedFileUrl
  <2> DEFINE x == [share |-> req[p].share, blob |-> req[p].blob, user |-> req[p].user]
  <2>2. urls' \subseteq urls \cup {x}
    BY <1>4 DEF SharedFileUrl
  <2>3. /\ x \in Url
        /\ x.share \in usedShares
        /\ x.user = rcptOf[x.share]
        /\ x.blob = blobOf[x.share]
        /\ x.user # BlobOwner[x.blob]
    BY <1>4, <1>t DEF SharedFileUrl, LocalsInv, TypeOK, Url
  <2> HIDE DEF x
  <2>4. TypeOK' /\ OneActiveShare'
    BY <1>t, <2>1, <2>2, <2>3 DEF TypeOK, OneActiveShare, OnlyMoves
  <2>5. LocalsInv' /\ SharesMatchBlobs'
    BY <1>t, <2>1, <2>2, <2>3 DEF LocalsInv, SharesMatchBlobs, OnlyMoves
  <2>6. QED
    BY <2>4, <2>5 DEF Inv
<1>5. ASSUME NEW p \in Reqs, Fail(p) PROVE Inv'
  <2>1. OnlyMoves(p) /\ req'[p].pc = "idle" /\ UNCHANGED <<blobVars, shareVars, urls>>
    BY <1>5, <1>t, FinishFacts DEF Fail
  <2>2. QED
    BY <1>t, <2>1 DEF Inv, TypeOK, LocalsInv, SharesMatchBlobs, OneActiveShare, OnlyMoves
<1>6. ASSUME NEW u \in Users, NEW s \in ShareIds, RevokeShare(u, s) PROVE Inv'
  BY <1>t, <1>6 DEF RevokeShare, Revocable, Inv, TypeOK, LocalsInv, SharesMatchBlobs,
     OneActiveShare
<1>7. ASSUME NEW b \in Blobs, RegisterBlob(b) PROVE Inv'
  BY <1>t, <1>7 DEF RegisterBlob, Inv, TypeOK, LocalsInv, SharesMatchBlobs, OneActiveShare
<1>8. ASSUME NEW b \in Blobs, ConfirmBlobUpload(b) PROVE Inv'
  BY <1>t, <1>8 DEF ConfirmBlobUpload, GetBlobInfo, Inv, TypeOK, LocalsInv, SharesMatchBlobs,
     OneActiveShare
<1>9. ASSUME NEW b \in Blobs, TrashBlob(b) PROVE Inv'
  BY <1>t, <1>9 DEF TrashBlob, GetBlobInfo, Inv, TypeOK, LocalsInv, SharesMatchBlobs,
     OneActiveShare
<1>10. ASSUME NEW b \in Blobs, RestoreBlob(b) PROVE Inv'
  BY <1>t, <1>10 DEF RestoreBlob, Inv, TypeOK, LocalsInv, SharesMatchBlobs, OneActiveShare
<1>11. ASSUME NEW b \in Blobs, DeleteBlobRow(b) PROVE Inv'
  BY <1>t, <1>11 DEF DeleteBlobRow, CascadeShares, Inv, TypeOK, LocalsInv, SharesMatchBlobs,
     OneActiveShare
<1>12. ASSUME NEW s \in ShareIds, ExpireShare(s) PROVE Inv'
  BY <1>t, <1>12 DEF ExpireShare, Inv, TypeOK, LocalsInv, SharesMatchBlobs, OneActiveShare
<1>13. ASSUME NEW x \in urls, ExpireUrl(x) PROVE Inv'
  BY <1>t, <1>13 DEF ExpireUrl, Inv, TypeOK, LocalsInv, SharesMatchBlobs, OneActiveShare
<1>14. CASE UNCHANGED vars
  BY <1>t, <1>14 DEF vars, Inv, TypeOK, LocalsInv, SharesMatchBlobs, OneActiveShare
<1>15. QED
  BY <1>1, <1>2, <1>3, <1>4, <1>5, <1>6, <1>7, <1>8, <1>9, <1>10, <1>11, <1>12, <1>13, <1>14
     DEF Next

\* The invariant holds in every reachable state.
LEMMA Invariant == Spec => []Inv
  BY InitInv, NextInv, PTL DEF Spec

-----------------------------------------------------------------------------
\* Theorems

\* Every variable and every local of every handler has its type.
THEOREM TypeCorrect == Spec => []TypeOK
<1>1. Inv => TypeOK
  BY DEF Inv
<1>2. QED
  BY <1>1, Invariant, PTL

\* The check of the owner in CreateShare and the foreign key with its cascade
\* are enough: no share outlives its file, none is given by anybody but the
\* owner, and a URL is with the recipient of its share.
THEOREM SharesBelongToOwners == Spec => []SharesMatchBlobs
<1>1. Inv => SharesMatchBlobs
  BY DEF Inv
<1>2. QED
  BY <1>1, Invariant, PTL

\* Two requests that share one file with one account at once leave one share.
THEOREM NoDoubleShare == Spec => []OneActiveShare
<1>1. Inv => OneActiveShare
  BY DEF Inv
<1>2. QED
  BY <1>1, Invariant, PTL

\* What keeps the owner from sharing again can be seen and revoked.
THEOREM ObstaclesAreListed == Spec => []ObstacleIsListed
<1>1. Inv => ObstacleIsListed
  BY DEF Inv, SharesMatchBlobs, ObstacleIsListed, DuplicateShare, ListSharesForBlob, Revocable
<1>2. QED
  BY <1>1, Invariant, PTL

-----------------------------------------------------------------------------
\* The end of a share

\* The share is over, no request has read it before and no URL works for it.
Ended(s) ==
    /\ Over(s)
    /\ \A p \in Reqs : req[p].pc = "get.info" => req[p].share # s
    /\ \A x \in urls : x.share # s

\* Nothing a handler does revives a share that is over: ids are used once, and
\* only the cascade takes a share out of revoked and expired.
LEMMA OverStaysOver ==
    ASSUME Inv, [Next]_vars, NEW s \in ShareIds, Over(s)
    PROVE  Over(s)'
<1> USE DEF blobVars, shareVars, Over
<1>1. ASSUME NEW p \in Reqs, CreateShareRow(p) PROVE Over(s)'
  BY <1>1, CreateShareRowFacts
<1>2. ASSUME NEW u \in Users, NEW k \in ShareIds, RevokeShare(u, k) PROVE Over(s)'
  BY <1>2 DEF RevokeShare
<1>3. ASSUME NEW b \in Blobs, DeleteBlobRow(b) PROVE Over(s)'
  BY <1>3 DEF DeleteBlobRow, CascadeShares
<1>4. ASSUME NEW k \in ShareIds, ExpireShare(k) PROVE Over(s)'
  BY <1>4 DEF ExpireShare
<1>5. CASE UNCHANGED shareVars
  BY <1>5
<1>6. QED
  BY <1>1, <1>2, <1>3, <1>4, <1>5 DEF Next, vars, CreateShare, GetSharedFile, SharedFileUrl,
     Fail, RegisterBlob, ConfirmBlobUpload, TrashBlob, RestoreBlob, ExpireUrl

\* No request reads a share that is over.
LEMMA EndedStaysEnded ==
    ASSUME Inv, [Next]_vars, NEW s \in ShareIds, Ended(s)
    PROVE  Ended(s)'
<1>t. TypeOK /\ Over(s)'
  BY OverStaysOver DEF Inv, Ended
<1>1. ASSUME NEW p \in Reqs, OnlyMoves(p), req'[p].pc # "get.info", UNCHANGED urls
      PROVE  Ended(s)'
  BY <1>t, <1>1 DEF Ended, OnlyMoves
<1>2. ASSUME NEW p \in Reqs, NEW u \in Users, NEW k \in ShareIds, GetSharedFile(p, u, k)
      PROVE  Ended(s)'
  <2>1. UNCHANGED urls
    BY <1>2 DEF GetSharedFile
  <2>2. CASE UNCHANGED req
    BY <1>t, <2>1, <2>2 DEF Ended
  <2>3. CASE OnlyMoves(p) /\ k \in shares /\ validateShareAccess(k, u) /\ req'[p].share = k
    <3>1. k # s
      BY <2>3 DEF Ended, Over, validateShareAccess
    <3>2. QED
      BY <1>t, <2>1, <2>3, <3>1 DEF Ended, OnlyMoves
  <2>4. QED
    BY <1>2, <2>2, <2>3, GetSharedFileLocals
<1>3. ASSUME NEW p \in Reqs, NEW u \in Users, NEW r \in Users, NEW b \in Blobs,
             NEW t \in BOOLEAN, CreateShare(p, u, b, r, t)
      PROVE  Ended(s)'
  BY <1>1, <1>3, CreateShareLocals DEF CreateShare
<1>4. ASSUME NEW p \in Reqs, CreateShareRow(p) PROVE Ended(s)'
  BY <1>1, <1>4, CreateShareRowFacts
<1>5. ASSUME NEW p \in Reqs, SharedFileUrl(p) PROVE Ended(s)'
  <2>1. OnlyMoves(p) /\ req'[p].pc = "idle" /\ req[p].share # s
    BY <1>5, <1>t, FinishFacts DEF SharedFileUrl, Ended
  <2>2. \A x \in urls' : x.share # s
    BY <1>5, <2>1 DEF SharedFileUrl, Ended
  <2>3. QED
    BY <1>t, <2>1, <2>2 DEF Ended, OnlyMoves
<1>6. ASSUME NEW p \in Reqs, Fail(p) PROVE Ended(s)'
  BY <1>1, <1>6, <1>t, FinishFacts DEF Fail
<1>7. ASSUME NEW x \in urls, ExpireUrl(x) PROVE Ended(s)'
  BY <1>t, <1>7 DEF ExpireUrl, Ended
<1>8. CASE UNCHANGED <<urls, req>>
  BY <1>t, <1>8 DEF Ended
<1>9. QED
  BY <1>2, <1>3, <1>4, <1>5, <1>6, <1>7, <1>8 DEF Next, vars, RevokeShare, RegisterBlob,
     ConfirmBlobUpload, TrashBlob, RestoreBlob, DeleteBlobRow, ExpireShare

\* The safety half of AccessEnds: once a revoked, expired or deleted share has
\* no URL and no request left that read it before, its recipient never gets
\* another URL, whoever asks and whatever happens to the file.
THEOREM EndIsFinal ==
    ASSUME NEW s \in ShareIds
    PROVE  Spec => [](Ended(s) => [](\A x \in urls : x.share # s))
<1>1. Inv /\ [Next]_vars /\ Ended(s) => Ended(s)'
  BY EndedStaysEnded
<1>2. Ended(s) => \A x \in urls : x.share # s
  BY DEF Ended
<1>3. QED
  BY <1>1, <1>2, Invariant, PTL DEF Spec
=============================================================================
