------------------------------- MODULE StorageApi -------------------------------
(***************************************************************************)
(* The handlers of internal/controller/restapi/v1 that change files,       *)
(* folders and shares, on top of the use cases, together with the audit    *)
(* trail they write.                                                       *)
(*                                                                         *)
(* A handler calls its use case, reports what the use case did with        *)
(* LogAsync, and only then answers.  Other requests, the clean-up jobs,    *)
(* the worker of AuditTrail and the end of the process fall in between.    *)
(* A use case is one step here, with what it takes along: the files of a   *)
(* folder, the shares of a file.  Its statements, and the races between    *)
(* them, are in BlobLifecycle, FolderTree and Sharing; the two use cases   *)
(* that commit twice (HardDeleteBlob, EmptyTrash) are two steps.  A        *)
(* request that is refused changes and reports nothing, and is no step.    *)
(* Folders hold files and no folders here: a folder within another would   *)
(* be taken along like a file.                                             *)
(*                                                                         *)
(* A claim is an event that a handler will report.  It names one thing as  *)
(* its resource, and says where that thing and what is taken along with it *)
(* are now; an event that moves nothing (a download, a new name, a new     *)
(* place) says nothing.                                                    *)
(***************************************************************************)
EXTENDS AuditTrail, FiniteSets

CONSTANTS
    Files,       \* the files there may ever be
    Folders,     \* the folders there may ever be
    Shares,      \* the shares there may ever be
    SharedFile,  \* the file a share is of
    OwnerReqs,   \* the requests the owner may have in flight at once
    GuestReqs,   \* the requests the recipient of the shares may have in flight
    Start,       \* where things may stand at first, as functions
    None         \* the value of an unused local

ASSUME ThingsAssumption ==
    /\ Files \cap (Folders \cup Shares) = {} /\ Folders \cap Shares = {}
    /\ SharedFile \in [Shares -> Files]
    /\ OwnerReqs \cap GuestReqs = {} /\ None \notin Files \cup Folders
    /\ IsFiniteSet(Files) /\ IsFiniteSet(Folders) /\ IsFiniteSet(OwnerReqs)

Things == Files \cup Folders \cup Shares
Reqs == OwnerReqs \cup GuestReqs

\* The states of a file.  A share is "listed" while it is active.
States == {"none", "draft", "listed", "binnedDraft", "binned", "gone"}
FolderStates == {"none", "listed", "binned", "gone"}
ShareStates == {"none", "listed", "gone"}
InTrash == {"binnedDraft", "binned"}
Live == {"draft", "listed"}

\* The states that a thing of its kind can be in.
Standings ==
    {st \in [Things -> States] :
        /\ \A f \in Folders : st[f] \in FolderStates
        /\ \A s \in Shares : st[s] \in ShareStates}

Homes == [Files -> Folders \cup {None}]

ASSUME StartAssumption == Start \subseteq [state : Standings, home : Homes]

VARIABLES
    state,     \* where each file, folder and share stands
    home,      \* the folder of each file, None for the root
    req,       \* where each request is, and the claims it has yet to report
    \* history
    story,     \* the claims, in the order in which the changes were made
    claimOf    \* the claim that each event of the audit trail reports

auditVars == <<queue, pc, hand, attempt, table, phase, logged, warned, gone>>
apiVars == <<state, home, req, story, claimOf>>
allVars == <<queue, pc, hand, attempt, table, phase, logged, warned, gone,
             state, home, req, story, claimOf>>

\* on is the resource of the event, now where the things it tells of are.
Claim == [on : Things, now : UNION {[S -> States] : S \in SUBSET Things}]

Places == {"idle", "hard.row", "empty.folders", "report", "answer"}

\* claims are the claims of story yet to be reported, made all of them.  moved
\* has, for each thing that the request showed or hid, the things whose events
\* tell of it.
Request == [at : Places, file : Files \cup {None}, claims : Seq(Events),
            made : SUBSET Events, moved : SUBSET SUBSET (Things \cup {None})]
Quiet == [at |-> "idle", file |-> None, claims |-> <<>>, made |-> {}, moved |-> {}]

\* The trail is read from some moment on: things may be there already.
ApiInit ==
    /\ Init
    /\ \E at \in Start : state = at.state /\ home = at.home
    /\ req = [p \in Reqs |-> Quiet]
    /\ story = <<>>
    /\ claimOf = <<>>

-----------------------------------------------------------------------------
\* Requests

\* A request arrives while the server accepts connections.
Arrive(p) == phase = "serve" /\ req[p].at = "idle"

\* The page that shows a thing in this state: ListBlobs and ListFolders leave
\* drafts out, the trash has them.
Page(st) == CASE st = "listed" -> "drive" [] st \in InTrash -> "trash" [] OTHER -> "none"

\* A thing goes with its folder, and a share with its file.
FileOf(r) == IF r \in Shares THEN SharedFile[r] ELSE r
GoesWith(r) == {r, FileOf(r)} \cup {home[x] : x \in Files \cap {FileOf(r)}}

\* What this step shows or hides.  The share of a draft does not count: when the
\* upload is aborted, it goes without an event.
Shifted ==
    {r \in Things : /\ Page(state'[r]) # Page(state[r])
                    /\ r \in Shares => state[SharedFile[r]] # "draft"}

\* The use case of request p has made its changes, with the claims C, after
\* those it made before, and goes on.
Made(p, C, place) ==
    /\ Len(story) + Len(C) <= MaxEvents
    /\ story' = story \o C
    /\ LET new == [i \in 1..Len(C) |-> Len(story) + i]
       IN  req' = [req EXCEPT ![p] = [at |-> place, file |-> None,
                                      claims |-> @.claims \o new,
                                      made |-> @.made \cup ToSet(new),
                                      moved |-> @.moved \cup {GoesWith(r) : r \in Shifted}]]

\* The use case moves the things of S as step says, and the handler reports it
\* as an event of thing r.
MovedAll(p, r, S, step) ==
    /\ Arrive(p)
    /\ \A x \in S : state[x] \in DOMAIN step
    /\ state' = [x \in Things |-> IF x \in S THEN step[state[x]] ELSE state[x]]
    /\ Made(p, <<[on |-> r, now |-> [x \in S |-> step[state[x]]]]>>, "report")
    /\ UNCHANGED <<auditVars, claimOf>>

Moved(p, r, step) == MovedAll(p, r, {r}, step) /\ UNCHANGED home

\* An event of thing r that moves nothing.
Told(p, r) == MovedAll(p, r, {}, <<>>)

\* ON DELETE CASCADE: the shares of a file go with it.
DeleteAll(S) ==
    LET cascade == {s \in Shares : SharedFile[s] \in S /\ state[s] # "none"}
    IN  state' = [r \in Things |-> IF r \in S \cup cascade THEN "gone" ELSE state[r]]

\* The files of folder f that are in the states T.
FilesIn(f, T) == {x \in Files : home[x] = f /\ state[x] \in T}

\* The claim that r and what goes with it are gone, and one for each thing of S.
GoneClaim(r) ==
    [on |-> r, now |-> [x \in {r} \cup FilesIn(r, Live \cup InTrash) |-> "gone"]]
GoneClaims(S) ==
    LET order == SetToSeq(S)
    IN  [i \in 1..Len(order) |-> GoneClaim(order[i])]

\* Things of S, with the files of the folders among them.
WithFiles(S) == S \cup UNION {FilesIn(f, Live \cup InTrash) : f \in S}

\* Faulty variant: the handler answers after its first event.
ReportFirst(p) ==
    /\ req[p].at = "report"
    /\ LogAsync
    /\ claimOf' = Append(claimOf, Head(req[p].claims))
    /\ req' = [req EXCEPT ![p].claims = <<>>, ![p].at = "answer"]
    /\ UNCHANGED <<state, home, story>>

\* The next event of the handler.
Report(p) ==
    /\ req[p].at = "report"
    /\ LogAsync
    /\ claimOf' = Append(claimOf, Head(req[p].claims))
    /\ LET left == Tail(req[p].claims)
       IN  req' = [req EXCEPT ![p].claims = left,
                              ![p].at = IF left = <<>> THEN "answer" ELSE "report"]
    /\ UNCHANGED <<state, home, story>>

\* WriteHeader, or WriteJSON.
Answer(p) ==
    /\ req[p].at = "answer"
    /\ req' = [req EXCEPT ![p] = Quiet]
    /\ UNCHANGED <<auditVars, state, home, story, claimOf>>

\* The use case returns an error: its next statement failed, or the last one was
\* committed and the answer was lost.  Nothing it did is reported.
UseCaseFails(p) ==
    /\ Faults
    /\ \/ req[p].at \in {"hard.row", "empty.folders"}
       \/ req[p].at = "report" /\ Len(req[p].claims) = Cardinality(req[p].made)
    /\ req' = [req EXCEPT ![p] = Quiet]
    /\ UNCHANGED <<auditVars, state, home, story, claimOf>>

-----------------------------------------------------------------------------
\* storage.go

\* The root, or a folder that requireFolder finds.
Target(f) == f = None \/ (f \in Folders /\ state[f] = "listed")

\* The start of an upload is answered without an event, and so is its abort.
storageInitiateMultipart(p, x, f) ==
    /\ Arrive(p) /\ state[x] = "none" /\ Target(f)
    /\ state' = [state EXCEPT ![x] = "draft"]
    /\ home' = [home EXCEPT ![x] = f]
    /\ Made(p, <<>>, "answer")
    /\ UNCHANGED <<auditVars, claimOf>>

storageCompleteMultipart(p, x) == Moved(p, x, [draft |-> "listed"])

storageAbortUpload(p, x) ==
    /\ Arrive(p) /\ state[x] = "draft"
    /\ DeleteAll({x})
    /\ Made(p, <<>>, "answer")
    /\ UNCHANGED <<auditVars, home, claimOf>>

storagePresignGet(p, x) == state[x] = "listed" /\ Told(p, x) /\ UNCHANGED home
renameBlob(p, x) == state[x] \in Live /\ Told(p, x) /\ UNCHANGED home
storageDeleteBlob(p, x) == Moved(p, x, [draft |-> "binnedDraft", listed |-> "binned"])

-----------------------------------------------------------------------------
\* trash.go

\* Faulty variant: ErrNotFound is not looked at.
restoreAlwaysReported(p, x) ==
    /\ Arrive(p)
    /\ UNCHANGED <<state, home>>
    /\ Made(p, <<[on |-> x, now |-> [r \in {x} |-> "listed"]]>>, "report")
    /\ UNCHANGED <<auditVars, claimOf>>

Restored == [binnedDraft |-> "draft", binned |-> "listed"]

\* A file whose folder is not there goes to the root.
trashRestoreBlob(p, x) ==
    /\ MovedAll(p, x, {x}, Restored)
    /\ home' = [home EXCEPT ![x] = IF Target(@) THEN @ ELSE None]

\* HardDeleteBlob looks at the row, and deletes it in a later step; it does not
\* ask whether it did.
trashDeleteBlob(p, x) ==
    /\ Arrive(p) /\ state[x] \in InTrash
    /\ req' = [req EXCEPT ![p] = [Quiet EXCEPT !.at = "hard.row", !.file = x]]
    /\ UNCHANGED <<auditVars, state, home, story, claimOf>>

trashDeleteBlobRow(p) ==
    /\ req[p].at = "hard.row"
    /\ IF state[req[p].file] \in InTrash THEN DeleteAll({req[p].file}) ELSE UNCHANGED state
    /\ Made(p, <<[on |-> req[p].file, now |-> [x \in {req[p].file} |-> "gone"]]>>, "report")
    /\ UNCHANGED <<auditVars, home, claimOf>>

\* A folder comes back with every file in it, whenever that was trashed.
trashRestoreFolder(p, f) ==
    /\ state[f] = "binned"
    /\ MovedAll(p, f, {f} \cup FilesIn(f, InTrash), Restored)
    /\ UNCHANGED home

\* A folder goes with every file in it.
trashDeleteFolder(p, f) ==
    /\ Arrive(p) /\ state[f] = "binned"
    /\ DeleteAll(WithFiles({f}))
    /\ Made(p, <<GoneClaim(f)>>, "report")
    /\ UNCHANGED <<auditVars, home, claimOf>>

\* EmptyTrash deletes the files first, and the folders in a later step.
trashEmpty(p) ==
    LET S == {x \in Files : state[x] \in InTrash}
    IN  /\ Arrive(p)
        /\ DeleteAll(S)
        /\ Made(p, GoneClaims(S), "empty.folders")
        /\ UNCHANGED <<auditVars, home, claimOf>>

\* The files that are in those folders by now go with them, without events.
trashEmptyFolders(p) ==
    LET S == {f \in Folders : state[f] = "binned"}
    IN  /\ req[p].at = "empty.folders"
        /\ DeleteAll(WithFiles(S))
        /\ Made(p, GoneClaims(S), IF S = {} /\ req[p].claims = <<>> THEN "answer" ELSE "report")
        /\ UNCHANGED <<auditVars, home, claimOf>>

-----------------------------------------------------------------------------
\* folders.go

createFolder(p, f) == Moved(p, f, [none |-> "listed"])
renameFolder(p, f) == state[f] = "listed" /\ Told(p, f) /\ UNCHANGED home
moveFolder(p, f) == state[f] = "listed" /\ Told(p, f) /\ UNCHANGED home

\* A folder goes to the trash with the files in it; the event is of the folder.
deleteFolder(p, f) ==
    /\ state[f] = "listed"
    /\ MovedAll(p, f, {f} \cup FilesIn(f, Live), [draft |-> "binnedDraft", listed |-> "binned"])
    /\ UNCHANGED home

moveBlob(p, x, f) ==
    /\ state[x] \in Live /\ Target(f)
    /\ Told(p, x)
    /\ home' = [home EXCEPT ![x] = f]

-----------------------------------------------------------------------------
\* sharing.go.  The events of createShare and getSharedFile have the file as
\* their resource.

createShare(p, s) ==
    /\ state[SharedFile[s]] \in Live
    /\ MovedAll(p, SharedFile[s], {s}, [none |-> "listed"])
    /\ UNCHANGED home

\* The recipient's request; the event is the owner's.
getSharedFile(p, s) ==
    /\ state[SharedFile[s]] \in Live /\ state[s] = "listed"
    /\ Told(p, SharedFile[s])
    /\ UNCHANGED home

revokeShare(p, s) == Moved(p, s, [listed |-> "gone"])

-----------------------------------------------------------------------------
\* The clean-up jobs report nothing.
Purge(r) ==
    /\ Up /\ state[r] \in InTrash \cup {"draft"}
    /\ DeleteAll(WithFiles({r}))
    /\ UNCHANGED <<auditVars, home, req, story, claimOf>>

\* The process takes its requests with it.
ApiExit ==
    /\ Exit
    /\ req' = [p \in Reqs |-> Quiet]
    /\ UNCHANGED <<state, home, story, claimOf>>

Background == (Worker \/ Stop \/ Restart) /\ UNCHANGED apiVars

Continue(p) == trashDeleteBlobRow(p) \/ trashEmptyFolders(p) \/ Report(p) \/ Answer(p)

ApiNext ==
    \/ \E p \in OwnerReqs :
        \/ \E x \in Files :
            \/ storageCompleteMultipart(p, x) \/ storageAbortUpload(p, x)
            \/ storagePresignGet(p, x) \/ renameBlob(p, x) \/ storageDeleteBlob(p, x)
            \/ trashRestoreBlob(p, x) \/ trashDeleteBlob(p, x)
            \/ \E f \in Folders \cup {None} :
                storageInitiateMultipart(p, x, f) \/ moveBlob(p, x, f)
        \/ \E f \in Folders :
            \/ createFolder(p, f) \/ renameFolder(p, f) \/ moveFolder(p, f)
            \/ deleteFolder(p, f) \/ trashRestoreFolder(p, f) \/ trashDeleteFolder(p, f)
        \/ \E s \in Shares : createShare(p, s) \/ revokeShare(p, s)
        \/ trashEmpty(p)
    \/ \E p \in GuestReqs, s \in Shares : getSharedFile(p, s)
    \/ \E p \in Reqs : Continue(p) \/ UseCaseFails(p)
    \/ \E r \in Files \cup Folders : Purge(r)
    \/ Background
    \/ ApiExit

ApiSpec == ApiInit /\ [][ApiNext]_allVars

ApiFairness ==
    /\ WF_allVars(Worker /\ UNCHANGED apiVars)
    /\ WF_allVars(phase # "serve" /\ Stop /\ UNCHANGED apiVars)
    /\ WF_allVars(phase = "cancelled" /\ ApiExit)
    /\ WF_allVars(Restart /\ UNCHANGED apiVars)
    /\ \A p \in Reqs : WF_allVars(Continue(p))

ApiFairSpec == ApiSpec /\ ApiFairness

-----------------------------------------------------------------------------
\* Properties

\* Every variable has its type, and only files and folders are ever in the trash.
\* Claims are positions in story.
ApiTypeOK ==
    /\ state \in Standings /\ home \in Homes
    /\ req \in [Reqs -> Request]
    /\ story \in Seq(Claim) /\ Len(story) <= MaxEvents
    /\ claimOf \in Seq(Events) /\ Len(claimOf) = logged
    /\ \A p \in Reqs : ToSet(req[p].claims) \cup req[p].made \subseteq 1..Len(story)
    /\ ToSet(claimOf) \subseteq 1..Len(story)

\* Before a request is confirmed, an event has been handed to the audit trail for
\* everything that it brought to a page of the user, moved between the drive and
\* the trash or took away: an event of the thing itself, of the folder it went
\* with, or of the file whose share it is.  With NothingLostSilently the event is
\* recorded, on its way, warned of or lost with its process.  The start and the
\* abort of an upload have no event; they show and hide nothing but shares of the
\* draft, which are left out.
AcknowledgedIsReported ==
    \A p \in Reqs : req[p].at = "answer" =>
        \A names \in req[p].moved :
            \E c \in req[p].made \cap ToSet(claimOf) : story[c].on \in names

\* The claims that tell of r and that the table holds, as positions in story, and
\* all of them.
TrailOf(r) == {c \in {claimOf[e] : e \in ToSet(table)} : r \in DOMAIN story[c].now}
ClaimsOn(r) == {c \in 1..Len(story) : r \in DOMAIN story[c].now}

\* What the row that was inserted last, of those that tell of r, says of it.
LastWord(r) ==
    LET rows == {i \in 1..Len(table) : r \in DOMAIN story[claimOf[table[i]]].now}
    IN  story[claimOf[table[CHOOSE i \in rows : \A j \in rows : j <= i]]].now[r]

\* The trail tells where a thing stands.  An owner who sends one request at a
\* time, and whose trail has every event that tells of a thing, its own and those
\* of the folders it went with, reads in the last of them the state the thing is
\* in, unless it has been cleaned up since, whatever its recipients do meanwhile.
TrailTellsState ==
    Cardinality(OwnerReqs) = 1 =>
        \A r \in Things :
            ClaimsOn(r) # {} /\ ClaimsOn(r) \subseteq TrailOf(r)
            => state[r] \in {LastWord(r), "gone"}
=============================================================================
