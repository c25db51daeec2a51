------------------------------- MODULE Sessions -------------------------------
(***************************************************************************)
(* Device sessions and their tokens: internal/usecase/auth/service.go over *)
(* the tables device_sessions and refresh_sessions (Postgres) and the      *)
(* blocklist of revoked sessions (Redis).                                  *)
(*                                                                         *)
(* A login opens a device session and issues a pair of tokens.  The access *)
(* token is a signed JWT that the server does not store: it is refused     *)
(* when it expires or while its session is on the blocklist.  The refresh  *)
(* token is a row that may be exchanged once for the next pair; a token    *)
(* presented again is taken as stolen and ends the session.  A handler     *)
(* calls Postgres and Redis one after the other without a common           *)
(* transaction, so each call is an action of its own and the other         *)
(* handlers run in between.                                                *)
(*                                                                         *)
(* A token id stands for the pair issued together: the refresh token, its  *)
(* hash and row, and the access token.  Proving the password (SRP) happens *)
(* before Login here; every device sends a device id (ensureDeviceID).     *)
(***************************************************************************)
EXTENDS Naturals

CONSTANTS
    Users,       \* the accounts
    Devices,     \* the device ids of the browsers' cookies
    SessionIds,  \* the device session ids uuid.New() may return
    Tokens,      \* the token pairs that may be issued; bounds the issues
    Reqs,        \* the HTTP requests that may be in flight at once
    None,        \* the value of an unused local
    AccessTTL,   \* JWT_ACCESS_TTL
    RefreshTTL,  \* JWT_REFRESH_TTL
    MaxTime,     \* bounds the clock
    FailAt       \* the points at which a handler may die or its next call fail

ASSUME IdsAssumption == None \notin Users \cup Devices \cup SessionIds \cup Tokens
ASSUME TimeAssumption ==
    AccessTTL \in Nat \ {0} /\ RefreshTTL \in Nat \ {0} /\ MaxTime \in Nat

VARIABLES
    now,       \* the clock
    users,     \* the registered users
    \* device_sessions
    sessions,  \* the ids that have a row
    sRevoked,  \* the ids whose revoked_at is not NULL
    sUser,     \* user_id
    sDevice,   \* device_id
    \* refresh_sessions, keyed by refresh_token_hash
    tokens,    \* the tokens that have a row
    tRevoked,  \* the tokens whose revoked_at is not NULL
    tSess,     \* device_session_id; also the sid claim of the access token
    tExp,      \* expires_at
    \* the clients and Redis
    aExp,      \* the exp claim of the access token
    held,      \* the pairs that reached a client
    bExp,      \* when the session's blocklist entry expires, 0 if never set
    \* the handlers
    req,       \* program counter and locals of each request
    \* history
    minted,    \* the pairs issued so far
    parent,    \* the token that was exchanged for this one
    covered    \* the pairs of a session issued when it was last blocked

sessionVars == <<sessions, sRevoked, sUser, sDevice>>
refreshVars == <<tokens, tRevoked, tExp>>
accessVars == <<tSess, aExp, minted, parent>>
blockVars == <<bExp, covered>>
vars == <<now, users, sessions, sRevoked, sUser, sDevice, tokens, tRevoked, tSess,
          tExp, aExp, held, bExp, req, minted, parent, covered>>

-----------------------------------------------------------------------------
\* Handlers

Labels == {"idle", "login.clean", "login.create", "issue", "store", "reply",
           "reuse.find", "reuse.revoke", "logout.revoke", "others.revoke", "block"}

ASSUME FaultsAssumption == FailAt \subseteq Labels

Request == [pc : Labels, user : Users \cup {None}, device : Devices \cup {None},
            sess : SessionIds \cup {None}, tok : Tokens \cup {None},
            keys : SUBSET SessionIds]

Idle == [pc |-> "idle", user |-> None, device |-> None, sess |-> None,
         tok |-> None, keys |-> {}]

Become(p, r) == req' = [req EXCEPT ![p] = r]
Goto(p, label) == Become(p, [req[p] EXCEPT !.pc = label])
Start(p, r) == req[p].pc = "idle" /\ Become(p, r)
Finish(p) == Become(p, Idle)

\* The locals of a handler about to put the sessions K on the blocklist.
Blocking(K) == IF K = {} THEN Idle ELSE [Idle EXCEPT !.pc = "block", !.keys = K]

-----------------------------------------------------------------------------
\* Queries

ActiveSession(s) == s \in sessions /\ s \notin sRevoked

\* refresh_sessions.revoked_at IS NULL AND expires_at > now()
LiveToken(t) == t \in tokens /\ t \notin tRevoked /\ tExp[t] > now

\* Faulty variant: a token that was already rotated is accepted.
ConsumableTwice(t) == t \in tokens /\ tExp[t] > now /\ ActiveSession(tSess[t])

\* Faulty variant: no join with device_sessions.
ConsumableWithoutSession(t) == LiveToken(t)

\* What ConsumeRefreshSession updates.
Consumable(t) == LiveToken(t) /\ ActiveSession(tSess[t])

\* IsBlocked: the Redis key exists.
IsBlocked(s) == bExp[s] > now

\* AuthMiddleware lets the access token through.
Accepted(t) == t \in minted /\ aExp[t] > now /\ ~IsBlocked(tSess[t])

TokensOf(S) == {t \in tokens : tSess[t] \in S}

\* Faulty variant: an expired token keeps its session alive.
OrphanedIfRevoked ==
    {s \in sessions \ sRevoked : ~\E t \in tokens \ tRevoked : tSess[t] = s}

\* revokeOrphanedCond: active sessions with no live refresh token.
Orphaned == {s \in sessions \ sRevoked : ~\E t \in Tokens : LiveToken(t) /\ tSess[t] = s}

-----------------------------------------------------------------------------
Init ==
    /\ now = 0
    /\ users = {}
    /\ sessions = {}
    /\ sRevoked = {}
    /\ sUser = [s \in SessionIds |-> None]
    /\ sDevice = [s \in SessionIds |-> None]
    /\ tokens = {}
    /\ tRevoked = {}
    /\ tSess = [t \in Tokens |-> None]
    /\ tExp = [t \in Tokens |-> 0]
    /\ aExp = [t \in Tokens |-> 0]
    /\ held = {}
    /\ bExp = [s \in SessionIds |-> 0]
    /\ req = [p \in Reqs |-> Idle]
    /\ minted = {}
    /\ parent = [t \in Tokens |-> None]
    /\ covered = [s \in SessionIds |-> {}]

-----------------------------------------------------------------------------
\* Register and LoginFinalize

\* CreateUser, then issueTokenPair.
Register(p, u, d) ==
    /\ u \notin users
    /\ users' = users \cup {u}
    /\ Start(p, [Idle EXCEPT !.pc = "login.create", !.user = u, !.device = d])
    /\ UNCHANGED <<now, sessionVars, refreshVars, accessVars, blockVars, held>>

\* The password is proved.
Login(p, u, d) ==
    /\ u \in users
    /\ Start(p, [Idle EXCEPT !.pc = "login.clean", !.user = u, !.device = d])
    /\ UNCHANGED <<now, users, sessionVars, refreshVars, accessVars, blockVars, held>>

\* RevokeUserOrphanedSessions, whose error does not stop the login.
LoginClean(p) ==
    /\ req[p].pc = "login.clean"
    /\ \/ sRevoked' = sRevoked \cup {s \in Orphaned : sUser[s] = req[p].user}
       \/ "login.clean" \in FailAt /\ UNCHANGED sRevoked
    /\ Goto(p, "login.create")
    /\ UNCHANGED <<now, users, sessions, sUser, sDevice, refreshVars, accessVars,
                   blockVars, held>>

\* The active session of a user's device, if there is one.
SessionOf(u, d) == {s \in sessions \ sRevoked : sUser[s] = u /\ sDevice[s] = d}

InsertSession(s, u, d) ==
    /\ sessions' = sessions \cup {s}
    /\ sUser' = [sUser EXCEPT ![s] = u]
    /\ sDevice' = [sDevice EXCEPT ![s] = d]
    /\ UNCHANGED <<sRevoked, tRevoked>>

\* Faulty variant: a plain INSERT.
CreateDeviceSessionAlways(p) ==
    /\ req[p].pc = "login.create"
    /\ \E s \in SessionIds \ sessions :
        /\ InsertSession(s, req[p].user, req[p].device)
        /\ Become(p, [req[p] EXCEPT !.pc = "issue", !.sess = s])
    /\ UNCHANGED <<now, users, tokens, tExp, accessVars, blockVars, held>>

\* CreateDeviceSession: the upsert.  An active session of the device is taken
\* over and its refresh tokens are revoked.
CreateDeviceSession(p) ==
    /\ req[p].pc = "login.create"
    /\ LET S == SessionOf(req[p].user, req[p].device)
       IN  \/ /\ S = {}
              /\ \E s \in SessionIds \ sessions :
                  /\ InsertSession(s, req[p].user, req[p].device)
                  /\ Become(p, [req[p] EXCEPT !.pc = "issue", !.sess = s])
           \/ \E s \in S :
                  /\ tRevoked' = tRevoked \cup TokensOf({s})
                  /\ Become(p, [req[p] EXCEPT !.pc = "issue", !.sess = s])
                  /\ UNCHANGED sessionVars
    /\ UNCHANGED <<now, users, tokens, tExp, accessVars, blockVars, held>>

-----------------------------------------------------------------------------
\* issueTokenPairForDevice

\* IssueAccess and newRefreshToken.
IssueAccess(p) ==
    /\ req[p].pc = "issue"
    /\ \E t \in Tokens \ minted :
        /\ minted' = minted \cup {t}
        /\ tSess' = [tSess EXCEPT ![t] = req[p].sess]
        /\ aExp' = [aExp EXCEPT ![t] = now + AccessTTL]
        /\ parent' = [parent EXCEPT ![t] = req[p].tok]
        /\ Become(p, [req[p] EXCEPT !.pc = "store", !.tok = t])
    /\ UNCHANGED <<now, users, sessionVars, refreshVars, blockVars, held>>

\* CreateRefreshSession does not look at the device session again.
CreateRefreshSession(p) ==
    /\ req[p].pc = "store"
    /\ tokens' = tokens \cup {req[p].tok}
    /\ tExp' = [tExp EXCEPT ![req[p].tok] = now + RefreshTTL]
    /\ Goto(p, "reply")
    /\ UNCHANGED <<now, users, sessionVars, tRevoked, accessVars, blockVars, held>>

\* The pair reaches the client.
Reply(p) ==
    /\ req[p].pc = "reply"
    /\ held' = held \cup {req[p].tok}
    /\ Finish(p)
    /\ UNCHANGED <<now, users, sessionVars, refreshVars, accessVars, blockVars>>

-----------------------------------------------------------------------------
\* Refresh and handleTokenReuse

Refresh(p, t) ==
    /\ t \in held
    /\ IF Consumable(t)
       THEN /\ tRevoked' = tRevoked \cup {t}
            /\ Start(p, [Idle EXCEPT !.pc = "issue", !.sess = tSess[t], !.tok = t])
       ELSE /\ Start(p, [Idle EXCEPT !.pc = "reuse.find", !.tok = t])
            /\ UNCHANGED tRevoked
    /\ UNCHANGED <<now, users, sessionVars, tokens, tExp, accessVars, blockVars, held>>

\* Faulty variant: the columns are scanned in the wrong order.
FindRevokedSwapped(p) ==
    /\ req[p].pc = "reuse.find"
    /\ IF req[p].tok \in tokens \cap tRevoked
       THEN Become(p, [req[p] EXCEPT !.pc = "reuse.revoke",
                                    !.sess = sUser[tSess[req[p].tok]]])
       ELSE Finish(p)
    /\ UNCHANGED <<now, users, sessionVars, refreshVars, accessVars, blockVars, held>>

\* FindRevokedSession looks at revoked_at only, not at expires_at.
FindRevokedSession(p) ==
    /\ req[p].pc = "reuse.find"
    /\ IF req[p].tok \in tokens \cap tRevoked
       THEN Become(p, [req[p] EXCEPT !.pc = "reuse.revoke", !.sess = tSess[req[p].tok]])
       ELSE Finish(p)
    /\ UNCHANGED <<now, users, sessionVars, refreshVars, accessVars, blockVars, held>>

\* The transaction of RevokeSession.
RevokeSessions(S) ==
    /\ sRevoked' = sRevoked \cup S
    /\ tRevoked' = tRevoked \cup TokensOf(S)
    /\ UNCHANGED <<sessions, sUser, sDevice, tokens, tExp>>

\* Faulty variant: the session is only put on the blocklist.
ReuseBlockOnly(p) ==
    /\ req[p].pc = "reuse.revoke"
    /\ Become(p, Blocking({req[p].sess}))
    /\ UNCHANGED <<now, users, sessionVars, refreshVars, accessVars, blockVars, held>>

\* A session that is not active is ErrSessionNotFound: nothing is blocked.
ReuseRevoke(p) ==
    /\ req[p].pc = "reuse.revoke"
    /\ IF ActiveSession(req[p].sess)
       THEN /\ RevokeSessions({req[p].sess})
            /\ Become(p, Blocking({req[p].sess}))
       ELSE Finish(p) /\ UNCHANGED <<sessionVars, refreshVars>>
    /\ UNCHANGED <<now, users, accessVars, blockVars, held>>

\* Faulty variant: a TTL one unit too short.
BlockTooShort(p) ==
    /\ req[p].pc = "block"
    /\ bExp' = [s \in SessionIds |-> IF s \in req[p].keys THEN now + AccessTTL - 1 ELSE bExp[s]]
    /\ covered' = [s \in SessionIds |->
            IF s \in req[p].keys THEN {t \in minted : tSess[t] = s} ELSE covered[s]]
    /\ Finish(p)
    /\ UNCHANGED <<now, users, sessionVars, refreshVars, accessVars, held>>

\* Block and BlockBatch: SET with a TTL, which replaces an earlier entry.
Block(p) ==
    /\ req[p].pc = "block"
    /\ bExp' = [s \in SessionIds |-> IF s \in req[p].keys THEN now + AccessTTL ELSE bExp[s]]
    /\ covered' = [s \in SessionIds |->
            IF s \in req[p].keys THEN {t \in minted : tSess[t] = s} ELSE covered[s]]
    /\ Finish(p)
    /\ UNCHANGED <<now, users, sessionVars, refreshVars, accessVars, held>>

-----------------------------------------------------------------------------
\* Logout, RevokeDeviceSession, RevokeOtherDeviceSessions, clean-up

\* A token that is not consumable is a successful logout.
Logout(p, t) ==
    /\ t \in held
    /\ Consumable(t)
    /\ tRevoked' = tRevoked \cup {t}
    /\ Start(p, [Idle EXCEPT !.pc = "logout.revoke", !.sess = tSess[t]])
    /\ UNCHANGED <<now, users, sessionVars, tokens, tExp, accessVars, blockVars, held>>

\* RevokeSession; the access tokens are left to expire.
LogoutRevoke(p) ==
    /\ req[p].pc = "logout.revoke"
    /\ IF ActiveSession(req[p].sess)
       THEN RevokeSessions({req[p].sess})
       ELSE UNCHANGED <<sessionVars, refreshVars>>
    /\ Finish(p)
    /\ UNCHANGED <<now, users, accessVars, blockVars, held>>

\* The bearer of access token a ends session s of the same user.
RevokeDeviceSession(p, a, s) ==
    /\ a \in held /\ Accepted(a)
    /\ ActiveSession(s) /\ sUser[s] = sUser[tSess[a]]
    /\ RevokeSessions({s})
    /\ Start(p, Blocking({s}))
    /\ UNCHANGED <<now, users, accessVars, blockVars, held>>

\* The sessions of user u other than s.
OtherSessions(u, s) == {x \in sessions : sUser[x] = u /\ x # s}

\* The bearer of a ends every other session of the user: RevokeOtherSessions, a
\* transaction at READ COMMITTED.  Its first statement sees the sessions that
\* are active now.
RevokeOtherDeviceSessions(p, a) ==
    /\ a \in held /\ Accepted(a)
    /\ LET u == sUser[tSess[a]]
       IN  Start(p, [Idle EXCEPT !.pc = "others.revoke", !.user = u, !.sess = tSess[a],
                                !.keys = OtherSessions(u, tSess[a]) \ sRevoked])
    /\ UNCHANGED <<now, users, sessionVars, refreshVars, accessVars, blockVars, held>>

\* It waits for the rows of those sessions, holds them to the commit and returns
\* the ones it found active; the second statement sees what is committed by now,
\* and revokes the refresh tokens of any session but the bearer's, whether the
\* first statement saw that session or not.  Nobody changes a row that is held,
\* so taking them is part of this step.
RevokeOtherSessions(p) ==
    /\ req[p].pc = "others.revoke"
    /\ sRevoked' = sRevoked \cup req[p].keys
    /\ tRevoked' = tRevoked \cup TokensOf(OtherSessions(req[p].user, req[p].sess))
    /\ Become(p, Blocking(req[p].keys \ sRevoked))
    /\ UNCHANGED <<now, users, sessions, sUser, sDevice, tokens, tExp, accessVars,
                   blockVars, held>>

\* The hourly job: RevokeOrphanedSessions.
CleanOrphanedSessions ==
    /\ sRevoked' = sRevoked \cup Orphaned
    /\ UNCHANGED <<now, users, sessions, sUser, sDevice, refreshVars, accessVars,
                   blockVars, held, req>>

-----------------------------------------------------------------------------
\* Time and failure

Tick ==
    /\ now < MaxTime
    /\ now' = now + 1
    /\ UNCHANGED <<users, sessionVars, refreshVars, accessVars, blockVars, held, req>>

\* The handler ends where it stands: the process dies, the request is
\* cancelled, or its next call fails (a failed Block is only logged).
Fail(p) ==
    /\ req[p].pc \in FailAt \ {"idle"}
    /\ Finish(p)
    /\ UNCHANGED <<now, users, sessionVars, refreshVars, accessVars, blockVars, held>>

-----------------------------------------------------------------------------
Continue(p) ==
    \/ LoginClean(p)
    \/ CreateDeviceSession(p)
    \/ IssueAccess(p)
    \/ CreateRefreshSession(p)
    \/ Reply(p)
    \/ FindRevokedSession(p)
    \/ ReuseRevoke(p)
    \/ Block(p)
    \/ LogoutRevoke(p)
    \/ RevokeOtherSessions(p)

Next ==
    \/ \E p \in Reqs :
        \/ \E u \in Users, d \in Devices : Register(p, u, d) \/ Login(p, u, d)
        \/ \E t \in Tokens : \/ Refresh(p, t)
                             \/ Logout(p, t)
                             \/ RevokeOtherDeviceSessions(p, t)
                             \/ \E s \in SessionIds : RevokeDeviceSession(p, t, s)
        \/ Continue(p)
        \/ Fail(p)
    \/ CleanOrphanedSessions
    \/ Tick

Spec == Init /\ [][Next]_vars

\* A request that can go on does go on, and the hourly job keeps running.
Fairness ==
    /\ \A p \in Reqs : WF_vars(Continue(p))
    /\ WF_vars(CleanOrphanedSessions)

FairSpec == Spec /\ Fairness

-----------------------------------------------------------------------------
\* Properties

\* Every variable has its type.
TypeOK ==
    /\ now \in Nat
    /\ users \subseteq Users
    /\ sessions \subseteq SessionIds
    /\ sRevoked \subseteq SessionIds
    /\ sUser \in [SessionIds -> Users \cup {None}]
    /\ sDevice \in [SessionIds -> Devices \cup {None}]
    /\ tokens \subseteq Tokens
    /\ tRevoked \subseteq Tokens
    /\ tSess \in [Tokens -> SessionIds \cup {None}]
    /\ tExp \in [Tokens -> Nat]
    /\ aExp \in [Tokens -> Nat]
    /\ held \subseteq Tokens
    /\ bExp \in [SessionIds -> Nat]
    /\ req \in [Reqs -> Request]
    /\ minted \subseteq Tokens
    /\ parent \in [Tokens -> Tokens \cup {None}]
    /\ covered \in [SessionIds -> SUBSET Tokens]

\* A user's device has at most one active session, so revoking the one that
\* ListActiveSessions shows for a device ends it for good.
OneSessionPerDevice ==
    \A s1, s2 \in sessions \ sRevoked :
        sUser[s1] = sUser[s2] /\ sDevice[s1] = sDevice[s2] => s1 = s2

\* Rotation never forks: whatever requests race with the same refresh token,
\* at most one of them gets the next pair.
RotationNeverForks ==
    \A t1, t2 \in minted : parent[t1] = parent[t2] /\ parent[t1] # None => t1 = t2

\* A request is issuing, or is about to issue, a pair for s.
Issuing(s) == \E p \in Reqs : req[p].pc = "issue" /\ req[p].sess = s

\* A revoked session comes back to life in no way: once no request is in
\* flight for it, no token pair is ever issued for it again.
DeadSessionStaysDead ==
    [][\A s \in sRevoked : ~Issuing(s) =>
         /\ s \in sRevoked'
         /\ ~Issuing(s)'
         /\ \A t \in minted' \ minted : tSess'[t] # s]_vars

\* Blocking a session locks out every access token it issued before: the
\* blocklist entry outlives them all.
BlockOutlivesTokens ==
    \A s \in SessionIds : \A t \in covered[s] : ~Accepted(t)

\* A refresh token presented again while it has not expired, after it was
\* rotated, ends its session, whatever else fails (the handling of the reuse
\* itself must get through: nobody repeats it).
ReuseEndsSession ==
    \A t \in Tokens :
        (t \in tRevoked /\ tExp[t] > now /\
         \E p \in Reqs : req[p].pc = "reuse.find" /\ req[p].tok = t)
        ~> (tSess[t] \in sRevoked)

\* A session that has no token left to go on with, because its tokens expired or
\* its login never got that far, does not stay among the active sessions that
\* the user is shown.
SpentSessionEnds ==
    \A s \in SessionIds :
        []<>~(ActiveSession(s) /\ ~\E t \in tokens : tSess[t] = s /\ Consumable(t))

\* What the code does not keep

\* service.go:271: "token never existed or expired - not a reuse".
ExpiredTokenIsNotReuse ==
    [][\A p \in Reqs : req[p].pc = "reuse.find" /\ req'[p].pc = "reuse.revoke"
                       => tExp[req[p].tok] > now]_vars

\* service.go:258: "The device session and any access tokens it issued are
\* invalidated immediately."
ReuseInvalidatesAccess ==
    [][\A p \in Reqs :
         req[p].pc = "reuse.revoke" /\ req'[p].pc = "idle"
         => \A t \in minted : tSess[t] = req[p].sess => ~Accepted(t)']_vars

\* session_blocklist.go:13: entries have a "TTL equal to the access token
\* lifetime. Once the token would expire naturally the Redis entry is also
\* gone": a session that was blocked is never let in again.
BlockedSessionStaysOut ==
    \A t \in minted : bExp[tSess[t]] > 0 => ~Accepted(t)
=============================================================================
