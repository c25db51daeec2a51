---------------------------- MODULE BrowserSessions ----------------------------
(***************************************************************************)
(* The browser in front of Sessions: the cookies that the handlers of      *)
(* internal/controller/restapi/v1/auth.go set and clear (cookie.go), and   *)
(* the replies, which may be lost.                                         *)
(*                                                                         *)
(* A browser is a device: the cookie with the device id outlives logins,   *)
(* and the refresh token is in a second cookie.  A handler changes the     *)
(* cookie with its reply, so the browser goes on presenting the token it   *)
(* has until then, from another tab or after a reply that was lost.  That  *)
(* a copied cookie is presented from elsewhere is left to Sessions, where  *)
(* anybody may present any token that was issued.                          *)
(***************************************************************************)
EXTENDS Sessions

VARIABLES
    jar,     \* the refresh cookie of each browser, None when there is none
    waits,   \* the browser that waits for the reply of each request, if one does
    honest   \* history: no reply was lost, no browser sent a request with its
             \* cookie while it waited for the reply of another, and no login
             \* opened its session inside a "revoke all others" of its user

browserVars == <<jar, waits, honest>>
allVars == <<now, users, sessions, sRevoked, sUser, sDevice, tokens, tRevoked, tSess,
             tExp, aExp, held, bExp, req, minted, parent, covered, jar, waits, honest>>

BrowserInit ==
    /\ Init
    /\ jar = [d \in Devices |-> None]
    /\ waits = [p \in Reqs |-> None]
    /\ honest = TRUE

-----------------------------------------------------------------------------
\* The requests of a browser

Waiting(d) == \E p \in Reqs : waits[p] = d

Send(p, d) ==
    /\ waits' = [waits EXCEPT ![p] = d]
    /\ honest' = (honest /\ ~Waiting(d))
    /\ UNCHANGED jar

\* register and loginFinalize; ensureDeviceID finds the device cookie.
SignIn(p, u, d) == (Register(p, u, d) \/ Login(p, u, d)) /\ Send(p, d)

\* refresh: without a cookie the answer is 401 and nothing happens.
SendRefresh(p, d) == jar[d] # None /\ Refresh(p, jar[d]) /\ Send(p, d)

\* logout, of a token that can be consumed.
SendLogout(p, d) == jar[d] # None /\ Logout(p, jar[d]) /\ Send(p, d)

\* logout, of any other token: the cookie is cleared all the same.
LogoutAnyway(d) ==
    /\ jar[d] # None /\ ~Consumable(jar[d])
    /\ jar' = [jar EXCEPT ![d] = None]
    /\ honest' = (honest /\ ~Waiting(d))
    /\ UNCHANGED <<vars, waits>>

\* revokeSession and revokeOtherSessions carry an access token, no cookie.
Manage(p, a) ==
    /\ RevokeOtherDeviceSessions(p, a) \/ \E s \in SessionIds : RevokeDeviceSession(p, a, s)
    /\ UNCHANGED browserVars

-----------------------------------------------------------------------------
\* Replies

\* Faulty variant: writeRefreshResponse forgets setAuthCookie.
CookieKept(p, d) ==
    IF req[p].pc # "reply" THEN None ELSE IF parent[req[p].tok] = None THEN req[p].tok ELSE jar[d]

\* The cookie after the last step of request p, for which browser d waits:
\* setAuthCookie with the new pair; clearRefreshTokenCookie for
\* ErrInvalidRefresh and after a logout.
CookieAfter(p, d) == IF req[p].pc = "reply" THEN req[p].tok ELSE None

\* The login p opens its session between the two statements of a "revoke all
\* others" of the same user: that one ends the tokens of p, but not its session.
LoginAmidRevocation(p) ==
    /\ req[p].pc = "login.create"
    /\ \E q \in Reqs : req[q].pc = "others.revoke" /\ req[q].user = req[p].user

\* The handler of p goes on; with its last step it replies.
Go(p) ==
    /\ Continue(p)
    /\ IF req'[p].pc = "idle"
       THEN /\ jar' = [d \in Devices |-> IF d = waits[p] THEN CookieAfter(p, d) ELSE jar[d]]
            /\ waits' = [waits EXCEPT ![p] = None]
       ELSE UNCHANGED <<jar, waits>>
    /\ honest' = (honest /\ ~LoginAmidRevocation(p))

\* The handler dies, or its reply is lost: the browser keeps the cookie it has.
Lose(p) ==
    /\ Fail(p)
    /\ waits' = [waits EXCEPT ![p] = None]
    /\ honest' = FALSE
    /\ UNCHANGED jar

Background == (CleanOrphanedSessions \/ Tick) /\ UNCHANGED browserVars

-----------------------------------------------------------------------------
BrowserNext ==
    \/ \E p \in Reqs :
        \/ \E d \in Devices :
            \/ \E u \in Users : SignIn(p, u, d)
            \/ SendRefresh(p, d)
            \/ SendLogout(p, d)
        \/ \E t \in Tokens : Manage(p, t)
        \/ Go(p)
        \/ Lose(p)
    \/ \E d \in Devices : LogoutAnyway(d)
    \/ Background

BrowserSpec == BrowserInit /\ [][BrowserNext]_allVars

-----------------------------------------------------------------------------
\* Properties

\* Every variable has its type, and no browser waits for a request that is over.
BrowserTypeOK ==
    /\ jar \in [Devices -> Tokens \cup {None}]
    /\ waits \in [Reqs -> Devices \cup {None}]
    /\ honest \in BOOLEAN
    /\ \A p \in Reqs : req[p].pc = "idle" => waits[p] = None

\* The reuse detection never punishes an honest browser: as long as no reply was
\* lost, each browser waited for its answers and no login fell into a "revoke all
\* others" of its user, a reuse that is detected is of a session that was over
\* before, through expiry, revocation from another device, new logins and the
\* hourly job.
HonestBrowserIsSafe ==
    honest => \A p \in Reqs : req[p].pc = "reuse.revoke" => ~ActiveSession(req[p].sess)
=============================================================================
