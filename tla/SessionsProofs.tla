---------------------------- MODULE SessionsProofs ----------------------------
(***************************************************************************)
(* Proofs about Sessions and BrowserSessions, for any number of users,     *)
(* devices, sessions, tokens and requests, and for any lifetimes of the    *)
(* tokens.                                                                 *)
(***************************************************************************)
EXTENDS BrowserSessions, TLAPS

\* A handler that stores, returns or examines a token has one, one that issues
\* a token has a session for it, and a login exchanges none.
LocalsOK ==
    \A p \in Reqs :
        /\ req[p].pc = "issue" => req[p].sess \in SessionIds
        /\ req[p].pc \in {"store", "reply", "reuse.find"} => req[p].tok \in Tokens
        /\ req[p].pc \in {"login.clean", "login.create"} => req[p].tok = None

\* Only sessions that exist are revoked, and only tokens that were issued and
\* stored.
RowsOK ==
    /\ sRevoked \subseteq sessions
    /\ tokens \subseteq minted
    /\ tRevoked \subseteq tokens
    /\ \A t \in minted : tSess[t] \in SessionIds
    /\ \A p \in Reqs : req[p].pc \in {"store", "reply"} => req[p].tok \in minted
    /\ \A p \in Reqs : req[p].pc = "others.revoke" => req[p].keys \subseteq sessions

TypeInv == TypeOK /\ LocalsOK /\ RowsOK

\* The locals of a handler about to fill the blocklist.
LEMMA BlockingFacts ==
    ASSUME NEW K \in SUBSET SessionIds, K # {}
    PROVE  Blocking(K) \in Request /\ Blocking(K).pc = "block"
  BY DEF Blocking, Idle, Request, Labels

\* What the end of a step does to the handlers.
LEMMA BecomeFacts ==
    ASSUME req \in [Reqs -> Request], NEW p \in Reqs, NEW r \in Request, Become(p, r)
    PROVE  /\ req' \in [Reqs -> Request]
           /\ req'[p] = r
           /\ \A q \in Reqs \ {p} : req'[q] = req[q]
  BY DEF Become

\* A refresh either starts an exchange of its token or looks for a reuse.
LEMMA RefreshLocals ==
    ASSUME TypeInv, NEW p \in Reqs, NEW t \in Tokens, Refresh(p, t)
    PROVE  /\ \A q \in Reqs \ {p} : req'[q] = req[q]
           /\ Consumable(t) => /\ req'[p].pc = "issue"
                               /\ req'[p].sess = tSess[t]
                               /\ req'[p].tok = t
           /\ ~Consumable(t) => req'[p].pc = "reuse.find" /\ req'[p].tok = t
<1>1. p \in DOMAIN req /\ \A q \in Reqs : q \in DOMAIN req
  BY DEF TypeInv, TypeOK
<1>2. CASE Consumable(t)
  <2>1. req' = [req EXCEPT ![p] = [Idle EXCEPT !.pc = "issue", !.sess = tSess[t], !.tok = t]]
    BY <1>2 DEF Refresh, Start, Become
  <2>2. QED
    BY <1>1, <1>2, <2>1 DEF Idle
<1>3. CASE ~Consumable(t)
  <2>1. req' = [req EXCEPT ![p] = [Idle EXCEPT !.pc = "reuse.find", !.tok = t]]
    BY <1>3 DEF Refresh, Start, Become
  <2>2. QED
    BY <1>1, <1>3, <2>1 DEF Idle
<1>4. QED
  BY <1>2, <1>3

\* The upsert goes on with a session that is not revoked: a new one when the
\* device had none, or the one it had.
LEMMA CreateDeviceSessionLocals ==
    ASSUME TypeInv, NEW p \in Reqs, CreateDeviceSession(p)
    PROVE  \E s \in SessionIds :
             /\ \A q \in Reqs \ {p} : req'[q] = req[q]
             /\ req'[p].pc = "issue" /\ req'[p].sess = s /\ req'[p].tok = req[p].tok
             /\ s \notin sRevoked
             /\ UNCHANGED <<sRevoked, minted, tSess, parent>>
             /\ tRevoked \subseteq tRevoked'
             /\ \/ /\ SessionOf(req[p].user, req[p].device) = {}
                   /\ s \notin sessions
                   /\ InsertSession(s, req[p].user, req[p].device)
                \/ /\ s \in SessionOf(req[p].user, req[p].device)
                   /\ tRevoked' = tRevoked \cup TokensOf({s})
                   /\ UNCHANGED sessionVars
<1>1. PICK s \in SessionIds :
        /\ req' = [req EXCEPT ![p] = [req[p] EXCEPT !.pc = "issue", !.sess = s]]
        /\ \/ /\ SessionOf(req[p].user, req[p].device) = {}
              /\ s \notin sessions
              /\ InsertSession(s, req[p].user, req[p].device)
           \/ /\ s \in SessionOf(req[p].user, req[p].device)
              /\ tRevoked' = tRevoked \cup TokensOf({s})
              /\ UNCHANGED sessionVars
  BY DEF CreateDeviceSession, SessionOf, Become, TypeInv, TypeOK
<1>2. s \notin sRevoked /\ sRevoked' = sRevoked /\ tRevoked \subseteq tRevoked'
  BY <1>1 DEF InsertSession, SessionOf, sessionVars, TypeInv, RowsOK
<1>3. UNCHANGED <<minted, tSess, parent>>
  BY DEF CreateDeviceSession, accessVars
<1>4. \A q \in Reqs \ {p} : req'[q] = req[q]
  BY <1>1 DEF TypeInv, TypeOK
<1>5. req[p] \in Request /\ req'[p] = [req[p] EXCEPT !.pc = "issue", !.sess = s]
  BY <1>1 DEF TypeInv, TypeOK
<1>6. req'[p].pc = "issue" /\ req'[p].sess = s /\ req'[p].tok = req[p].tok
  BY <1>5 DEF Request
<1>7. QED
  BY <1>1, <1>2, <1>3, <1>4, <1>6

\* The search for a reuse goes on with the revocation or ends the request.
LEMMA FindRevokedSessionLocals ==
    ASSUME TypeInv, NEW p \in Reqs, FindRevokedSession(p)
    PROVE  /\ \A q \in Reqs \ {p} : req'[q] = req[q]
           /\ \/ /\ req'[p].pc = "reuse.revoke"
                 /\ req[p].tok \in tRevoked /\ req'[p].sess = tSess[req[p].tok]
              \/ req'[p].pc = "idle"
<1>1. req[p] \in Request /\ req \in [Reqs -> Request]
  BY DEF TypeInv, TypeOK
<1>2. CASE req[p].tok \in tokens \cap tRevoked
  <2>1. req' = [req EXCEPT ![p] = [req[p] EXCEPT !.pc = "reuse.revoke", !.sess = tSess[req[p].tok]]]
    BY <1>2 DEF FindRevokedSession, Become
  <2>2. req'[p] = [req[p] EXCEPT !.pc = "reuse.revoke", !.sess = tSess[req[p].tok]]
    BY <1>1, <2>1
  <2>3. req'[p].pc = "reuse.revoke" /\ req'[p].sess = tSess[req[p].tok]
    BY <1>1, <2>2 DEF Request
  <2>4. QED
    BY <1>1, <1>2, <2>1, <2>3
<1>3. CASE req[p].tok \notin tokens \cap tRevoked
  <2>1. req' = [req EXCEPT ![p] = Idle]
    BY <1>3 DEF FindRevokedSession, Finish, Become
  <2>2. QED
    BY <1>1, <2>1 DEF Idle
<1>4. QED
  BY <1>2, <1>3

\* The answer to a reuse goes on with the blocklist or ends the request.
LEMMA ReuseRevokeLocals ==
    ASSUME TypeInv, NEW p \in Reqs, ReuseRevoke(p)
    PROVE  /\ \A q \in Reqs \ {p} : req'[q] = req[q]
           /\ req'[p].pc \in {"block", "idle"}
<1>1. req \in [Reqs -> Request]
  BY DEF TypeInv, TypeOK
<1>2. req' = [req EXCEPT ![p] = Blocking({req[p].sess})] \/ req' = [req EXCEPT ![p] = Idle]
  BY DEF ReuseRevoke, Become, Finish
<1>3. Blocking({req[p].sess}).pc = "block" /\ Idle.pc = "idle"
  BY DEF Blocking, Idle
<1>4. QED
  BY <1>1, <1>2, <1>3

\* "Revoke all others" starts from the active sessions it sees, of the bearer's
\* user and without the bearer's own.
LEMMA RevokeOthersLocals ==
    ASSUME TypeInv, NEW p \in Reqs, NEW a \in Tokens, RevokeOtherDeviceSessions(p, a)
    PROVE  /\ req' \in [Reqs -> Request]
           /\ \A q \in Reqs \ {p} : req'[q] = req[q]
           /\ req'[p].pc = "others.revoke"
           /\ req'[p].keys = OtherSessions(req'[p].user, req'[p].sess) \ sRevoked
<1>1. tSess[a] \in SessionIds /\ sUser[tSess[a]] \in Users \cup {None}
  BY DEF RevokeOtherDeviceSessions, Accepted, TypeInv, TypeOK, RowsOK
<1> DEFINE u == sUser[tSess[a]]
           K == OtherSessions(u, tSess[a]) \ sRevoked
           r == [Idle EXCEPT !.pc = "others.revoke", !.user = u, !.sess = tSess[a], !.keys = K]
<1>2. K \in SUBSET SessionIds
  BY DEF OtherSessions, TypeInv, TypeOK
<1>3. Become(p, r)
  BY DEF RevokeOtherDeviceSessions, Start
<1>4. u \in Users \cup {None}
  BY <1>1
<1> HIDE DEF u, K
<1>5. /\ r \in Request /\ r.pc = "others.revoke" /\ r.keys = K
      /\ r.user = u /\ r.sess = tSess[a]
  BY <1>1, <1>2, <1>4 DEF Idle, Request, Labels
<1> HIDE DEF r
<1>6. req \in [Reqs -> Request]
  BY DEF TypeInv, TypeOK
<1>7. /\ req' \in [Reqs -> Request] /\ req'[p] = r
      /\ \A q \in Reqs \ {p} : req'[q] = req[q]
  BY <1>3, <1>5, <1>6, BecomeFacts
<1>8. QED
  BY <1>5, <1>7 DEF K

\* Its second part goes on with the blocklist or ends the request.
LEMMA RevokeOtherSessionsLocals ==
    ASSUME TypeInv, NEW p \in Reqs, RevokeOtherSessions(p)
    PROVE  /\ req' \in [Reqs -> Request]
           /\ \A q \in Reqs \ {p} : req'[q] = req[q]
           /\ req'[p].pc \in {"block", "idle"}
<1> DEFINE K == req[p].keys \ sRevoked
           r == Blocking(K)
<1>1. req \in [Reqs -> Request]
  BY DEF TypeInv, TypeOK
<1>2. K \in SUBSET SessionIds
  BY <1>1 DEF Request
<1>3. r \in Request /\ r.pc \in {"block", "idle"}
  BY <1>2 DEF Blocking, Idle, Request, Labels
<1>4. Become(p, r)
  BY DEF RevokeOtherSessions
<1> HIDE DEF r
<1>5. QED
  BY <1>1, <1>3, <1>4, BecomeFacts

\* The initial state is well typed.
LEMMA InitTypeInv == Init => TypeInv
  BY DEF Init, TypeInv, TypeOK, LocalsOK, RowsOK, Request, Idle, Labels

\* Every step of every handler keeps the types.
LEMMA NextTypeInv == TypeInv /\ [Next]_vars => TypeInv'
<1> SUFFICES ASSUME TypeInv, [Next]_vars PROVE TypeInv'
  OBVIOUS
<1> USE IdsAssumption, TimeAssumption
<1>r. req \in [Reqs -> Request] /\ \A q \in Reqs : req[q] \in Request
  BY DEF TypeInv, TypeOK
<1>1. ASSUME NEW p \in Reqs, NEW u \in Users, NEW d \in Devices,
             Register(p, u, d)
      PROVE  TypeInv'
  BY <1>1, <1>r, ZenonT(40) DEF Register, Start, TypeInv, TypeOK, LocalsOK, RowsOK, Request, Idle,
     Labels,
     sessionVars, refreshVars, accessVars, blockVars, Become
<1>2. ASSUME NEW p \in Reqs, NEW u \in Users, NEW d \in Devices,
             Login(p, u, d)
      PROVE  TypeInv'
  BY <1>2, <1>r, ZenonT(40) DEF Login, Start, TypeInv, TypeOK, LocalsOK, RowsOK, Request, Idle,
     Labels,
     sessionVars, refreshVars, accessVars, blockVars, Become
<1>3. ASSUME NEW p \in Reqs, NEW t \in Tokens,
             Refresh(p, t)
      PROVE  TypeInv'
  <2>1. tSess[t] \in SessionIds \cup {None}
    BY DEF TypeInv, TypeOK
  <2>2. CASE Consumable(t)
    <3> DEFINE r == [Idle EXCEPT !.pc = "issue", !.sess = tSess[t], !.tok = t]
    <3>1. tSess[t] \in SessionIds
      BY <2>2 DEF Consumable, LiveToken, TypeInv, RowsOK
    <3>a. r \in Request /\ r.pc = "issue" /\ r.sess \in SessionIds
      BY <3>1 DEF Request, Labels, Idle
    <3>b. Become(p, r)
      BY <1>3, <2>2 DEF Refresh, Start
    <3> HIDE DEF r
    <3>c. req' \in [Reqs -> Request] /\ req'[p] = r /\ \A q \in Reqs \ {p} : req'[q] = req[q]
      BY <1>r, <3>a, <3>b, BecomeFacts
    <3>d. QED
      BY <1>3, <2>2, <3>a, <3>c DEF Refresh, Consumable, LiveToken, TypeInv, TypeOK,
         LocalsOK, RowsOK, sessionVars, refreshVars, accessVars, blockVars
  <2>3. CASE ~Consumable(t)
    <3> DEFINE r == [Idle EXCEPT !.pc = "reuse.find", !.tok = t]
    <3>a. r \in Request /\ r.pc = "reuse.find" /\ r.tok = t
      BY <2>1 DEF Request, Labels, Idle
    <3>b. Become(p, r)
      BY <1>3, <2>3 DEF Refresh, Start
    <3> HIDE DEF r
    <3>c. req' \in [Reqs -> Request] /\ req'[p] = r /\ \A q \in Reqs \ {p} : req'[q] = req[q]
      BY <1>r, <3>a, <3>b, BecomeFacts
    <3>d. QED
      BY <1>3, <2>3, <3>a, <3>c DEF Refresh, TypeInv, TypeOK, LocalsOK, RowsOK,
         sessionVars, refreshVars, accessVars, blockVars
  <2>4. QED
    BY <2>2, <2>3
<1>4. ASSUME NEW p \in Reqs, NEW t \in Tokens,
             Logout(p, t)
      PROVE  TypeInv'
  BY <1>4, <1>r, ZenonT(40) DEF Logout, Start, Consumable, LiveToken, ActiveSession, TypeInv,
     TypeOK, LocalsOK, RowsOK, Request, Idle, Labels,
     sessionVars, refreshVars, accessVars, blockVars, Become
<1>5. ASSUME NEW p \in Reqs, NEW t \in Tokens,
             RevokeOtherDeviceSessions(p, t)
      PROVE  TypeInv'
  <2>1. /\ req' \in [Reqs -> Request]
        /\ \A q \in Reqs \ {p} : req'[q] = req[q]
        /\ req'[p].pc = "others.revoke" /\ req'[p].keys \subseteq sessions
    BY <1>5, RevokeOthersLocals DEF OtherSessions
  <2>2. UNCHANGED <<now, users, sessionVars, refreshVars, accessVars, blockVars, held>>
    BY <1>5 DEF RevokeOtherDeviceSessions
  <2>3. QED
    BY <2>1, <2>2 DEF TypeInv, TypeOK, LocalsOK, RowsOK, sessionVars, refreshVars,
       accessVars, blockVars
<1>6. ASSUME NEW p \in Reqs, NEW t \in Tokens, NEW s \in SessionIds,
             RevokeDeviceSession(p, t, s)
      PROVE  TypeInv'
  <2>1. s \in sessions /\ {s} \in SUBSET SessionIds
    BY <1>6 DEF RevokeDeviceSession, ActiveSession
  <2> DEFINE r == Blocking({s})
  <2>a. r \in Request /\ r.pc = "block"
    BY <2>1, BlockingFacts DEF Request, Labels, Idle
  <2>b. Become(p, r)
    BY <1>6 DEF RevokeDeviceSession, Start
  <2> HIDE DEF r
  <2>c. req' \in [Reqs -> Request] /\ req'[p] = r /\ \A q \in Reqs \ {p} : req'[q] = req[q]
    BY <1>r, <2>a, <2>b, BecomeFacts
  <2>d. QED
    BY <1>6, <2>1, <2>a, <2>c DEF RevokeDeviceSession, RevokeSessions, TokensOf,
       TypeInv, TypeOK, LocalsOK, RowsOK, sessionVars, refreshVars, accessVars,
       blockVars
<1>7. ASSUME NEW p \in Reqs,
             LoginClean(p)
      PROVE  TypeInv'
  BY <1>7, <1>r DEF LoginClean, Goto, Orphaned, TypeInv, TypeOK, LocalsOK, RowsOK,
     Request, Idle, Labels,
     sessionVars, refreshVars, accessVars, blockVars, Become
<1>8. ASSUME NEW p \in Reqs,
             CreateDeviceSession(p)
      PROVE  TypeInv'
  <2>1. PICK s \in SessionIds : Become(p, [req[p] EXCEPT !.pc = "issue", !.sess = s])
    BY <1>8 DEF CreateDeviceSession, SessionOf, TypeInv, TypeOK
  <2>2. req[p].user \in Users \cup {None} /\ req[p].device \in Devices \cup {None}
    BY <1>r DEF Request
  <2> DEFINE r == [req[p] EXCEPT !.pc = "issue", !.sess = s]
  <2>a. r \in Request /\ r.pc = "issue" /\ r.sess \in SessionIds
    BY <1>r DEF Request, Labels, Idle
  <2>b. Become(p, r)
    BY <2>1
  <2> HIDE DEF r
  <2>c. req' \in [Reqs -> Request] /\ req'[p] = r /\ \A q \in Reqs \ {p} : req'[q] = req[q]
    BY <1>r, <2>a, <2>b, BecomeFacts
  <2>3. /\ sessions \subseteq sessions' /\ sessions' \subseteq SessionIds
        /\ sUser' \in [SessionIds -> Users \cup {None}]
        /\ sDevice' \in [SessionIds -> Devices \cup {None}]
        /\ sRevoked' = sRevoked /\ tRevoked' \subseteq tRevoked \cup tokens
    BY <1>8, <2>2, ZenonT(40) DEF CreateDeviceSession, SessionOf, InsertSession, TokensOf, TypeInv,
       TypeOK, sessionVars
  <2>4. UNCHANGED <<now, users, tokens, tExp, accessVars, blockVars, held>>
    BY <1>8 DEF CreateDeviceSession
  <2>d. QED
    BY <2>3, <2>4, <2>a, <2>c DEF TypeInv, TypeOK, LocalsOK, RowsOK, accessVars, blockVars
<1>9. ASSUME NEW p \in Reqs,
             IssueAccess(p)
      PROVE  TypeInv'
  <2>1. PICK t \in Tokens \ minted :
            /\ minted' = minted \cup {t}
            /\ tSess' = [tSess EXCEPT ![t] = req[p].sess]
            /\ aExp' = [aExp EXCEPT ![t] = now + AccessTTL]
            /\ parent' = [parent EXCEPT ![t] = req[p].tok]
            /\ Become(p, [req[p] EXCEPT !.pc = "store", !.tok = t])
    BY <1>9 DEF IssueAccess
  <2>2. req[p].sess \in SessionIds \cup {None} /\ req[p].tok \in Tokens \cup {None}
    BY <1>r DEF Request
  <2> DEFINE r == [req[p] EXCEPT !.pc = "store", !.tok = t]
  <2>a. r \in Request /\ r.pc = "store" /\ r.tok = t
    BY <1>r DEF Request, Labels, Idle
  <2>b. Become(p, r)
    BY <2>1
  <2> HIDE DEF r
  <2>c. req' \in [Reqs -> Request] /\ req'[p] = r /\ \A q \in Reqs \ {p} : req'[q] = req[q]
    BY <1>r, <2>a, <2>b, BecomeFacts
  <2>d. QED
    BY <1>9, <2>1, <2>2, <2>a, <2>c DEF IssueAccess, TypeInv, TypeOK, LocalsOK, RowsOK,
       sessionVars, refreshVars, accessVars, blockVars
<1>10. ASSUME NEW p \in Reqs,
             CreateRefreshSession(p)
      PROVE  TypeInv'
  <2>1. req[p].tok \in minted /\ req[p].tok \in Tokens
    BY <1>10 DEF CreateRefreshSession, TypeInv, RowsOK, LocalsOK
  <2> DEFINE r == [req[p] EXCEPT !.pc = "reply"]
  <2>a. r \in Request /\ r.pc = "reply" /\ r.tok = req[p].tok
    BY <1>r DEF Request, Labels, Idle
  <2>b. Become(p, r)
    BY <1>10 DEF CreateRefreshSession, Goto
  <2> HIDE DEF r
  <2>c. req' \in [Reqs -> Request] /\ req'[p] = r /\ \A q \in Reqs \ {p} : req'[q] = req[q]
    BY <1>r, <2>a, <2>b, BecomeFacts
  <2>d. QED
    BY <1>10, <2>1, <2>a, <2>c DEF CreateRefreshSession, TypeInv, TypeOK, LocalsOK,
       RowsOK, sessionVars, refreshVars, accessVars, blockVars
<1>11. ASSUME NEW p \in Reqs,
             Reply(p)
      PROVE  TypeInv'
  BY <1>11, <1>r DEF Reply, Finish, TypeInv, TypeOK, LocalsOK, RowsOK, Request, Idle,
     Labels,
     sessionVars, refreshVars, accessVars, blockVars, Become
<1>12. ASSUME NEW p \in Reqs,
             FindRevokedSession(p)
      PROVE  TypeInv'
  <2>1. CASE req[p].tok \in tokens \cap tRevoked
    <3>1. tSess[req[p].tok] \in SessionIds \cup {None}
      BY <2>1 DEF TypeInv, TypeOK
    <3> DEFINE r == [req[p] EXCEPT !.pc = "reuse.revoke", !.sess = tSess[req[p].tok]]
    <3>a. r \in Request /\ r.pc = "reuse.revoke"
      BY <1>r, <3>1 DEF Request, Labels, Idle
    <3>b. Become(p, r)
      BY <1>12, <2>1 DEF FindRevokedSession
    <3> HIDE DEF r
    <3>c. req' \in [Reqs -> Request] /\ req'[p] = r /\ \A q \in Reqs \ {p} : req'[q] = req[q]
      BY <1>r, <3>a, <3>b, BecomeFacts
    <3>d. QED
      BY <1>12, <3>a, <3>c DEF FindRevokedSession, TypeInv, TypeOK, LocalsOK, RowsOK,
         sessionVars, refreshVars, accessVars, blockVars
  <2>2. CASE req[p].tok \notin tokens \cap tRevoked
    <3> DEFINE r == Idle
    <3>a. r \in Request /\ r.pc = "idle"
      BY <1>r DEF Request, Labels, Idle
    <3>b. Become(p, r)
      BY <1>12, <2>2 DEF FindRevokedSession, Finish
    <3> HIDE DEF r
    <3>c. req' \in [Reqs -> Request] /\ req'[p] = r /\ \A q \in Reqs \ {p} : req'[q] = req[q]
      BY <1>r, <3>a, <3>b, BecomeFacts
    <3>d. QED
      BY <1>12, <3>a, <3>c DEF FindRevokedSession, TypeInv, TypeOK, LocalsOK, RowsOK,
         sessionVars, refreshVars, accessVars, blockVars
  <2>3. QED
    BY <2>1, <2>2
<1>13. ASSUME NEW p \in Reqs,
             ReuseRevoke(p)
      PROVE  TypeInv'
  <2>1. CASE ActiveSession(req[p].sess)
    <3>1. req[p].sess \in sessions
      BY <2>1 DEF ActiveSession
    <3>2. {req[p].sess} \in SUBSET SessionIds
      BY <3>1 DEF TypeInv, TypeOK
    <3> DEFINE r == Blocking({req[p].sess})
    <3>a. r \in Request /\ r.pc = "block"
      BY <3>2, BlockingFacts DEF Request, Labels, Idle
    <3>b. Become(p, r)
      BY <1>13, <2>1 DEF ReuseRevoke
    <3> HIDE DEF r
    <3>c. req' \in [Reqs -> Request] /\ req'[p] = r /\ \A q \in Reqs \ {p} : req'[q] = req[q]
      BY <1>r, <3>a, <3>b, BecomeFacts
    <3>d. QED
      BY <1>13, <2>1, <3>1, <3>a, <3>c DEF ReuseRevoke, RevokeSessions, TokensOf,
         TypeInv, TypeOK, LocalsOK, RowsOK, sessionVars, refreshVars, accessVars,
         blockVars
  <2>2. CASE ~ActiveSession(req[p].sess)
    <3> DEFINE r == Idle
    <3>a. r \in Request /\ r.pc = "idle"
      BY <1>r DEF Request, Labels, Idle
    <3>b. Become(p, r)
      BY <1>13, <2>2 DEF ReuseRevoke, Finish
    <3> HIDE DEF r
    <3>c. req' \in [Reqs -> Request] /\ req'[p] = r /\ \A q \in Reqs \ {p} : req'[q] = req[q]
      BY <1>r, <3>a, <3>b, BecomeFacts
    <3>d. QED
      BY <1>13, <2>2, <3>a, <3>c DEF ReuseRevoke, TypeInv, TypeOK, LocalsOK, RowsOK,
         sessionVars, refreshVars, accessVars, blockVars
  <2>3. QED
    BY <2>1, <2>2
<1>14. ASSUME NEW p \in Reqs,
             Block(p)
      PROVE  TypeInv'
  BY <1>14, <1>r DEF Block, Finish, TypeInv, TypeOK, LocalsOK, RowsOK, Request, Idle,
     Labels,
     sessionVars, refreshVars, accessVars, blockVars, Become
<1>15. ASSUME NEW p \in Reqs,
             LogoutRevoke(p)
      PROVE  TypeInv'
  BY <1>15, <1>r DEF LogoutRevoke, Finish, RevokeSessions, TokensOf, ActiveSession,
     TypeInv, TypeOK, LocalsOK, RowsOK, Request, Idle, Labels,
     sessionVars, refreshVars, accessVars, blockVars, Become
<1>15a. ASSUME NEW p \in Reqs,
             RevokeOtherSessions(p)
      PROVE  TypeInv'
  <2>1. /\ req' \in [Reqs -> Request]
        /\ \A q \in Reqs \ {p} : req'[q] = req[q]
        /\ req'[p].pc \in {"block", "idle"}
    BY <1>15a, RevokeOtherSessionsLocals
  <2>2. req[p].keys \subseteq sessions
    BY <1>15a DEF RevokeOtherSessions, TypeInv, RowsOK
  <2>3. /\ UNCHANGED <<now, users, sessions, sUser, sDevice, tokens, tExp, accessVars,
                       blockVars, held>>
        /\ sRevoked' = sRevoked \cup req[p].keys
        /\ tRevoked \subseteq tRevoked' /\ tRevoked' \subseteq tRevoked \cup tokens
    BY <1>15a DEF RevokeOtherSessions, TokensOf
  <2>4. QED
    BY <2>1, <2>2, <2>3 DEF TypeInv, TypeOK, LocalsOK, RowsOK, accessVars, blockVars
<1>16. ASSUME NEW p \in Reqs,
             Fail(p)
      PROVE  TypeInv'
  BY <1>16, <1>r DEF Fail, Finish, TypeInv, TypeOK, LocalsOK, RowsOK, Request, Idle,
     Labels,
     sessionVars, refreshVars, accessVars, blockVars, Become
<1>17. CASE CleanOrphanedSessions
  BY <1>17, <1>r DEF CleanOrphanedSessions, Orphaned, TypeInv, TypeOK, LocalsOK,
     RowsOK, Request, Idle, Labels,
     sessionVars, refreshVars, accessVars, blockVars, Become
<1>18. CASE Tick
  BY <1>18, <1>r DEF Tick, TypeInv, TypeOK, LocalsOK, RowsOK, Request, Idle, Labels,
     sessionVars, refreshVars, accessVars, blockVars, Become
<1>19. CASE UNCHANGED vars
  BY <1>19, <1>r DEF vars, TypeInv, TypeOK, LocalsOK, RowsOK, Request, Idle, Labels,
     sessionVars, refreshVars, accessVars, blockVars, Become
<1>20. QED
  BY <1>1, <1>2, <1>3, <1>4, <1>5, <1>6, <1>7, <1>8, <1>9, <1>10, <1>11, <1>12, <1>13,
     <1>14, <1>15, <1>15a, <1>16, <1>17, <1>18, <1>19 DEF Next, Continue

\* The tables and the locals always have the types the code declares.
THEOREM TypeCorrect == Spec => []TypeOK
<1>1. TypeInv => TypeOK
  BY DEF TypeInv
<1>2. QED
  BY <1>1, InitTypeInv, NextTypeInv, PTL DEF Spec

-----------------------------------------------------------------------------
\* One active session per device of a user.

\* The upsert, and every revocation, keep a device to one active session.
LEMMA NextOneSession ==
    TypeInv /\ OneSessionPerDevice /\ [Next]_vars => OneSessionPerDevice'
<1> SUFFICES ASSUME TypeInv, OneSessionPerDevice, [Next]_vars PROVE OneSessionPerDevice'
  OBVIOUS
<1> USE DEF TypeInv, TypeOK, RowsOK, sessionVars, OneSessionPerDevice
<1>1. ASSUME NEW p \in Reqs, NEW u \in Users, NEW d \in Devices,
             Register(p, u, d)
      PROVE  OneSessionPerDevice'
  BY <1>1 DEF Register, Start
<1>2. ASSUME NEW p \in Reqs, NEW u \in Users, NEW d \in Devices,
             Login(p, u, d)
      PROVE  OneSessionPerDevice'
  BY <1>2 DEF Login, Start
<1>3. ASSUME NEW p \in Reqs, NEW t \in Tokens,
             Refresh(p, t)
      PROVE  OneSessionPerDevice'
  BY <1>3 DEF Refresh, Start, Consumable, LiveToken, ActiveSession
<1>4. ASSUME NEW p \in Reqs, NEW t \in Tokens,
             Logout(p, t)
      PROVE  OneSessionPerDevice'
  BY <1>4 DEF Logout, Start, Consumable, LiveToken, ActiveSession
<1>5. ASSUME NEW p \in Reqs, NEW t \in Tokens,
             RevokeOtherDeviceSessions(p, t)
      PROVE  OneSessionPerDevice'
  BY <1>5 DEF RevokeOtherDeviceSessions, Start
<1>6. ASSUME NEW p \in Reqs, NEW t \in Tokens, NEW s \in SessionIds,
             RevokeDeviceSession(p, t, s)
      PROVE  OneSessionPerDevice'
  BY <1>6 DEF RevokeDeviceSession, Start, Blocking, RevokeSessions, TokensOf,
     ActiveSession
<1>7. ASSUME NEW p \in Reqs,
             LoginClean(p)
      PROVE  OneSessionPerDevice'
  BY <1>7 DEF LoginClean, Goto, Orphaned
<1>8. ASSUME NEW p \in Reqs,
             CreateDeviceSession(p)
      PROVE  OneSessionPerDevice'
  <2>1. PICK s \in SessionIds :
            /\ s \notin sRevoked /\ sRevoked' = sRevoked
            /\ \/ /\ SessionOf(req[p].user, req[p].device) = {}
                  /\ s \notin sessions
                  /\ InsertSession(s, req[p].user, req[p].device)
               \/ UNCHANGED sessionVars
    BY <1>8, CreateDeviceSessionLocals
  <2>2. QED
    BY <2>1 DEF SessionOf, InsertSession
<1>9. ASSUME NEW p \in Reqs,
             IssueAccess(p)
      PROVE  OneSessionPerDevice'
  BY <1>9 DEF IssueAccess
<1>10. ASSUME NEW p \in Reqs,
             CreateRefreshSession(p)
      PROVE  OneSessionPerDevice'
  BY <1>10 DEF CreateRefreshSession, Goto
<1>11. ASSUME NEW p \in Reqs,
             Reply(p)
      PROVE  OneSessionPerDevice'
  BY <1>11 DEF Reply, Finish
<1>12. ASSUME NEW p \in Reqs,
             FindRevokedSession(p)
      PROVE  OneSessionPerDevice'
  BY <1>12 DEF FindRevokedSession, Finish
<1>13. ASSUME NEW p \in Reqs,
             ReuseRevoke(p)
      PROVE  OneSessionPerDevice'
  BY <1>13 DEF ReuseRevoke, Finish, Blocking, RevokeSessions, TokensOf, ActiveSession
<1>14. ASSUME NEW p \in Reqs,
             Block(p)
      PROVE  OneSessionPerDevice'
  BY <1>14 DEF Block, Finish
<1>15. ASSUME NEW p \in Reqs,
             LogoutRevoke(p)
      PROVE  OneSessionPerDevice'
  BY <1>15 DEF LogoutRevoke, Finish, RevokeSessions, TokensOf, ActiveSession
<1>15a. ASSUME NEW p \in Reqs,
             RevokeOtherSessions(p)
      PROVE  OneSessionPerDevice'
  BY <1>15a DEF RevokeOtherSessions
<1>16. ASSUME NEW p \in Reqs,
             Fail(p)
      PROVE  OneSessionPerDevice'
  BY <1>16 DEF Fail, Finish
<1>17. CASE CleanOrphanedSessions
  BY <1>17 DEF CleanOrphanedSessions, Orphaned
<1>18. CASE Tick
  BY <1>18 DEF Tick
<1>19. CASE UNCHANGED vars
  BY <1>19 DEF vars
<1>20. QED
  BY <1>1, <1>2, <1>3, <1>4, <1>5, <1>6, <1>7, <1>8, <1>9, <1>10, <1>11, <1>12, <1>13,
     <1>14, <1>15, <1>15a, <1>16, <1>17, <1>18, <1>19 DEF Next, Continue

\* A user's device never has two active sessions.
THEOREM OneSession == Spec => []OneSessionPerDevice
<1>1. Init => OneSessionPerDevice
  BY DEF Init, OneSessionPerDevice
<1>2. QED
  BY <1>1, InitTypeInv, NextTypeInv, NextOneSession, PTL DEF Spec

-----------------------------------------------------------------------------
\* Rotation.

\* A token that was exchanged, or is being exchanged, is revoked; while a
\* request is exchanging it nobody else is, and nobody has been.
Exchanging(p) == req[p].pc = "issue" /\ req[p].tok # None

RotationInv ==
    /\ \A t \in minted : parent[t] # None => parent[t] \in tRevoked
    /\ \A p \in Reqs : Exchanging(p) =>
        /\ req[p].tok \in tRevoked
        /\ \A t \in minted : parent[t] # req[p].tok
        /\ \A q \in Reqs \ {p} : Exchanging(q) => req[q].tok # req[p].tok
    /\ RotationNeverForks

\* A step of p that issues nothing may start an exchange, of a token that was
\* not revoked before.
LEMMA ExchangesKept ==
    ASSUME RotationInv, NEW p \in Reqs,
           UNCHANGED <<minted, parent>>, tRevoked \subseteq tRevoked',
           \A q \in Reqs \ {p} : req'[q] = req[q],
           Exchanging(p)' => req'[p].tok \in tRevoked' /\ req'[p].tok \notin tRevoked
    PROVE  RotationInv'
<1>1. (\A t \in minted : parent[t] # None => parent[t] \in tRevoked)'
  BY DEF RotationInv
<1>2. RotationNeverForks'
  BY DEF RotationInv, RotationNeverForks
<1>3. ASSUME NEW q \in Reqs, Exchanging(q)'
      PROVE  req'[q].tok \in tRevoked' /\ \A t \in minted : parent[t] # req'[q].tok
  <2>1. CASE q = p
    BY <1>3, <2>1 DEF RotationInv, Exchanging
  <2>2. CASE q # p
    BY <1>3, <2>2 DEF RotationInv, Exchanging
  <2>3. QED
    BY <2>1, <2>2
<1>4. ASSUME NEW q \in Reqs, NEW q2 \in Reqs, q2 # q, Exchanging(q)', Exchanging(q2)'
      PROVE  req'[q2].tok # req'[q].tok
  <2>1. CASE q = p
    BY <1>4, <2>1 DEF RotationInv, Exchanging
  <2>2. CASE q2 = p
    BY <1>4, <2>2 DEF RotationInv, Exchanging
  <2>3. CASE q # p /\ q2 # p
    BY <1>4, <2>3 DEF RotationInv, Exchanging
  <2>4. QED
    BY <2>1, <2>2, <2>3
<1>5. QED
  BY <1>1, <1>2, <1>3, <1>4 DEF RotationInv

\* Whatever runs beside it, an exchange stays the only one of its token.
LEMMA NextRotation == TypeInv /\ RotationInv /\ [Next]_vars => RotationInv'
<1> SUFFICES ASSUME TypeInv, RotationInv, [Next]_vars PROVE RotationInv'
  OBVIOUS
<1> USE IdsAssumption
<1> USE DEF TypeInv, TypeOK, LocalsOK, RowsOK, Request, Idle, sessionVars, refreshVars,
        accessVars, blockVars, Become, RotationInv, Exchanging, RotationNeverForks
<1>1. ASSUME NEW p \in Reqs, NEW u \in Users, NEW d \in Devices,
             Register(p, u, d)
      PROVE  RotationInv'
  BY <1>1 DEF Register, Start
<1>2. ASSUME NEW p \in Reqs, NEW u \in Users, NEW d \in Devices,
             Login(p, u, d)
      PROVE  RotationInv'
  BY <1>2 DEF Login, Start
<1>3. ASSUME NEW p \in Reqs, NEW t \in Tokens,
             Refresh(p, t)
      PROVE  RotationInv'
  <2> HIDE DEF TypeInv, TypeOK, LocalsOK, RowsOK, Request, Become, Idle, RotationInv
  <2>1. /\ UNCHANGED <<minted, parent>> /\ tRevoked \subseteq tRevoked'
        /\ \A q \in Reqs \ {p} : req'[q] = req[q]
        /\ Exchanging(p)' =>
                 req'[p].tok \in tRevoked' /\ req'[p].tok \notin tRevoked
    BY <1>3, RefreshLocals DEF Refresh, Consumable, LiveToken
  <2> HIDE DEF Exchanging, RotationNeverForks
  <2>2. QED
    BY <2>1, ExchangesKept
<1>4. ASSUME NEW p \in Reqs, NEW t \in Tokens,
             Logout(p, t)
      PROVE  RotationInv'
  BY <1>4 DEF Logout, Start, Consumable, LiveToken, ActiveSession
<1>5. ASSUME NEW p \in Reqs, NEW t \in Tokens,
             RevokeOtherDeviceSessions(p, t)
      PROVE  RotationInv'
  BY <1>5 DEF RevokeOtherDeviceSessions, Start
<1>6. ASSUME NEW p \in Reqs, NEW t \in Tokens, NEW s \in SessionIds,
             RevokeDeviceSession(p, t, s)
      PROVE  RotationInv'
  BY <1>6 DEF RevokeDeviceSession, Start, Blocking, RevokeSessions, TokensOf,
     ActiveSession
<1>7. ASSUME NEW p \in Reqs,
             LoginClean(p)
      PROVE  RotationInv'
  BY <1>7 DEF LoginClean, Goto, Orphaned
<1>8. ASSUME NEW p \in Reqs,
             CreateDeviceSession(p)
      PROVE  RotationInv'
  <2> HIDE DEF TypeInv, TypeOK, LocalsOK, RowsOK, Request, Become, Idle, RotationInv
  <2>1. /\ UNCHANGED <<minted, parent>> /\ tRevoked \subseteq tRevoked'
        /\ \A q \in Reqs \ {p} : req'[q] = req[q]
        /\ Exchanging(p)' =>
                 req'[p].tok \in tRevoked' /\ req'[p].tok \notin tRevoked
    BY <1>8, CreateDeviceSessionLocals DEF CreateDeviceSession, TypeInv, LocalsOK
  <2> HIDE DEF Exchanging, RotationNeverForks
  <2>2. QED
    BY <2>1, ExchangesKept
<1>9. ASSUME NEW p \in Reqs,
             IssueAccess(p)
      PROVE  RotationInv'
  BY <1>9 DEF IssueAccess
<1>10. ASSUME NEW p \in Reqs,
             CreateRefreshSession(p)
      PROVE  RotationInv'
  BY <1>10 DEF CreateRefreshSession, Goto
<1>11. ASSUME NEW p \in Reqs,
             Reply(p)
      PROVE  RotationInv'
  BY <1>11 DEF Reply, Finish
<1>12. ASSUME NEW p \in Reqs,
             FindRevokedSession(p)
      PROVE  RotationInv'
  <2> HIDE DEF TypeInv, TypeOK, LocalsOK, RowsOK, Request, Become, Idle, RotationInv
  <2>1. /\ UNCHANGED <<minted, parent>> /\ tRevoked \subseteq tRevoked'
        /\ \A q \in Reqs \ {p} : req'[q] = req[q]
        /\ Exchanging(p)' =>
                 req'[p].tok \in tRevoked' /\ req'[p].tok \notin tRevoked
    BY <1>12, FindRevokedSessionLocals DEF FindRevokedSession
  <2> HIDE DEF Exchanging, RotationNeverForks
  <2>2. QED
    BY <2>1, ExchangesKept
<1>13. ASSUME NEW p \in Reqs,
             ReuseRevoke(p)
      PROVE  RotationInv'
  <2> HIDE DEF TypeInv, TypeOK, LocalsOK, RowsOK, Request, Become, Idle, RotationInv
  <2>1. /\ UNCHANGED <<minted, parent>> /\ tRevoked \subseteq tRevoked'
        /\ \A q \in Reqs \ {p} : req'[q] = req[q]
        /\ Exchanging(p)' =>
                 req'[p].tok \in tRevoked' /\ req'[p].tok \notin tRevoked
    BY <1>13, ReuseRevokeLocals DEF ReuseRevoke, RevokeSessions
  <2> HIDE DEF Exchanging, RotationNeverForks
  <2>2. QED
    BY <2>1, ExchangesKept
<1>14. ASSUME NEW p \in Reqs,
             Block(p)
      PROVE  RotationInv'
  BY <1>14 DEF Block, Finish
<1>15. ASSUME NEW p \in Reqs,
             LogoutRevoke(p)
      PROVE  RotationInv'
  BY <1>15 DEF LogoutRevoke, Finish, RevokeSessions, TokensOf, ActiveSession
<1>15a. ASSUME NEW p \in Reqs,
             RevokeOtherSessions(p)
      PROVE  RotationInv'
  <2> HIDE DEF TypeInv, TypeOK, LocalsOK, RowsOK, Request, Become, Idle, RotationInv
  <2>1. /\ UNCHANGED <<minted, parent>> /\ tRevoked \subseteq tRevoked'
        /\ \A q \in Reqs \ {p} : req'[q] = req[q]
        /\ Exchanging(p)' =>
                 req'[p].tok \in tRevoked' /\ req'[p].tok \notin tRevoked
    BY <1>15a, RevokeOtherSessionsLocals DEF RevokeOtherSessions
  <2> HIDE DEF Exchanging, RotationNeverForks
  <2>2. QED
    BY <2>1, ExchangesKept
<1>16. ASSUME NEW p \in Reqs,
             Fail(p)
      PROVE  RotationInv'
  BY <1>16 DEF Fail, Finish
<1>17. CASE CleanOrphanedSessions
  BY <1>17 DEF CleanOrphanedSessions, Orphaned
<1>18. CASE Tick
  BY <1>18 DEF Tick
<1>19. CASE UNCHANGED vars
  BY <1>19 DEF vars
<1>20. QED
  BY <1>1, <1>2, <1>3, <1>4, <1>5, <1>6, <1>7, <1>8, <1>9, <1>10, <1>11, <1>12, <1>13,
     <1>14, <1>15, <1>15a, <1>16, <1>17, <1>18, <1>19 DEF Next, Continue

\* A refresh token is exchanged for at most one successor, whatever requests
\* present it at the same time (ConsumeRefreshSession).
THEOREM RotationIsLinear == Spec => []RotationNeverForks
<1>1. Init => RotationInv
  BY DEF Init, RotationInv, Exchanging, RotationNeverForks, Idle
<1>2. RotationInv => RotationNeverForks
  BY DEF RotationInv
<1>3. QED
  BY <1>1, <1>2, InitTypeInv, NextTypeInv, NextRotation, PTL DEF Spec

-----------------------------------------------------------------------------
\* The blocklist.

\* No access token lives longer than AccessTTL from now, and the entry of a
\* blocked session lives at least as long as the tokens issued before it.
BlockInv ==
    /\ \A t \in minted : aExp[t] <= now + AccessTTL
    /\ \A s \in SessionIds : \A t \in covered[s] :
        t \in minted /\ tSess[t] = s /\ aExp[t] <= bExp[s]

\* Neither new tokens nor new entries nor the clock change that.
LEMMA NextBlock == TypeInv /\ BlockInv /\ [Next]_vars => BlockInv'
<1> SUFFICES ASSUME TypeInv, BlockInv, [Next]_vars PROVE BlockInv'
  OBVIOUS
<1> USE IdsAssumption, TimeAssumption
<1> USE DEF TypeInv, TypeOK, LocalsOK, RowsOK, Request, sessionVars, refreshVars,
        accessVars, blockVars, Become, BlockInv
<1>1. ASSUME NEW p \in Reqs, NEW u \in Users, NEW d \in Devices,
             Register(p, u, d)
      PROVE  BlockInv'
  BY <1>1 DEF Register, Start
<1>2. ASSUME NEW p \in Reqs, NEW u \in Users, NEW d \in Devices,
             Login(p, u, d)
      PROVE  BlockInv'
  BY <1>2 DEF Login, Start
<1>3. ASSUME NEW p \in Reqs, NEW t \in Tokens,
             Refresh(p, t)
      PROVE  BlockInv'
  BY <1>3 DEF Refresh, Start, Consumable, LiveToken, ActiveSession
<1>4. ASSUME NEW p \in Reqs, NEW t \in Tokens,
             Logout(p, t)
      PROVE  BlockInv'
  BY <1>4 DEF Logout, Start, Consumable, LiveToken, ActiveSession
<1>5. ASSUME NEW p \in Reqs, NEW t \in Tokens,
             RevokeOtherDeviceSessions(p, t)
      PROVE  BlockInv'
  BY <1>5 DEF RevokeOtherDeviceSessions, Start
<1>6. ASSUME NEW p \in Reqs, NEW t \in Tokens, NEW s \in SessionIds,
             RevokeDeviceSession(p, t, s)
      PROVE  BlockInv'
  BY <1>6 DEF RevokeDeviceSession, Start, Blocking, RevokeSessions, TokensOf,
     ActiveSession
<1>7. ASSUME NEW p \in Reqs,
             LoginClean(p)
      PROVE  BlockInv'
  BY <1>7 DEF LoginClean, Goto, Orphaned
<1>8. ASSUME NEW p \in Reqs,
             CreateDeviceSession(p)
      PROVE  BlockInv'
  BY <1>8 DEF CreateDeviceSession, SessionOf, InsertSession, TokensOf
<1>9. ASSUME NEW p \in Reqs,
             IssueAccess(p)
      PROVE  BlockInv'
  BY <1>9 DEF IssueAccess
<1>10. ASSUME NEW p \in Reqs,
             CreateRefreshSession(p)
      PROVE  BlockInv'
  BY <1>10 DEF CreateRefreshSession, Goto
<1>11. ASSUME NEW p \in Reqs,
             Reply(p)
      PROVE  BlockInv'
  BY <1>11 DEF Reply, Finish
<1>12. ASSUME NEW p \in Reqs,
             FindRevokedSession(p)
      PROVE  BlockInv'
  BY <1>12 DEF FindRevokedSession, Finish
<1>13. ASSUME NEW p \in Reqs,
             ReuseRevoke(p)
      PROVE  BlockInv'
  BY <1>13 DEF ReuseRevoke, Finish, Blocking, RevokeSessions, TokensOf, ActiveSession
<1>14. ASSUME NEW p \in Reqs,
             Block(p)
      PROVE  BlockInv'
  BY <1>14 DEF Block, Finish
<1>15. ASSUME NEW p \in Reqs,
             LogoutRevoke(p)
      PROVE  BlockInv'
  BY <1>15 DEF LogoutRevoke, Finish, RevokeSessions, TokensOf, ActiveSession
<1>15a. ASSUME NEW p \in Reqs,
             RevokeOtherSessions(p)
      PROVE  BlockInv'
  BY <1>15a DEF RevokeOtherSessions
<1>16. ASSUME NEW p \in Reqs,
             Fail(p)
      PROVE  BlockInv'
  BY <1>16 DEF Fail, Finish
<1>17. CASE CleanOrphanedSessions
  BY <1>17 DEF CleanOrphanedSessions, Orphaned
<1>18. CASE Tick
  BY <1>18 DEF Tick
<1>19. CASE UNCHANGED vars
  BY <1>19 DEF vars
<1>20. QED
  BY <1>1, <1>2, <1>3, <1>4, <1>5, <1>6, <1>7, <1>8, <1>9, <1>10, <1>11, <1>12, <1>13,
     <1>14, <1>15, <1>15a, <1>16, <1>17, <1>18, <1>19 DEF Next, Continue

\* Once a session is on the blocklist, AuthMiddleware never again accepts an
\* access token it had issued, also after the entry has expired.
THEOREM BlockIsFinal == Spec => []BlockOutlivesTokens
<1>1. Init => BlockInv
  BY DEF Init, BlockInv
<1>2. TypeInv /\ BlockInv => BlockOutlivesTokens
  BY TimeAssumption DEF TypeInv, TypeOK, BlockInv, BlockOutlivesTokens, Accepted,
     IsBlocked
<1>3. QED
  BY <1>1, <1>2, InitTypeInv, NextTypeInv, NextBlock, PTL DEF Spec

-----------------------------------------------------------------------------
\* Revocation is for good.

\* What a step may do to a revoked session with no request in flight for it.
StaysDead ==
    \A s \in sRevoked : ~Issuing(s) =>
        /\ s \in sRevoked'
        /\ ~Issuing(s)'
        /\ \A t \in minted' \ minted : tSess'[t] # s

\* No step issues tokens for it or starts to.
LEMMA NextStaysDead == TypeInv /\ [Next]_vars => StaysDead
<1> SUFFICES ASSUME TypeInv, [Next]_vars PROVE StaysDead
  OBVIOUS
<1> USE IdsAssumption
<1> USE DEF TypeInv, TypeOK, RowsOK, Request, Idle, sessionVars, refreshVars,
        accessVars, blockVars, Become, StaysDead, Issuing
<1>1. ASSUME NEW p \in Reqs, NEW u \in Users, NEW d \in Devices,
             Register(p, u, d)
      PROVE  StaysDead
  BY <1>1 DEF Register, Start
<1>2. ASSUME NEW p \in Reqs, NEW u \in Users, NEW d \in Devices,
             Login(p, u, d)
      PROVE  StaysDead
  BY <1>2 DEF Login, Start
<1>3. ASSUME NEW p \in Reqs, NEW t \in Tokens,
             Refresh(p, t)
      PROVE  StaysDead
  <2> HIDE DEF TypeInv, TypeOK, RowsOK, Request, Become, Idle
  <2>1. /\ UNCHANGED <<sRevoked, minted>>
        /\ \A q \in Reqs \ {p} : req'[q] = req[q]
    BY <1>3, RefreshLocals DEF Refresh
  <2>2. req'[p].pc = "issue" => req'[p].sess \notin sRevoked
    BY <1>3, RefreshLocals DEF Consumable, ActiveSession
  <2>3. QED
    BY <2>1, <2>2
<1>4. ASSUME NEW p \in Reqs, NEW t \in Tokens,
             Logout(p, t)
      PROVE  StaysDead
  BY <1>4 DEF Logout, Start, Consumable, LiveToken, ActiveSession
<1>5. ASSUME NEW p \in Reqs, NEW t \in Tokens,
             RevokeOtherDeviceSessions(p, t)
      PROVE  StaysDead
  BY <1>5 DEF RevokeOtherDeviceSessions, Start
<1>6. ASSUME NEW p \in Reqs, NEW t \in Tokens, NEW s \in SessionIds,
             RevokeDeviceSession(p, t, s)
      PROVE  StaysDead
  BY <1>6 DEF RevokeDeviceSession, Start, Blocking, RevokeSessions, TokensOf,
     ActiveSession
<1>7. ASSUME NEW p \in Reqs,
             LoginClean(p)
      PROVE  StaysDead
  BY <1>7 DEF LoginClean, Goto, Orphaned
<1>8. ASSUME NEW p \in Reqs,
             CreateDeviceSession(p)
      PROVE  StaysDead
  <2> HIDE DEF Request, Become, Idle
  <2>1. QED
    BY <1>8, CreateDeviceSessionLocals, ZenonT(40)
<1>9. ASSUME NEW p \in Reqs,
             IssueAccess(p)
      PROVE  StaysDead
  BY <1>9 DEF IssueAccess
<1>10. ASSUME NEW p \in Reqs,
             CreateRefreshSession(p)
      PROVE  StaysDead
  BY <1>10 DEF CreateRefreshSession, Goto
<1>11. ASSUME NEW p \in Reqs,
             Reply(p)
      PROVE  StaysDead
  BY <1>11 DEF Reply, Finish
<1>12. ASSUME NEW p \in Reqs,
             FindRevokedSession(p)
      PROVE  StaysDead
  <2> HIDE DEF Request, Become, Idle
  <2>1. QED
    BY <1>12, FindRevokedSessionLocals DEF FindRevokedSession
<1>13. ASSUME NEW p \in Reqs,
             ReuseRevoke(p)
      PROVE  StaysDead
  <2> HIDE DEF Request, Become, Idle
  <2>1. QED
    BY <1>13, ReuseRevokeLocals DEF ReuseRevoke, RevokeSessions, TokensOf
<1>14. ASSUME NEW p \in Reqs,
             Block(p)
      PROVE  StaysDead
  BY <1>14 DEF Block, Finish
<1>15. ASSUME NEW p \in Reqs,
             LogoutRevoke(p)
      PROVE  StaysDead
  BY <1>15 DEF LogoutRevoke, Finish, RevokeSessions, TokensOf, ActiveSession
<1>15a. ASSUME NEW p \in Reqs,
             RevokeOtherSessions(p)
      PROVE  StaysDead
  <2> HIDE DEF Request, Become, Idle
  <2>1. QED
    BY <1>15a, RevokeOtherSessionsLocals DEF RevokeOtherSessions
<1>16. ASSUME NEW p \in Reqs,
             Fail(p)
      PROVE  StaysDead
  BY <1>16 DEF Fail, Finish
<1>17. CASE CleanOrphanedSessions
  BY <1>17 DEF CleanOrphanedSessions, Orphaned
<1>18. CASE Tick
  BY <1>18 DEF Tick
<1>19. CASE UNCHANGED vars
  BY <1>19 DEF vars
<1>20. QED
  BY <1>1, <1>2, <1>3, <1>4, <1>5, <1>6, <1>7, <1>8, <1>9, <1>10, <1>11, <1>12, <1>13,
     <1>14, <1>15, <1>15a, <1>16, <1>17, <1>18, <1>19 DEF Next, Continue

\* A revoked session never gets another token pair once the requests that
\* were in flight for it are over.
THEOREM DeadStaysDead == Spec => DeadSessionStaysDead
<1>1. TypeInv /\ [Next]_vars => [StaysDead]_vars
  BY NextStaysDead
<1>2. QED
  BY <1>1, InitTypeInv, NextTypeInv, PTL DEF Spec, DeadSessionStaysDead, StaysDead

-----------------------------------------------------------------------------
\* The browsers: what Sessions keeps is kept behind them too.

\* A step of the browsers is a step of the handlers, or changes a cookie only.
LEMMA BrowserStep == TypeInv /\ [BrowserNext]_allVars => [Next]_vars
<1> SUFFICES ASSUME TypeInv, [BrowserNext]_allVars PROVE [Next]_vars
  OBVIOUS
<1>1. ASSUME NEW p \in Reqs, NEW u \in Users, NEW d \in Devices, SignIn(p, u, d)
      PROVE  Next
  BY <1>1 DEF SignIn, Next
<1>2. ASSUME NEW p \in Reqs, NEW d \in Devices, SendRefresh(p, d) \/ SendLogout(p, d)
      PROVE  Next
  <2>1. jar[d] \in Tokens
    BY <1>2 DEF SendRefresh, SendLogout, Refresh, Logout, TypeInv, TypeOK
  <2>2. QED
    BY <1>2, <2>1 DEF SendRefresh, SendLogout, Next
<1>3. ASSUME NEW p \in Reqs, NEW t \in Tokens, Manage(p, t)
      PROVE  Next
  BY <1>3 DEF Manage, Next
<1>4. ASSUME NEW p \in Reqs, Go(p) \/ Lose(p)
      PROVE  Next
  BY <1>4 DEF Go, Lose, Next
<1>5. ASSUME NEW d \in Devices, LogoutAnyway(d)
      PROVE  UNCHANGED vars
  BY <1>5 DEF LogoutAnyway
<1>6. CASE Background
  BY <1>6 DEF Background, Next
<1>7. CASE UNCHANGED allVars
  BY <1>7 DEF allVars, vars
<1>8. QED
  BY <1>1, <1>2, <1>3, <1>4, <1>5, <1>6, <1>7 DEF BrowserNext

\* What no step takes back: an issued token stays with its session, a session
\* with its device, and a revocation is final.
Grows ==
    /\ minted \subseteq minted' /\ sessions \subseteq sessions' /\ sRevoked \subseteq sRevoked'
    /\ \A t \in minted : tSess'[t] = tSess[t]
    /\ \A s \in sessions : sDevice'[s] = sDevice[s] /\ sUser'[s] = sUser[s]

\* Only fresh ids are given a session or a device.
LEMMA NextGrows == TypeInv /\ [Next]_vars => Grows
<1> SUFFICES ASSUME TypeInv, [Next]_vars PROVE Grows
  OBVIOUS
<1> USE DEF Grows, sessionVars, refreshVars, accessVars
<1>1. ASSUME NEW p \in Reqs, NEW u \in Users, NEW d \in Devices,
             Register(p, u, d) \/ Login(p, u, d)
      PROVE  Grows
  BY <1>1 DEF Register, Login
<1>2. ASSUME NEW p \in Reqs, NEW t \in Tokens, Refresh(p, t) \/ Logout(p, t)
      PROVE  Grows
  BY <1>2 DEF Refresh, Logout
<1>3. ASSUME NEW p \in Reqs, NEW t \in Tokens, RevokeOtherDeviceSessions(p, t)
      PROVE  Grows
  BY <1>3 DEF RevokeOtherDeviceSessions
<1>4. ASSUME NEW p \in Reqs, NEW t \in Tokens, NEW s \in SessionIds,
             RevokeDeviceSession(p, t, s)
      PROVE  Grows
  BY <1>4 DEF RevokeDeviceSession, RevokeSessions
<1>5. ASSUME NEW p \in Reqs, LoginClean(p)
      PROVE  Grows
  BY <1>5 DEF LoginClean
<1>6. ASSUME NEW p \in Reqs, CreateDeviceSession(p)
      PROVE  Grows
  <2>1. UNCHANGED <<sRevoked, minted, tSess>>
    BY <1>6, CreateDeviceSessionLocals
  <2>2. /\ sDevice \in [SessionIds -> Devices \cup {None}]
        /\ sUser \in [SessionIds -> Users \cup {None}]
        /\ sessions \subseteq SessionIds
    BY DEF TypeInv, TypeOK
  <2>3. /\ sessions \subseteq sessions'
        /\ \A s \in sessions : sDevice'[s] = sDevice[s] /\ sUser'[s] = sUser[s]
    BY <1>6, <2>2, CreateDeviceSessionLocals DEF InsertSession
  <2>4. QED
    BY <2>1, <2>3
<1>7. ASSUME NEW p \in Reqs, IssueAccess(p)
      PROVE  Grows
  BY <1>7 DEF IssueAccess, TypeInv, TypeOK
<1>8. ASSUME NEW p \in Reqs,
             \/ CreateRefreshSession(p) \/ Reply(p) \/ FindRevokedSession(p)
             \/ Block(p) \/ Fail(p)
      PROVE  Grows
  BY <1>8 DEF CreateRefreshSession, Reply, FindRevokedSession, Block, Fail
<1>9. ASSUME NEW p \in Reqs, ReuseRevoke(p) \/ LogoutRevoke(p) \/ RevokeOtherSessions(p)
      PROVE  Grows
  BY <1>9 DEF ReuseRevoke, LogoutRevoke, RevokeSessions, RevokeOtherSessions
<1>10. CASE CleanOrphanedSessions \/ Tick
  BY <1>10 DEF CleanOrphanedSessions, Tick
<1>11. CASE UNCHANGED vars
  BY <1>11 DEF vars
<1>12. QED
  BY <1>1, <1>2, <1>3, <1>4, <1>5, <1>6, <1>7, <1>8, <1>9, <1>10, <1>11
     DEF Next, Continue

\* A handler's step moves its own request only.
LEMMA ContinueOthers ==
    ASSUME TypeInv, NEW p \in Reqs, Continue(p)
    PROVE  \A q \in Reqs \ {p} : req'[q] = req[q]
<1>1. \E r : req' = [req EXCEPT ![p] = r]
  BY DEF Continue, LoginClean, CreateDeviceSession, IssueAccess, CreateRefreshSession,
     Reply, FindRevokedSession, ReuseRevoke, Block, LogoutRevoke, RevokeOtherSessions,
     Goto, Finish, Become
<1>2. QED
  BY <1>1 DEF TypeInv, TypeOK

\* The cookies and the waiting browsers have their types: SignIn, SendRefresh and
\* SendLogout leave their request under way, and a browser that is answered no
\* longer waits.
LEMMA NextBrowserTypes ==
    TypeInv /\ BrowserTypeOK /\ [BrowserNext]_allVars => BrowserTypeOK'
<1> SUFFICES ASSUME TypeInv, BrowserTypeOK, [BrowserNext]_allVars PROVE BrowserTypeOK'
  OBVIOUS
<1> USE DEF BrowserTypeOK
<1>r. req \in [Reqs -> Request] /\ \A q \in Reqs : req[q] \in Request
  BY DEF TypeInv, TypeOK
<1>s. ASSUME NEW p \in Reqs, NEW d \in Devices, Send(p, d), req'[p].pc # "idle",
             \A q \in Reqs \ {p} : req'[q] = req[q]
      PROVE  BrowserTypeOK'
  BY <1>s DEF Send
<1>1. ASSUME NEW p \in Reqs, NEW u \in Users, NEW d \in Devices, SignIn(p, u, d)
      PROVE  BrowserTypeOK'
  <2>1. req'[p].pc # "idle" /\ \A q \in Reqs \ {p} : req'[q] = req[q]
    BY <1>1, <1>r DEF SignIn, Register, Login, Start, Become, Idle
  <2>2. QED
    BY <1>1, <1>s, <2>1 DEF SignIn
<1>2. ASSUME NEW p \in Reqs, NEW d \in Devices, SendRefresh(p, d)
      PROVE  BrowserTypeOK'
  <2>1. jar[d] \in Tokens /\ Refresh(p, jar[d]) /\ Send(p, d)
    BY <1>2 DEF SendRefresh
  <2>2. req'[p].pc # "idle" /\ \A q \in Reqs \ {p} : req'[q] = req[q]
    BY <2>1, RefreshLocals
  <2>3. QED
    BY <1>s, <2>1, <2>2
<1>3. ASSUME NEW p \in Reqs, NEW d \in Devices, SendLogout(p, d)
      PROVE  BrowserTypeOK'
  <2>1. req'[p].pc # "idle" /\ \A q \in Reqs \ {p} : req'[q] = req[q]
    BY <1>3, <1>r DEF SendLogout, Logout, Start, Become, Idle
  <2>2. QED
    BY <1>3, <1>s, <2>1 DEF SendLogout
<1>4. ASSUME NEW p \in Reqs, NEW t \in Tokens, Manage(p, t)
      PROVE  BrowserTypeOK'
  <2>1. req[p].pc = "idle" /\ \A q \in Reqs \ {p} : req'[q] = req[q]
    BY <1>4, <1>r DEF Manage, RevokeOtherDeviceSessions, RevokeDeviceSession, Start, Become
  <2>2. QED
    BY <1>4, <2>1 DEF Manage, browserVars
<1>5. ASSUME NEW p \in Reqs, Go(p)
      PROVE  BrowserTypeOK'
  <2>1. \A q \in Reqs \ {p} : req'[q] = req[q]
    BY <1>5, ContinueOthers DEF Go
  <2>2. CASE req'[p].pc = "idle"
    <3>1. \A d \in Devices : CookieAfter(p, d) \in Tokens \cup {None}
      BY DEF CookieAfter, TypeInv, LocalsOK
    <3>2. jar' \in [Devices -> Tokens \cup {None}] /\ waits' = [waits EXCEPT ![p] = None]
          /\ honest' \in BOOLEAN
      BY <1>5, <2>2, <3>1 DEF Go
    <3>3. QED
      BY <2>1, <3>2
  <2>3. CASE req'[p].pc # "idle"
    BY <1>5, <2>1, <2>3 DEF Go
  <2>4. QED
    BY <2>2, <2>3
<1>6. ASSUME NEW p \in Reqs, Lose(p)
      PROVE  BrowserTypeOK'
  BY <1>6, <1>r DEF Lose, Fail, Finish, Become
<1>7. ASSUME NEW d \in Devices, LogoutAnyway(d)
      PROVE  BrowserTypeOK'
  BY <1>7 DEF LogoutAnyway, vars
<1>8. CASE Background
  BY <1>8 DEF Background, CleanOrphanedSessions, Tick, browserVars
<1>9. CASE UNCHANGED allVars
  BY <1>9 DEF allVars
<1>10. QED
  BY <1>1, <1>2, <1>3, <1>4, <1>5, <1>6, <1>7, <1>8, <1>9 DEF BrowserNext

\* No browser waits for a request that is over, and every cookie is a token.
THEOREM BrowserTypes == BrowserSpec => [](TypeInv /\ BrowserTypeOK)
<1>1. BrowserInit => TypeInv /\ BrowserTypeOK
  BY InitTypeInv DEF BrowserInit, BrowserTypeOK
<1>2. QED
  BY <1>1, BrowserStep, NextTypeInv, NextBrowserTypes, PTL DEF BrowserSpec

\* Behind the browsers the handlers behave as Sessions lets them: whatever holds of
\* Sessions (OneSession, RotationIsLinear, BlockIsFinal, DeadStaysDead) holds here.
THEOREM BrowsersImplementSessions == BrowserSpec => Spec
<1>1. BrowserInit => Init /\ TypeInv
  BY InitTypeInv DEF BrowserInit
<1>2. QED
  BY <1>1, BrowserStep, NextTypeInv, PTL DEF BrowserSpec, Spec

-----------------------------------------------------------------------------
\* The reuse detection and the honest browser.

\* Token t was issued for a session of device d.
Owned(t, d) == t \in minted /\ tSess[t] \in sessions /\ sDevice[tSess[t]] = d

\* A request that logs in, issues, hands out or examines a token does so for the
\* browser that waits for it.
OnBehalf(p) ==
    /\ req[p].pc \in {"login.clean", "login.create"} =>
        waits[p] \in Devices /\ req[p].device = waits[p]
    /\ req[p].pc = "issue" =>
        waits[p] \in Devices /\ req[p].sess \in sessions /\ sDevice[req[p].sess] = waits[p]
    /\ req[p].pc \in {"store", "reply", "reuse.find"} =>
        waits[p] \in Devices /\ Owned(req[p].tok, waits[p])

DeviceInv ==
    /\ \A d \in Devices : jar[d] # None => Owned(jar[d], d)
    /\ \A p \in Reqs : OnBehalf(p)

\* If t was revoked, so was its session: presenting t again ends nothing.
Harmless(t) == t \in tRevoked => tSess[t] \in sRevoked

\* The token a request hands out or examines is harmless, and a reuse is only
\* found where the session is over.
NoPunishment(p) ==
    /\ req[p].pc \in {"store", "reply", "reuse.find"} => Harmless(req[p].tok)
    /\ req[p].pc = "reuse.revoke" => req[p].sess \in sRevoked

\* A "revoke all others" under way knows every session whose tokens it will end:
\* no login has opened another since its first statement.
Swept(p) ==
    req[p].pc = "others.revoke" =>
        OtherSessions(req[p].user, req[p].sess) \ sRevoked \subseteq req[p].keys

SweptInv == honest => \A p \in Reqs : Swept(p)

HonestInv ==
    honest =>
        /\ \A p, q \in Reqs : waits[p] = waits[q] /\ waits[p] # None => p = q
        /\ \A p \in Reqs : NoPunishment(p)
        /\ \A d \in Devices : jar[d] # None /\ ~Waiting(d) => Harmless(jar[d])

\* What a step of request p does: the other requests stay where they are and, as
\* far as the browsers are honest, a token that it revokes has its session revoked
\* too, or is of the browser that waits for p; and what p itself and the cookie are
\* left with is as it should be.
Moves(p) ==
    /\ \A q \in Reqs \ {p} : req'[q] = req[q] /\ waits'[q] = waits[q]
    /\ OnBehalf(p)'
    /\ \A d \in Devices : jar'[d] \in {None, jar[d]} \/ Owned(jar[d], d)'
    /\ honest' =>
        /\ honest
        /\ \A t \in tRevoked' \ tRevoked :
            /\ t \in minted
            /\ \/ tSess[t] \in sRevoked'
               \/ waits'[p] \in Devices /\ Owned(t, waits'[p])
        /\ waits'[p] \in {None, waits[p]} \/ ~Waiting(waits'[p])
        /\ NoPunishment(p)'
        /\ \A d \in Devices : \/ jar'[d] = jar[d] /\ (waits[p] = d => waits'[p] = d)
                              \/ jar'[d] # None => Harmless(jar[d])'

\* Such a step keeps every cookie and every request with its own device.
LEMMA MovesDevices ==
    ASSUME DeviceInv, Grows, NEW p \in Reqs, Moves(p)
    PROVE  DeviceInv'
<1>1. \A t, d : Owned(t, d) => Owned(t, d)'
  BY DEF Owned, Grows
<1>2. \A d \in Devices : jar'[d] # None => Owned(jar[d], d)'
  BY <1>1 DEF Moves, DeviceInv
<1>3. ASSUME NEW q \in Reqs PROVE OnBehalf(q)'
  <2>1. CASE q = p
    BY <2>1 DEF Moves
  <2>2. CASE q # p
    <3>1. req'[q] = req[q] /\ waits'[q] = waits[q] /\ OnBehalf(q)
      BY <2>2 DEF Moves, DeviceInv
    <3>2. req[q].sess \in sessions =>
            req[q].sess \in sessions' /\ sDevice'[req[q].sess] = sDevice[req[q].sess]
      BY DEF Grows
    <3>3. Owned(req[q].tok, waits[q]) => Owned(req[q].tok, waits[q])'
      BY <1>1, <3>1 DEF Owned
    <3>4. QED
      BY <3>1, <3>2, <3>3 DEF OnBehalf
  <2>3. QED
    BY <2>1, <2>2
<1>4. QED
  BY <1>2, <1>3 DEF DeviceInv

\* Such a step punishes no honest browser.  A token that the step revokes while its
\* session goes on is of the browser that waits for p; an honest browser waits for
\* nothing else, so no other request carries that token, and no other browser has
\* it in its cookie.
LEMMA MovesHonest ==
    ASSUME DeviceInv, HonestInv, Grows, NEW p \in Reqs, Moves(p)
    PROVE  HonestInv'
<1> SUFFICES ASSUME honest'
             PROVE  /\ \A q, r \in Reqs : waits'[q] = waits'[r] /\ waits'[q] # None => q = r
                    /\ \A q \in Reqs : NoPunishment(q)'
                    /\ \A d \in Devices : jar'[d] # None /\ ~Waiting(d)' => Harmless(jar[d])'
  BY DEF HonestInv
<1>h. /\ honest
      /\ \A q \in Reqs \ {p} : req'[q] = req[q] /\ waits'[q] = waits[q]
      /\ waits'[p] \in {None, waits[p]} \/ ~Waiting(waits'[p])
  BY DEF Moves
<1>i. /\ \A q, r \in Reqs : waits[q] = waits[r] /\ waits[q] # None => q = r
      /\ \A q \in Reqs : NoPunishment(q)
      /\ \A d \in Devices : jar[d] # None /\ ~Waiting(d) => Harmless(jar[d])
  BY <1>h DEF HonestInv
<1>1. ASSUME NEW q \in Reqs, NEW r \in Reqs, waits'[q] = waits'[r], waits'[q] # None
      PROVE  q = r
  <2>1. CASE q # p /\ r # p
    BY <1>1, <1>h, <1>i, <2>1
  <2>2. CASE q = p /\ r # p
    BY <1>1, <1>h, <1>i, <2>2 DEF Waiting
  <2>3. CASE q # p /\ r = p
    BY <1>1, <1>h, <1>i, <2>3 DEF Waiting
  <2>4. QED
    BY <2>1, <2>2, <2>3
<1>2. ASSUME NEW t, NEW d \in Devices, Owned(t, d), Harmless(t), waits'[p] # d
      PROVE  Harmless(t)'
  <2>1. t \in minted /\ sDevice[tSess[t]] = d /\ tSess'[t] = tSess[t]
    BY <1>2 DEF Owned, Grows
  <2>2. CASE t \in tRevoked
    BY <1>2, <2>1, <2>2 DEF Harmless, Grows
  <2>3. CASE t \in tRevoked' \ tRevoked
    <3>1. tSess[t] \in sRevoked' \/ Owned(t, waits'[p])
      BY <2>3 DEF Moves
    <3>2. ~Owned(t, waits'[p])
      BY <1>2, <2>1 DEF Owned
    <3>3. QED
      BY <2>1, <3>1, <3>2 DEF Harmless
  <2>4. CASE t \notin tRevoked'
    BY <2>4 DEF Harmless
  <2>5. QED
    BY <2>2, <2>3, <2>4
<1>3. ASSUME NEW q \in Reqs PROVE NoPunishment(q)'
  <2>1. CASE q = p
    BY <2>1 DEF Moves
  <2>2. CASE q # p
    <3>1. req'[q] = req[q] /\ waits'[q] = waits[q] /\ NoPunishment(q) /\ OnBehalf(q)
      BY <1>h, <1>i, <2>2 DEF DeviceInv
    <3>2. CASE req[q].pc \in {"store", "reply", "reuse.find"}
      <4>1. waits[q] \in Devices /\ Owned(req[q].tok, waits[q]) /\ Harmless(req[q].tok)
        BY <3>1, <3>2 DEF OnBehalf, NoPunishment
      <4>2. waits'[p] # waits[q]
        BY <1>1, <2>2, <3>1, <4>1, IdsAssumption
      <4>3. \A t : t = req[q].tok => Harmless(t)'
        BY <1>2, <4>1, <4>2
      <4>4. Harmless(req[q].tok)'
        BY <3>1, <4>3 DEF Harmless
      <4>5. QED
        BY <3>1, <3>2, <4>4 DEF NoPunishment
    <3>3. CASE req[q].pc \notin {"store", "reply", "reuse.find"}
      BY <3>1, <3>3 DEF NoPunishment, Grows
    <3>4. QED
      BY <3>2, <3>3
  <2>3. QED
    BY <2>1, <2>2
<1>4. ASSUME NEW d \in Devices, jar'[d] # None, ~Waiting(d)'
      PROVE  Harmless(jar[d])'
  <2>1. waits'[p] # d
    BY <1>4 DEF Waiting
  <2>2. CASE jar'[d] = jar[d] /\ (waits[p] = d => waits'[p] = d)
    <3>1. ~Waiting(d)
      BY <1>4, <1>h, <2>1, <2>2 DEF Waiting
    <3>2. Owned(jar[d], d) /\ Harmless(jar[d])
      BY <1>4, <1>i, <2>2, <3>1 DEF DeviceInv
    <3>3. \A t : t = jar[d] => Harmless(t)'
      BY <1>2, <2>1, <3>2
    <3>4. QED
      BY <2>2, <3>3 DEF Harmless
  <2>3. CASE Harmless(jar[d])'
    BY <2>3
  <2>4. QED
    BY <1>4, <2>2, <2>3 DEF Moves
<1>5. QED
  BY <1>1, <1>3, <1>4

\* A cookie that is cleared, a session that the hourly job revokes and the clock
\* do no harm either.
LEMMA QuietHonest ==
    ASSUME DeviceInv, HonestInv, Grows,
           UNCHANGED <<req, waits, tRevoked>>, honest' => honest,
           \A d \in Devices : jar'[d] \in {None, jar[d]}
    PROVE  DeviceInv' /\ HonestInv'
<1>1. \A t, d : Owned(t, d) => Owned(t, d)'
  BY DEF Owned, Grows
<1>2. \A d \in Devices : jar'[d] # None => Owned(jar[d], d)'
  BY <1>1 DEF DeviceInv, Owned
<1>3. ASSUME NEW q \in Reqs PROVE OnBehalf(q)'
  <2>1. OnBehalf(q)
    BY DEF DeviceInv
  <2>2. Owned(req[q].tok, waits[q]) => Owned(req[q].tok, waits[q])'
    BY <1>1 DEF Owned
  <2>3. QED
    BY <2>1, <2>2 DEF OnBehalf, Grows
<1>4. DeviceInv'
  BY <1>2, <1>3 DEF DeviceInv
<1>5. ASSUME honest' PROVE HonestInv'
  <2>1. /\ \A q, r \in Reqs : waits[q] = waits[r] /\ waits[q] # None => q = r
        /\ \A q \in Reqs : NoPunishment(q)
        /\ \A d \in Devices : jar[d] # None /\ ~Waiting(d) => Harmless(jar[d])
    BY <1>5 DEF HonestInv
  <2>2. ASSUME NEW t \in minted, Harmless(t) PROVE Harmless(t)'
    BY <2>2 DEF Harmless, Grows
  <2>3. ASSUME NEW q \in Reqs PROVE NoPunishment(q)'
    <3>1. req[q].pc \in {"store", "reply", "reuse.find"} => req[q].tok \in minted
      BY DEF DeviceInv, OnBehalf, Owned
    <3>2. QED
      BY <2>1, <2>2, <3>1 DEF NoPunishment, Grows, Harmless
  <2>4. ASSUME NEW d \in Devices, jar'[d] # None, ~Waiting(d)' PROVE Harmless(jar[d])'
    <3>1. jar'[d] = jar[d] /\ ~Waiting(d) /\ jar[d] \in minted
      BY <2>4 DEF DeviceInv, Owned, Waiting
    <3>2. QED
      BY <2>1, <2>2, <2>4, <3>1 DEF Harmless
  <2>5. QED
    BY <2>1, <2>3, <2>4 DEF HonestInv
<1>6. ~honest' => HonestInv'
  BY DEF HonestInv
<1>7. QED
  BY <1>4, <1>5, <1>6

\* What is known when a step is taken.
BrowserInv == TypeInv /\ BrowserTypeOK /\ DeviceInv /\ HonestInv /\ SweptInv

\* A login starts on behalf of its browser.
LEMMA SignInMoves ==
    ASSUME BrowserInv, NEW p \in Reqs, NEW u \in Users, NEW d \in Devices, SignIn(p, u, d)
    PROVE  Moves(p)
<1>r. req \in [Reqs -> Request] /\ waits \in [Reqs -> Devices \cup {None}]
  BY DEF BrowserInv, TypeInv, TypeOK, BrowserTypeOK
<1>1. /\ \A q \in Reqs \ {p} : req'[q] = req[q]
      /\ req'[p].pc \in {"login.clean", "login.create"} /\ req'[p].device = d
      /\ req[p].pc = "idle" /\ UNCHANGED tRevoked
  BY <1>r DEF SignIn, Register, Login, Start, Become, Idle, refreshVars
<1>2. /\ \A q \in Reqs \ {p} : waits'[q] = waits[q]
      /\ waits'[p] = d /\ jar' = jar /\ honest' = (honest /\ ~Waiting(d))
  BY <1>r DEF SignIn, Send
<1>3. waits[p] = None
  BY <1>1 DEF BrowserInv, BrowserTypeOK
<1>4. OnBehalf(p)' /\ NoPunishment(p)'
  BY <1>1, <1>2 DEF OnBehalf, NoPunishment
<1>5. QED
  BY <1>1, <1>2, <1>3, <1>4, IdsAssumption DEF Moves

\* A refresh consumes the token of its browser, which then waits for the next, or
\* examines it; the browser waited for nothing, so the token is harmless.
LEMMA SendRefreshMoves ==
    ASSUME BrowserInv, NEW p \in Reqs, NEW d \in Devices, SendRefresh(p, d)
    PROVE  Moves(p)
<1>r. waits \in [Reqs -> Devices \cup {None}] /\ jar[d] \in Tokens
  BY DEF BrowserInv, BrowserTypeOK, SendRefresh
<1> DEFINE t == jar[d]
<1>0. Owned(t, d) /\ t # None
  BY DEF BrowserInv, DeviceInv, SendRefresh
<1>1. /\ \A q \in Reqs \ {p} : req'[q] = req[q]
      /\ Consumable(t) => req'[p].pc = "issue" /\ req'[p].sess = tSess[t]
      /\ ~Consumable(t) => req'[p].pc = "reuse.find" /\ req'[p].tok = t
  BY <1>r, RefreshLocals DEF SendRefresh, BrowserInv
<1>2. /\ \A q \in Reqs \ {p} : waits'[q] = waits[q]
      /\ waits'[p] = d /\ jar' = jar /\ honest' = (honest /\ ~Waiting(d))
  BY <1>r DEF SendRefresh, Send
<1>3. /\ UNCHANGED <<sessions, sRevoked, sDevice, tSess, minted>>
      /\ tRevoked' = (IF Consumable(t) THEN tRevoked \cup {t} ELSE tRevoked)
      /\ req[p].pc = "idle"
  BY DEF SendRefresh, Refresh, Start, sessionVars, accessVars
<1>4. waits[p] = None
  BY <1>3 DEF BrowserInv, BrowserTypeOK
<1>5. honest' => Harmless(t)
  BY <1>0, <1>2 DEF BrowserInv, HonestInv
<1> HIDE DEF t
<1>6. OnBehalf(p)'
  <2>1. CASE Consumable(t)
    BY <1>0, <1>1, <1>2, <1>3, <2>1 DEF OnBehalf, Owned
  <2>2. CASE ~Consumable(t)
    BY <1>0, <1>1, <1>2, <1>3, <2>2 DEF OnBehalf, Owned
  <2>3. QED
    BY <2>1, <2>2
<1>7. honest' => NoPunishment(p)'
  <2>1. CASE Consumable(t)
    BY <1>1, <2>1 DEF NoPunishment
  <2>2. CASE ~Consumable(t)
    BY <1>1, <1>3, <1>5, <2>2 DEF NoPunishment, Harmless
  <2>3. QED
    BY <2>1, <2>2
<1>8. \A x \in tRevoked' \ tRevoked : x \in minted /\ Owned(x, waits'[p])
  BY <1>0, <1>2, <1>3 DEF Owned
<1>9. QED
  BY <1>1, <1>2, <1>4, <1>6, <1>7, <1>8, IdsAssumption DEF Moves

\* A logout consumes the token of its browser.
LEMMA SendLogoutMoves ==
    ASSUME BrowserInv, NEW p \in Reqs, NEW d \in Devices, SendLogout(p, d)
    PROVE  Moves(p)
<1>r. req \in [Reqs -> Request] /\ waits \in [Reqs -> Devices \cup {None}]
  BY DEF BrowserInv, TypeInv, TypeOK, BrowserTypeOK
<1>0. Owned(jar[d], d)
  BY DEF BrowserInv, DeviceInv, SendLogout
<1>1. /\ \A q \in Reqs \ {p} : req'[q] = req[q]
      /\ req'[p].pc = "logout.revoke" /\ req[p].pc = "idle"
      /\ tRevoked' = tRevoked \cup {jar[d]}
  BY <1>r DEF SendLogout, Logout, Start, Become, Idle
<1>2. /\ \A q \in Reqs \ {p} : waits'[q] = waits[q]
      /\ waits'[p] = d /\ jar' = jar /\ honest' = (honest /\ ~Waiting(d))
  BY <1>r DEF SendLogout, Send
<1>3. waits[p] = None
  BY <1>1 DEF BrowserInv, BrowserTypeOK
<1>4. OnBehalf(p)' /\ NoPunishment(p)'
  BY <1>1 DEF OnBehalf, NoPunishment
<1>5. \A x \in tRevoked' \ tRevoked : x \in minted /\ Owned(x, waits'[p])
  BY <1>0, <1>1, <1>2 DEF Owned
<1>6. QED
  BY <1>1, <1>2, <1>3, <1>4, <1>5, IdsAssumption DEF Moves

\* The bearer of an access token revokes a session together with its tokens, or
\* starts on all the others.
LEMMA ManageMoves ==
    ASSUME BrowserInv, NEW p \in Reqs, NEW a \in Tokens, Manage(p, a)
    PROVE  Moves(p)
<1>r. req \in [Reqs -> Request] /\ TypeInv
  BY DEF BrowserInv, TypeInv, TypeOK
<1>0. UNCHANGED <<jar, waits, honest>>
  BY DEF Manage, browserVars
<1>1. ASSUME NEW s \in SessionIds, RevokeDeviceSession(p, a, s)
      PROVE  Moves(p)
  <2>1. Blocking({s}).pc = "block"
    BY DEF Blocking, Idle
  <2>2. /\ \A q \in Reqs \ {p} : req'[q] = req[q]
        /\ req'[p].pc = "block"
    BY <1>r, <1>1, <2>1 DEF RevokeDeviceSession, Start, Become
  <2>3. OnBehalf(p)' /\ NoPunishment(p)'
    BY <2>2 DEF OnBehalf, NoPunishment
  <2>4. \A t \in tRevoked' \ tRevoked : t \in minted /\ tSess[t] \in sRevoked'
    BY <1>r, <1>1 DEF RevokeDeviceSession, RevokeSessions, TokensOf, TypeInv, RowsOK
  <2>5. QED
    BY <1>0, <2>2, <2>3, <2>4 DEF Moves
<1>2. CASE RevokeOtherDeviceSessions(p, a)
  <2>1. /\ \A q \in Reqs \ {p} : req'[q] = req[q]
        /\ req'[p].pc = "others.revoke"
    BY <1>r, <1>2, RevokeOthersLocals
  <2>2. UNCHANGED tRevoked
    BY <1>2 DEF RevokeOtherDeviceSessions, refreshVars
  <2>3. OnBehalf(p)' /\ NoPunishment(p)'
    BY <2>1 DEF OnBehalf, NoPunishment
  <2>4. QED
    BY <1>0, <2>1, <2>2, <2>3 DEF Moves
<1>3. QED
  BY <1>1, <1>2 DEF Manage

\* After a lost reply nobody is called honest any more.
LEMMA LoseMoves ==
    ASSUME BrowserInv, NEW p \in Reqs, Lose(p)
    PROVE  Moves(p)
<1>r. req \in [Reqs -> Request] /\ waits \in [Reqs -> Devices \cup {None}]
  BY DEF BrowserInv, TypeInv, TypeOK, BrowserTypeOK
<1>1. /\ \A q \in Reqs \ {p} : req'[q] = req[q] /\ waits'[q] = waits[q]
      /\ req'[p].pc = "idle" /\ ~honest' /\ UNCHANGED <<tRevoked, jar>>
  BY <1>r DEF Lose, Fail, Finish, Become, Idle, refreshVars
<1>2. OnBehalf(p)'
  BY <1>1 DEF OnBehalf
<1>3. QED
  BY <1>1, <1>2 DEF Moves

\* A handler that goes on without a reply leaves the browsers alone.
LEMMA GoesOn ==
    ASSUME BrowserInv, NEW p \in Reqs, Go(p), req'[p].pc # "idle",
           OnBehalf(p)', honest => NoPunishment(p)',
           honest => \A t \in tRevoked' \ tRevoked :
               /\ t \in minted
               /\ tSess[t] \in sRevoked' \/ (waits[p] \in Devices /\ Owned(t, waits[p]))
    PROVE  Moves(p)
<1>1. \A q \in Reqs \ {p} : req'[q] = req[q]
  BY ContinueOthers DEF Go, BrowserInv
<1>2. UNCHANGED <<jar, waits>> /\ (honest' => honest)
  BY DEF Go
<1>3. QED
  BY <1>1, <1>2 DEF Moves

\* A handler that replies gives its browser a token of its own that is harmless,
\* or clears the cookie.
LEMMA GoesHome ==
    ASSUME BrowserInv, NEW p \in Reqs, Go(p), req'[p].pc = "idle",
           req[p].pc = "reply" => UNCHANGED <<sessions, sRevoked, sDevice, tRevoked, tSess, minted>>,
           honest =>
               \A t \in tRevoked' \ tRevoked : t \in minted /\ tSess[t] \in sRevoked'
    PROVE  Moves(p)
<1>1. \A q \in Reqs \ {p} : req'[q] = req[q] /\ waits'[q] = waits[q]
  BY ContinueOthers DEF Go, BrowserInv, BrowserTypeOK
<1>2. /\ \A d \in Devices : jar'[d] = IF d = waits[p] THEN CookieAfter(p, d) ELSE jar[d]
      /\ waits'[p] = None /\ (honest' => honest)
  BY DEF Go, BrowserInv, BrowserTypeOK
<1>3. OnBehalf(p)' /\ NoPunishment(p)'
  BY DEF OnBehalf, NoPunishment
<1>4. ASSUME NEW d \in Devices, d = waits[p], jar'[d] # None
      PROVE  Owned(jar[d], d)' /\ (honest' => Harmless(jar[d])')
  <2>1. req[p].pc = "reply" /\ jar'[d] = req[p].tok
    BY <1>2, <1>4 DEF CookieAfter
  <2>2. UNCHANGED <<sessions, sRevoked, sDevice, tRevoked, tSess, minted>>
    BY <2>1
  <2>3. Owned(req[p].tok, d) /\ (honest => Harmless(req[p].tok))
    BY <1>4, <2>1 DEF BrowserInv, DeviceInv, OnBehalf, HonestInv, NoPunishment
  <2>4. QED
    BY <1>2, <2>1, <2>2, <2>3 DEF Owned, Harmless
<1>5. QED
  BY <1>1, <1>2, <1>3, <1>4 DEF Moves

\* The steps of a handler, one by one.
LEMMA GoMoves ==
    ASSUME BrowserInv, NEW p \in Reqs, Go(p)
    PROVE  Moves(p)
<1>r. req \in [Reqs -> Request] /\ req[p] \in Request
  BY DEF BrowserInv, TypeInv, TypeOK
<1>b. OnBehalf(p) /\ (honest => NoPunishment(p)) /\ TypeInv
  BY DEF BrowserInv, DeviceInv, HonestInv
<1>1. CASE LoginClean(p)
  <2>1. req[p].pc = "login.clean" /\ req'[p] = [req[p] EXCEPT !.pc = "login.create"]
    BY <1>1, <1>r DEF LoginClean, Goto, Become
  <2>2. req'[p].pc = "login.create" /\ req'[p].device = req[p].device
    BY <1>r, <2>1 DEF Request
  <2>3. UNCHANGED waits /\ UNCHANGED tRevoked
    BY <1>1, <2>2 DEF Go, LoginClean, refreshVars
  <2>4. OnBehalf(p)' /\ NoPunishment(p)'
    BY <1>b, <2>1, <2>2, <2>3 DEF OnBehalf, NoPunishment
  <2>5. QED
    BY <2>2, <2>3, <2>4, GoesOn
<1>2. CASE CreateDeviceSession(p)
  <2>1. PICK s \in SessionIds :
            /\ req'[p].pc = "issue" /\ req'[p].sess = s
            /\ \/ /\ s \notin sessions
                  /\ InsertSession(s, req[p].user, req[p].device)
               \/ /\ s \in SessionOf(req[p].user, req[p].device)
                  /\ tRevoked' = tRevoked \cup TokensOf({s})
                  /\ UNCHANGED sessionVars
    BY <1>2, <1>b, CreateDeviceSessionLocals
  <2>2. waits[p] \in Devices /\ req[p].device = waits[p]
    BY <1>2, <1>b DEF CreateDeviceSession, OnBehalf
  <2>3. UNCHANGED waits
    BY <2>1 DEF Go
  <2>4. s \in sessions' /\ sDevice'[s] = waits[p]
    <3>1. CASE InsertSession(s, req[p].user, req[p].device)
      BY <1>b, <2>2, <3>1 DEF InsertSession, TypeInv, TypeOK
    <3>2. CASE s \in SessionOf(req[p].user, req[p].device) /\ UNCHANGED sessionVars
      BY <2>2, <3>2 DEF SessionOf, sessionVars
    <3>3. QED
      BY <2>1, <3>1, <3>2
  <2>5. OnBehalf(p)' /\ NoPunishment(p)'
    BY <2>1, <2>2, <2>3, <2>4 DEF OnBehalf, NoPunishment
  <2>6. \A t \in tRevoked' \ tRevoked : t \in minted /\ Owned(t, waits[p])
    BY <1>b, <2>1, <2>2 DEF InsertSession, TokensOf, SessionOf, Owned, TypeInv, RowsOK
  <2>7. QED
    BY <2>1, <2>2, <2>5, <2>6, GoesOn
<1>3. CASE IssueAccess(p)
  <2>1. PICK t \in Tokens \ minted :
            /\ minted' = minted \cup {t}
            /\ tSess' = [tSess EXCEPT ![t] = req[p].sess]
            /\ req'[p] = [req[p] EXCEPT !.pc = "store", !.tok = t]
    BY <1>3, <1>r DEF IssueAccess, Become
  <2>2. req'[p].pc = "store" /\ req'[p].tok = t
    BY <1>r, <2>1 DEF Request
  <2>3. UNCHANGED <<waits, tRevoked, sessions, sDevice>>
    BY <1>3, <2>2 DEF Go, IssueAccess, refreshVars, sessionVars
  <2>4. waits[p] \in Devices /\ req[p].sess \in sessions /\ sDevice[req[p].sess] = waits[p]
    BY <1>3, <1>b DEF IssueAccess, OnBehalf
  <2>5. tSess'[t] = req[p].sess /\ t \notin tRevoked
    BY <1>b, <2>1 DEF TypeInv, TypeOK, RowsOK
  <2>6. OnBehalf(p)' /\ NoPunishment(p)'
    BY <2>1, <2>2, <2>3, <2>4, <2>5 DEF OnBehalf, NoPunishment, Owned, Harmless
  <2>7. QED
    BY <2>2, <2>3, <2>6, GoesOn
<1>4. CASE CreateRefreshSession(p)
  <2>1. req[p].pc = "store" /\ req'[p] = [req[p] EXCEPT !.pc = "reply"]
    BY <1>4, <1>r DEF CreateRefreshSession, Goto, Become
  <2>2. req'[p].pc = "reply" /\ req'[p].tok = req[p].tok
    BY <1>r, <2>1 DEF Request
  <2>3. UNCHANGED <<waits, tRevoked, sRevoked, sessions, sDevice, tSess, minted>>
    BY <1>4, <2>2 DEF Go, CreateRefreshSession, sessionVars, accessVars
  <2>4. OnBehalf(p)' /\ (honest => NoPunishment(p)')
    BY <1>b, <2>1, <2>2, <2>3 DEF OnBehalf, NoPunishment, Owned, Harmless
  <2>5. QED
    BY <2>2, <2>3, <2>4, GoesOn
<1>5. CASE Reply(p)
  <2>1. req'[p].pc = "idle"
    BY <1>5, <1>r DEF Reply, Finish, Become, Idle
  <2>2. UNCHANGED <<sessions, sRevoked, sDevice, tRevoked, tSess, minted>>
    BY <1>5 DEF Reply, sessionVars, refreshVars, accessVars
  <2>3. QED
    BY <2>1, <2>2, GoesHome
<1>6. CASE FindRevokedSession(p)
  <2>1. /\ req[p].pc = "reuse.find"
        /\ UNCHANGED <<sessions, sRevoked, sDevice, tRevoked, tSess, minted>>
    BY <1>6 DEF FindRevokedSession, sessionVars, refreshVars, accessVars
  <2>2. CASE req'[p].pc = "idle"
    BY <2>1, <2>2, GoesHome
  <2>3. CASE /\ req'[p].pc = "reuse.revoke"
             /\ req[p].tok \in tRevoked /\ req'[p].sess = tSess[req[p].tok]
    <3>1. OnBehalf(p)' /\ (honest => NoPunishment(p)')
      BY <1>b, <2>1, <2>3 DEF OnBehalf, NoPunishment, Harmless
    <3>2. QED
      BY <2>1, <2>3, <3>1, GoesOn
  <2>4. QED
    BY <1>6, <1>b, <2>2, <2>3, FindRevokedSessionLocals
<1>7. CASE ReuseRevoke(p)
  <2>1. req[p].pc = "reuse.revoke" /\ req'[p].pc \in {"block", "idle"}
    BY <1>7, <1>b, ReuseRevokeLocals DEF ReuseRevoke
  <2>2. \A t \in tRevoked' \ tRevoked : t \in minted /\ tSess[t] \in sRevoked'
    BY <1>7, <1>b DEF ReuseRevoke, RevokeSessions, TokensOf, refreshVars, TypeInv, RowsOK
  <2>3. CASE req'[p].pc = "idle"
    BY <2>1, <2>2, <2>3, GoesHome
  <2>4. CASE req'[p].pc = "block"
    <3>1. OnBehalf(p)' /\ NoPunishment(p)'
      BY <2>4 DEF OnBehalf, NoPunishment
    <3>2. \A t \in tRevoked' \ tRevoked :
            /\ t \in minted
            /\ tSess[t] \in sRevoked' \/ (waits[p] \in Devices /\ Owned(t, waits[p]))
      BY <2>2
    <3>3. QED
      BY <2>4, <3>1, <3>2, GoesOn
  <2>5. QED
    BY <2>1, <2>3, <2>4
<1>8. CASE Block(p)
  <2>1. req[p].pc = "block" /\ req'[p].pc = "idle" /\ UNCHANGED tRevoked
    BY <1>8, <1>r DEF Block, Finish, Become, Idle, refreshVars
  <2>2. QED
    BY <2>1, GoesHome
<1>9. CASE LogoutRevoke(p)
  <2>1. req[p].pc = "logout.revoke" /\ req'[p].pc = "idle"
    BY <1>9, <1>r DEF LogoutRevoke, Finish, Become, Idle
  <2>2. \A t \in tRevoked' \ tRevoked : t \in minted /\ tSess[t] \in sRevoked'
    BY <1>9, <1>b DEF LogoutRevoke, RevokeSessions, TokensOf, refreshVars, TypeInv, RowsOK
  <2>3. QED
    BY <2>1, <2>2, GoesHome
<1>10. CASE RevokeOtherSessions(p)
  <2>1. req[p].pc = "others.revoke" /\ req'[p].pc \in {"block", "idle"}
    BY <1>10, <1>b, RevokeOtherSessionsLocals DEF RevokeOtherSessions
  <2>2. ASSUME honest
        PROVE  \A t \in tRevoked' \ tRevoked : t \in minted /\ tSess[t] \in sRevoked'
    <3>1. Swept(p)
      BY <2>2 DEF BrowserInv, SweptInv
    <3>2. OtherSessions(req[p].user, req[p].sess) \subseteq sRevoked \cup req[p].keys
      BY <2>1, <3>1 DEF Swept
    <3>3. QED
      BY <1>10, <1>b, <3>2 DEF RevokeOtherSessions, TokensOf, TypeInv, RowsOK
  <2>3. CASE req'[p].pc = "idle"
    BY <2>1, <2>2, <2>3, GoesHome
  <2>4. CASE req'[p].pc = "block"
    <3>1. OnBehalf(p)' /\ NoPunishment(p)'
      BY <2>4 DEF OnBehalf, NoPunishment
    <3>2. honest => \A t \in tRevoked' \ tRevoked :
            /\ t \in minted
            /\ tSess[t] \in sRevoked' \/ (waits[p] \in Devices /\ Owned(t, waits[p]))
      BY <2>2
    <3>3. QED
      BY <2>4, <3>1, <3>2, GoesOn
  <2>5. QED
    BY <2>1, <2>3, <2>4
<1>11. QED
  BY <1>1, <1>2, <1>3, <1>4, <1>5, <1>6, <1>7, <1>8, <1>9, <1>10 DEF Go, Continue

\* No step but a login opens a session, and no step but the start of a "revoke all
\* others" leaves a request that was elsewhere between its two statements.
LEMMA OnlyLoginsOpen ==
    ASSUME TypeInv, [BrowserNext]_allVars, honest', NEW q \in Reqs
    PROVE  /\ honest
           /\ \/ req'[q] = req[q]
              \/ req'[q].pc # "others.revoke"
              \/ /\ req'[q].keys = OtherSessions(req'[q].user, req'[q].sess) \ sRevoked
                 /\ UNCHANGED <<sessions, sUser, sRevoked>>
           /\ \/ sessions' = sessions
              \/ req[q].pc = "others.revoke" =>
                   \A s \in sessions' \ sessions : sUser'[s] # req[q].user
<1> USE DEF sessionVars
<1>r. req \in [Reqs -> Request] /\ \A x \in Reqs : req[x] \in Request
  BY DEF TypeInv, TypeOK
<1>1. ASSUME NEW p \in Reqs, NEW u \in Users, NEW d \in Devices, SignIn(p, u, d)
      PROVE  /\ honest /\ sessions' = sessions
             /\ req'[q] = req[q] \/ req'[q].pc # "others.revoke"
  BY <1>1, <1>r DEF SignIn, Send, Register, Login, Start, Become, Idle
<1>2. ASSUME NEW p \in Reqs, NEW d \in Devices, SendRefresh(p, d)
      PROVE  /\ honest /\ sessions' = sessions
             /\ req'[q] = req[q] \/ req'[q].pc # "others.revoke"
  <2>1. jar[d] \in Tokens /\ Refresh(p, jar[d]) /\ Send(p, d)
    BY <1>2 DEF SendRefresh, Refresh, TypeInv, TypeOK
  <2>2. req'[p].pc # "others.revoke" /\ \A x \in Reqs \ {p} : req'[x] = req[x]
    BY <2>1, RefreshLocals
  <2>3. QED
    BY <2>1, <2>2 DEF Send, Refresh
<1>3. ASSUME NEW p \in Reqs, NEW d \in Devices, SendLogout(p, d)
      PROVE  /\ honest /\ sessions' = sessions
             /\ req'[q] = req[q] \/ req'[q].pc # "others.revoke"
  BY <1>3, <1>r DEF SendLogout, Send, Logout, Start, Become, Idle
<1>4. ASSUME NEW p \in Reqs, NEW a \in Tokens, NEW s \in SessionIds,
             RevokeDeviceSession(p, a, s), UNCHANGED browserVars
      PROVE  /\ honest /\ sessions' = sessions
             /\ req'[q] = req[q] \/ req'[q].pc # "others.revoke"
  <2>1. Blocking({s}).pc = "block"
    BY DEF Blocking, Idle
  <2>2. QED
    BY <1>4, <1>r, <2>1 DEF RevokeDeviceSession, RevokeSessions, Start, Become, browserVars
<1>5. ASSUME NEW p \in Reqs, NEW a \in Tokens,
             RevokeOtherDeviceSessions(p, a), UNCHANGED browserVars
      PROVE  /\ honest /\ UNCHANGED <<sessions, sUser, sRevoked>>
             /\ \/ req'[q] = req[q]
                \/ req'[q].keys = OtherSessions(req'[q].user, req'[q].sess) \ sRevoked
  BY <1>5, RevokeOthersLocals DEF RevokeOtherDeviceSessions, browserVars
<1>6. ASSUME NEW p \in Reqs, Go(p), ~CreateDeviceSession(p)
      PROVE  /\ honest /\ sessions' = sessions
             /\ req'[q] = req[q] \/ req'[q].pc # "others.revoke"
  <2>1. honest
    BY <1>6 DEF Go
  <2>2. \A x \in Reqs \ {p} : req'[x] = req[x]
    BY <1>6, ContinueOthers DEF Go
  <2>3. sessions' = sessions
    BY <1>6 DEF Go, Continue, LoginClean, IssueAccess, CreateRefreshSession, Reply,
       FindRevokedSession, ReuseRevoke, Block, LogoutRevoke, RevokeOtherSessions,
       RevokeSessions
  <2>4. CASE LoginClean(p) \/ CreateRefreshSession(p) \/ Reply(p) \/ Block(p)
             \/ LogoutRevoke(p)
    <3>1. req'[p].pc # "others.revoke"
      BY <1>r, <2>4 DEF LoginClean, CreateRefreshSession, Reply, Block, LogoutRevoke,
         Goto, Finish, Become, Idle, Request
    <3>2. QED
      BY <2>1, <2>2, <2>3, <3>1
  <2>5. CASE IssueAccess(p)
    <3>1. PICK t \in Tokens : req' = [req EXCEPT ![p] = [req[p] EXCEPT !.pc = "store", !.tok = t]]
      BY <2>5 DEF IssueAccess, Become
    <3>2. req'[p].pc = "store"
      BY <1>r, <3>1 DEF Request
    <3>3. QED
      BY <2>1, <2>2, <2>3, <3>2
  <2>6. CASE FindRevokedSession(p) \/ ReuseRevoke(p) \/ RevokeOtherSessions(p)
    <3>1. req'[p].pc # "others.revoke"
      BY <2>6, FindRevokedSessionLocals, ReuseRevokeLocals, RevokeOtherSessionsLocals
    <3>2. QED
      BY <2>1, <2>2, <2>3, <3>1
  <2>7. QED
    BY <1>6, <2>4, <2>5, <2>6 DEF Go, Continue
<1>7. ASSUME NEW p \in Reqs, Go(p), CreateDeviceSession(p)
      PROVE  /\ honest
             /\ req'[q] = req[q] \/ req'[q].pc # "others.revoke"
             /\ req[q].pc = "others.revoke" =>
                   \A s \in sessions' \ sessions : sUser'[s] # req[q].user
  <2>1. /\ \A x \in Reqs \ {p} : req'[x] = req[x]
        /\ req'[p].pc = "issue" /\ req[p].pc = "login.create"
    BY <1>7, CreateDeviceSessionLocals DEF CreateDeviceSession
  <2>2. honest /\ ~LoginAmidRevocation(p)
    BY <1>7 DEF Go
  <2>3. \A s \in sessions' \ sessions : sUser'[s] = req[p].user
    <3>1. PICK s \in SessionIds :
             InsertSession(s, req[p].user, req[p].device) \/ UNCHANGED sessionVars
      BY <1>7, CreateDeviceSessionLocals
    <3>2. sUser \in [SessionIds -> Users \cup {None}]
      BY DEF TypeInv, TypeOK
    <3>3. CASE InsertSession(s, req[p].user, req[p].device)
      BY <3>2, <3>3 DEF InsertSession
    <3>4. CASE UNCHANGED sessionVars
      BY <3>4
    <3>5. QED
      BY <3>1, <3>3, <3>4
  <2>4. QED
    BY <2>1, <2>2, <2>3 DEF LoginAmidRevocation
<1>8. ASSUME NEW p \in Reqs, Lose(p)
      PROVE  FALSE
  BY <1>8 DEF Lose
<1>9. ASSUME NEW d \in Devices, LogoutAnyway(d)
      PROVE  honest /\ UNCHANGED <<sessions, req>>
  BY <1>9 DEF LogoutAnyway, vars
<1>10. ASSUME Background
       PROVE  honest /\ UNCHANGED <<sessions, req>>
  BY <1>10 DEF Background, CleanOrphanedSessions, Tick, browserVars
<1>11. ASSUME UNCHANGED allVars
       PROVE  honest /\ UNCHANGED <<sessions, req>>
  BY <1>11 DEF allVars
<1>12. QED
  BY <1>1, <1>2, <1>3, <1>4, <1>5, <1>6, <1>7, <1>8, <1>9, <1>10, <1>11
     DEF BrowserNext, Manage

\* So a "revoke all others" that no login fell into still knows the sessions whose
\* tokens it will end.
LEMMA NextSwept ==
    TypeInv /\ SweptInv /\ Grows /\ [BrowserNext]_allVars => SweptInv'
<1> SUFFICES ASSUME TypeInv, SweptInv, Grows, [BrowserNext]_allVars, honest',
                    NEW q \in Reqs, req'[q].pc = "others.revoke"
             PROVE  (OtherSessions(req[q].user, req[q].sess) \ sRevoked \subseteq req[q].keys)'
  BY DEF SweptInv, Swept
<1>1. honest /\ Swept(q)
  BY OnlyLoginsOpen DEF SweptInv
<1>2. CASE req'[q] = req[q]
  <2>1. OtherSessions(req[q].user, req[q].sess) \ sRevoked \subseteq req[q].keys
    BY <1>1, <1>2 DEF Swept
  <2>2. \A s \in sessions' : sUser'[s] = req[q].user => s \in sessions
    BY <1>2, OnlyLoginsOpen
  <2>3. QED
    BY <1>2, <2>1, <2>2 DEF OtherSessions, Grows
<1>3. CASE /\ req'[q].keys = OtherSessions(req'[q].user, req'[q].sess) \ sRevoked
           /\ UNCHANGED <<sessions, sUser, sRevoked>>
  BY <1>3 DEF OtherSessions
<1>4. QED
  BY <1>2, <1>3, OnlyLoginsOpen

\* Every step keeps the cookies, the requests and the honest browsers safe.
LEMMA NextBrowserInv == BrowserInv /\ [BrowserNext]_allVars => BrowserInv'
<1> SUFFICES ASSUME BrowserInv, [BrowserNext]_allVars PROVE BrowserInv'
  OBVIOUS
<1>1. TypeInv' /\ BrowserTypeOK' /\ Grows
  BY BrowserStep, NextTypeInv, NextBrowserTypes, NextGrows DEF BrowserInv
<1>2. ASSUME NEW p \in Reqs, Moves(p) PROVE DeviceInv' /\ HonestInv'
  BY <1>1, <1>2, MovesDevices, MovesHonest DEF BrowserInv
<1>3. ASSUME UNCHANGED <<req, waits, tRevoked>>, honest' => honest,
             \A d \in Devices : jar'[d] \in {None, jar[d]}
      PROVE  DeviceInv' /\ HonestInv'
  BY <1>1, <1>3, QuietHonest DEF BrowserInv
<1>4. ASSUME NEW p \in Reqs, NEW d \in Devices,
             \/ \E u \in Users : SignIn(p, u, d)
             \/ SendRefresh(p, d)
             \/ SendLogout(p, d)
      PROVE  Moves(p)
  BY <1>4, SignInMoves, SendRefreshMoves, SendLogoutMoves
<1>5. ASSUME NEW p \in Reqs, NEW t \in Tokens, Manage(p, t) PROVE Moves(p)
  BY <1>5, ManageMoves
<1>6. ASSUME NEW p \in Reqs, Go(p) \/ Lose(p) PROVE Moves(p)
  BY <1>6, GoMoves, LoseMoves
<1>7. ASSUME NEW d \in Devices, LogoutAnyway(d) PROVE DeviceInv' /\ HonestInv'
  <2>1. UNCHANGED <<req, waits, tRevoked>> /\ (honest' => honest)
    BY <1>7 DEF LogoutAnyway, vars
  <2>2. \A e \in Devices : jar'[e] \in {None, jar[e]}
    BY <1>7 DEF LogoutAnyway, BrowserInv, BrowserTypeOK
  <2>3. QED
    BY <1>3, <2>1, <2>2
<1>8. ASSUME Background PROVE DeviceInv' /\ HonestInv'
  BY <1>3, <1>8 DEF Background, CleanOrphanedSessions, Tick, browserVars, refreshVars
<1>9. ASSUME UNCHANGED allVars PROVE DeviceInv' /\ HonestInv'
  BY <1>3, <1>9 DEF allVars
<1>10. DeviceInv' /\ HonestInv'
  BY <1>2, <1>4, <1>5, <1>6, <1>7, <1>8, <1>9 DEF BrowserNext
<1>11. SweptInv'
  BY <1>1, NextSwept DEF BrowserInv
<1>12. QED
  BY <1>1, <1>10, <1>11 DEF BrowserInv

\* handleTokenReuse never ends an active session of an honest browser: while no
\* reply was lost, every browser waited for its answers and no login fell between
\* the two statements of RevokeOtherSessions, FindRevokedSession only finds tokens
\* of sessions that were over before.
THEOREM HonestBrowser == BrowserSpec => []HonestBrowserIsSafe
<1>1. BrowserInit => BrowserInv
  <2>1. ASSUME BrowserInit PROVE TypeInv /\ BrowserTypeOK
    BY <2>1, InitTypeInv DEF BrowserInit, BrowserTypeOK
  <2>2. ASSUME BrowserInit PROVE DeviceInv /\ HonestInv /\ SweptInv
    BY <2>2 DEF BrowserInit, Init, Idle, DeviceInv, OnBehalf, HonestInv, NoPunishment,
       SweptInv, Swept
  <2>3. QED
    BY <2>1, <2>2 DEF BrowserInv
<1>2. BrowserInv => HonestBrowserIsSafe
  BY DEF BrowserInv, HonestInv, NoPunishment, HonestBrowserIsSafe, ActiveSession
<1>3. QED
  BY <1>1, <1>2, NextBrowserInv, PTL DEF BrowserSpec
=============================================================================
