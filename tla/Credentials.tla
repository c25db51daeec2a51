------------------------------ MODULE Credentials ------------------------------
(***************************************************************************)
(* Proving the password and resetting it: LoginInit, LoginFinalize,        *)
(* RequestPasswordReset and ResetPassword of internal/usecase/auth/        *)
(* service.go over the table users, the table password_reset_tokens and    *)
(* the SRP handshakes kept in Redis.                                       *)
(*                                                                         *)
(* A password stands for everything derived from it.  A row of users holds *)
(* what verifies the password (srp_verifier and its salts) and the master  *)
(* key wrapped under it (kek_encrypted_master): verifier and kek name the  *)
(* password each was made from.  Every account has recovery material.      *)
(* A session here is a device session with its tokens; how it lives on is  *)
(* the subject of Sessions.                                                *)
(***************************************************************************)
EXTENDS Naturals

CONSTANTS
    Users,       \* the accounts
    Passwords,   \* the passwords clients may try or choose
    Handshakes,  \* the SRP session ids uuid.New() may return
    Tokens,      \* the reset tokens that may be issued
    SessionIds,  \* the device sessions that may be opened
    Reqs,        \* the HTTP requests that may be in flight at once
    None,        \* the value of an unused local
    Faults       \* calls may fail, and handlers may die between calls

ASSUME IdsAssumption ==
    None \notin Users \cup Passwords \cup Handshakes \cup Tokens \cup SessionIds
ASSUME FaultsAssumption == Faults \in BOOLEAN

VARIABLES
    \* users
    verifier,  \* the password the row verifies
    kek,       \* the password the wrapped master key opens with
    \* srp_session:<id> in Redis
    srp,       \* the handshakes that have an entry
    entry,     \* user, verifier and wrapped key as LoginInit read them
    \* password_reset_tokens
    resets,    \* the tokens that have a row
    rUsed,     \* the tokens whose used_at is not NULL
    rExpired,  \* the tokens whose expires_at has passed
    rUser,     \* user_id
    mailed,    \* the tokens that reached their user
    \* device_sessions and the blocklist
    sessions,  \* the sessions opened so far
    sRevoked,  \* the ones whose revoked_at is not NULL
    blocked,   \* the ones on the blocklist
    sUser,     \* user_id
    reply,     \* the password proved and the wrapped key sent with the session
    \* the handlers
    req,       \* program counter and locals of each request
    \* history
    minted,    \* the handshakes started so far
    opened,    \* the sessions each handshake opened
    applied,   \* the credential updates made with each reset token
    before     \* the tokens that existed when each token was asked for

userVars == <<verifier, kek>>
srpVars == <<srp, entry, minted>>
resetVars == <<resets, rUsed, rExpired, rUser, mailed, before>>
sessionVars == <<sessions, sRevoked, blocked, sUser, reply, opened>>
vars == <<verifier, kek, srp, entry, resets, rUsed, rExpired, rUser, mailed,
          sessions, sRevoked, blocked, sUser, reply, req, minted, opened, applied, before>>

-----------------------------------------------------------------------------
\* Handlers

Labels == {"idle", "init.store", "login.open", "request.invalidate",
           "request.create", "request.mail", "reset.update", "reset.revoke",
           "reset.block"}

Entry == [user : Users, verifier : Passwords, kek : Passwords]
NoEntry == [user |-> None, verifier |-> None, kek |-> None]

Request == [pc : Labels, user : Users \cup {None}, pw : Passwords \cup {None},
            hs : Handshakes \cup {None}, row : Entry \cup {NoEntry},
            tok : Tokens \cup {None}, ids : SUBSET SessionIds, older : SUBSET Tokens]

Idle == [pc |-> "idle", user |-> None, pw |-> None, hs |-> None, row |-> NoEntry,
         tok |-> None, ids |-> {}, older |-> {}]

Become(p, r) == req' = [req EXCEPT ![p] = r]
Goto(p, label) == Become(p, [req[p] EXCEPT !.pc = label])
Start(p, r) == req[p].pc = "idle" /\ Become(p, r)
Finish(p) == Become(p, Idle)

-----------------------------------------------------------------------------
\* used_at IS NULL AND expires_at > now()
ActiveToken(t) == t \in resets /\ t \notin rUsed /\ t \notin rExpired

Init ==
    /\ verifier \in [Users -> Passwords]
    /\ kek = verifier
    /\ srp = {}
    /\ entry = [h \in Handshakes |-> NoEntry]
    /\ resets = {}
    /\ rUsed = {}
    /\ rExpired = {}
    /\ rUser = [t \in Tokens |-> None]
    /\ mailed = {}
    /\ sessions = {}
    /\ sRevoked = {}
    /\ blocked = {}
    /\ sUser = [s \in SessionIds |-> None]
    /\ reply = [s \in SessionIds |-> [pw |-> None, kek |-> None]]
    /\ req = [p \in Reqs |-> Idle]
    /\ minted = {}
    /\ opened = [h \in Handshakes |-> {}]
    /\ applied = [t \in Tokens |-> 0]
    /\ before = [t \in Tokens |-> {}]

-----------------------------------------------------------------------------
\* LoginInit and LoginFinalize

\* A server session for the verifier in the row, with the rest of the row.
NewServerSession(u) == [user |-> u, verifier |-> verifier[u], kek |-> kek[u]]

\* GetByEmail: the whole row is read at once.
LoginInit(p, u) ==
    /\ Start(p, [Idle EXCEPT !.pc = "init.store", !.user = u, !.row = NewServerSession(u)])
    /\ UNCHANGED <<userVars, srpVars, resetVars, sessionVars, applied>>

\* The handshake is stored with the verifier and the wrapped key read before.
StoreHandshake(p) ==
    /\ req[p].pc = "init.store"
    /\ \E h \in Handshakes \ minted :
        /\ minted' = minted \cup {h}
        /\ srp' = srp \cup {h}
        /\ entry' = [entry EXCEPT ![h] = req[p].row]
    /\ Finish(p)
    /\ UNCHANGED <<userVars, resetVars, sessionVars, applied>>

\* Faulty variant: GET without DEL.
ConsumeKeeping(h) == UNCHANGED srp

\* Consume: GETDEL.
Consume(h) == srp' = srp \ {h}

\* Client and server agree on the key exactly when the client's password is the
\* one the verifier was made from.
VerifyClientProof(e, pw) == pw = e.verifier

\* The proof is compared with the stored handshake, not with the row.
LoginFinalize(p, h, pw) ==
    /\ h \in srp
    /\ Consume(h)
    /\ IF VerifyClientProof(entry[h], pw)
       THEN Start(p, [Idle EXCEPT !.pc = "login.open", !.user = entry[h].user,
                                  !.pw = pw, !.hs = h, !.row = entry[h]])
       ELSE req[p].pc = "idle" /\ UNCHANGED req
    /\ UNCHANGED <<userVars, entry, minted, resetVars, sessionVars, applied>>

\* Faulty variant: the wrapped key is read from the row again.
OpenSessionRereading(p) ==
    /\ req[p].pc = "login.open"
    /\ \E s \in SessionIds \ sessions :
        /\ sessions' = sessions \cup {s}
        /\ sUser' = [sUser EXCEPT ![s] = req[p].user]
        /\ reply' = [reply EXCEPT ![s] = [pw |-> req[p].pw, kek |-> kek[req[p].user]]]
        /\ opened' = [opened EXCEPT ![req[p].hs] = @ \cup {s}]
    /\ Finish(p)
    /\ UNCHANGED <<userVars, srpVars, resetVars, sRevoked, blocked, applied>>

\* issueTokenPair; the reply carries the wrapped key of the handshake.
OpenSession(p) ==
    /\ req[p].pc = "login.open"
    /\ \E s \in SessionIds \ sessions :
        /\ sessions' = sessions \cup {s}
        /\ sUser' = [sUser EXCEPT ![s] = req[p].user]
        /\ reply' = [reply EXCEPT ![s] = [pw |-> req[p].pw, kek |-> req[p].row.kek]]
        /\ opened' = [opened EXCEPT ![req[p].hs] = @ \cup {s}]
    /\ Finish(p)
    /\ UNCHANGED <<userVars, srpVars, resetVars, sRevoked, blocked, applied>>

-----------------------------------------------------------------------------
\* RequestPasswordReset

RequestPasswordReset(p, u) ==
    /\ Start(p, [Idle EXCEPT !.pc = "request.invalidate", !.user = u, !.older = resets])
    /\ UNCHANGED <<userVars, srpVars, resetVars, sessionVars, applied>>

\* Faulty variant: expires_at is compared in the wrong direction.
InvalidateExpiredTokens(p) ==
    /\ req[p].pc = "request.invalidate"
    /\ rUsed' = rUsed \cup {t \in resets \cap rExpired : rUser[t] = req[p].user}
    /\ Goto(p, "request.create")
    /\ UNCHANGED <<userVars, srpVars, resets, rExpired, rUser, mailed, before, sessionVars,
                   applied>>

InvalidateUserTokens(p) ==
    /\ req[p].pc = "request.invalidate"
    /\ rUsed' = rUsed \cup {t \in resets : rUser[t] = req[p].user}
    /\ Goto(p, "request.create")
    /\ UNCHANGED <<userVars, srpVars, resets, rExpired, rUser, mailed, before, sessionVars,
                   applied>>

InsertToken(t, u) == rUser' = [rUser EXCEPT ![t] = u]

CreateResetToken(p) ==
    /\ req[p].pc = "request.create"
    /\ \E t \in Tokens \ resets :
        /\ resets' = resets \cup {t}
        /\ InsertToken(t, req[p].user)
        /\ before' = [before EXCEPT ![t] = req[p].older]
        /\ Become(p, [req[p] EXCEPT !.pc = "request.mail", !.tok = t, !.older = {}])
    /\ UNCHANGED <<userVars, srpVars, rUsed, rExpired, mailed, sessionVars, applied>>

NotifyPasswordReset(p) ==
    /\ req[p].pc = "request.mail"
    /\ mailed' = mailed \cup {req[p].tok}
    /\ Finish(p)
    /\ UNCHANGED <<userVars, srpVars, resets, rUsed, rExpired, rUser, before, sessionVars,
                   applied>>

-----------------------------------------------------------------------------
\* ResetPassword

\* Faulty variant: the UPDATE does not ask for used_at IS NULL.
ConsumableAgain(t) == t \in resets /\ t \notin rExpired

\* What ConsumeResetToken updates.
Consumable(t) == ActiveToken(t)

ResetPassword(p, t, pw) ==
    /\ t \in mailed
    /\ Consumable(t)
    /\ rUsed' = rUsed \cup {t}
    /\ Start(p, [Idle EXCEPT !.pc = "reset.update", !.user = rUser[t], !.pw = pw, !.tok = t])
    /\ UNCHANGED <<userVars, srpVars, resets, rExpired, rUser, mailed, before, sessionVars,
                   applied>>

\* One UPDATE.
UpdateCredentialsAndKEK(p) ==
    /\ req[p].pc = "reset.update"
    /\ verifier' = [verifier EXCEPT ![req[p].user] = req[p].pw]
    /\ kek' = [kek EXCEPT ![req[p].user] = req[p].pw]
    /\ applied' = [applied EXCEPT ![req[p].tok] = @ + 1]
    /\ Goto(p, "reset.revoke")
    /\ UNCHANGED <<srpVars, resetVars, sessionVars>>

\* RevokeOtherSessions(user, uuid.Nil), whose error is only logged.
RevokeAllSessions(p) ==
    /\ req[p].pc = "reset.revoke"
    /\ \/ LET S == {s \in sessions \ sRevoked : sUser[s] = req[p].user}
          IN  /\ sRevoked' = sRevoked \cup S
              /\ IF S = {} THEN Finish(p)
                 ELSE Become(p, [req[p] EXCEPT !.pc = "reset.block", !.ids = S])
       \/ Faults /\ UNCHANGED sRevoked /\ Finish(p)
    /\ UNCHANGED <<userVars, srpVars, resetVars, sessions, blocked, sUser, reply, opened,
                   applied>>

BlockBatch(p) ==
    /\ req[p].pc = "reset.block"
    /\ blocked' = blocked \cup req[p].ids
    /\ Finish(p)
    /\ UNCHANGED <<userVars, srpVars, resetVars, sessions, sRevoked, sUser, reply, opened,
                   applied>>

-----------------------------------------------------------------------------
\* Time and failure

\* SRPSessionTTL passes: Redis drops the key.
ExpireHandshake(h) ==
    /\ h \in srp
    /\ srp' = srp \ {h}
    /\ UNCHANGED <<userVars, entry, minted, resetVars, sessionVars, req, applied>>

\* An hour passes since the reset token was created.
ExpireToken(t) ==
    /\ t \in resets \ rExpired
    /\ rExpired' = rExpired \cup {t}
    /\ UNCHANGED <<userVars, srpVars, resets, rUsed, rUser, mailed, before, sessionVars, req,
                   applied>>

\* The handler ends where it stands: the process dies, the request is
\* cancelled, or its next call fails.
Fail(p) ==
    /\ Faults
    /\ req[p].pc # "idle"
    /\ Finish(p)
    /\ UNCHANGED <<userVars, srpVars, resetVars, sessionVars, applied>>

-----------------------------------------------------------------------------
Continue(p) ==
    \/ StoreHandshake(p)
    \/ OpenSession(p)
    \/ InvalidateUserTokens(p)
    \/ CreateResetToken(p)
    \/ NotifyPasswordReset(p)
    \/ UpdateCredentialsAndKEK(p)
    \/ RevokeAllSessions(p)
    \/ BlockBatch(p)

Next ==
    \/ \E p \in Reqs :
        \/ \E u \in Users : LoginInit(p, u) \/ RequestPasswordReset(p, u)
        \/ \E pw \in Passwords :
            \/ \E h \in Handshakes : LoginFinalize(p, h, pw)
            \/ \E t \in Tokens : ResetPassword(p, t, pw)
        \/ Continue(p)
        \/ Fail(p)
    \/ \E h \in Handshakes : ExpireHandshake(h)
    \/ \E t \in Tokens : ExpireToken(t)

Spec == Init /\ [][Next]_vars

-----------------------------------------------------------------------------
\* Properties

\* Every variable has its type.
TypeOK ==
    /\ verifier \in [Users -> Passwords]
    /\ kek \in [Users -> Passwords]
    /\ srp \subseteq Handshakes
    /\ entry \in [Handshakes -> Entry \cup {NoEntry}]
    /\ resets \subseteq Tokens
    /\ rUsed \subseteq Tokens
    /\ rExpired \subseteq Tokens
    /\ rUser \in [Tokens -> Users \cup {None}]
    /\ mailed \subseteq Tokens
    /\ sessions \subseteq SessionIds
    /\ sRevoked \subseteq SessionIds
    /\ blocked \subseteq SessionIds
    /\ sUser \in [SessionIds -> Users \cup {None}]
    /\ reply \in [SessionIds -> [pw : Passwords \cup {None}, kek : Passwords \cup {None}]]
    /\ req \in [Reqs -> Request]
    /\ minted \subseteq Handshakes
    /\ opened \in [Handshakes -> SUBSET SessionIds]
    /\ applied \in [Tokens -> Nat]
    /\ before \in [Tokens -> SUBSET Tokens]

\* A handshake that is finalized by several requests at once opens at most one
\* session: a captured proof cannot be replayed.
HandshakeOpensOnce ==
    \A h \in Handshakes : \A s1, s2 \in opened[h] : s1 = s2

\* A reset link that is confirmed by several requests at once changes the
\* credentials at most once.
ResetAppliedOnce == \A t \in Tokens : applied[t] <= 1

\* Whatever resets ran between LoginInit and the reply, the wrapped master key
\* a client receives opens with the password it has just proved.
ReplyUnlocks == \A s \in sessions : reply[s].pw = reply[s].kek

\* Asking for a new link ends the older ones, although the invalidation and the
\* insert are two statements: of two active links of a user, neither existed
\* when the other was asked for.
NewLinkEndsOlder ==
    \A t \in resets : \A old \in before[t] : rUser[old] = rUser[t] => ~ActiveToken(old)

\* What the code does not keep

\* service.go:373: "Invalidate any previous active tokens before issuing a new
\* one."
OneActiveResetToken ==
    \A t1, t2 \in resets :
        ActiveToken(t1) /\ ActiveToken(t2) /\ rUser[t1] = rUser[t2] => t1 = t2

\* service.go:443: "Revoke all active sessions - attacker with a stolen session
\* loses access immediately": unless a reset of the account is still under way,
\* its active sessions were opened with its current password.
ResetEndsOldSessions ==
    \A s \in sessions \ sRevoked :
        \/ reply[s].pw = verifier[sUser[s]]
        \/ \E p \in Reqs : req[p].pc = "reset.revoke" /\ req[p].user = sUser[s]
=============================================================================
