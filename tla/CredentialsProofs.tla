-------------------------- MODULE CredentialsProofs --------------------------
(***************************************************************************)
(* Proofs about Credentials, for any number of accounts, passwords,        *)
(* handshakes, reset tokens, sessions and requests, with and without       *)
(* failing calls.                                                          *)
(***************************************************************************)
EXTENDS Credentials, TLAPS

\* The locals each label works with, and the rows they were taken from.
LocalsOK ==
    /\ \A p \in Reqs :
        /\ req[p].pc = "init.store" => req[p].row \in Entry
        /\ req[p].pc = "login.open" =>
            /\ req[p].user \in Users
            /\ req[p].pw \in Passwords
            /\ req[p].hs \in Handshakes
            /\ req[p].row \in Entry
        /\ req[p].pc \in {"request.invalidate", "request.create"} => req[p].user \in Users
        /\ req[p].pc = "request.mail" => req[p].tok \in Tokens
        /\ req[p].pc = "reset.update" =>
            /\ req[p].user \in Users
            /\ req[p].pw \in Passwords
            /\ req[p].tok \in Tokens
    /\ \A h \in srp : entry[h] \in Entry
    /\ \A t \in resets : rUser[t] \in Users

TypeInv == TypeOK /\ LocalsOK

\* A step of request p leaves the locals of the other requests alone.
OnlyMoves(p) ==
    /\ req' \in [Reqs -> Request]
    /\ \A q \in Reqs \ {p} : req'[q] = req[q]

-----------------------------------------------------------------------------
\* The locals after each step

\* What the end of a step does to the handlers.
LEMMA BecomeFacts ==
    ASSUME TypeOK, NEW p \in Reqs, NEW r \in Request, Become(p, r)
    PROVE  OnlyMoves(p) /\ req'[p] = r
  BY DEF Become, TypeOK, OnlyMoves

\* A handler that ends is idle again.
LEMMA FinishFacts ==
    ASSUME TypeOK, NEW p \in Reqs, Finish(p)
    PROVE  OnlyMoves(p) /\ req'[p].pc = "idle"
<1>1. Idle \in Request /\ Idle.pc = "idle"
  BY DEF Idle, Request, Labels
<1>2. QED
  BY <1>1, BecomeFacts DEF Finish

\* LoginInit remembers the row it read.
LEMMA LoginInitLocals ==
    ASSUME TypeOK, NEW p \in Reqs, NEW u \in Users, LoginInit(p, u)
    PROVE  /\ OnlyMoves(p)
           /\ req'[p].pc = "init.store"
           /\ req'[p].row = NewServerSession(u)
           /\ NewServerSession(u) \in Entry
<1> DEFINE r == [Idle EXCEPT !.pc = "init.store", !.user = u, !.row = NewServerSession(u)]
<1>1. NewServerSession(u) \in Entry
  BY DEF NewServerSession, TypeOK, Entry
<1>2. r \in Request /\ r.pc = "init.store" /\ r.row = NewServerSession(u)
  <2> HIDE DEF NewServerSession, Entry
  <2>1. QED
    BY <1>1 DEF Request, Idle, Labels
<1>3. Become(p, r)
  BY DEF LoginInit, Start
<1> HIDE DEF r
<1>4. QED
  BY <1>1, <1>2, <1>3, BecomeFacts

\* A proof that verifies goes on with the entry it was compared with.
LEMMA LoginFinalizeLocals ==
    ASSUME TypeInv, NEW p \in Reqs, NEW h \in Handshakes, NEW pw \in Passwords,
           LoginFinalize(p, h, pw)
    PROVE  \/ UNCHANGED req
           \/ /\ OnlyMoves(p)
              /\ req'[p].pc = "login.open"
              /\ req'[p].user \in Users
              /\ req'[p].pw = pw
              /\ req'[p].hs = h
              /\ req'[p].row = entry[h]
              /\ entry[h] \in Entry
              /\ VerifyClientProof(entry[h], pw)
<1> DEFINE r == [Idle EXCEPT !.pc = "login.open", !.user = entry[h].user,
                             !.pw = pw, !.hs = h, !.row = entry[h]]
<1>1. entry[h] \in Entry
  BY DEF LoginFinalize, TypeInv, LocalsOK
<1>2. entry[h].user \in Users
  BY <1>1 DEF Entry
<1>3. /\ r \in Request /\ r.pc = "login.open" /\ r.user = entry[h].user
      /\ r.pw = pw /\ r.hs = h /\ r.row = entry[h]
  <2> HIDE DEF Entry
  <2>1. QED
    BY <1>1, <1>2 DEF Request, Idle, Labels
<1>4. CASE VerifyClientProof(entry[h], pw)
  <2>1. Become(p, r)
    BY <1>4 DEF LoginFinalize, Start
  <2> HIDE DEF r
  <2>2. QED
    BY <1>1, <1>2, <1>3, <1>4, <2>1, BecomeFacts DEF TypeInv
<1>5. CASE ~VerifyClientProof(entry[h], pw)
  BY <1>5 DEF LoginFinalize
<1>6. QED
  BY <1>4, <1>5

\* A request for a link remembers the tokens there are.
LEMMA RequestPasswordResetLocals ==
    ASSUME TypeOK, NEW p \in Reqs, NEW u \in Users, RequestPasswordReset(p, u)
    PROVE  /\ OnlyMoves(p)
           /\ req'[p].pc = "request.invalidate"
           /\ req'[p].user = u
           /\ req'[p].older = resets
<1> DEFINE r == [Idle EXCEPT !.pc = "request.invalidate", !.user = u, !.older = resets]
<1>1. r \in Request /\ r.pc = "request.invalidate" /\ r.user = u /\ r.older = resets
  BY DEF Request, Idle, Labels, TypeOK
<1>2. Become(p, r)
  BY DEF RequestPasswordReset, Start
<1> HIDE DEF r
<1>3. QED
  BY <1>1, <1>2, BecomeFacts

\* The invalidation keeps the locals.
LEMMA InvalidateUserTokensLocals ==
    ASSUME TypeOK, NEW p \in Reqs, InvalidateUserTokens(p)
    PROVE  /\ OnlyMoves(p)
           /\ req'[p].pc = "request.create"
           /\ req'[p].user = req[p].user
           /\ req'[p].older = req[p].older
<1> DEFINE r == [req[p] EXCEPT !.pc = "request.create"]
<1>r. req[p] \in Request
  BY DEF TypeOK
<1>1. r \in Request /\ r.pc = "request.create" /\ r.user = req[p].user /\ r.older = req[p].older
  BY <1>r DEF Request, Labels
<1>2. Become(p, r)
  BY DEF InvalidateUserTokens, Goto
<1> HIDE DEF r
<1>3. QED
  BY <1>1, <1>2, BecomeFacts

\* The new token is mailed next.
LEMMA CreateResetTokenLocals ==
    ASSUME TypeOK, NEW p \in Reqs, CreateResetToken(p)
    PROVE  \E t \in Tokens \ resets :
             /\ OnlyMoves(p)
             /\ req'[p].pc = "request.mail"
             /\ req'[p].tok = t
             /\ resets' = resets \cup {t}
             /\ rUser' = [rUser EXCEPT ![t] = req[p].user]
             /\ before' = [before EXCEPT ![t] = req[p].older]
<1>1. PICK t \in Tokens \ resets :
        /\ resets' = resets \cup {t}
        /\ rUser' = [rUser EXCEPT ![t] = req[p].user]
        /\ before' = [before EXCEPT ![t] = req[p].older]
        /\ Become(p, [req[p] EXCEPT !.pc = "request.mail", !.tok = t, !.older = {}])
  BY DEF CreateResetToken, InsertToken
<1> DEFINE r == [req[p] EXCEPT !.pc = "request.mail", !.tok = t, !.older = {}]
<1>r. req[p] \in Request
  BY DEF TypeOK
<1>2. r \in Request /\ r.pc = "request.mail" /\ r.tok = t
  BY <1>r DEF Request, Labels
<1> HIDE DEF r
<1>3. QED
  BY <1>1, <1>2, BecomeFacts DEF r

\* A confirmed link goes on with the new credentials.
LEMMA ResetPasswordLocals ==
    ASSUME TypeInv, NEW p \in Reqs, NEW t \in Tokens, NEW pw \in Passwords,
           ResetPassword(p, t, pw)
    PROVE  /\ OnlyMoves(p)
           /\ req'[p].pc = "reset.update"
           /\ req'[p].user \in Users
           /\ req'[p].pw = pw
           /\ req'[p].tok = t
<1> DEFINE r == [Idle EXCEPT !.pc = "reset.update", !.user = rUser[t], !.pw = pw, !.tok = t]
<1>1. rUser[t] \in Users
  BY DEF ResetPassword, Consumable, ActiveToken, TypeInv, LocalsOK
<1>2. /\ r \in Request /\ r.pc = "reset.update" /\ r.user = rUser[t]
      /\ r.pw = pw /\ r.tok = t
  BY <1>1 DEF Request, Idle, Labels
<1>3. Become(p, r)
  BY DEF ResetPassword, Start
<1> HIDE DEF r
<1>4. QED
  BY <1>1, <1>2, <1>3, BecomeFacts DEF TypeInv

\* The update of the credentials keeps the locals.
LEMMA UpdateCredentialsAndKEKLocals ==
    ASSUME TypeOK, NEW p \in Reqs, UpdateCredentialsAndKEK(p)
    PROVE  OnlyMoves(p) /\ req'[p].pc = "reset.revoke"
<1> DEFINE r == [req[p] EXCEPT !.pc = "reset.revoke"]
<1>r. req[p] \in Request
  BY DEF TypeOK
<1>1. r \in Request /\ r.pc = "reset.revoke"
  BY <1>r DEF Request, Labels
<1>2. Become(p, r)
  BY DEF UpdateCredentialsAndKEK, Goto
<1> HIDE DEF r
<1>3. QED
  BY <1>1, <1>2, BecomeFacts

\* The revocation goes on with the blocklist or ends the request.
LEMMA RevokeAllSessionsLocals ==
    ASSUME TypeOK, NEW p \in Reqs, RevokeAllSessions(p)
    PROVE  OnlyMoves(p) /\ req'[p].pc \in {"idle", "reset.block"}
<1> DEFINE S == {s \in sessions \ sRevoked : sUser[s] = req[p].user}
           r == [req[p] EXCEPT !.pc = "reset.block", !.ids = S]
<1>1. Finish(p) \/ Become(p, r)
  BY DEF RevokeAllSessions
<1>2. r \in Request /\ r.pc = "reset.block"
  <2>1. S \subseteq SessionIds
    BY DEF TypeOK
  <2> HIDE DEF S
  <2>2. req[p] \in Request
    BY DEF TypeOK
  <2>3. QED
    BY <2>1, <2>2 DEF Request, Labels
<1> HIDE DEF r
<1>3. QED
  BY <1>1, <1>2, BecomeFacts, FinishFacts

-----------------------------------------------------------------------------
\* Types

\* The initial state is well typed.
LEMMA InitTypeInv == Init => TypeInv
  BY DEF Init, TypeInv, TypeOK, LocalsOK, Request, Idle, Labels

\* Every step of every handler keeps the types.
LEMMA NextTypeInv == TypeInv /\ [Next]_vars => TypeInv'
<1> SUFFICES ASSUME TypeInv, [Next]_vars PROVE TypeInv'
  OBVIOUS
<1> USE DEF TypeInv, userVars, srpVars, resetVars, sessionVars
<1>t. TypeOK /\ LocalsOK
  OBVIOUS
<1>1. ASSUME NEW p \in Reqs, NEW u \in Users, LoginInit(p, u) PROVE TypeInv'
  BY <1>1, LoginInitLocals DEF OnlyMoves, LoginInit, TypeOK, LocalsOK
<1>2. ASSUME NEW p \in Reqs, NEW u \in Users, RequestPasswordReset(p, u) PROVE TypeInv'
  <2>1. OnlyMoves(p) /\ req'[p].pc = "request.invalidate" /\ req'[p].user = u
    BY <1>2, RequestPasswordResetLocals
  <2>2. QED
    BY <1>2, <2>1 DEF OnlyMoves, RequestPasswordReset, TypeOK, LocalsOK
<1>3. ASSUME NEW p \in Reqs, NEW h \in Handshakes, NEW pw \in Passwords,
             LoginFinalize(p, h, pw)
      PROVE  TypeInv'
  <2>1. \/ UNCHANGED req
        \/ /\ OnlyMoves(p)
           /\ req'[p].pc = "login.open"
           /\ req'[p].user \in Users
           /\ req'[p].pw = pw
           /\ req'[p].hs = h
           /\ req'[p].row \in Entry
    BY <1>3, LoginFinalizeLocals
  <2>2. srp' = srp \ {h} /\ UNCHANGED <<userVars, entry, minted, resetVars, sessionVars, applied>>
    BY <1>3 DEF LoginFinalize, Consume
  <2>3. QED
    BY <2>1, <2>2 DEF OnlyMoves, TypeOK, LocalsOK
<1>4. ASSUME NEW p \in Reqs, NEW t \in Tokens, NEW pw \in Passwords,
             ResetPassword(p, t, pw)
      PROVE  TypeInv'
  <2>1. /\ OnlyMoves(p)
        /\ req'[p].pc = "reset.update"
        /\ req'[p].user \in Users
        /\ req'[p].pw = pw
        /\ req'[p].tok = t
    BY <1>4, ResetPasswordLocals
  <2>2. QED
    BY <1>4, <2>1 DEF OnlyMoves, ResetPassword, TypeOK, LocalsOK
<1>5. ASSUME NEW p \in Reqs, StoreHandshake(p) PROVE TypeInv'
  <2>1. OnlyMoves(p) /\ req'[p].pc = "idle"
    BY <1>5, FinishFacts DEF StoreHandshake
  <2>2. req[p].row \in Entry
    BY <1>5 DEF StoreHandshake, LocalsOK
  <2>3. QED
    BY <1>5, <2>1, <2>2 DEF OnlyMoves, StoreHandshake, TypeOK, LocalsOK
<1>6. ASSUME NEW p \in Reqs, OpenSession(p) PROVE TypeInv'
  <2>1. OnlyMoves(p) /\ req'[p].pc = "idle"
    BY <1>6, FinishFacts DEF OpenSession
  <2>2. /\ req[p].row.kek \in Passwords
        /\ req[p].user \in Users
        /\ req[p].pw \in Passwords
        /\ req[p].hs \in Handshakes
    BY <1>6 DEF OpenSession, LocalsOK, Entry
  <2>3. QED
    BY <1>6, <2>1, <2>2 DEF OnlyMoves, OpenSession, TypeOK, LocalsOK
<1>7. ASSUME NEW p \in Reqs, InvalidateUserTokens(p) PROVE TypeInv'
  <2>1. req[p].user \in Users
    BY <1>7 DEF InvalidateUserTokens, LocalsOK
  <2>2. QED
    BY <1>7, <2>1, InvalidateUserTokensLocals DEF OnlyMoves, InvalidateUserTokens, TypeOK, LocalsOK
<1>8. ASSUME NEW p \in Reqs, CreateResetToken(p) PROVE TypeInv'
  <2>1. req[p].user \in Users /\ req[p].older \subseteq Tokens
    BY <1>8 DEF CreateResetToken, LocalsOK, TypeOK, Request
  <2>2. PICK t \in Tokens \ resets :
          /\ OnlyMoves(p)
          /\ req'[p].pc = "request.mail"
          /\ req'[p].tok = t
          /\ resets' = resets \cup {t}
          /\ rUser' = [rUser EXCEPT ![t] = req[p].user]
          /\ before' = [before EXCEPT ![t] = req[p].older]
    BY <1>8, CreateResetTokenLocals
  <2>3. UNCHANGED <<userVars, srpVars, rUsed, rExpired, mailed, sessionVars, applied>>
    BY <1>8 DEF CreateResetToken
  <2>4. QED
    BY <2>1, <2>2, <2>3 DEF OnlyMoves, TypeOK, LocalsOK
<1>9. ASSUME NEW p \in Reqs, NotifyPasswordReset(p) PROVE TypeInv'
  <2>1. OnlyMoves(p) /\ req'[p].pc = "idle"
    BY <1>9, FinishFacts DEF NotifyPasswordReset
  <2>2. req[p].tok \in Tokens
    BY <1>9 DEF NotifyPasswordReset, LocalsOK
  <2>3. QED
    BY <1>9, <2>1, <2>2 DEF OnlyMoves, NotifyPasswordReset, TypeOK, LocalsOK
<1>10. ASSUME NEW p \in Reqs, UpdateCredentialsAndKEK(p) PROVE TypeInv'
  <2>1. req[p].user \in Users /\ req[p].pw \in Passwords /\ req[p].tok \in Tokens
    BY <1>10 DEF UpdateCredentialsAndKEK, LocalsOK
  <2>2. OnlyMoves(p) /\ req'[p].pc = "reset.revoke"
    BY <1>10, UpdateCredentialsAndKEKLocals
  <2>3. QED
    BY <1>10, <2>1, <2>2 DEF OnlyMoves, UpdateCredentialsAndKEK, TypeOK, LocalsOK
<1>11. ASSUME NEW p \in Reqs, RevokeAllSessions(p) PROVE TypeInv'
  BY <1>11, RevokeAllSessionsLocals DEF OnlyMoves, RevokeAllSessions, TypeOK, LocalsOK
<1>12. ASSUME NEW p \in Reqs, BlockBatch(p) PROVE TypeInv'
  <2>1. OnlyMoves(p) /\ req'[p].pc = "idle"
    BY <1>12, FinishFacts DEF BlockBatch
  <2>2. req[p].ids \subseteq SessionIds
    BY DEF TypeOK, Request
  <2>3. QED
    BY <1>12, <2>1, <2>2 DEF OnlyMoves, BlockBatch, TypeOK, LocalsOK
<1>13. ASSUME NEW p \in Reqs, Fail(p) PROVE TypeInv'
  <2>1. OnlyMoves(p) /\ req'[p].pc = "idle"
    BY <1>13, FinishFacts DEF Fail
  <2>2. QED
    BY <1>13, <2>1 DEF OnlyMoves, Fail, TypeOK, LocalsOK
<1>14. ASSUME NEW h \in Handshakes, ExpireHandshake(h) PROVE TypeInv'
  BY <1>14 DEF ExpireHandshake, TypeOK, LocalsOK
<1>15. ASSUME NEW t \in Tokens, ExpireToken(t) PROVE TypeInv'
  BY <1>15 DEF ExpireToken, TypeOK, LocalsOK
<1>16. CASE UNCHANGED vars
  BY <1>16 DEF vars, TypeOK, LocalsOK
<1>17. QED
  BY <1>1, <1>2, <1>3, <1>4, <1>5, <1>6, <1>7, <1>8, <1>9, <1>10, <1>11, <1>12, <1>13,
     <1>14, <1>15, <1>16 DEF Next, Continue

\* Every variable and every local of every handler has its type, in every
\* interleaving.
THEOREM TypeCorrect == Spec => []TypeOK
<1>1. TypeInv => TypeOK
  BY DEF TypeInv
<1>2. QED
  BY <1>1, InitTypeInv, NextTypeInv, PTL DEF Spec

-----------------------------------------------------------------------------
\* A handshake opens one session

\* A handshake opens sessions, or is about to, only once Redis has given its
\* entry away; one request at most holds it then, and it has opened nothing yet.
HandshakeInv ==
    /\ srp \subseteq minted
    /\ \A h \in Handshakes : opened[h] # {} => h \in minted \ srp
    /\ \A p \in Reqs : req[p].pc = "login.open" =>
        /\ req[p].hs \in minted \ srp
        /\ opened[req[p].hs] = {}
        /\ \A q \in Reqs : req[q].pc = "login.open" /\ req[q].hs = req[p].hs => q = p
    /\ HandshakeOpensOnce

\* A token has changed the credentials, or is about to, only once it is used;
\* one request at most holds it then, and it has changed nothing yet.
ResetInv ==
    /\ \A t \in Tokens : applied[t] # 0 => t \in rUsed
    /\ \A p \in Reqs : req[p].pc = "reset.update" =>
        /\ req[p].tok \in rUsed
        /\ applied[req[p].tok] = 0
        /\ \A q \in Reqs : req[q].pc = "reset.update" /\ req[q].tok = req[p].tok => q = p
    /\ ResetAppliedOnce

\* Verifier and wrapped key are made from one password, in the row and in every
\* copy of it; who is let in has proved that password.
KeyInv ==
    /\ kek = verifier
    /\ \A h \in srp : entry[h].kek = entry[h].verifier
    /\ \A p \in Reqs :
        /\ req[p].pc = "init.store" => req[p].row.kek = req[p].row.verifier
        /\ req[p].pc = "login.open" => req[p].row.kek = req[p].pw
    /\ ReplyUnlocks

\* Between the invalidation and the insert, the tokens of the user that were
\* there when the link was asked for are used; they stay so.
LinkInv ==
    /\ \A p \in Reqs :
        /\ req[p].pc \in {"request.invalidate", "request.create"} => req[p].older \subseteq resets
        /\ req[p].pc = "request.create" =>
            \A old \in req[p].older : rUser[old] = req[p].user => old \in rUsed
    /\ \A t \in resets :
        /\ before[t] \subseteq resets
        /\ \A old \in before[t] : rUser[old] = rUser[t] => old \in rUsed

\* HandshakeInv is kept by a step that leaves the handshakes alone.
LEMMA HandshakeFrame ==
    ASSUME HandshakeInv, UNCHANGED <<srp, minted, opened>>,
           NEW p \in Reqs, OnlyMoves(p), req'[p].pc # "login.open"
    PROVE  HandshakeInv'
  BY DEF HandshakeInv, HandshakeOpensOnce, OnlyMoves

\* No interleaving of logins breaks HandshakeInv.
LEMMA NextHandshakeInv == TypeInv /\ HandshakeInv /\ [Next]_vars => HandshakeInv'
<1> SUFFICES ASSUME TypeInv, HandshakeInv, [Next]_vars PROVE HandshakeInv'
  OBVIOUS
<1> USE DEF userVars, srpVars, resetVars, sessionVars
<1>t. TypeOK
  BY DEF TypeInv
<1>1. ASSUME NEW p \in Reqs, NEW u \in Users, LoginInit(p, u) PROVE HandshakeInv'
  BY <1>1, <1>t, LoginInitLocals, HandshakeFrame DEF LoginInit
<1>2. ASSUME NEW p \in Reqs, NEW u \in Users, RequestPasswordReset(p, u) PROVE HandshakeInv'
  BY <1>2, <1>t, RequestPasswordResetLocals, HandshakeFrame DEF RequestPasswordReset
<1>3. ASSUME NEW p \in Reqs, NEW h \in Handshakes, NEW pw \in Passwords,
             LoginFinalize(p, h, pw)
      PROVE  HandshakeInv'
  <2>1. h \in srp /\ srp' = srp \ {h} /\ UNCHANGED <<minted, opened>>
    BY <1>3 DEF LoginFinalize, Consume
  <2>2. CASE UNCHANGED req
    BY <2>1, <2>2 DEF HandshakeInv, HandshakeOpensOnce
  <2>3. CASE OnlyMoves(p) /\ req'[p].pc = "login.open" /\ req'[p].hs = h
    BY <2>1, <2>3 DEF HandshakeInv, HandshakeOpensOnce, OnlyMoves
  <2>4. QED
    BY <1>3, <2>2, <2>3, LoginFinalizeLocals
<1>4. ASSUME NEW p \in Reqs, NEW t \in Tokens, NEW pw \in Passwords,
             ResetPassword(p, t, pw)
      PROVE  HandshakeInv'
  BY <1>4, <1>t, ResetPasswordLocals, HandshakeFrame DEF ResetPassword
<1>5. ASSUME NEW p \in Reqs, StoreHandshake(p) PROVE HandshakeInv'
  <2>1. OnlyMoves(p) /\ req'[p].pc = "idle" /\ UNCHANGED opened
    BY <1>5, <1>t, FinishFacts DEF StoreHandshake
  <2>2. PICK h \in Handshakes \ minted : minted' = minted \cup {h} /\ srp' = srp \cup {h}
    BY <1>5 DEF StoreHandshake
  <2>3. QED
    BY <2>1, <2>2 DEF HandshakeInv, HandshakeOpensOnce, OnlyMoves
<1>6. ASSUME NEW p \in Reqs, OpenSession(p) PROVE HandshakeInv'
  <2>1. OnlyMoves(p) /\ req'[p].pc = "idle" /\ UNCHANGED <<srp, minted>>
    BY <1>6, <1>t, FinishFacts DEF OpenSession
  <2>2. PICK s \in SessionIds : opened' = [opened EXCEPT ![req[p].hs] = @ \cup {s}]
    BY <1>6 DEF OpenSession
  <2>3. /\ req[p].pc = "login.open"
        /\ req[p].hs \in Handshakes
        /\ req[p].hs \in minted \ srp
        /\ opened[req[p].hs] = {}
        /\ \A q \in Reqs \ {p} : req[q].pc = "login.open" => req[q].hs # req[p].hs
    BY <1>6 DEF OpenSession, TypeInv, LocalsOK, HandshakeInv
  <2>4. /\ opened'[req[p].hs] = {s}
        /\ \A h \in Handshakes \ {req[p].hs} : opened'[h] = opened[h]
    BY <2>2, <2>3, <1>t DEF TypeOK
  <2>5. \A q \in Reqs : req'[q].pc = "login.open" => q # p /\ req'[q] = req[q] /\ req[q].hs \in Handshakes
    BY <2>1 DEF OnlyMoves, TypeInv, LocalsOK
  <2>6. HandshakeOpensOnce'
    BY <2>4 DEF HandshakeInv, HandshakeOpensOnce
  <2>7. QED
    BY <2>1, <2>3, <2>4, <2>5, <2>6 DEF HandshakeInv
<1>7. ASSUME NEW p \in Reqs, InvalidateUserTokens(p) PROVE HandshakeInv'
  BY <1>7, <1>t, InvalidateUserTokensLocals, HandshakeFrame DEF InvalidateUserTokens
<1>8. ASSUME NEW p \in Reqs, CreateResetToken(p) PROVE HandshakeInv'
  BY <1>8, <1>t, CreateResetTokenLocals, HandshakeFrame DEF CreateResetToken
<1>9. ASSUME NEW p \in Reqs, NotifyPasswordReset(p) PROVE HandshakeInv'
  BY <1>9, <1>t, FinishFacts, HandshakeFrame DEF NotifyPasswordReset
<1>10. ASSUME NEW p \in Reqs, UpdateCredentialsAndKEK(p) PROVE HandshakeInv'
  BY <1>10, <1>t, UpdateCredentialsAndKEKLocals, HandshakeFrame DEF UpdateCredentialsAndKEK
<1>11. ASSUME NEW p \in Reqs, RevokeAllSessions(p) PROVE HandshakeInv'
  BY <1>11, <1>t, RevokeAllSessionsLocals, HandshakeFrame DEF RevokeAllSessions
<1>12. ASSUME NEW p \in Reqs, BlockBatch(p) PROVE HandshakeInv'
  BY <1>12, <1>t, FinishFacts, HandshakeFrame DEF BlockBatch
<1>13. ASSUME NEW p \in Reqs, Fail(p) PROVE HandshakeInv'
  BY <1>13, <1>t, FinishFacts, HandshakeFrame DEF Fail
<1>14. ASSUME NEW h \in Handshakes, ExpireHandshake(h) PROVE HandshakeInv'
  BY <1>14 DEF ExpireHandshake, HandshakeInv, HandshakeOpensOnce
<1>15. ASSUME NEW t \in Tokens, ExpireToken(t) PROVE HandshakeInv'
  BY <1>15 DEF ExpireToken, HandshakeInv, HandshakeOpensOnce
<1>16. CASE UNCHANGED vars
  BY <1>16 DEF vars, HandshakeInv, HandshakeOpensOnce
<1>17. QED
  BY <1>1, <1>2, <1>3, <1>4, <1>5, <1>6, <1>7, <1>8, <1>9, <1>10, <1>11, <1>12, <1>13,
     <1>14, <1>15, <1>16 DEF Next, Continue

\* ResetInv is kept by a step that applies no reset.
LEMMA ResetFrame ==
    ASSUME ResetInv, rUsed \subseteq rUsed', UNCHANGED applied,
           NEW p \in Reqs, OnlyMoves(p), req'[p].pc # "reset.update"
    PROVE  ResetInv'
  BY DEF ResetInv, ResetAppliedOnce, OnlyMoves

-----------------------------------------------------------------------------
\* A reset link changes the credentials once

\* No interleaving of resets breaks ResetInv.
LEMMA NextResetInv == TypeInv /\ ResetInv /\ [Next]_vars => ResetInv'
<1> SUFFICES ASSUME TypeInv, ResetInv, [Next]_vars PROVE ResetInv'
  OBVIOUS
<1> USE DEF userVars, srpVars, resetVars, sessionVars
<1>t. TypeOK
  BY DEF TypeInv
<1>1. ASSUME NEW p \in Reqs, NEW u \in Users, LoginInit(p, u) PROVE ResetInv'
  BY <1>1, <1>t, LoginInitLocals, ResetFrame DEF LoginInit
<1>2. ASSUME NEW p \in Reqs, NEW u \in Users, RequestPasswordReset(p, u) PROVE ResetInv'
  BY <1>2, <1>t, RequestPasswordResetLocals, ResetFrame DEF RequestPasswordReset
<1>3. ASSUME NEW p \in Reqs, NEW h \in Handshakes, NEW pw \in Passwords,
             LoginFinalize(p, h, pw)
      PROVE  ResetInv'
  <2>1. UNCHANGED <<rUsed, applied>>
    BY <1>3 DEF LoginFinalize
  <2>2. CASE UNCHANGED req
    BY <2>1, <2>2 DEF ResetInv, ResetAppliedOnce
  <2>3. CASE OnlyMoves(p) /\ req'[p].pc = "login.open"
    BY <2>1, <2>3, ResetFrame
  <2>4. QED
    BY <1>3, <2>2, <2>3, LoginFinalizeLocals
<1>4. ASSUME NEW p \in Reqs, NEW t \in Tokens, NEW pw \in Passwords,
             ResetPassword(p, t, pw)
      PROVE  ResetInv'
  <2>1. OnlyMoves(p) /\ req'[p].pc = "reset.update" /\ req'[p].tok = t
    BY <1>4, ResetPasswordLocals
  <2>2. t \notin rUsed /\ rUsed' = rUsed \cup {t} /\ UNCHANGED applied
    BY <1>4 DEF ResetPassword, Consumable, ActiveToken
  <2>3. QED
    BY <2>1, <2>2 DEF ResetInv, ResetAppliedOnce, OnlyMoves
<1>5. ASSUME NEW p \in Reqs, StoreHandshake(p) PROVE ResetInv'
  BY <1>5, <1>t, FinishFacts, ResetFrame DEF StoreHandshake
<1>6. ASSUME NEW p \in Reqs, OpenSession(p) PROVE ResetInv'
  BY <1>6, <1>t, FinishFacts, ResetFrame DEF OpenSession
<1>7. ASSUME NEW p \in Reqs, InvalidateUserTokens(p) PROVE ResetInv'
  BY <1>7, <1>t, InvalidateUserTokensLocals, ResetFrame DEF InvalidateUserTokens
<1>8. ASSUME NEW p \in Reqs, CreateResetToken(p) PROVE ResetInv'
  BY <1>8, <1>t, CreateResetTokenLocals, ResetFrame DEF CreateResetToken
<1>9. ASSUME NEW p \in Reqs, NotifyPasswordReset(p) PROVE ResetInv'
  BY <1>9, <1>t, FinishFacts, ResetFrame DEF NotifyPasswordReset
<1>10. ASSUME NEW p \in Reqs, UpdateCredentialsAndKEK(p) PROVE ResetInv'
  <2>1. OnlyMoves(p) /\ req'[p].pc = "reset.revoke" /\ UNCHANGED rUsed
    BY <1>10, <1>t, UpdateCredentialsAndKEKLocals DEF UpdateCredentialsAndKEK
  <2>2. /\ req[p].pc = "reset.update"
        /\ req[p].tok \in Tokens
        /\ req[p].tok \in rUsed
        /\ applied[req[p].tok] = 0
        /\ \A q \in Reqs \ {p} : req[q].pc = "reset.update" => req[q].tok # req[p].tok
    BY <1>10 DEF UpdateCredentialsAndKEK, TypeInv, LocalsOK, ResetInv
  <2>3. /\ applied'[req[p].tok] = 1
        /\ \A t \in Tokens \ {req[p].tok} : applied'[t] = applied[t]
    BY <1>10, <1>t, <2>2 DEF UpdateCredentialsAndKEK, TypeOK
  <2>4. \A q \in Reqs : req'[q].pc = "reset.update" => q # p /\ req'[q] = req[q] /\ req[q].tok \in Tokens
    BY <2>1 DEF OnlyMoves, TypeInv, LocalsOK
  <2>5. ResetAppliedOnce'
    BY <2>3 DEF ResetInv, ResetAppliedOnce
  <2>6. QED
    BY <2>1, <2>2, <2>3, <2>4, <2>5 DEF ResetInv
<1>11. ASSUME NEW p \in Reqs, RevokeAllSessions(p) PROVE ResetInv'
  BY <1>11, <1>t, RevokeAllSessionsLocals, ResetFrame DEF RevokeAllSessions
<1>12. ASSUME NEW p \in Reqs, BlockBatch(p) PROVE ResetInv'
  BY <1>12, <1>t, FinishFacts, ResetFrame DEF BlockBatch
<1>13. ASSUME NEW p \in Reqs, Fail(p) PROVE ResetInv'
  BY <1>13, <1>t, FinishFacts, ResetFrame DEF Fail
<1>14. ASSUME NEW h \in Handshakes, ExpireHandshake(h) PROVE ResetInv'
  BY <1>14 DEF ExpireHandshake, ResetInv, ResetAppliedOnce
<1>15. ASSUME NEW t \in Tokens, ExpireToken(t) PROVE ResetInv'
  BY <1>15 DEF ExpireToken, ResetInv, ResetAppliedOnce
<1>16. CASE UNCHANGED vars
  BY <1>16 DEF vars, ResetInv, ResetAppliedOnce
<1>17. QED
  BY <1>1, <1>2, <1>3, <1>4, <1>5, <1>6, <1>7, <1>8, <1>9, <1>10, <1>11, <1>12, <1>13,
     <1>14, <1>15, <1>16 DEF Next, Continue

-----------------------------------------------------------------------------
\* The reply opens with the password that was proved

\* KeyInv is kept by a step that changes no row, no entry and no reply.
LEMMA KeyFrame ==
    ASSUME KeyInv, srp' \subseteq srp, UNCHANGED <<kek, verifier, entry, sessions, reply>>,
           NEW p \in Reqs, OnlyMoves(p), req'[p].pc \notin {"init.store", "login.open"}
    PROVE  KeyInv'
  BY DEF KeyInv, ReplyUnlocks, OnlyMoves

\* No interleaving of logins and resets breaks KeyInv.
LEMMA NextKeyInv == TypeInv /\ KeyInv /\ [Next]_vars => KeyInv'
<1> SUFFICES ASSUME TypeInv, KeyInv, [Next]_vars PROVE KeyInv'
  OBVIOUS
<1> USE DEF userVars, srpVars, resetVars, sessionVars
<1>t. TypeOK
  BY DEF TypeInv
<1>1. ASSUME NEW p \in Reqs, NEW u \in Users, LoginInit(p, u) PROVE KeyInv'
  <2>1. /\ OnlyMoves(p) /\ req'[p].pc = "init.store" /\ req'[p].row = NewServerSession(u)
        /\ UNCHANGED <<kek, verifier, srp, entry, sessions, reply>>
    BY <1>1, <1>t, LoginInitLocals DEF LoginInit
  <2>2. NewServerSession(u).kek = NewServerSession(u).verifier
    BY DEF NewServerSession, KeyInv
  <2>3. QED
    BY <2>1, <2>2 DEF KeyInv, ReplyUnlocks, OnlyMoves
<1>2. ASSUME NEW p \in Reqs, NEW u \in Users, RequestPasswordReset(p, u) PROVE KeyInv'
  BY <1>2, <1>t, RequestPasswordResetLocals, KeyFrame DEF RequestPasswordReset
<1>3. ASSUME NEW p \in Reqs, NEW h \in Handshakes, NEW pw \in Passwords,
             LoginFinalize(p, h, pw)
      PROVE  KeyInv'
  <2>1. h \in srp /\ srp' \subseteq srp /\ UNCHANGED <<kek, verifier, entry, sessions, reply>>
    BY <1>3 DEF LoginFinalize, Consume
  <2>2. CASE UNCHANGED req
    BY <2>1, <2>2 DEF KeyInv, ReplyUnlocks
  <2>3. CASE /\ OnlyMoves(p) /\ req'[p].pc = "login.open" /\ req'[p].pw = pw
             /\ req'[p].row = entry[h] /\ VerifyClientProof(entry[h], pw)
    <3>1. req'[p].row.kek = req'[p].pw
      BY <2>1, <2>3 DEF VerifyClientProof, KeyInv
    <3>2. QED
      BY <2>1, <2>3, <3>1 DEF KeyInv, ReplyUnlocks, OnlyMoves
  <2>4. QED
    BY <1>3, <2>2, <2>3, LoginFinalizeLocals
<1>4. ASSUME NEW p \in Reqs, NEW t \in Tokens, NEW pw \in Passwords,
             ResetPassword(p, t, pw)
      PROVE  KeyInv'
  BY <1>4, <1>t, ResetPasswordLocals, KeyFrame DEF ResetPassword
<1>5. ASSUME NEW p \in Reqs, StoreHandshake(p) PROVE KeyInv'
  <2>1. OnlyMoves(p) /\ req'[p].pc = "idle" /\ UNCHANGED <<kek, verifier, sessions, reply>>
    BY <1>5, <1>t, FinishFacts DEF StoreHandshake
  <2>2. PICK h \in Handshakes : srp' = srp \cup {h} /\ entry' = [entry EXCEPT ![h] = req[p].row]
    BY <1>5 DEF StoreHandshake
  <2>3. req[p].row.kek = req[p].row.verifier
    BY <1>5 DEF StoreHandshake, KeyInv
  <2>4. \A k \in srp' : entry'[k].kek = entry'[k].verifier
    BY <1>t, <2>2, <2>3 DEF KeyInv, TypeOK
  <2>5. QED
    BY <2>1, <2>4 DEF KeyInv, ReplyUnlocks, OnlyMoves
<1>6. ASSUME NEW p \in Reqs, OpenSession(p) PROVE KeyInv'
  <2>1. OnlyMoves(p) /\ req'[p].pc = "idle" /\ UNCHANGED <<kek, verifier, srp, entry>>
    BY <1>6, <1>t, FinishFacts DEF OpenSession
  <2>2. PICK s \in SessionIds :
          /\ sessions' = sessions \cup {s}
          /\ reply' = [reply EXCEPT ![s] = [pw |-> req[p].pw, kek |-> req[p].row.kek]]
    BY <1>6 DEF OpenSession
  <2>3. req[p].pw = req[p].row.kek
    BY <1>6 DEF OpenSession, KeyInv
  <2>4. ReplyUnlocks'
    BY <1>t, <2>2, <2>3 DEF KeyInv, ReplyUnlocks, TypeOK
  <2>5. QED
    BY <2>1, <2>4 DEF KeyInv, OnlyMoves
<1>7. ASSUME NEW p \in Reqs, InvalidateUserTokens(p) PROVE KeyInv'
  BY <1>7, <1>t, InvalidateUserTokensLocals, KeyFrame DEF InvalidateUserTokens
<1>8. ASSUME NEW p \in Reqs, CreateResetToken(p) PROVE KeyInv'
  BY <1>8, <1>t, CreateResetTokenLocals, KeyFrame DEF CreateResetToken
<1>9. ASSUME NEW p \in Reqs, NotifyPasswordReset(p) PROVE KeyInv'
  BY <1>9, <1>t, FinishFacts, KeyFrame DEF NotifyPasswordReset
<1>10. ASSUME NEW p \in Reqs, UpdateCredentialsAndKEK(p) PROVE KeyInv'
  <2>1. /\ OnlyMoves(p) /\ req'[p].pc = "reset.revoke"
        /\ UNCHANGED <<srp, entry, sessions, reply>>
    BY <1>10, <1>t, UpdateCredentialsAndKEKLocals DEF UpdateCredentialsAndKEK
  <2>2. kek' = verifier'
    BY <1>10 DEF UpdateCredentialsAndKEK, KeyInv
  <2>3. QED
    BY <2>1, <2>2 DEF KeyInv, ReplyUnlocks, OnlyMoves
<1>11. ASSUME NEW p \in Reqs, RevokeAllSessions(p) PROVE KeyInv'
  BY <1>11, <1>t, RevokeAllSessionsLocals, KeyFrame DEF RevokeAllSessions
<1>12. ASSUME NEW p \in Reqs, BlockBatch(p) PROVE KeyInv'
  BY <1>12, <1>t, FinishFacts, KeyFrame DEF BlockBatch
<1>13. ASSUME NEW p \in Reqs, Fail(p) PROVE KeyInv'
  BY <1>13, <1>t, FinishFacts, KeyFrame DEF Fail
<1>14. ASSUME NEW h \in Handshakes, ExpireHandshake(h) PROVE KeyInv'
  BY <1>14 DEF ExpireHandshake, KeyInv, ReplyUnlocks
<1>15. ASSUME NEW t \in Tokens, ExpireToken(t) PROVE KeyInv'
  BY <1>15 DEF ExpireToken, KeyInv, ReplyUnlocks
<1>16. CASE UNCHANGED vars
  BY <1>16 DEF vars, KeyInv, ReplyUnlocks
<1>17. QED
  BY <1>1, <1>2, <1>3, <1>4, <1>5, <1>6, <1>7, <1>8, <1>9, <1>10, <1>11, <1>12, <1>13,
     <1>14, <1>15, <1>16 DEF Next, Continue

-----------------------------------------------------------------------------
\* A new link ends the older ones

\* LinkInv is kept by a step that inserts no token.
LEMMA LinkFrame ==
    ASSUME LinkInv, rUsed \subseteq rUsed', UNCHANGED <<resets, rUser, before>>,
           NEW p \in Reqs, OnlyMoves(p),
           req'[p].pc \notin {"request.invalidate", "request.create"}
    PROVE  LinkInv'
  BY DEF LinkInv, OnlyMoves

\* No interleaving of requests for links breaks LinkInv.
LEMMA NextLinkInv == TypeInv /\ LinkInv /\ [Next]_vars => LinkInv'
<1> SUFFICES ASSUME TypeInv, LinkInv, [Next]_vars PROVE LinkInv'
  OBVIOUS
<1> USE DEF userVars, srpVars, resetVars, sessionVars
<1>t. TypeOK
  BY DEF TypeInv
<1>1. ASSUME NEW p \in Reqs, NEW u \in Users, LoginInit(p, u) PROVE LinkInv'
  BY <1>1, <1>t, LoginInitLocals, LinkFrame DEF LoginInit
<1>2. ASSUME NEW p \in Reqs, NEW u \in Users, RequestPasswordReset(p, u) PROVE LinkInv'
  <2>1. /\ OnlyMoves(p) /\ req'[p].pc = "request.invalidate" /\ req'[p].older = resets
        /\ UNCHANGED <<rUsed, resets, rUser, before>>
    BY <1>2, <1>t, RequestPasswordResetLocals DEF RequestPasswordReset
  <2>2. QED
    BY <2>1 DEF LinkInv, OnlyMoves
<1>3. ASSUME NEW p \in Reqs, NEW h \in Handshakes, NEW pw \in Passwords,
             LoginFinalize(p, h, pw)
      PROVE  LinkInv'
  <2>1. UNCHANGED <<rUsed, resets, rUser, before>>
    BY <1>3 DEF LoginFinalize
  <2>2. CASE UNCHANGED req
    BY <2>1, <2>2 DEF LinkInv
  <2>3. CASE OnlyMoves(p) /\ req'[p].pc = "login.open"
    BY <2>1, <2>3, LinkFrame
  <2>4. QED
    BY <1>3, <2>2, <2>3, LoginFinalizeLocals
<1>4. ASSUME NEW p \in Reqs, NEW t \in Tokens, NEW pw \in Passwords,
             ResetPassword(p, t, pw)
      PROVE  LinkInv'
  BY <1>4, <1>t, ResetPasswordLocals, LinkFrame DEF ResetPassword
<1>5. ASSUME NEW p \in Reqs, StoreHandshake(p) PROVE LinkInv'
  BY <1>5, <1>t, FinishFacts, LinkFrame DEF StoreHandshake
<1>6. ASSUME NEW p \in Reqs, OpenSession(p) PROVE LinkInv'
  BY <1>6, <1>t, FinishFacts, LinkFrame DEF OpenSession
<1>7. ASSUME NEW p \in Reqs, InvalidateUserTokens(p) PROVE LinkInv'
  <2>1. /\ OnlyMoves(p) /\ req'[p].pc = "request.create"
        /\ req'[p].user = req[p].user /\ req'[p].older = req[p].older
    BY <1>7, <1>t, InvalidateUserTokensLocals
  <2>2. /\ req[p].pc = "request.invalidate"
        /\ rUsed' = rUsed \cup {t \in resets : rUser[t] = req[p].user}
        /\ UNCHANGED <<resets, rUser, before>>
    BY <1>7 DEF InvalidateUserTokens
  <2>3. req[p].older \subseteq resets
    BY <2>2 DEF LinkInv
  <2>4. QED
    BY <2>1, <2>2, <2>3 DEF LinkInv, OnlyMoves
<1>8. ASSUME NEW p \in Reqs, CreateResetToken(p) PROVE LinkInv'
  <2>1. PICK t \in Tokens \ resets :
          /\ OnlyMoves(p)
          /\ req'[p].pc = "request.mail"
          /\ resets' = resets \cup {t}
          /\ rUser' = [rUser EXCEPT ![t] = req[p].user]
          /\ before' = [before EXCEPT ![t] = req[p].older]
    BY <1>8, <1>t, CreateResetTokenLocals
  <2>2. req[p].pc = "request.create" /\ UNCHANGED rUsed
    BY <1>8 DEF CreateResetToken
  <2>3. /\ req[p].older \subseteq resets
        /\ \A old \in req[p].older : rUser[old] = req[p].user => old \in rUsed
    BY <2>2 DEF LinkInv
  <2>4. /\ \A k \in resets : rUser'[k] = rUser[k] /\ before'[k] = before[k]
        /\ rUser'[t] = req[p].user /\ before'[t] = req[p].older
    BY <1>t, <2>1 DEF TypeOK
  <2>5. \A k \in resets' :
          /\ before'[k] \subseteq resets'
          /\ \A old \in before'[k] : rUser'[old] = rUser'[k] => old \in rUsed'
    BY <2>1, <2>2, <2>3, <2>4 DEF LinkInv
  <2>6. QED
    BY <2>1, <2>2, <2>4, <2>5 DEF LinkInv, OnlyMoves
<1>9. ASSUME NEW p \in Reqs, NotifyPasswordReset(p) PROVE LinkInv'
  BY <1>9, <1>t, FinishFacts, LinkFrame DEF NotifyPasswordReset
<1>10. ASSUME NEW p \in Reqs, UpdateCredentialsAndKEK(p) PROVE LinkInv'
  BY <1>10, <1>t, UpdateCredentialsAndKEKLocals, LinkFrame DEF UpdateCredentialsAndKEK
<1>11. ASSUME NEW p \in Reqs, RevokeAllSessions(p) PROVE LinkInv'
  BY <1>11, <1>t, RevokeAllSessionsLocals, LinkFrame DEF RevokeAllSessions
<1>12. ASSUME NEW p \in Reqs, BlockBatch(p) PROVE LinkInv'
  BY <1>12, <1>t, FinishFacts, LinkFrame DEF BlockBatch
<1>13. ASSUME NEW p \in Reqs, Fail(p) PROVE LinkInv'
  BY <1>13, <1>t, FinishFacts, LinkFrame DEF Fail
<1>14. ASSUME NEW h \in Handshakes, ExpireHandshake(h) PROVE LinkInv'
  BY <1>14 DEF ExpireHandshake, LinkInv
<1>15. ASSUME NEW t \in Tokens, ExpireToken(t) PROVE LinkInv'
  BY <1>15 DEF ExpireToken, LinkInv
<1>16. CASE UNCHANGED vars
  BY <1>16 DEF vars, LinkInv
<1>17. QED
  BY <1>1, <1>2, <1>3, <1>4, <1>5, <1>6, <1>7, <1>8, <1>9, <1>10, <1>11, <1>12, <1>13,
     <1>14, <1>15, <1>16 DEF Next, Continue

-----------------------------------------------------------------------------
\* Theorems

\* All four parts of the argument hold initially and after every step.
LEMMA Invariant ==
    Spec => [](TypeInv /\ HandshakeInv /\ ResetInv /\ KeyInv /\ LinkInv)
<1>1. Init => HandshakeInv /\ ResetInv /\ KeyInv /\ LinkInv
  BY DEF Init, Idle, HandshakeInv, HandshakeOpensOnce, ResetInv, ResetAppliedOnce, KeyInv,
     ReplyUnlocks, LinkInv
<1>2. QED
  BY <1>1, InitTypeInv, NextTypeInv, NextHandshakeInv, NextResetInv, NextKeyInv, NextLinkInv,
     PTL DEF Spec

\* GETDEL lets one LoginFinalize have the handshake: however many requests
\* bring a valid proof for it, it opens at most one session.
THEOREM OneSessionPerHandshake == Spec => []HandshakeOpensOnce
<1>1. HandshakeInv => HandshakeOpensOnce
  BY DEF HandshakeInv
<1>2. QED
  BY <1>1, Invariant, PTL

\* The UPDATE that asks for used_at IS NULL lets one ResetPassword have the
\* token: a link changes the credentials at most once.
THEOREM OneChangePerLink == Spec => []ResetAppliedOnce
<1>1. ResetInv => ResetAppliedOnce
  BY DEF ResetInv
<1>2. QED
  BY <1>1, Invariant, PTL

\* The handshake keeps the wrapped key it was started with: a login that
\* straddles a reset receives the key its own password opens.
THEOREM RepliesUnlock == Spec => []ReplyUnlocks
<1>1. KeyInv => ReplyUnlocks
  BY DEF KeyInv
<1>2. QED
  BY <1>1, Invariant, PTL

\* Once a link has been issued, no link of the account that was there when it
\* was asked for is active, whatever else ran between the two statements.
THEOREM NewLinkEndsOlderLinks == Spec => []NewLinkEndsOlder
<1>1. LinkInv => NewLinkEndsOlder
  BY DEF LinkInv, NewLinkEndsOlder, ActiveToken
<1>2. QED
  BY <1>1, Invariant, PTL
=============================================================================
