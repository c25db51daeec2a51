-------------------------- MODULE MCBrowserSessions --------------------------
(* Small instances of BrowserSessions. *)
EXTENDS BrowserSessions, TLC

\* A handler may be cut off with its token consumed and no new one stored: the
\* browser gets no reply.
MidRotation == {"store"}

\* Once a browser was not honest, either time passes or the last pair is issued:
\* what comes after both is not explored.
NotBoth == honest \/ now = 0 \/ minted # Tokens

Symmetry == Permutations(SessionIds) \cup Permutations(Tokens) \cup Permutations(Reqs)
            \cup Permutations(Devices)
=============================================================================
