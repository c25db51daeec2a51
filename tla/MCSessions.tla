----------------------------- MODULE MCSessions -----------------------------
(* Small instances of Sessions. *)
EXTENDS Sessions

\* A handler may be cut off with its token consumed and no new one stored, and
\* with its session revoked and not blocked.
HalfWay == {"store", "block"}
=============================================================================
