--------------------------- MODULE MC_SecMechRace ---------------------------
(***************************************************************************)
(* Two threads, t1 and t2, each serving a request of its own session (keys *)
(* k1, k2; data m1, m2), over one connection's HMAC-SHA256 context.  In    *)
(* MCSerialConn both threads serve connection c1, so the dispatcher        *)
(* serializes them; in MCBoundConn t2 serves c2, on which t2's session was *)
(* bound from c1, so its calls reach c1's context concurrently with t1.    *)
(***************************************************************************)
EXTENDS SecMechRace, TLC

CONSTANTS t1, t2, k1, k2, m1, m2, c1, c2

MCThreads == {t1, t2}
MCThreadKey == (t1 :> k1) @@ (t2 :> k2)
MCThreadData == (t1 :> m1) @@ (t2 :> m2)
MCSerialConn == (t1 :> c1) @@ (t2 :> c1)
MCBoundConn == (t1 :> c1) @@ (t2 :> c2)

=============================================================================
