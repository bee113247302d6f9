---------------------------- MODULE MC_Signing ----------------------------
(***************************************************************************)
(* Signing on a small instance: two connections, one negotiating 3.1.1 and *)
(* one 3.0; session s1 on c1 with its own channel ch1 and a channel ch2    *)
(* bound from c2; session s2 on c2 with channel ch3; two distinct PDUs.    *)
(***************************************************************************)
EXTENDS Signing

CONSTANTS c1, c2, s1, s2, ch1, ch2, ch3, m1, m2

MCConns == {c1, c2}
MCSessions == {s1, s2}
MCChannels == {ch1, ch2, ch3}
MCMsgs == {m1, m2}
MCMsgsOne == {m1}
MCSessConn == [s \in MCSessions |-> IF s = s1 THEN c1 ELSE c2]
MCChanSess == [ch \in MCChannels |-> IF ch = ch3 THEN s2 ELSE s1]
MCChanConn == [ch \in MCChannels |-> IF ch = ch1 THEN c1 ELSE c2]
MCConnDialect == [c \in MCConns |-> IF c = c1 THEN "SMB311" ELSE "SMB30"]
=============================================================================
