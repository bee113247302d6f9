---------------------------- MODULE MC_NtlmAuth ----------------------------
(***************************************************************************)
(* NtlmAuth on a small instance: two NT hashes (the account's and a wrong  *)
(* one), two server challenges, two domain names, one client blob, and     *)
(* two-byte NTLMv1 responses over {0, 1}.                                  *)
(***************************************************************************)
EXTENDS NtlmAuth

CONSTANTS k1, k2, n1, n2, n0, d1, d2, b1

MCPasskeys == {k1, k2}
MCNonces == {n1, n2}
MCDomains == {d1, d2}
MCBlobs == {b1}

(* E_P24 on this instance.  The account's response to n1 starts with a NUL *)
(* byte, as one real response in 256 does.                                 *)
MCP24(k, n) ==
    CASE k = k1 /\ n = n1 -> <<0, 1>>
      [] k = k1 /\ n = n2 -> <<1, 0>>
      [] k = k1 /\ n = n0 -> <<1, 1>>
      [] k = k2 /\ n = n1 -> <<1, 1>>
      [] k = k2 /\ n = n2 -> <<0, 0>>
      [] OTHER            -> <<1, 0>>

(* Response lengths: 24 (NTLMv1), 40 (an NTLMv2 response with a 24-byte    *)
(* blob), 12 (below the 16-byte NTProofStr: 8 + blen = 4) and 4            *)
(* (8 + blen = -4).                                                        *)
MCNtLens == {4, 12, 24, 40}
MCNtLensWellFormed == {24, 40}
=============================================================================
