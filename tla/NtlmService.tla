----------------------------- MODULE NtlmService -----------------------------
(***************************************************************************)
(* What NTLMv2 authentication of one session promises (spec 2 and 4.2):   *)
(* the server issues challenges; a client is accepted only with a proof    *)
(* computed from the account's NT hash for the challenge the server holds  *)
(* at that moment, over the blob it sent, and the session then holds the   *)
(* key that client derives; any other outcome leaves the session without  *)
(* an NTLMv2 principal.  Nothing here of messages, lengths, contexts or    *)
(* NTLMv1.  There is no fairness: no client is obliged to authenticate.    *)
(***************************************************************************)
CONSTANTS Passkeys, UserKey, Nonces, ZeroChallenge, Domains, Blobs

Challenges == Nonces \cup {ZeroChallenge}

(* The client's computation (MS-NLMP): the NTProofStr and the session base *)
(* key of a client holding NT hash pk, for domain dom, challenge chal and  *)
(* blob blob.                                                              *)
HmacMd5(key, data) == <<"hmacmd5", key, data>>
ProofInputs == [pk : Passkeys, dom : Domains, chal : Challenges, blob : Blobs]
ClientV2Hash(p) == HmacMd5(p.pk, <<"USER", p.dom>>)
ClientProof(p) == HmacMd5(ClientV2Hash(p), <<p.chal, p.blob>>)
ClientSessKey(p) == HmacMd5(ClientV2Hash(p), ClientProof(p))

NoPrincipal == [proof |-> "none", blob |-> "none"]
NoKey == <<"zero">>

VARIABLES
    chal,       \* the challenge the session holds
    principal,  \* the accepted proof and the blob it came with, or none
    key         \* the session key while a principal stands

vars == <<chal, principal, key>>

Init ==
    /\ chal = ZeroChallenge
    /\ principal = NoPrincipal
    /\ key = NoKey

(* A CHALLENGE with a fresh nonce; an accepted principal stays.           *)
Issue(n) ==
    /\ chal' = n
    /\ UNCHANGED <<principal, key>>

(* An AUTHENTICATE carrying blob b and a proof p the account's client     *)
(* computed for the current challenge and that blob.                      *)
Accept(p, b) ==
    /\ p.pk = UserKey
    /\ p.chal = chal
    /\ p.blob = b
    /\ principal' = [proof |-> p, blob |-> b]
    /\ key' = ClientSessKey(p)
    /\ UNCHANGED chal

(* Any AUTHENTICATE that does not end in an NTLMv2 acceptance.             *)
Drop ==
    /\ principal' = NoPrincipal
    /\ key' = NoKey
    /\ UNCHANGED chal

Next ==
    \/ \E n \in Nonces : Issue(n)
    \/ \E p \in ProofInputs, b \in Blobs : Accept(p, b)
    \/ Drop

Spec == Init /\ [][Next]_vars

=============================================================================
