------------------------------ MODULE NtlmAuth ------------------------------
(***************************************************************************)
(* The NTLMSSP handshake of one session on one connection, as src/auth.c   *)
(* performs it: decode_ntlmssp_negotiate_blob, build_ntlmssp_challenge_blob *)
(* and decode_ntlmssp_authenticate_blob with its two verifiers process_ntlm *)
(* (NTLMv1) and process_ntlmv2 (NTLMv2, with calc_ntlmv2_hash and           *)
(* compute_sess_key), and the connection's lazily allocated HMAC-MD5       *)
(* context (crypto_hmacmd5_alloc).                                          *)
(*                                                                         *)
(* The client is untrusted: it may send any message, in any order, with    *)
(* responses computed from any key and any challenge.  Hash and MAC values *)
(* are symbolic terms (tuples tagged by the primitive), so two values are  *)
(* equal exactly when they were computed from equal inputs.  The NTLMv1    *)
(* response is kept as a byte string, since process_ntlm compares it with  *)
(* strncmp, whose result depends on where the NUL bytes are.               *)
(***************************************************************************)
EXTENDS Integers

CONSTANTS
    Passkeys,       \* NT password hashes; a client may hold any of them
    UserKey,        \* the NT hash of the session's account (sess->usr->passkey)
    Nonces,         \* server challenges get_random_bytes may produce
    ZeroChallenge,  \* the value of sess->ntlmssp.cryptkey before any challenge
    Domains,        \* domain names a client may put in DomainName
    Blobs,          \* NTLMv2 client blobs (timestamp, client nonce, av-pairs)
    NtLens,         \* values of NtChallengeResponse.Length a client may send
    RespLen,        \* length of the NTLMv1 response, abstracting its 24 bytes
    Bytes,          \* the byte values of an NTLMv1 response; 0 is NUL
    P24(_, _)       \* E_P24 keyed by the 21-byte padded NT hash, over a challenge

ASSUME UserKeyAssumption == UserKey \in Passkeys
ASSUME ZeroChallengeAssumption == ZeroChallenge \notin Nonces
ASSUME NtLensAssumption == NtLens \subseteq 0..65535
ASSUME RespLenAssumption == RespLen \in Nat \ {0}
ASSUME BytesAssumption == 0 \in Bytes /\ Bytes \subseteq 0..255
ASSUME P24Assumption ==
    \A k \in Passkeys, n \in Nonces \cup {ZeroChallenge} :
        P24(k, n) \in [1..RespLen -> Bytes]

(* Sizes from the code (bytes).                                            *)
CIFS_AUTH_RESP_SIZE == 24    \* NTLMv1 response; selects process_ntlm
CIFS_ENCPWD_SIZE == 16       \* NTProofStr prefix of an NTLMv2 response
CIFS_CRYPTO_KEY_SIZE == 8    \* the server challenge

Challenges == Nonces \cup {ZeroChallenge}

(* Negotiate flags: the ones build_ntlmssp_challenge_blob always sets and  *)
(* the client flags the model lets a client send.                          *)
ServerFlags == {"UNICODE", "NTLM", "TARGET_TYPE_SERVER", "TARGET_INFO",
                "NEGOTIATE_128", "NEGOTIATE_56", "VERSION"}
ClientFlagSets == SUBSET {"REQUEST_TARGET", "SIGN"}

(***************************************************************************)
(* The primitives, as terms.                                               *)
(***************************************************************************)
HmacMd5(key, data) == <<"hmacmd5", key, data>>

(* The client side, as MS-NLMP defines it: the NTProofStr a client holding *)
(* NT hash pk sends for challenge chal, domain dom and blob blob, and the  *)
(* session base key it then derives.                                       *)
ProofInputs == [pk : Passkeys, dom : Domains, chal : Challenges, blob : Blobs]
ClientV2Hash(p) == HmacMd5(p.pk, <<"USER", p.dom>>)
ClientProof(p) == HmacMd5(ClientV2Hash(p), <<p.chal, p.blob>>)
ClientSessKey(p) == HmacMd5(ClientV2Hash(p), ClientProof(p))

(* Faults a reviewer of the server side would look for; each is the        *)
(* definition below it changed in one place.                               *)
\* The challenge left out of the construct buffer.
NtlmV2RspWithoutChallenge(v2hash, chal, blob) ==
    HmacMd5(v2hash, <<ZeroChallenge, blob>>)
\* compute_sess_key keyed by the NT hash instead of the NTLMv2 hash.
SessKeyV2KeyedByNtHash(v2hash, rsp) == HmacMd5(UserKey, rsp)
\* Every client flag echoed into the CHALLENGE, not only REQUEST_TARGET.
ChallengeFlagsEchoAll(cflags) == ServerFlags \cup cflags

(* The server side, from the code.                                         *)
\* calc_ntlmv2_hash: HMAC-MD5 keyed by the NT hash over the upper-cased user
\* name and the domain name (the user is the session's fixed account).
NtlmV2Hash(pk, dom) == HmacMd5(pk, <<"USER", dom>>)

\* process_ntlmv2: HMAC-MD5 keyed by the NTLMv2 hash over the challenge
\* followed by the client blob (the construct buffer).
NtlmV2Rsp(v2hash, chal, blob) == HmacMd5(v2hash, <<chal, blob>>)

\* compute_sess_key: HMAC-MD5 keyed by the NTLMv2 hash over a response.
SessKeyV2(v2hash, rsp) == HmacMd5(v2hash, rsp)

\* process_ntlm: smb_mdfour of the NT hash, followed by the 24-byte key.
SessKeyV1(pk, key) == <<"md4", pk, key>>

(* decode_ntlmssp_authenticate_blob: a response of exactly 24 bytes is     *)
(* NTLMv1; any other length is NTLMv2, whose blob length is the response   *)
(* length less the 16-byte NTProofStr, computed in int with no check.      *)
NtlmV1Selected(len) == len = CIFS_AUTH_RESP_SIZE
V2BlobLen(len) == len - CIFS_ENCPWD_SIZE

(* decode_ntlmssp_authenticate_blob, process_ntlmv2 and calc_ntlmv2_hash   *)
(* return with no kfree of the buffers they allocated.                      *)
ScratchAfterV2(live) == TRUE

(* The AUTHENTICATE messages a client can send.                            *)
V1Responses == [1..RespLen -> Bytes]
V2Messages == {m \in [len : NtLens, dom : Domains, blob : Blobs,
                      proof : ProofInputs] : ~NtlmV1Selected(m.len)}

(* Records of the last authentication, kept for the properties.            *)
NoAuth == [ver |-> "none"]
V1Auths == [ver : {"v1"}, resp : V1Responses, srvChal : Challenges]
V2Auths == [ver : {"v2"}, msg : V2Messages, srvChal : Challenges]

NoKey == <<"zero">>
SessKeys ==
    {NoKey}
    \cup {SessKeyV1(UserKey, P24(UserKey, c)) : c \in Challenges}
    \cup {SessKeyV2(NtlmV2Hash(UserKey, d), NtlmV2Rsp(NtlmV2Hash(UserKey, d), c, b)) :
            d \in Domains, c \in Challenges, b \in Blobs}

\* strncmp given one byte less than the response length.
StrncmpShort(a, b) ==
    \A i \in 1..(RespLen - 1) :
        (\A j \in 1..(i - 1) : a[j] # 0) => a[i] = b[i]

(***************************************************************************)
(* strncmp(a, b, n) = 0: the strings agree up to and including the first   *)
(* NUL, or on all n bytes if there is none.  memcmp equality is a = b.     *)
(***************************************************************************)
StrncmpEqual(a, b) ==
    \A i \in 1..RespLen :
        (\A j \in 1..(i - 1) : a[j] # 0) => a[i] = b[i]

VARIABLES
    client_flags,   \* sess->ntlmssp.client_flags
    cryptkey,       \* sess->ntlmssp.cryptkey: the challenge last issued
    chg,            \* the CHALLENGE message last built: flags and challenge
    sess_key,       \* sess->sess_key
    seqnum,         \* sess->sequence_number
    hmacmd5,        \* server->secmech.hmacmd5/sdeschmacmd5: "null" or "ready"
    authState,      \* what the last AUTHENTICATE returned: "none", "ok", "failed"
    lastAuth,       \* the last AUTHENTICATE that reached a verifier
    oops,           \* the kernel dereferenced a bad pointer and the thread died
    chalAccepts,    \* history: AUTHENTICATEs accepted since the last CHALLENGE
                    \* (0, 1, or 2 standing for "more than one")
    scratchLive     \* a kmalloc'ed scratch buffer of a returned call is live

vars == <<client_flags, cryptkey, chg, sess_key, seqnum, hmacmd5,
          authState, lastAuth, oops, chalAccepts, scratchLive>>

(* The history counter after a verifier returned st (capped at 2).         *)
CountAccept(n, st) == IF st = "ok" THEN IF n < 2 THEN n + 1 ELSE 2 ELSE n

TypeOK ==
    /\ client_flags \in ClientFlagSets
    /\ cryptkey \in Challenges
    /\ chg \in [flags : SUBSET (ServerFlags \cup {"REQUEST_TARGET"}),
                chal : Challenges]
    /\ sess_key \in SessKeys
    /\ seqnum \in {0, 1}
    /\ hmacmd5 \in {"null", "ready"}
    /\ authState \in {"none", "ok", "failed"}
    /\ lastAuth \in {NoAuth} \cup V1Auths \cup V2Auths
    /\ oops \in BOOLEAN
    /\ chalAccepts \in 0..2
    /\ scratchLive \in BOOLEAN

Init ==
    /\ client_flags = {}
    /\ cryptkey = ZeroChallenge
    /\ chg = [flags |-> {}, chal |-> ZeroChallenge]
    /\ sess_key = NoKey
    /\ seqnum = 0
    /\ hmacmd5 = "null"
    /\ authState = "none"
    /\ lastAuth = NoAuth
    /\ oops = FALSE
    /\ chalAccepts = 0
    /\ scratchLive = FALSE

(***************************************************************************)
(* decode_ntlmssp_negotiate_blob: a blob that passes the size and          *)
(* signature checks records the client's flags.  A blob that fails them    *)
(* returns -EINVAL and changes nothing, which is a stuttering step.        *)
(***************************************************************************)
DecodeNegotiate(flags) ==
    /\ ~oops
    /\ client_flags' = flags
    /\ UNCHANGED <<cryptkey, chg, sess_key, seqnum, hmacmd5, authState,
                   lastAuth, oops, chalAccepts, scratchLive>>

(***************************************************************************)
(* build_ntlmssp_challenge_blob: fixed flags plus an echo of               *)
(* REQUEST_TARGET, and a fresh random challenge stored in the session.     *)
(* (The target name and target-info encoding are in NtlmsspCodec.)         *)
(***************************************************************************)
ChallengeFlags(cflags) == ServerFlags \cup (cflags \cap {"REQUEST_TARGET"})

BuildChallenge(n) ==
    /\ ~oops
    /\ cryptkey' = n
    /\ chg' = [flags |-> ChallengeFlags(client_flags), chal |-> n]
    /\ chalAccepts' = 0
    /\ UNCHANGED <<client_flags, sess_key, seqnum, hmacmd5, authState,
                   lastAuth, oops, scratchLive>>

(***************************************************************************)
(* decode_ntlmssp_authenticate_blob rejecting a blob that is too short or  *)
(* has a bad signature: -EINVAL, before any verifier runs.                 *)
(***************************************************************************)
AuthenticateMalformed ==
    /\ ~oops
    /\ authState' = "failed"
    /\ UNCHANGED <<client_flags, cryptkey, chg, sess_key, seqnum, hmacmd5,
                   lastAuth, oops, chalAccepts, scratchLive>>

(***************************************************************************)
(* NtChallengeResponse.Length = 24: process_ntlm.  E_P24 may fail (its DES *)
(* context cannot be set up) before anything is written.  Otherwise the    *)
(* session key and the sequence number are written first, and the          *)
(* response is then compared with strncmp.                                 *)
(***************************************************************************)
ProcessNtlm(resp) ==
    /\ ~oops
    /\ \/ /\ authState' = "failed"
          /\ UNCHANGED <<sess_key, seqnum, lastAuth>>
       \/ LET key == P24(UserKey, cryptkey) IN
          /\ sess_key' = SessKeyV1(UserKey, key)
          /\ seqnum' = 1
          /\ authState' = IF StrncmpEqual(resp, key) THEN "ok" ELSE "failed"
          /\ lastAuth' = [ver |-> "v1", resp |-> resp, srvChal |-> cryptkey]
    /\ chalAccepts' = CountAccept(chalAccepts, authState')
    /\ UNCHANGED <<client_flags, cryptkey, chg, hmacmd5, oops, scratchLive>>

(***************************************************************************)
(* NtChallengeResponse.Length # 24: the domain name is duplicated out of   *)
(* the blob (smb_strndup_from_utf16, which returns NULL when it cannot     *)
(* allocate) and process_ntlmv2 runs with blen = Length - 16:              *)
(*   crypto_hmacmd5_alloc, which may fail;                                 *)
(*   calc_ntlmv2_hash, which calls strlen on the domain name;              *)
(*   construct = kzalloc(8 + blen): NULL for a negative size, and for      *)
(*   0 <= 8 + blen < 8 the memcpy of the 8-byte challenge and of blen      *)
(*   (negative) blob bytes runs past it;                                   *)
(*   HMAC of challenge and blob, then compute_sess_key writes sess_key,    *)
(*   and only then memcmp decides.                                         *)
(* Each kzalloc, setkey, init, update and final in between may fail and    *)
(* return before sess_key is written: one disjunct stands for all of them. *)
(***************************************************************************)
ProcessNtlmv2(m) ==
    LET blen == V2BlobLen(m.len)
        len == CIFS_CRYPTO_KEY_SIZE + blen
        v2hash == NtlmV2Hash(UserKey, m.dom)
        rsp == NtlmV2Rsp(v2hash, cryptkey, m.blob)
    IN
    /\ ~oops
    /\ \/ \* crypto_hmacmd5_alloc fails: crypto_alloc_shash or kmalloc
          \* after the domain name was duplicated, unless that returned NULL
          /\ hmacmd5 = "null"
          /\ authState' = "failed"
          /\ scratchLive' \in {scratchLive, ScratchAfterV2(scratchLive)}
          /\ UNCHANGED <<hmacmd5, sess_key, lastAuth, oops>>
       \/ /\ hmacmd5' = "ready"
          /\ \/ \* smb_strndup_from_utf16 returned NULL: strlen(NULL)
                /\ oops' = TRUE
                /\ UNCHANGED <<sess_key, authState, lastAuth, scratchLive>>
             \/ \* construct is smaller than the 8 + blen bytes copied in
                /\ 0 <= len /\ len < CIFS_CRYPTO_KEY_SIZE
                /\ oops' = TRUE
                /\ UNCHANGED <<sess_key, authState, lastAuth, scratchLive>>
             \/ \* a step fails, or kzalloc(construct) fails (always for len < 0)
                \* with the domain name, and what was allocated before it, live
                /\ authState' = "failed"
                /\ scratchLive' = ScratchAfterV2(scratchLive)
                /\ UNCHANGED <<sess_key, lastAuth, oops>>
             \/ \* the whole computation runs: the duplicated domain name,
                \* uniname, domain and construct are allocated, none freed
                /\ len >= CIFS_CRYPTO_KEY_SIZE
                /\ sess_key' = SessKeyV2(v2hash, rsp)
                /\ authState' = IF ClientProof(m.proof) = rsp
                                THEN "ok" ELSE "failed"
                /\ lastAuth' = [ver |-> "v2", msg |-> m, srvChal |-> cryptkey]
                /\ scratchLive' = ScratchAfterV2(scratchLive)
                /\ UNCHANGED oops
    /\ chalAccepts' = CountAccept(chalAccepts, authState')
    /\ UNCHANGED <<client_flags, cryptkey, chg, seqnum>>

(* The kernel thread that oopsed is gone; the model stops there.           *)
Halted ==
    /\ oops
    /\ UNCHANGED vars

Next ==
    \/ \E f \in ClientFlagSets : DecodeNegotiate(f)
    \/ \E n \in Nonces : BuildChallenge(n)
    \/ AuthenticateMalformed
    \/ \E r \in V1Responses : ProcessNtlm(r)
    \/ \E m \in V2Messages : ProcessNtlmv2(m)
    \/ Halted

Spec == Init /\ [][Next]_vars

-----------------------------------------------------------------------------
(***************************************************************************)
(* Properties.                                                             *)
(***************************************************************************)

(* NTLMv2 authentication is sound: when process_ntlmv2 last returned 0,    *)
(* the NTProofStr it accepted was computed with the account's NT hash, for *)
(* the challenge the session held at that moment and over the blob the     *)
(* message carried; a response computed for another challenge, another     *)
(* key or another blob is never accepted.                                  *)
V2AuthSound ==
    (authState = "ok" /\ lastAuth.ver = "v2") =>
        /\ lastAuth.msg.proof.pk = UserKey
        /\ lastAuth.msg.proof.chal = lastAuth.srvChal
        /\ lastAuth.msg.proof.blob = lastAuth.msg.blob

(* Key agreement: while the session's last NTLMv2 authentication stands,   *)
(* the sess_key that compute_sess_key wrote is the session base key the    *)
(* authenticated client derives from its own NTProofStr, so later signing  *)
(* with it is verifiable by that client, whatever negotiates and           *)
(* challenges came in between.                                             *)
SessionKeyAgreement ==
    (authState = "ok" /\ lastAuth.ver = "v2") =>
        sess_key = ClientSessKey(lastAuth.msg.proof)

(* NTLMv1 authentication is sound: when process_ntlm last returned 0, the  *)
(* response the client sent is the 24-byte E_P24 value of the account's    *)
(* NT hash over the challenge the session held.                            *)
V1AuthSound ==
    (authState = "ok" /\ lastAuth.ver = "v1") =>
        lastAuth.resp = P24(UserKey, lastAuth.srvChal)

(* Where the strncmp flaw cannot bite, NTLMv1 is sound: when the E_P24    *)
(* value of the account's NT hash over the challenge the session held has  *)
(* no NUL byte, a process_ntlm that returned 0 was sent exactly that       *)
(* value.  With V1AuthSound violated, this says that the first NUL byte of *)
(* the expected response is what lets a wrong response through.           *)
V1AuthSoundWithoutNul ==
    LET expected == P24(UserKey, lastAuth.srvChal) IN
    (/\ authState = "ok" /\ lastAuth.ver = "v1"
     /\ \A i \in 1..RespLen : expected[i] # 0) => lastAuth.resp = expected

(* Spec 4.2: no session state (session key, sequence number) is committed  *)
(* unless the full comparison succeeds: an AUTHENTICATE that fails leaves  *)
(* sess_key and sequence_number as they were.                              *)
FailedAuthKeepsSession ==
    [][authState' = "failed" => UNCHANGED <<sess_key, seqnum>>]_vars

(* Spec 2 and 4.1: the server challenge is per handshake, fresh for each  *)
(* CHALLENGE.  So one challenge authenticates at most one AUTHENTICATE: a  *)
(* recorded response sent again, with no CHALLENGE in between, is refused. *)
ChallengeSingleUse == chalAccepts <= 1

(* Every buffer an AUTHENTICATE allocates for its own use is freed before  *)
(* it returns: a client repeating AUTHENTICATE cannot exhaust kernel       *)
(* memory.                                                                 *)
ScratchFreed == ~scratchLive

(* No AUTHENTICATE message, however malformed, makes the kernel            *)
(* dereference a NULL pointer or write past a buffer.                      *)
NoOops == ~oops

(***************************************************************************)
(* NtlmAuth implements the NTLMv2 authentication service.  The service's   *)
(* challenge is cryptkey; its principal is the proof and blob of the last  *)
(* AUTHENTICATE while process_ntlmv2 accepted it, and its key is sess_key  *)
(* while that principal stands.  client_flags, chg, hmacmd5, seqnum and    *)
(* the NTLMv1 outcome are hidden (an NTLMv1 acceptance is no NTLMv2        *)
(* principal).                                                             *)
(***************************************************************************)
V2Authenticated == authState = "ok" /\ lastAuth.ver = "v2"
AbsPrincipal ==
    IF V2Authenticated
    THEN [proof |-> lastAuth.msg.proof, blob |-> lastAuth.msg.blob]
    ELSE [proof |-> "none", blob |-> "none"]
AbsKey == IF V2Authenticated THEN sess_key ELSE NoKey

Service == INSTANCE NtlmService
    WITH chal <- cryptkey, principal <- AbsPrincipal, key <- AbsKey

(* Every step of the handshake is a step of the NTLMv2 service or leaves   *)
(* it alone: a CHALLENGE only replaces the challenge, process_ntlmv2 sets  *)
(* a principal only for the account's proof on the challenge it holds at   *)
(* that step, with the client's key, and every other AUTHENTICATE outcome  *)
(* (malformed, NTLMv1, a failed or crashed verifier) removes it or changes *)
(* nothing the service sees.                                               *)
ImplementsNtlmService == Service!Spec

=============================================================================
