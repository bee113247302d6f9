--------------------------- MODULE NtlmAuth_proofs ---------------------------
(***************************************************************************)
(* Proofs about NtlmAuth for every value of its constants: the type        *)
(* invariant, NTLMv2 soundness, session-key agreement, NTLMv1 soundness    *)
(* for responses without a NUL byte, and the refinement of the NTLMv2      *)
(* authentication service NtlmService.                                     *)
(***************************************************************************)
EXTENDS NtlmAuth, WellFoundedInduction, TLAPS

(* The inductive invariant: the type invariant, and the two NTLMv2         *)
(* properties, which need nothing more than it to be inductive: every step *)
(* either leaves authState, lastAuth and sess_key alone, or sets authState *)
(* to "failed", or is a full process_ntlmv2 run whose acceptance test is   *)
(* the equality of two terms that fixes the key, challenge and blob.       *)
IInv == TypeOK /\ V2AuthSound /\ SessionKeyAgreement

(* The key the server computes over its own response equals the key the   *)
(* client derives, exactly when the response matched the client's proof.  *)
LEMMA ProofMatch ==
    ASSUME NEW p \in ProofInputs, NEW dom \in Domains, NEW c \in Challenges,
           NEW b \in Blobs,
           ClientProof(p) = NtlmV2Rsp(NtlmV2Hash(UserKey, dom), c, b)
    PROVE  /\ p.pk = UserKey
           /\ p.chal = c
           /\ p.blob = b
           /\ SessKeyV2(NtlmV2Hash(UserKey, dom), NtlmV2Rsp(NtlmV2Hash(UserKey, dom), c, b))
                = ClientSessKey(p)
  BY DEF ClientProof, ClientV2Hash, NtlmV2Rsp, NtlmV2Hash, HmacMd5,
         SessKeyV2, ClientSessKey

LEMMA InitIInv == Init => IInv
  <1> SUFFICES ASSUME Init PROVE IInv
    OBVIOUS
  <1>1. TypeOK
    <2>1. client_flags \in ClientFlagSets /\ cryptkey \in Challenges
      BY DEF Init, ClientFlagSets, Challenges
    <2>2. chg \in [flags : SUBSET (ServerFlags \cup {"REQUEST_TARGET"}),
                   chal : Challenges]
      BY DEF Init, Challenges
    <2>3. sess_key \in SessKeys
      BY DEF Init, SessKeys
    <2>4. lastAuth \in {NoAuth} \cup V1Auths \cup V2Auths
      BY DEF Init
    <2>5. oops \in BOOLEAN /\ scratchLive \in BOOLEAN
      BY DEF Init
    <2>6. chalAccepts \in 0..2
      BY DEF Init
    <2>7. /\ seqnum \in {0, 1} /\ hmacmd5 \in {"null", "ready"}
          /\ authState \in {"none", "ok", "failed"}
      BY DEF Init
    <2>8. QED
      BY <2>1, <2>2, <2>3, <2>4, <2>5, <2>6, <2>7 DEF TypeOK
  <1>2. V2AuthSound /\ SessionKeyAgreement
    BY DEF Init, V2AuthSound, SessionKeyAgreement
  <1>3. QED
    BY <1>1, <1>2 DEF IInv

LEMMA NextIInv == IInv /\ [Next]_vars => IInv'
  <1> SUFFICES ASSUME IInv, [Next]_vars PROVE IInv'
    OBVIOUS
  <1> USE DEF IInv
  <1>1. ASSUME NEW f \in ClientFlagSets, DecodeNegotiate(f) PROVE IInv'
    BY <1>1 DEF DecodeNegotiate, TypeOK, V2AuthSound, SessionKeyAgreement
  <1>2. ASSUME NEW n \in Nonces, BuildChallenge(n) PROVE IInv'
    BY <1>2 DEF BuildChallenge, ChallengeFlags, TypeOK, Challenges,
                V2AuthSound, SessionKeyAgreement
  <1>3. CASE AuthenticateMalformed
    BY <1>3 DEF AuthenticateMalformed, TypeOK, V2AuthSound, SessionKeyAgreement
  <1>4. ASSUME NEW r \in V1Responses, ProcessNtlm(r) PROVE IInv'
    <2>1. TypeOK'
      <3>1. SessKeyV1(UserKey, P24(UserKey, cryptkey)) \in SessKeys
        BY DEF TypeOK, SessKeys, Challenges
      <3>2. [ver |-> "v1", resp |-> r, srvChal |-> cryptkey] \in V1Auths
        BY DEF TypeOK, V1Auths
      <3>3. QED
        BY <1>4, <3>1, <3>2 DEF ProcessNtlm, CountAccept, TypeOK
    <2>2. (V2AuthSound /\ SessionKeyAgreement)'
      BY <1>4 DEF ProcessNtlm, V2AuthSound, SessionKeyAgreement
    <2>3. QED
      BY <2>1, <2>2
  <1>5. ASSUME NEW m \in V2Messages, ProcessNtlmv2(m) PROVE IInv'
    <2> DEFINE v2hash == NtlmV2Hash(UserKey, m.dom)
               rsp == NtlmV2Rsp(v2hash, cryptkey, m.blob)
               len == CIFS_CRYPTO_KEY_SIZE + V2BlobLen(m.len)
    <2>0. /\ m.dom \in Domains /\ m.blob \in Blobs /\ m.proof \in ProofInputs
          /\ cryptkey \in Challenges
      BY DEF V2Messages, TypeOK
    <2>7. chalAccepts' \in 0..2
      BY <1>5 DEF ProcessNtlmv2, CountAccept, TypeOK
    <2>1. CASE /\ hmacmd5 = "null"
               /\ authState' = "failed"
               /\ scratchLive' \in {scratchLive, ScratchAfterV2(scratchLive)}
               /\ UNCHANGED <<hmacmd5, sess_key, lastAuth, oops>>
               /\ UNCHANGED <<client_flags, cryptkey, chg, seqnum>>
      BY <2>1, <2>7 DEF TypeOK, V2AuthSound, SessionKeyAgreement, ScratchAfterV2
    <2>2. CASE /\ hmacmd5' = "ready"
               /\ oops' = TRUE
               /\ UNCHANGED <<sess_key, authState, lastAuth, scratchLive>>
               /\ UNCHANGED <<client_flags, cryptkey, chg, seqnum>>
      BY <2>2, <2>7 DEF TypeOK, V2AuthSound, SessionKeyAgreement
    <2>3. CASE /\ hmacmd5' = "ready"
               /\ authState' = "failed"
               /\ scratchLive' = ScratchAfterV2(scratchLive)
               /\ UNCHANGED <<sess_key, lastAuth, oops>>
               /\ UNCHANGED <<client_flags, cryptkey, chg, seqnum>>
      BY <2>3, <2>7 DEF TypeOK, V2AuthSound, SessionKeyAgreement, ScratchAfterV2
    <2>4. CASE /\ hmacmd5' = "ready"
               /\ len >= CIFS_CRYPTO_KEY_SIZE
               /\ sess_key' = SessKeyV2(v2hash, rsp)
               /\ authState' = IF ClientProof(m.proof) = rsp
                               THEN "ok" ELSE "failed"
               /\ lastAuth' = [ver |-> "v2", msg |-> m, srvChal |-> cryptkey]
               /\ scratchLive' = ScratchAfterV2(scratchLive)
               /\ UNCHANGED oops
               /\ UNCHANGED <<client_flags, cryptkey, chg, seqnum>>
      <3>1. TypeOK'
        <4>1. SessKeyV2(v2hash, rsp) \in SessKeys
          BY <2>0 DEF SessKeys
        <4>2. [ver |-> "v2", msg |-> m, srvChal |-> cryptkey] \in V2Auths
          BY <2>0 DEF V2Auths
        <4>3. QED
          BY <2>4, <2>7, <4>1, <4>2 DEF TypeOK, ScratchAfterV2
      <3>2. CASE ClientProof(m.proof) = rsp
        <4>1. /\ m.proof.pk = UserKey
              /\ m.proof.chal = cryptkey
              /\ m.proof.blob = m.blob
              /\ SessKeyV2(v2hash, rsp) = ClientSessKey(m.proof)
          BY <2>0, <3>2, ProofMatch
        <4>2. QED
          BY <2>4, <3>1, <4>1 DEF V2AuthSound, SessionKeyAgreement
      <3>3. CASE ClientProof(m.proof) # rsp
        BY <2>4, <3>1, <3>3 DEF V2AuthSound, SessionKeyAgreement
      <3>4. QED
        BY <3>2, <3>3
    <2>5. QED
      BY <1>5, <2>1, <2>2, <2>3, <2>4 DEF ProcessNtlmv2
  <1>6. CASE Halted
    BY <1>6 DEF Halted, vars, TypeOK, V2AuthSound, SessionKeyAgreement
  <1>7. CASE UNCHANGED vars
    BY <1>7 DEF vars, TypeOK, V2AuthSound, SessionKeyAgreement
  <1>8. QED
    BY <1>1, <1>2, <1>3, <1>4, <1>5, <1>6, <1>7 DEF Next

(* Every state of the handshake is well typed.                             *)
THEOREM TypeCorrect == Spec => []TypeOK
  <1>1. IInv => TypeOK
    BY DEF IInv
  <1>2. QED
    BY InitIInv, NextIInv, <1>1, PTL DEF Spec

(* process_ntlmv2 accepts only an NTProofStr computed with the account's   *)
(* NT hash for the session's current challenge and the message's blob.    *)
THEOREM V2Soundness == Spec => []V2AuthSound
  <1>1. IInv => V2AuthSound
    BY DEF IInv
  <1>2. QED
    BY InitIInv, NextIInv, <1>1, PTL DEF Spec

(* After an NTLMv2 authentication the server's sess_key is the key the     *)
(* authenticated client holds, until the next AUTHENTICATE.                *)
THEOREM KeyAgreement == Spec => []SessionKeyAgreement
  <1>1. IInv => SessionKeyAgreement
    BY DEF IInv
  <1>2. QED
    BY InitIInv, NextIInv, <1>1, PTL DEF Spec


-----------------------------------------------------------------------------
(***************************************************************************)
(* Refinement: every step of the handshake maps, under AbsPrincipal and    *)
(* AbsKey, to a step of NtlmService or to a stutter.                       *)
(***************************************************************************)
AbsVars == <<cryptkey, AbsPrincipal, AbsKey>>

LEMMA InitRefines == Init => Service!Init
  BY DEF Init, Service!Init, AbsPrincipal, AbsKey, V2Authenticated, NoAuth,
         Service!NoPrincipal, Service!NoKey, NoKey

(* A step that leaves the last outcome, the key and the challenge alone    *)
(* leaves the service alone.                                               *)
LEMMA OutcomeUnchanged ==
    ASSUME UNCHANGED <<cryptkey, authState, lastAuth, sess_key>>
    PROVE  UNCHANGED AbsVars
  BY DEF AbsVars, AbsPrincipal, AbsKey, V2Authenticated

(* A step that ends without an NTLMv2 acceptance and keeps the challenge   *)
(* is the service's Drop, or a stutter when no principal stood before.     *)
LEMMA NoAcceptRefines ==
    ASSUME ~V2Authenticated', UNCHANGED cryptkey
    PROVE  [Service!Next]_AbsVars
  <1>1. AbsPrincipal' = Service!NoPrincipal /\ AbsKey' = Service!NoKey
    BY DEF AbsPrincipal, AbsKey, Service!NoPrincipal, Service!NoKey, NoKey
  <1>2. CASE V2Authenticated
    BY <1>1 DEF Service!Next, Service!Drop
  <1>3. CASE ~V2Authenticated
    BY <1>1, <1>3 DEF AbsVars, AbsPrincipal, AbsKey, Service!NoPrincipal,
                      Service!NoKey, NoKey
  <1>4. QED
    BY <1>2, <1>3

(* A process_ntlmv2 run that accepts is the service's Accept of the        *)
(* message's proof and blob.                                               *)
LEMMA AcceptRefines ==
    ASSUME TypeOK, NEW m \in V2Messages,
           ClientProof(m.proof) = NtlmV2Rsp(NtlmV2Hash(UserKey, m.dom), cryptkey, m.blob),
           sess_key' = SessKeyV2(NtlmV2Hash(UserKey, m.dom),
                                 NtlmV2Rsp(NtlmV2Hash(UserKey, m.dom), cryptkey, m.blob)),
           authState' = "ok",
           lastAuth' = [ver |-> "v2", msg |-> m, srvChal |-> cryptkey],
           UNCHANGED cryptkey
    PROVE  Service!Accept(m.proof, m.blob)
  <1>1. m.dom \in Domains /\ m.blob \in Blobs /\ m.proof \in ProofInputs
        /\ cryptkey \in Challenges
    BY DEF V2Messages, TypeOK
  <1>2. /\ m.proof.pk = UserKey /\ m.proof.chal = cryptkey /\ m.proof.blob = m.blob
        /\ sess_key' = ClientSessKey(m.proof)
    BY <1>1, ProofMatch
  <1>3. AbsPrincipal' = [proof |-> m.proof, blob |-> m.blob] /\ AbsKey' = sess_key'
    BY DEF AbsPrincipal, AbsKey, V2Authenticated
  <1>4. ClientSessKey(m.proof) = Service!ClientSessKey(m.proof)
    BY DEF ClientSessKey, Service!ClientSessKey, ClientV2Hash,
           Service!ClientV2Hash, ClientProof, Service!ClientProof, HmacMd5,
           Service!HmacMd5
  <1>5. QED
    BY <1>2, <1>3, <1>4 DEF Service!Accept

LEMMA StepRefines == IInv /\ [Next]_vars => [Service!Next]_AbsVars
  <1> SUFFICES ASSUME IInv, [Next]_vars PROVE [Service!Next]_AbsVars
    OBVIOUS
  <1>1. ASSUME NEW f \in ClientFlagSets, DecodeNegotiate(f)
        PROVE  [Service!Next]_AbsVars
    BY <1>1, OutcomeUnchanged DEF DecodeNegotiate
  <1>2. ASSUME NEW n \in Nonces, BuildChallenge(n)
        PROVE  [Service!Next]_AbsVars
    <2>1. cryptkey' = n /\ UNCHANGED <<AbsPrincipal, AbsKey>>
      BY <1>2 DEF BuildChallenge, AbsPrincipal, AbsKey, V2Authenticated
    <2>2. QED
      BY <2>1 DEF Service!Next, Service!Issue
  <1>3. CASE AuthenticateMalformed
    BY <1>3, NoAcceptRefines DEF AuthenticateMalformed, V2Authenticated
  <1>4. ASSUME NEW r \in V1Responses, ProcessNtlm(r)
        PROVE  [Service!Next]_AbsVars
    <2>1. CASE authState' = "failed" /\ UNCHANGED <<sess_key, seqnum, lastAuth>>
      BY <1>4, <2>1, NoAcceptRefines DEF ProcessNtlm, V2Authenticated
    <2>2. CASE lastAuth' = [ver |-> "v1", resp |-> r, srvChal |-> cryptkey]
      BY <1>4, <2>2, NoAcceptRefines DEF ProcessNtlm, V2Authenticated
    <2>3. QED
      BY <1>4, <2>1, <2>2 DEF ProcessNtlm
  <1>5. ASSUME NEW m \in V2Messages, ProcessNtlmv2(m)
        PROVE  [Service!Next]_AbsVars
    <2> DEFINE v2hash == NtlmV2Hash(UserKey, m.dom)
               rsp == NtlmV2Rsp(v2hash, cryptkey, m.blob)
               len == CIFS_CRYPTO_KEY_SIZE + V2BlobLen(m.len)
    <2>0. UNCHANGED cryptkey
      BY <1>5 DEF ProcessNtlmv2
    <2>1. CASE authState' = "failed"
      BY <2>0, <2>1, NoAcceptRefines DEF V2Authenticated
    <2>2. CASE UNCHANGED <<sess_key, authState, lastAuth>>
      BY <2>0, <2>2, OutcomeUnchanged
    <2>3. CASE /\ sess_key' = SessKeyV2(v2hash, rsp)
               /\ authState' = IF ClientProof(m.proof) = rsp THEN "ok" ELSE "failed"
               /\ lastAuth' = [ver |-> "v2", msg |-> m, srvChal |-> cryptkey]
      <3>1. CASE ClientProof(m.proof) = rsp
        <4>1. Service!Accept(m.proof, m.blob)
          BY <2>0, <2>3, <3>1, AcceptRefines DEF IInv
        <4>2. m.proof \in Service!ProofInputs /\ m.blob \in Blobs
          BY DEF V2Messages, ProofInputs, Service!ProofInputs, Challenges,
                 Service!Challenges
        <4>3. QED
          BY <4>1, <4>2 DEF Service!Next
      <3>2. CASE ClientProof(m.proof) # rsp
        BY <2>0, <2>3, <3>2, NoAcceptRefines DEF V2Authenticated
      <3>3. QED
        BY <3>1, <3>2
    <2>4. QED
      BY <1>5, <2>1, <2>2, <2>3 DEF ProcessNtlmv2
  <1>6. CASE Halted
    BY <1>6, OutcomeUnchanged DEF Halted, vars
  <1>7. CASE UNCHANGED vars
    BY <1>7, OutcomeUnchanged DEF vars
  <1>8. QED
    BY <1>1, <1>2, <1>3, <1>4, <1>5, <1>6, <1>7 DEF Next

(* The handshake implements the NTLMv2 authentication service: whatever a  *)
(* client sends, the session gains an NTLMv2 principal only by an Accept   *)
(* of the account's proof on the current challenge, with the client's key, *)
(* and loses it only by a Drop; a CHALLENGE never touches it.              *)
THEOREM Refinement == Spec => ImplementsNtlmService
  <1>1. Spec => []IInv
    BY InitIInv, NextIInv, PTL DEF Spec
  <1>2. QED
    BY <1>1, InitRefines, StepRefines, PTL
       DEF Spec, ImplementsNtlmService, Service!Spec, AbsVars, Service!vars


-----------------------------------------------------------------------------
(***************************************************************************)
(* NTLMv1 where strncmp is exact.                                          *)
(***************************************************************************)

(* strncmp against a string with no NUL byte is byte equality: at the     *)
(* first byte where the two differ, every earlier byte of a equals the    *)
(* non-NUL byte of b, so strncmp compares that byte too.                  *)
LEMMA StrncmpNoNul ==
    ASSUME NEW a \in [1..RespLen -> Bytes], NEW b \in [1..RespLen -> Bytes],
           \A i \in 1..RespLen : b[i] # 0,
           StrncmpEqual(a, b)
    PROVE  a = b
  <1> SUFFICES ASSUME a # b PROVE FALSE
    OBVIOUS
  <1> DEFINE T == {i \in 1..RespLen : a[i] # b[i]}
  <1>1. T \subseteq Nat /\ T # {}
    <2>1. \E i \in 1..RespLen : a[i] # b[i]
      BY RespLenAssumption
    <2>2. QED
      BY <2>1
  <1>2. PICK x \in T : \A y \in T : ~(<<y, x>> \in OpToRel(<, Nat))
    BY <1>1, WFMin, NatLessThanWellFounded
  <1>3. \A j \in 1..(x - 1) : a[j] # 0
    <2> SUFFICES ASSUME NEW j \in 1..(x - 1) PROVE a[j] # 0
      OBVIOUS
    <2>0. x \in 1..RespLen /\ j \in 1..RespLen
      BY RespLenAssumption
    <2>1. <<j, x>> \in OpToRel(<, Nat)
      BY <2>0 DEF OpToRel
    <2>2. j \notin T
      BY <1>2, <2>1
    <2>3. a[j] = b[j]
      BY <2>0, <2>2
    <2>4. QED
      BY <2>0, <2>3
  <1>4. a[x] = b[x]
    BY <1>3 DEF StrncmpEqual
  <1>5. QED
    BY <1>4

(* The NTLMv1 property is inductive given the type invariant.              *)
LEMMA V1Step ==
    TypeOK /\ V1AuthSoundWithoutNul /\ [Next]_vars /\ TypeOK'
        => V1AuthSoundWithoutNul'
  <1> SUFFICES ASSUME TypeOK, V1AuthSoundWithoutNul, [Next]_vars, TypeOK'
               PROVE  V1AuthSoundWithoutNul'
    OBVIOUS
  <1>1. CASE UNCHANGED <<authState, lastAuth>>
    BY <1>1 DEF V1AuthSoundWithoutNul
  <1>2. CASE authState' = "failed"
    BY <1>2 DEF V1AuthSoundWithoutNul
  <1>3. CASE lastAuth'.ver = "v2"
    BY <1>3 DEF V1AuthSoundWithoutNul
  <1>4. ASSUME NEW r \in V1Responses, ProcessNtlm(r),
               lastAuth' = [ver |-> "v1", resp |-> r, srvChal |-> cryptkey],
               authState' = IF StrncmpEqual(r, P24(UserKey, cryptkey))
                            THEN "ok" ELSE "failed"
        PROVE  V1AuthSoundWithoutNul'
    <2> DEFINE key == P24(UserKey, cryptkey)
    <2> SUFFICES ASSUME authState' = "ok", \A i \in 1..RespLen : key[i] # 0
                 PROVE  r = key
      BY <1>4 DEF V1AuthSoundWithoutNul
    <2>1. key \in [1..RespLen -> Bytes] /\ r \in [1..RespLen -> Bytes]
      BY P24Assumption, UserKeyAssumption DEF TypeOK, Challenges, V1Responses
    <2>2. StrncmpEqual(r, key)
      BY <1>4
    <2>3. QED
      BY <2>1, <2>2, StrncmpNoNul
  <1>5. QED
    <2>1. ASSUME NEW r \in V1Responses, ProcessNtlm(r)
          PROVE  V1AuthSoundWithoutNul'
      <3>1. CASE authState' = "failed"
        BY <1>2, <3>1
      <3>2. CASE /\ lastAuth' = [ver |-> "v1", resp |-> r, srvChal |-> cryptkey]
                 /\ authState' = IF StrncmpEqual(r, P24(UserKey, cryptkey))
                                 THEN "ok" ELSE "failed"
        BY <2>1, <3>2, <1>4
      <3>3. QED
        BY <2>1, <3>1, <3>2 DEF ProcessNtlm
    <2>2. ASSUME NEW m \in V2Messages, ProcessNtlmv2(m)
          PROVE  V1AuthSoundWithoutNul'
      BY <2>2, <1>1, <1>2, <1>3 DEF ProcessNtlmv2
    <2>3. QED
      BY <2>1, <2>2, <1>1, <1>2
      DEF Next, DecodeNegotiate, BuildChallenge, AuthenticateMalformed, Halted, vars

(* process_ntlm's strncmp accepts only the exact E_P24 value whenever that *)
(* value has no NUL byte, for every key, challenge and response length.    *)
THEOREM V1SoundnessWithoutNul == Spec => []V1AuthSoundWithoutNul
  <1>1. Init => V1AuthSoundWithoutNul
    BY DEF Init, V1AuthSoundWithoutNul
  <1>2. QED
    BY <1>1, V1Step, TypeCorrect, PTL DEF Spec

=============================================================================
