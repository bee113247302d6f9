# TLA+ models of the ksmbd authentication core (`src/auth.c`)

This directory holds TLA+ models of the authentication and packet-integrity
code of the in-kernel SMB server: the NTLMSSP handshake, NTLMv1/NTLMv2
verification, SMB3 signing-key derivation, the packet signers and the
preauthentication integrity hash. It also holds TLC configurations that
model-check the models on small instances, and TLAPS proofs of the main
NTLMv2, signing-key and context-cache properties for every value of the
constants. Every definition is
translated from `src/auth.c`. `PROJECT.json` maps each definition to the
lines it models.

## 1. The system and its parts

`src/auth.c` (894 lines) is called by the SMB command dispatcher, one
request at a time per connection (spec §5). Its parts, leaves first:

| Part | Code | State it changes |
|---|---|---|
| Primitive context cache | `crypto_md5_alloc` 61, `crypto_hmacmd5_alloc` 92, `crypto_hmacsha256_alloc` 559, `crypto_cmac_alloc` 590, `crypto_sha512_alloc` 621 | `server->secmech.*`: a tfm and a descriptor per primitive, allocated lazily, freed only on the allocator's own failure path |
| NTLMSSP blob codec | `decode_ntlmssp_negotiate_blob` 418, `build_ntlmssp_challenge_blob` 443, `decode_ntlmssp_authenticate_blob` 373 | `sess->ntlmssp.client_flags`, `sess->ntlmssp.cryptkey`, the CHALLENGE buffer |
| Credential verifier | `process_ntlm` 253, `process_ntlmv2` 290, `calc_ntlmv2_hash` 171, `compute_sess_key` 130 | `sess->sess_key`, `sess->sequence_number` |
| Key deriver | `compute_smb3xsigningkey` 749 | the channel's `smb3signingkey` |
| Packet signer | `smb1_sign_smbpdu` 518, `smb2_sign_smbpdu` 661, `smb3_sign_smbpdu` 709 | only the context slots it allocates |
| Preauth integrity hasher | `calc_preauth_integrity_hash` 846 | the connection's or the session's `Preauth_HashValue` |
| GSS header constants | 36-59 | none (constant bytes) |

How the parts interact:
- The dispatcher passes a NEGOTIATE blob, then builds a CHALLENGE. That
  stores a fresh random `cryptkey` in the session.
- An AUTHENTICATE blob is then verified against that `cryptkey`. The
  verifier writes `sess_key`.
- `compute_smb3xsigningkey` derives each channel's signing key from
  `sess_key`. For SMB 3.1.1 it also uses the session's preauth hash.
- The signers sign PDUs with the session key (SMB1, SMB2) or with the
  channel key (SMB3).
- Every primitive runs through a context that is allocated lazily on a
  connection (`struct tcp_server_info`).
- A channel bound to a session from a second connection has
  `chann->server != sess->server`. Its requests run on the second
  connection's thread, yet `compute_smb3xsigningkey` and the HMAC users reach
  `sess->server`'s contexts. Nothing serializes them with the first
  connection's own requests.

## 2. Modules

| Module | Models | Runs |
|---|---|---|
| `NtlmAuth` | the handshake of one session: negotiate, challenge (flags and challenge), the malformed-blob rejections, `process_ntlm`, `process_ntlmv2` with `calc_ntlmv2_hash` and `compute_sess_key`, and the HMAC-MD5 slot | `MC_NtlmAuth` |
| `NtlmsspCodec` | the CHALLENGE bytes after the fixed header and its returned length, the `name[8]` bound, and the AUTHENTICATE regions read through client-supplied security buffers | `MC_NtlmsspCodec` |
| `Signing` | several connections, sessions and channels: preauth hashing into the connection's and the session's buffer, key derivation, the three signers and the context slots they use | `MC_Signing` |
| `SecMechRace` | kernel threads inside an allocator and its HMAC user, step by step, on one connection's shared tfm and descriptor | `MC_SecMechRace` |
| `MacService` | the abstract, atomic MAC service the context cache should provide; `SecMechRace` is checked to refine it | via `SecMechRace` |
| `NtlmService` | the abstract NTLMv2 authentication service of one session (spec §2, §4.2); `NtlmAuth` is checked and proved to refine it | via `NtlmAuth` |
| `SecMechRace_proofs` | TLAPS proofs about `SecMechRace` | none (checked by `tlapm`) |
| `NtlmAuth_proofs` | TLAPS proofs about `NtlmAuth` | none (checked by `tlapm`) |
| `Signing_proofs` | TLAPS proofs about `Signing` | none (checked by `tlapm`) |

### NtlmAuth

- **State.** The state is `client_flags`, `cryptkey`, `chg` (the last
  CHALLENGE), `sess_key`, `seqnum`, `hmacmd5` (the slot), `authState` (what
  the last AUTHENTICATE returned), `lastAuth` (the last message that reached
  a verifier, kept for the properties) and `oops` (the kernel thread died).
- **The client.** The client is untrusted. It may send any NEGOTIATE or
  AUTHENTICATE at any time.
  - An NTLMv1 response is any byte string of length `RespLen`.
  - An NTLMv2 message carries a response `Length`, a domain, a blob and the
    inputs the client used for its NTProofStr (`ProofInputs`: any key, any
    domain, any challenge, any blob).
- **Hash values are terms.** `HmacMd5(k, d) == <<"hmacmd5", k, d>>`, so two
  values are equal exactly when their inputs are.
- **The client's computation is written separately.** It is written from
  MS-NLMP (`ClientProof`, `ClientSessKey`), apart from the server's
  (`NtlmV2Hash`, `NtlmV2Rsp`, `SessKeyV2`, which are written from the code).
  A fault in the server's computation therefore shows up as a disagreement.
- **NTLMv1 stays as bytes.** `E_P24` is a constant operator `P24` given by a
  table in the MC module. The response stays a byte sequence because
  `process_ntlm` compares with `strncmp` (`StrncmpEqual`).
- **Each verifier is one action, error paths included.**
  - `ProcessNtlmv2` covers five outcomes:
    - the HMAC-MD5 allocation fails;
    - the NULL domain name from `smb_strndup_from_utf16` reaches `strlen`;
    - `8 + blen` is in 0..7, so `construct` is too small for what is copied
      into it;
    - an intermediate crypto step fails, or the kzalloc of a negative size
      fails;
    - the full run, in which `sess_key` is written before `memcmp` decides.
  - `ProcessNtlm` writes `sess_key` and `sequence_number` before its
    `strncmp`, as the code does.
- **History variables.** Two variables exist only for properties.
  - `chalAccepts` counts the AUTHENTICATEs accepted since the last
    CHALLENGE, capped at 2. It is reset by `BuildChallenge`.
  - `scratchLive` says whether an NTLMv2 verification left its scratch
    buffers allocated. The code allocates `uniname`, `domain` and the
    duplicated domain name in `calc_ntlmv2_hash` and
    `decode_ntlmssp_authenticate_blob`, and `construct` in `process_ntlmv2`.
    It frees none of them (`ScratchAfterV2`), on the success path or on
    the error returns after them; when `crypto_hmacmd5_alloc` fails only
    the duplicated domain name is live, unless its allocation failed too.
- **The abstract service.** `NtlmService` has three actions:
  - `Issue(n)`: a fresh challenge;
  - `Accept(p, b)`: only for a proof `p` made with `UserKey` for the current
    challenge over the blob `b`, after which the key is `ClientSessKey(p)`;
  - `Drop`: any other outcome, after which no principal stands.

  It has no fairness, because nothing obliges a client to authenticate.
- **The refinement mapping.**
  - The service's challenge is `cryptkey`.
  - Its principal is the proof and blob of `lastAuth` while
    `V2Authenticated`, that is, while the last AUTHENTICATE was an accepted
    NTLMv2 one.
  - Its key is `sess_key` while that holds, and the zero key otherwise.
  - `chg`, `client_flags`, `hmacmd5`, `seqnum` and the NTLMv1 outcome are
    hidden. An accepted NTLMv1 response therefore maps to `Drop`: the
    service says nothing of NTLMv1, whose `strncmp` flaw is the
    `ntlm_v1_strncmp` run.
  - The initial all-zero challenge is one of the service's challenges. The
    service therefore allows an `Accept` against it, as the code does (see
    "An AUTHENTICATE before any CHALLENGE" in §5).
  - `ImplementsNtlmService == Service!Spec` is checked as a property.

### NtlmsspCodec

- **State.** The state is the configured `netbios_name`, the last CHALLENGE
  (its security-buffer fields and the bytes written after the 48-byte
  header), and the regions read from the last AUTHENTICATE.
- **Conversions are modelled by what they do.**
  - `Utf16` turns each byte into a little-endian unit.
  - `Le16` gives the two bytes of a `__le16` store, and `U16` its
    truncation.
  - The target-info loop is `AvLoopTypes` with `TargetInfoBytes`.
- **The judge is an independent parser.** The recursive `AvPairsFrom` walks
  the target-info buffer as MS-NLMP 2.2.2.1 defines it.
  `ExpectedAvPairs` is what spec §4.1 and §8 promise.

### Signing

- **State.** The state is `secmech` (the slots of every connection),
  `connPreauth` and `sessPreauth` (the hash buffers), `chanKey` and `chanRc`
  (each channel's key and what its last derivation returned), and `oops`.
- **A SHA-512 chain value is a sequence.** It is the sequence of messages
  it absorbed: `Sha512(prev, m) == Append(prev, m)`.
- **The KDF.** `Kdf(key, label, ctx)` is HMAC-SHA256 over counter, label,
  zero byte, context and length. `ProtocolKey` is the key an SMB client
  derives (label "SMBSigningKey" with the preauth hash for 3.1.1,
  "SMB2AESCMAC" with "SmbSign" otherwise).
- **History variables.** `sessBase` and `sessWire` record the connection's
  value when a session's hashing started and the messages given to it
  since. They exist only for `SessionPreauthChain`. `sessHeld` records
  every value `sess->Preauth_HashValue` has held. It exists only for
  `SigningKeyMatchesDialect`, which says a 3.1.1 key was derived from one
  of those values and not, for example, from the connection's buffer.
- **The KDF's preauth input.** `DerivationPreauth(s)` is the buffer read at
  line 816 (`sess->Preauth_HashValue`).
- **Failures.** Every failure exit of `compute_smb3xsigningkey` is a
  disjunct. They are the two allocations and the ten setkey, init, update
  and final steps, grouped because they all leave the same state.

### SecMechRace and MacService

- **Constants.** `Threads`, and for each thread its connection
  (`ThreadConn`), its session key (`ThreadKey`) and its data (`ThreadData`).
  `SlotTested` says which pointer the allocator's "already allocated" test
  reads.
  - "tfm": `crypto_hmacsha256_alloc` (and `crypto_md5_alloc`).
  - "desc": `crypto_hmacmd5_alloc` (and `crypto_cmac_alloc`,
    `crypto_sha512_alloc`).
  The allocators are otherwise the same text.
- **State.** The state is the two shared slots, the key on the tfm and the
  hash state in the descriptor, each thread's `pc`, `rc` and last MAC, and
  two flags: `leaked` (a live pointer was overwritten) and `oops`.
  - `tfm` is "null", "err" (the ERR_PTR `crypto_alloc_shash` returned,
    stored until it is reset), "ready" or "freed".
  - `desc` is "null", "notfm" (kmalloc'ed, `shash.tfm` not yet set) or
    "ready".
- **One action per line of the code that writes shared state.**
  - `AllocCheck` is the NULL test.
  - `AllocTfm` is the store of what `crypto_alloc_shash` returns (line 568).
  - `IsErr` is the `IS_ERR` test, which reads the slot again (569): it
    sees whatever was stored there last, by any thread.
  - `AllocDesc` is `crypto_shash_descsize` on the slot, read a third time
    (a fault unless it holds a live tfm), and the kmalloc; its failure
    branch also frees the tfm.
  - `SetDescTfm` is the `shash.tfm` assignment.
  - `ResetTfm` is the reset to NULL and the return.
  - `SetKey`, `HashInit`, `HashUpdate` and `HashFinal` are the four calls
    of `smb2_sign_smbpdu`. The same four steps make up the HMAC part of
    `compute_smb3xsigningkey`, and the HMAC-MD5 users in `calc_ntlmv2_hash`
    and `process_ntlmv2`.
  - `StepFails` is any of those calls returning an error.
  - A call on a NULL, ERR_PTR, freed or half-built context is `Crash`.
- **HMAC values are records.** The record holds the key of the inner pad
  (taken at init), the key of the outer pad (taken from the tfm at final)
  and the data absorbed. A setkey of another thread between init and final
  therefore shows up as a wrong key.
- **The dispatcher is `Start`.** A thread takes a request only when no
  other thread of its connection is busy (spec §5, outside `src/`).
- **The abstract specification.** `MacService` has three actions per
  thread: `Request`, then either `Sign` (return `Mac(key, data)`) or
  `Fail`. It has the same per-connection guard, and weak fairness on
  finishing.
- **The refinement mapping.** `state` is "busy" for every `pc` inside the
  allocator or the HMAC steps, and `pc` otherwise. `result` is `rc` and
  `tag` is `mac`.
  - Every allocation step and setkey, init and update is a stutter.
  - `HashFinal` is `Sign` and `StepFails` or `ResetTfm` is `Fail`.
  - `ImplementsMacService == Service!Spec` is checked as a property.
- **A simplification.** After a leak the model keeps one key for "the tfm".
  A descriptor pointed at a tfm that later dies becomes unusable ("notfm").
  Neither matters to the properties, which are violated before that point.

## 3. Runs

| Run | Config | Expect | Checks | Shows |
|---|---|---|---|---|
| ntlm_core | `MC_NtlmAuth.cfg` | pass | TypeOK, V2AuthSound, SessionKeyAgreement, V1AuthSoundWithoutNul, ImplementsNtlmService | NTLMv2 accepts only a proof made with the account key for the current challenge and blob, the server's key is then the client's, NTLMv1 is exact when the expected response has no NUL byte, and the handshake refines the abstract NTLMv2 service |
| ntlm_v1_strncmp | `MC_NtlmAuth_V1AuthSound.cfg` | violation | V1AuthSound | `strncmp` accepts a wrong response that agrees up to the first NUL |
| ntlm_oops | `MC_NtlmAuth_NoOops.cfg` | violation | NoOops | an AUTHENTICATE makes the kernel dereference NULL or overrun `construct` |
| codec_challenge | `MC_NtlmsspCodec.cfg` | pass | ChallengeParses, ChallengeLengthExact | the CHALLENGE parses to the promised target name and attribute list, and the returned length is exactly what was written |
| codec_auth_offsets | `MC_NtlmsspCodec_ReadsInBlob.cfg` | violation | AuthenticateReadsInBlob | the decoder follows client offsets past the end of the blob |
| signing_core | `MC_Signing.cfg` | pass | TypeOK, SigningKeyMatchesDialect | a successfully derived channel key is the client's key for the session's dialect, from a preauth value of the session itself, whatever connection the channel is on |
| ntlm_challenge_replay | `MC_NtlmAuth_ChallengeSingleUse.cfg` | violation | ChallengeSingleUse | one challenge accepts two AUTHENTICATEs, because `cryptkey` is never cleared |
| ntlm_scratch_leak | `MC_NtlmAuth_ScratchFreed.cfg` | violation | ScratchFreed | an NTLMv2 verification returns with its scratch buffers still allocated |
| secmech_serial | `MC_SecMechRace.cfg` | pass | SlotNeverReallocated, NoOops, MacUsesOwnKey, ImplementsMacService | with the dispatcher serializing two threads on the HMAC-SHA256 context, nothing leaks or faults, every good MAC is the thread's own, and the step-by-step cache refines the atomic service, fairness included |
| secmech_bound_key_race | `MC_SecMechRace_BoundMacUsesOwnKey.cfg` | violation | MacUsesOwnKey | a bound channel's setkey on the shared tfm lands inside another request's HMAC |
| secmech_bound_oops | `MC_SecMechRace_BoundNoOops.cfg` | violation | NoOops | the tfm test passes while the descriptor is still NULL, or after a failed kmalloc freed the tfm |
| ntlm_failed_auth | `MC_NtlmAuth_FailedAuthKeepsSession.cfg` | violation | FailedAuthKeepsSession | a failed AUTHENTICATE overwrites `sess_key` and `sequence_number` (lines 267-270 and 353, before the comparison), against spec §4.2 |

Five more configurations each check one property that the code violates.
They are kept beside the twelve listed runs and run the same way (`tlc
-config X.cfg M`), and each ends with a counterexample:
- `MC_Signing_SessionPreauthChain.cfg` (SessionPreauthChain): the session's
  preauth hash drops all session-setup messages but the last (line 875).
- `MC_Signing_NoOops.cfg` (NoOops): SMB3 signing on a channel bound from
  another connection uses a NULL CMAC context (line 714).
- `MC_NtlmsspCodec_NoOops.cfg` (NoOops): a NetBIOS name of 8 or more
  characters overruns `name[8]` (line 465).
- `MC_SecMechRace_BoundDescNoOops.cfg` (NoOops, descriptor test): the test
  of `crypto_hmacmd5_alloc` passes before `shash.tfm` is set at line 117,
  and init hashes through an uninitialised pointer.
- `MC_SecMechRace_BoundSlotNeverReallocated.cfg` (SlotNeverReallocated,
  descriptor test): two threads both see NULL and both allocate, and the
  first context is lost.

Every property of a passing run has a mutant in `PROJECT.json`. The mutant
is a plausible fault in the mapped code, and TLC finds it violating the
property:
- the challenge dropped from `construct`;
- the session key keyed by the NT hash;
- `strncmp` given one byte less than the response length;
- every client flag echoed;
- the loop one attribute short;
- the returned length counting the whole `name[8]`;
- the wrong KDF label;
- the connection's preauth buffer read as the 3.1.1 KDF context (the
  weaker form of `SigningKeyMatchesDialect`, any hash value, missed this;
  a constant context is caught too);
- the allocator's NULL test dropped;
- the reset to NULL after a free left out;
- `crypto_shash_init` keeping the previous data;
- a failed allocation retried instead of returned (it breaks the fairness
  part of `ImplementsMacService`).

### Bounds and why they are enough

- **`MC_NtlmAuth`.**
  - The domain is 2 passkeys, 2 nonces plus the zero challenge, 2 domains,
    1 blob, and response lengths {4, 12, 24, 40}.
  - The lengths cover, in order: `construct` NULL, `construct` too small,
    NTLMv1, and a good NTLMv2.
  - NTLMv1 responses are 2 bytes over {0, 1}. The `P24` table puts a NUL in
    the first byte for one challenge and in the second byte for another.
    For the initial zero challenge it has no NUL, which is the case
    `V1AuthSoundWithoutNul` constrains.
  - Every message can be sent in any order and as often as wanted, so stale
    challenges, re-authentication and failures between successes all occur.
- **`MC_NtlmsspCodec`.**
  - Names of 0, 1, 4 ("FSRV", the example of spec §8), 7 and 8
    characters: the boundary of `name[8]` on both sides (7 units and the NUL
    fit, 8 do not), and the empty name.
  - AUTHENTICATE headers under and over the 64-byte header size, with good
    and bad signatures, v1 and v2 lengths, and offsets inside and past a
    160-byte blob.
- **`MC_Signing`.**
  - 2 connections (SMB 3.1.1 and 3.0) and 2 sessions, one on each.
  - 3 channels: one on its own session's connection, one bound to session
    1 from connection 2, and one on session 2's connection.
  - One message and at most one preauth update per buffer. That is enough
    for the key properties, since the 3.1.1 key depends on whether the
    session's buffer was updated.
  - The chain property uses 2 messages and 2 updates per buffer. That is
    the smallest instance in which a message can be lost.
- **`MC_SecMechRace`.**
  - Two threads with distinct keys and data. Two is the least number that
    can race, and distinct values make a mixed MAC visible.
  - Each thread may take any number of requests, so a context is reused
    after success and after each kind of failure.
  - Every allocation and every crypto step may fail. Each crash point is
    reached in the bound instances.
  - The serial instance puts both threads on one connection. The bound
    instances put the second thread on a channel bound from the first
    connection.
  - The proofs cover any number of threads.

### Fairness and liveness

The code is synchronous. Each call runs to completion and nothing in it
waits, retries or is scheduled (spec §5). `NtlmAuth`, `NtlmsspCodec` and
`Signing` therefore have no fairness assumption and claim no liveness.
Whether the client ever sends an AUTHENTICATE is up to the client.

`SecMechRace` has weak fairness on each thread's `Run`. A kernel thread
inside these calls holds no lock and never sleeps for good: `kmalloc` with
`GFP_KERNEL` and `crypto_alloc_shash` return, possibly with an error. So a
thread that can take a step eventually takes one. `Start` is not fair,
because no request is forced to arrive. Under this fairness,
`ImplementsMacService` includes the abstract service's fairness: every
started request returns. Its mutant retries a failed allocation instead of
returning, and violates it.
A kernel oops ends `SecMechRace`: the faulting state has no successor. The
serialized run never faults and checks deadlock; the four bound
configurations, which all end in a fault or a race, say
`CHECK_DEADLOCK FALSE`. `NtlmAuth` stutters in `Halted` after an oops, and
every other run checks deadlock.

## 4. What is proved

`NtlmAuth_proofs.tla` proves the following for all constants satisfying
the module's assumptions:
- `TypeCorrect`: `Spec => []TypeOK`;
- `V2Soundness`: `Spec => []V2AuthSound`;
- `KeyAgreement`: `Spec => []SessionKeyAgreement`.

The inductive invariant is `IInv == TypeOK /\ V2AuthSound /\
SessionKeyAgreement`. The two NTLMv2 properties are inductive together with
the type invariant:
- A step either leaves `authState`, `lastAuth` and `sess_key` alone, or sets
  `authState` to "failed", or is a full `process_ntlmv2` run.
- In a full run, acceptance is the equality `ClientProof(p) =
  NtlmV2Rsp(NtlmV2Hash(UserKey, dom), cryptkey, blob)` of two terms.
- Lemma `ProofMatch` shows that this equality forces the client's key,
  challenge and blob to be the server's. It also makes the two session keys
  equal.
- `TypeOK` is needed so that `cryptkey`, the domain and the blob lie in
  their sets.

`InitIInv` and `NextIInv` (one step per action and, for `ProcessNtlmv2`,
one per disjunct) give the three theorems by `PTL`.

`NtlmAuth_proofs.tla` also proves `V1SoundnessWithoutNul`: `Spec =>
[]V1AuthSoundWithoutNul`. When the E_P24 value for the challenge has no NUL
byte, an accepted NTLMv1 response is exactly that value. Together with the
`ntlm_v1_strncmp` counterexample, this places the NTLMv1 flaw precisely:
it needs a NUL byte in the expected response.
- Lemma `StrncmpNoNul` shows that `StrncmpEqual(a, b)` is equality when `b`
  has no NUL. Suppose `a # b`. Take the least index where they differ,
  using `WFMin` with `NatLessThanWellFounded` from `WellFoundedInduction`.
  Every earlier byte of `a` equals a non-NUL byte of `b`, so `strncmp`
  compares that byte too, and the two agree there after all. No induction
  over an operator is needed.
- `V1Step` shows the property inductive given `TypeOK`, using
  `P24Assumption` for the type of the expected value. The theorem uses
  `TypeCorrect`.

`NtlmAuth_proofs.tla` also proves `Refinement`: `Spec =>
ImplementsNtlmService`, the whole of `NtlmService`'s specification, because
it has no fairness. The proof runs step by step:
- `InitRefines`: the initial state maps to `Service!Init`.
- `OutcomeUnchanged`: a step that leaves `cryptkey`, `authState`,
  `lastAuth` and `sess_key` alone is a stutter. This covers a NEGOTIATE,
  the crash branches and `Halted`.
- `BuildChallenge(n)` is `Service!Issue(n)`: it changes `cryptkey` and
  nothing the principal or the key is mapped from.
- `NoAcceptRefines`: a step that ends without an NTLMv2 acceptance is
  `Drop`, or a stutter when no principal stood. This covers a malformed
  blob, both NTLMv1 outcomes, and every failing or rejecting
  `process_ntlmv2`.
- `AcceptRefines`: a full `process_ntlmv2` run whose `memcmp` matches is
  `Service!Accept(m.proof, m.blob)`. Lemma `ProofMatch` turns the equality
  of the two HMAC terms into the guard of `Accept`, and into the equality of
  `sess_key` with the client's key.
- `StepRefines` combines them. The theorem follows by `PTL`, with `IInv`
  supplying `TypeOK`.

`Signing_proofs.tla` proves, for any connections, sessions, channels,
messages, wiring functions and bound `MaxPreauth`:
- `SigningTypeCorrect`: `Spec => []TypeOK`;
- `DialectKeyAgreement`: `Spec => []SigningKeyMatchesDialect`.

Its inductive invariant is `TypeOK /\ ConnPreauthBounded /\
SessPreauthHeld /\ SigningKeyMatchesDialect`.
- `SessPreauthHeld` says the session's current preauth value is in
  `sessHeld`. It is the witness a successful derivation needs. A preauth
  update only adds to `sessHeld`, so older keys keep their witness.
- `TypeOK` alone is not inductive. It allows a connection buffer of
  `MaxPreauth + 1` messages, and a session chain started from such a buffer
  would leave `HashValues`.
- `ConnPreauthBounded` says a connection buffer holds at most `MaxPreauth`
  messages, which is what its guard keeps. It was checked with TLC as an
  invariant on both Signing instances before it was proved.
- Lemma `AppendPreauth` bounds the length of a value after `Append`.
- Lemma `DerivedKey` shows that the key the KDF installs with `KdfLabel`
  and `KdfContext` equals the client's `ProtocolKey` and is not the zero
  key.

`SecMechRace_proofs.tla` proves, for any set of threads, keys and data
and either value of `SlotTested`, under the hypothesis `Serial` (every
thread serves the same connection):
- `SerialNoOops`: `Spec => []NoOops`;
- `SerialNoLeak`: `Spec => []SlotNeverReallocated`;
- `SerialOwnMac`: `Spec => []MacUsesOwnKey`;
- `SerialRefinement`: `Spec => Service!Init /\ [][Service!Next]_AbsVars`,
  the safety part of `ImplementsMacService`.

None of the three is inductive alone. The inductive invariant `IInv` adds:
- at most one thread is busy (the `Start` guard under `Serial`);
- when no thread is busy, both slots are NULL or both are ready
  (`SlotsAgree`);
- `AtStep(t)` for the busy thread: what each slot, the tfm key and the hash
  state hold at its `pc`. For example, at "setdesctfm" the tfm is ready and
  the descriptor is "notfm", and at "final" the hash state is `[ikey |->
  ThreadKey[t], data |-> <<ThreadData[t]>>]`.
  At "iserr" the tfm is ready or the ERR_PTR, and the descriptor NULL, so
  under `Serial` the re-read at the `IS_ERR` test and at
  `crypto_shash_descsize` finds what this thread stored.

It was first checked with TLC as an invariant on three serialized threads.
There is one lemma per action, and `NextIInv` combines them. The theorems
follow by `PTL`. Without `Serial` they are false: the bound runs are the
counterexamples.

The refinement proof follows the mapping step by step:
- `InitRefines`: the initial state maps to `Service!Init`.
- `InnerStepStutters`: an allocation step, `SetDescTfm`, `SetKey`,
  `HashInit`, `HashUpdate`, and a `HashFinal` that crashes leave
  `AbsState`, `rc` and `mac` unchanged.
- `StartRefines`: `Start(t)` is `Service!Request(t)`.
- `ReturnFailedRefines`: `StepFails`, `ResetTfm` and a failed allocation
  are `Service!Fail(t)`.
- `FinalRefines`: a successful `HashFinal` is `Service!Sign(t)`. The MAC
  it returns is `Mac(ThreadKey[t], <<ThreadData[t]>>)` by `AtStep` at
  "final" and `MacUsesOwnKey` in the next state.
- `StepRefines` combines them. `SerialRefinement` follows by `PTL`.
The weak fairness of `Service!Spec` is not proved (see below).

What is only model-checked:
- the fairness conjunct of the refinement `ImplementsMacService`, because the provers do
  not handle fairness and `ENABLED`;
- the codec properties, because the reference parser is RECURSIVE and tlapm
  cannot reason about a RECURSIVE operator;
- the violations;
- anything about the byte values computed by `Utf16` or `FlattenSeq` for
  every input, since this is induction over data, which is out of the
  provers' reach.

## 5. What is not modelled

- **The cryptographic primitives** (MD4, MD5, DES, HMAC, CMAC, SHA-512).
  They are external. They are modelled as injective terms, which assumes
  they are collision-free.
- **The GSS header constants.** They are static bytes with no behaviour.
- **The SMB1/SMB2 signature values.** Signing changes no state except the
  context slot it allocates, so only the slot is modelled.
- **The MD5, CMAC and SHA-512 users, step by step.** Their allocators are
  the text `SecMechRace` models, with the tfm test (`crypto_md5_alloc`) or
  the descriptor test (`crypto_cmac_alloc`, `crypto_sha512_alloc`). Their
  users have no setkey, or key a CMAC, and add nothing the HMAC users do
  not show. `Signing` keeps them as slots.
- **Two requests at once on one connection.** The dispatcher serializes
  them (spec §5). Only a channel bound from another connection reaches a
  context concurrently, and the bound runs model that case.
- **An AUTHENTICATE before any CHALLENGE.** `ChallengeSingleUse`'s shortest
  trace accepts two AUTHENTICATEs against the zeroed initial `cryptkey`.
  Whether the session-setup handler lets such a message reach
  `process_ntlmv2` is decided outside `src/`. The replay after a real
  CHALLENGE is the same defect.

## 6. Plan for the next steps

1. State and prove that a channel key matches the session's *current*
   preauth value as long as no session-setup message came after the
   derivation (a per-channel history variable).
2. Compose `SecMechRace` with `NtlmAuth`: the NTLMv2 verifier of a
   binding session setup racing on the HMAC-MD5 context with the
   connection's own handshake.
3. Compose `NtlmService` with `Signing`: a signing key derived only from
   the key of a standing NTLMv2 principal.
