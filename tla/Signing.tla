------------------------------ MODULE Signing ------------------------------
(***************************************************************************)
(* Key derivation, packet signing and the preauthentication integrity      *)
(* hash of src/auth.c, over several connections, sessions and channels:    *)
(* compute_smb3xsigningkey, smb1_sign_smbpdu, smb2_sign_smbpdu,            *)
(* smb3_sign_smbpdu, calc_preauth_integrity_hash, and the lazily           *)
(* allocated per-connection primitive contexts they use                   *)
(* (crypto_md5_alloc, crypto_hmacsha256_alloc, crypto_cmac_alloc,          *)
(* crypto_sha512_alloc).                                                   *)
(*                                                                         *)
(* A session belongs to one connection (sess->server); a channel belongs   *)
(* to a session and to a connection (chann->server), which for a channel   *)
(* bound to the session from a second connection is not the session's.    *)
(* A SHA-512 chain value is represented by the sequence of messages it has *)
(* absorbed since the zero value: SHA-512 of (previous value, message) is  *)
(* Append(previous, message), so two values are equal exactly when they    *)
(* absorbed the same messages in the same order.                           *)
(***************************************************************************)
EXTENDS Integers, Sequences

CONSTANTS
    Conns,          \* connections (struct tcp_server_info)
    Sessions,       \* sessions (struct cifssrv_sess)
    Channels,       \* channels (struct channel)
    SessConn,       \* sess->server
    ChanSess,       \* the session a channel is bound to
    ChanConn,       \* chann->server
    ConnDialect,    \* server->dialect, fixed at negotiation
    Msgs,           \* negotiate and session-setup PDUs, as received
    MaxPreauth      \* bound on the messages given to one hash buffer

Dialects == {"SMB30", "SMB302", "SMB311"}

ASSUME SessConnAssumption == SessConn \in [Sessions -> Conns]
ASSUME ChanSessAssumption == ChanSess \in [Channels -> Sessions]
ASSUME ChanConnAssumption == ChanConn \in [Channels -> Conns]
ASSUME ConnDialectAssumption == ConnDialect \in [Conns -> Dialects]
ASSUME MaxPreauthAssumption == MaxPreauth \in Nat

(* The primitive slots of server->secmech.                                 *)
Kinds == {"md5", "hmacsha256", "cmacaes", "sha512"}

(* The session key of a session, as NtlmAuth derived it, is opaque here.   *)
SessKey(s) == <<"sesskey", s>>

(***************************************************************************)
(* The primitives, as terms.                                               *)
(***************************************************************************)
ZeroKey == <<"zero">>
SmbSign == <<"SmbSign">>  \* the constant context of 3.0 and 3.0.2
Sha512(prev, m) == Append(prev, m)
HmacSha256(key, data) == <<"hmacsha256", key, data>>
Kdf(key, label, ctx) == HmacSha256(key, <<1, label, 0, ctx, 128>>)

(* The signing key the client derives (MS-SMB2 3.2.5.3): label            *)
(* "SMBSigningKey" and the session's preauth hash for 3.1.1, label         *)
(* "SMB2AESCMAC" and context "SmbSign" for 3.0 and 3.0.2.                  *)
ProtocolKey(s, preauth) ==
    IF ConnDialect[SessConn[s]] = "SMB311"
    THEN Kdf(SessKey(s), "SMBSigningKey", preauth)
    ELSE Kdf(SessKey(s), "SMB2AESCMAC", SmbSign)

(* Faults a reviewer would look for in compute_smb3xsigningkey; each is    *)
(* the definition below it changed in one place.                           *)
\* The encryption key's label ("SMB2AESCCM") used for 3.0 signing.
KdfLabelEncryption(dialect) ==
    IF dialect = "SMB311" THEN "SMBSigningKey" ELSE "SMB2AESCCM"
\* The 3.0 context used for every dialect.
KdfContextConstant(dialect, preauth) == SmbSign

(* compute_smb3xsigningkey, line by line.                                  *)
KeyOnEntry(old) == ZeroKey
KdfLabel(dialect) ==
    IF dialect = "SMB311" THEN "SMBSigningKey" ELSE "SMB2AESCMAC"
KdfContext(dialect, preauth) ==
    IF dialect = "SMB311" THEN preauth ELSE SmbSign

VARIABLES
    secmech,        \* secmech[c][k]: "null" or "ready"
    connPreauth,    \* server->Preauth_HashValue
    sessPreauth,    \* sess->Preauth_HashValue
    sessBase,       \* the connection's value when the session's chain began
    sessWire,       \* session-setup messages given to the session's hash
    chanKey,        \* chann->smb3signingkey
    chanRc,         \* what the last compute_smb3xsigningkey for it returned
    oops,           \* the kernel dereferenced a NULL pointer
    sessHeld        \* history: every value sess->Preauth_HashValue has held

vars == <<secmech, connPreauth, sessPreauth, sessBase, sessWire, chanKey,
          chanRc, oops, sessHeld>>

HashValues == UNION {[1..n -> Msgs] : n \in 0..(MaxPreauth + 1)}
KeyValues == {ZeroKey} \cup
    {Kdf(SessKey(s), l, x) : s \in Sessions,
        l \in {"SMBSigningKey", "SMB2AESCMAC"}, x \in HashValues \cup {SmbSign}}

TypeOK ==
    /\ secmech \in [Conns -> [Kinds -> {"null", "ready"}]]
    /\ connPreauth \in [Conns -> HashValues]
    /\ sessPreauth \in [Sessions -> HashValues]
    /\ sessBase \in [Sessions -> HashValues]
    /\ sessWire \in [Sessions -> Seq(Msgs)]
    /\ chanKey \in [Channels -> KeyValues]
    /\ chanRc \in [Channels -> {"none", "ok", "failed"}]
    /\ oops \in BOOLEAN
    /\ sessHeld \in [Sessions -> SUBSET HashValues]

Init ==
    /\ secmech = [c \in Conns |-> [k \in Kinds |-> "null"]]
    /\ connPreauth = [c \in Conns |-> <<>>]
    /\ sessPreauth = [s \in Sessions |-> <<>>]
    /\ sessBase = [s \in Sessions |-> <<>>]
    /\ sessWire = [s \in Sessions |-> <<>>]
    /\ chanKey = [ch \in Channels |-> ZeroKey]
    /\ chanRc = [ch \in Channels |-> "none"]
    /\ oops = FALSE
    /\ sessHeld = [s \in Sessions |-> {<<>>}]

(***************************************************************************)
(* crypto_<kind>_alloc on connection c: nothing if the slot is set;        *)
(* otherwise crypto_alloc_shash and kmalloc of the descriptor, either of   *)
(* which may fail and leave the slot NULL.  Allocated(c, k) is the slot    *)
(* table after a call that returned 0; a failing call leaves it unchanged. *)
(***************************************************************************)
Allocated(c, k) == [secmech EXCEPT ![c][k] = "ready"]

(***************************************************************************)
(* calc_preauth_integrity_hash(server, hash_id, buf, pi_hash): for         *)
(* SHA-512, allocate the context and hash server->Preauth_HashValue        *)
(* followed by the message into pi_hash.  The negotiate handler passes the *)
(* connection's buffer, the session-setup handler the session's.  Any     *)
(* other hash_id returns -1; a failing step returns before pi_hash is      *)
(* written.                                                                *)
(***************************************************************************)
PreauthPrev(c, target) == connPreauth[c]

CalcPreauthConn(c, m) ==
    /\ ~oops
    /\ Len(connPreauth[c]) < MaxPreauth
    /\ \/ \* allocation or a hash step fails, or hash_id is not SHA-512
          /\ UNCHANGED <<secmech, connPreauth>>
       \/ /\ secmech' = Allocated(c, "sha512")
          /\ connPreauth' = [connPreauth EXCEPT ![c] =
                                Sha512(PreauthPrev(c, connPreauth[c]), m)]
    /\ UNCHANGED <<sessPreauth, sessBase, sessWire, chanKey, chanRc, oops,
                   sessHeld>>

CalcPreauthSess(s, m) ==
    LET c == SessConn[s] IN
    /\ ~oops
    /\ Len(sessWire[s]) < MaxPreauth
    /\ \/ /\ UNCHANGED <<secmech, sessPreauth, sessBase, sessWire, sessHeld>>
       \/ /\ secmech' = Allocated(c, "sha512")
          /\ sessPreauth' = [sessPreauth EXCEPT ![s] =
                                Sha512(PreauthPrev(c, sessPreauth[s]), m)]
          /\ sessBase' = IF sessWire[s] = <<>>
                         THEN [sessBase EXCEPT ![s] = connPreauth[c]]
                         ELSE sessBase
          /\ sessWire' = [sessWire EXCEPT ![s] = Append(@, m)]
          /\ sessHeld' = [sessHeld EXCEPT ![s] = @ \cup {sessPreauth'[s]}]
    /\ UNCHANGED <<connPreauth, chanKey, chanRc, oops>>

(* The preauth buffer the 3.1.1 KDF context is read from.                  *)
\* The connection's buffer read instead of the session's.
DerivationPreauthConn(s) == connPreauth[SessConn[s]]
DerivationPreauth(s) == sessPreauth[s]

(***************************************************************************)
(* compute_smb3xsigningkey(sess, chann->smb3signingkey, 16): the key is    *)
(* cleared, the HMAC-SHA256 and CMAC-AES contexts of sess->server are      *)
(* allocated, and the KDF runs keyed by the session key over counter,      *)
(* label, zero byte, context and length.  Either allocation, and any       *)
(* setkey, init, update or final, may fail and return with the key as it   *)
(* was cleared.                                                            *)
(***************************************************************************)
ComputeSigningKey(ch) ==
    LET s == ChanSess[ch]
        c == SessConn[s]
        d == ConnDialect[c]
        cleared == KeyOnEntry(chanKey[ch])
    IN
    /\ ~oops
    /\ \/ \* crypto_hmacsha256_alloc fails
          /\ secmech[c]["hmacsha256"] = "null"
          /\ chanKey' = [chanKey EXCEPT ![ch] = cleared]
          /\ chanRc' = [chanRc EXCEPT ![ch] = "failed"]
          /\ UNCHANGED secmech
       \/ \* crypto_cmac_alloc fails
          /\ secmech[c]["cmacaes"] = "null"
          /\ secmech' = Allocated(c, "hmacsha256")
          /\ chanKey' = [chanKey EXCEPT ![ch] = cleared]
          /\ chanRc' = [chanRc EXCEPT ![ch] = "failed"]
       \/ /\ secmech' = [secmech EXCEPT ![c]["hmacsha256"] = "ready",
                                        ![c]["cmacaes"] = "ready"]
          /\ \/ \* a setkey, init, update or final step fails
                /\ chanKey' = [chanKey EXCEPT ![ch] = cleared]
                /\ chanRc' = [chanRc EXCEPT ![ch] = "failed"]
             \/ /\ chanKey' = [chanKey EXCEPT ![ch] =
                      Kdf(SessKey(s), KdfLabel(d), KdfContext(d, DerivationPreauth(s)))]
                /\ chanRc' = [chanRc EXCEPT ![ch] = "ok"]
    /\ UNCHANGED <<connPreauth, sessPreauth, sessBase, sessWire, oops, sessHeld>>

(***************************************************************************)
(* smb1_sign_smbpdu and smb2_sign_smbpdu allocate their context on         *)
(* sess->server (MD5, HMAC-SHA256) and fail cleanly if they cannot.  The   *)
(* signature itself changes no state.                                      *)
(***************************************************************************)
SignSmb1(s) ==
    /\ ~oops
    /\ \/ UNCHANGED secmech
       \/ secmech' = Allocated(SessConn[s], "md5")
    /\ UNCHANGED <<connPreauth, sessPreauth, sessBase, sessWire, chanKey,
                   chanRc, oops, sessHeld>>

SignSmb2(s) ==
    /\ ~oops
    /\ \/ UNCHANGED secmech
       \/ secmech' = Allocated(SessConn[s], "hmacsha256")
    /\ UNCHANGED <<connPreauth, sessPreauth, sessBase, sessWire, chanKey,
                   chanRc, oops, sessHeld>>

(***************************************************************************)
(* smb3_sign_smbpdu(chann): crypto_shash_setkey on                         *)
(* chann->server->secmech.cmacaes, which it never allocates: a NULL slot   *)
(* is dereferenced.  Callers sign only on a channel whose signing key was  *)
(* derived (spec 4.4: a failed derivation is never trusted).               *)
(***************************************************************************)
SignSmb3(ch) ==
    /\ ~oops
    /\ chanRc[ch] = "ok"
    /\ oops' = (secmech[ChanConn[ch]]["cmacaes"] = "null")
    /\ UNCHANGED <<secmech, connPreauth, sessPreauth, sessBase, sessWire,
                   chanKey, chanRc, sessHeld>>

Halted ==
    /\ oops
    /\ UNCHANGED vars

Next ==
    \/ \E c \in Conns, m \in Msgs : CalcPreauthConn(c, m)
    \/ \E s \in Sessions, m \in Msgs : CalcPreauthSess(s, m)
    \/ \E ch \in Channels : ComputeSigningKey(ch)
    \/ \E s \in Sessions : SignSmb1(s) \/ SignSmb2(s)
    \/ \E ch \in Channels : SignSmb3(ch)
    \/ Halted

Spec == Init /\ [][Next]_vars

-----------------------------------------------------------------------------
(***************************************************************************)
(* Properties.                                                             *)
(***************************************************************************)

(* A channel key derived successfully is the key the client derives from   *)
(* the session key, with the label and context of the session's dialect    *)
(* and, for 3.1.1, from a value the session's own preauth hash held (the   *)
(* one at the time of derivation: later preauth updates do not change an   *)
(* installed key, and the connection's buffer is not the context).       *)
SigningKeyMatchesDialect ==
    \A ch \in Channels :
        chanRc[ch] = "ok" =>
            \E x \in sessHeld[ChanSess[ch]] :
                chanKey[ch] = ProtocolKey(ChanSess[ch], x)

(* Spec 4.5: the session's preauth hash is the SHA-512 chain, in wire      *)
(* order, over the connection's negotiate-phase value followed by every    *)
(* session-setup message given to it.                                      *)
SessionPreauthChain ==
    \A s \in Sessions :
        sessWire[s] # <<>> => sessPreauth[s] = sessBase[s] \o sessWire[s]

(* Spec 4.4: a signer never uses a primitive context that was not          *)
(* allocated; it fails with CryptoUnavailable instead.                     *)
NoOops == ~oops

=============================================================================
