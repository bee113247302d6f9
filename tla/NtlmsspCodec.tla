----------------------------- MODULE NtlmsspCodec -----------------------------
(***************************************************************************)
(* The byte layout of the NTLMSSP messages in src/auth.c: the CHALLENGE    *)
(* message that build_ntlmssp_challenge_blob writes after the fixed header *)
(* (target name, target-info attribute list, the security-buffer fields    *)
(* that describe them and the length it returns), and the regions of an   *)
(* AUTHENTICATE message that decode_ntlmssp_authenticate_blob and the two  *)
(* verifiers read through the security buffers the client sent.            *)
(*                                                                         *)
(* A CHALLENGE message is kept as its header fields and the bytes written  *)
(* after the header.  Its correctness is judged by a reference parser      *)
(* written from MS-NLMP 2.2.1.2 and 2.2.2.1, not from the encoder.         *)
(***************************************************************************)
EXTENDS Integers, Sequences, SequencesExt

CONSTANTS
    Names,             \* values netbios_name may be configured to (byte strings)
    ChallengeHdrSize,  \* sizeof(CHALLENGE_MESSAGE)
    AuthHdrSize,       \* sizeof(AUTHENTICATE_MESSAGE)
    AuthMsgs           \* AUTHENTICATE headers a client may send (see AuthMsgType)

ASSUME NamesAssumption == Names \subseteq Seq(1..255)
ASSUME HdrSizeAssumption == {ChallengeHdrSize, AuthHdrSize} \subseteq Nat

(* The fields of an AUTHENTICATE message the decoder acts on: the length   *)
(* the caller passes, whether the signature matches, and the two security  *)
(* buffers it follows (Length is __le16, BufferOffset __le32).             *)
SecBufs == [len : 0..65535, off : Nat]
AuthMsgType == [blobLen : Nat, sigOk : BOOLEAN, nt : SecBufs, dom : SecBufs]
ASSUME AuthMsgsAssumption == AuthMsgs \subseteq AuthMsgType

CIFS_AUTH_RESP_SIZE == 24
CIFS_ENCPWD_SIZE == 16
NameUnits == 8     \* __le16 name[8] in build_ntlmssp_challenge_blob

(* Attribute ids of MS-NLMP 2.2.2.1.                                       *)
MsvAvEOL == 0
MsvAvNbComputerName == 1
MsvAvNbDomainName == 2
MsvAvDnsComputerName == 3
MsvAvDnsDomainName == 4

(***************************************************************************)
(* Conversions, by what they do.                                           *)
(***************************************************************************)
U16(x) == x % 65536                           \* a store into a __le16 field
Le16(x) == <<x % 256, (x \div 256) % 256>>    \* its two bytes on the wire
Le16Value(b, p) == b[p] + 256 * b[p + 1]
\* smb_strtoUTF16 of an ASCII name: each byte becomes a little-endian unit.
Utf16(name) == [i \in 1..(2 * Len(name)) |->
                    IF i % 2 = 1 THEN name[(i + 1) \div 2] ELSE 0]
UNICODE_LEN(n) == 2 * n

(* Faults a reviewer of the encoder would look for.                        *)
\* The loop stops one type early (type < NTLMSSP_AV_DNS_DOMAIN_NAME).
AvLoopTypesShort == <<MsvAvNbComputerName, MsvAvNbDomainName,
                      MsvAvDnsComputerName>>
\* The returned length counts the whole name[8] buffer, not the len bytes used.
ChallengeBlobLenBufferSize(len, tiLen) ==
    U16(ChallengeHdrSize + UNICODE_LEN(NameUnits)) + tiLen

(***************************************************************************)
(* build_ntlmssp_challenge_blob.                                           *)
(***************************************************************************)
\* for (type = NTLMSSP_AV_NB_COMPUTER_NAME; type <= NTLMSSP_AV_DNS_DOMAIN_NAME;
\*      type++): the ids of the attributes the loop writes, in order.
AvLoopTypes == <<MsvAvNbComputerName, MsvAvNbDomainName,
                 MsvAvDnsComputerName, MsvAvDnsDomainName>>

\* The bytes the loop and the terminator write at tinfo: Type, Length and
\* the len bytes of name for each type, then a zero Type and Length.
TargetInfoBytes(u) ==
    FlattenSeq([i \in DOMAIN AvLoopTypes |->
                    Le16(AvLoopTypes[i]) \o Le16(Len(u)) \o u])
    \o Le16(MsvAvEOL) \o Le16(0)

\* TargetInfoArray.Length: 0, then += 4 + len per type, then += 4, in u16.
TargetInfoLength(len, n) == U16(n * (4 + len) + 4)

\* blob_len = cpu_to_le16(sizeof(CHALLENGE_MESSAGE) + len), then += the
\* target-info length.
ChallengeBlobLen(len, tiLen) == U16(ChallengeHdrSize + len) + tiLen

\* The message and the returned length for a name that fits in name[8].
EncodeChallenge(name) ==
    LET u == Utf16(name)
        len == UNICODE_LEN(Len(name))
        tiLen == TargetInfoLength(len, Len(AvLoopTypes))
    IN [tnLen |-> U16(len), tnMax |-> U16(len), tnOff |-> ChallengeHdrSize,
        tiLen |-> tiLen, tiMax |-> tiLen, tiOff |-> ChallengeHdrSize + len,
        payload |-> u \o TargetInfoBytes(u),
        blobLen |-> ChallengeBlobLen(len, tiLen)]

(***************************************************************************)
(* decode_ntlmssp_authenticate_blob and the verifiers it calls: the        *)
(* regions [lo, hi) of the message they read.  Too short or a bad          *)
(* signature: nothing past the header.  Length 24: process_ntlm's strncmp  *)
(* reads up to 24 bytes at the response's offset.  Otherwise the domain    *)
(* name is duplicated (DomainName.Length bytes), and process_ntlmv2 copies *)
(* Length - 16 blob bytes after the 16-byte NTProofStr and compares the    *)
(* NTProofStr itself.                                                      *)
(***************************************************************************)
Region(lo, n) == [lo |-> lo, hi |-> lo + n]

AuthenticateReads(a) ==
    IF a.blobLen < AuthHdrSize \/ ~a.sigOk THEN {}
    ELSE IF a.nt.len = CIFS_AUTH_RESP_SIZE
         THEN {Region(a.nt.off, CIFS_AUTH_RESP_SIZE)}
         ELSE {Region(a.dom.off, a.dom.len),
               Region(a.nt.off + CIFS_ENCPWD_SIZE, a.nt.len - CIFS_ENCPWD_SIZE),
               Region(a.nt.off, CIFS_ENCPWD_SIZE)}

VARIABLES
    netbios,   \* netbios_name, the server's configured name
    chgmsg,    \* the CHALLENGE message last built, or NoMsg
    authRead,  \* the AUTHENTICATE last decoded and the regions read of it
    oops       \* the stack was overrun and the thread died

vars == <<netbios, chgmsg, authRead, oops>>

NoMsg == [none |-> TRUE]
NoRead == [msg |-> NoMsg, regions |-> {}]

ChallengeMsgs ==
    [tnLen : 0..65535, tnMax : 0..65535, tnOff : Nat,
     tiLen : 0..65535, tiMax : 0..65535, tiOff : Nat,
     payload : Seq(0..255), blobLen : Nat]

TypeOK ==
    /\ netbios \in Names
    /\ chgmsg \in {NoMsg} \cup ChallengeMsgs
    /\ authRead \in {NoRead} \cup
                    [msg : AuthMsgs, regions : SUBSET [lo : Int, hi : Int]]
    /\ oops \in BOOLEAN

Init ==
    /\ netbios \in Names
    /\ chgmsg = NoMsg
    /\ authRead = NoRead
    /\ oops = FALSE

(* build_ntlmssp_challenge_blob.  smb_strtoUTF16 writes Len(netbios) units *)
(* and a terminating NUL unit into name[8]: eight or more overrun it.      *)
BuildChallengeBlob ==
    /\ ~oops
    /\ \/ /\ Len(netbios) < NameUnits
          /\ chgmsg' = EncodeChallenge(netbios)
          /\ UNCHANGED oops
       \/ /\ Len(netbios) >= NameUnits
          /\ oops' = TRUE
          /\ UNCHANGED chgmsg
    /\ UNCHANGED <<netbios, authRead>>

(* decode_ntlmssp_authenticate_blob with the verifier it selects.          *)
DecodeAuthenticate(a) ==
    /\ ~oops
    /\ authRead' = [msg |-> a, regions |-> AuthenticateReads(a)]
    /\ UNCHANGED <<netbios, chgmsg, oops>>

Halted ==
    /\ oops
    /\ UNCHANGED vars

Next ==
    \/ BuildChallengeBlob
    \/ \E a \in AuthMsgs : DecodeAuthenticate(a)
    \/ Halted

Spec == Init /\ [][Next]_vars

-----------------------------------------------------------------------------
(***************************************************************************)
(* The reference parser, from MS-NLMP: the attribute list of a target-info *)
(* buffer b, read from position p; ok is FALSE when a pair runs past the   *)
(* buffer, or the list does not end with an empty MsvAvEOL exactly at the  *)
(* end of the buffer.                                                      *)
(***************************************************************************)
RECURSIVE AvPairsFrom(_, _)
AvPairsFrom(b, p) ==
    IF p + 3 > Len(b) THEN [ok |-> FALSE, pairs |-> <<>>]
    ELSE LET id == Le16Value(b, p)
             n == Le16Value(b, p + 2)
         IN IF id = MsvAvEOL
            THEN [ok |-> n = 0 /\ p + 3 = Len(b), pairs |-> <<>>]
            ELSE IF p + 3 + n > Len(b) THEN [ok |-> FALSE, pairs |-> <<>>]
            ELSE LET rest == AvPairsFrom(b, p + 4 + n)
                 IN [ok |-> rest.ok,
                     pairs |-> <<[id |-> id, value |-> SubSeq(b, p + 4, p + 3 + n)]>>
                               \o rest.pairs]

\* The n bytes at message offset off, when they lie inside the returned
\* length and were written.
InBlob(msg, off, n) ==
    /\ ChallengeHdrSize <= off
    /\ off + n <= msg.blobLen
    /\ off + n <= ChallengeHdrSize + Len(msg.payload)
BufferBytes(msg, off, n) ==
    SubSeq(msg.payload, off - ChallengeHdrSize + 1, off - ChallengeHdrSize + n)

(* What encode_challenge promises (spec 4.1), stated with MS-NLMP's ids.   *)
ExpectedAvPairs(u) ==
    [i \in 1..4 |-> [id |-> <<MsvAvNbComputerName, MsvAvNbDomainName,
                              MsvAvDnsComputerName, MsvAvDnsDomainName>>[i],
                     value |-> u]]

-----------------------------------------------------------------------------
(***************************************************************************)
(* Properties.                                                             *)
(***************************************************************************)

(* A client parsing the CHALLENGE that build_ntlmssp_challenge_blob        *)
(* returns finds, through the TargetName and TargetInfoArray security      *)
(* buffers, the server's name and the four name attributes in order with   *)
(* a terminator that ends the buffer, all inside the returned length.      *)
ChallengeParses ==
    chgmsg # NoMsg =>
        LET u == Utf16(netbios) IN
        /\ InBlob(chgmsg, chgmsg.tnOff, chgmsg.tnLen)
        /\ BufferBytes(chgmsg, chgmsg.tnOff, chgmsg.tnLen) = u
        /\ InBlob(chgmsg, chgmsg.tiOff, chgmsg.tiLen)
        /\ AvPairsFrom(BufferBytes(chgmsg, chgmsg.tiOff, chgmsg.tiLen), 1)
             = [ok |-> TRUE, pairs |-> ExpectedAvPairs(u)]

(* The length build_ntlmssp_challenge_blob returns is exactly the number   *)
(* of bytes it wrote: the caller sends no unwritten (stale) buffer bytes   *)
(* and cuts off none it wrote.                                             *)
ChallengeLengthExact ==
    chgmsg # NoMsg => chgmsg.blobLen = ChallengeHdrSize + Len(chgmsg.payload)

(* Every byte decode_ntlmssp_authenticate_blob and its verifiers read of   *)
(* an AUTHENTICATE message lies inside the blob_len bytes the client sent. *)
AuthenticateReadsInBlob ==
    \A r \in authRead.regions : 0 <= r.lo /\ r.hi <= authRead.msg.blobLen

(* Building a CHALLENGE never overruns the stack.                          *)
NoOops == ~oops

=============================================================================
