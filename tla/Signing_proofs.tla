--------------------------- MODULE Signing_proofs ---------------------------
(***************************************************************************)
(* Proofs about Signing for every set of connections, sessions, channels   *)
(* and messages and every bound: the type invariant, and that a derived    *)
(* key is the one the client derives for the session's dialect and         *)
(* preauth history.                                                        *)
(***************************************************************************)
EXTENDS Signing, SequenceTheorems, TLAPS

(* Hash values of at most n messages.                                      *)
PreauthUpTo(n) == UNION {[1..k -> Msgs] : k \in 0..n}

(* The connection's buffer holds at most MaxPreauth messages (its guard),  *)
(* so a session chain started from it holds at most MaxPreauth + 1: the    *)
(* bound TypeOK needs, and the strengthening that makes it inductive.      *)
ConnPreauthBounded == \A c \in Conns : connPreauth[c] \in PreauthUpTo(MaxPreauth)

(* The session's current preauth value is one it has held: the witness a  *)
(* derivation needs for SigningKeyMatchesDialect.                          *)
SessPreauthHeld == \A s \in Sessions : sessPreauth[s] \in sessHeld[s]

IInv == /\ TypeOK
        /\ ConnPreauthBounded
        /\ SessPreauthHeld
        /\ SigningKeyMatchesDialect

USE SessConnAssumption, ChanSessAssumption, ChanConnAssumption,
    ConnDialectAssumption, MaxPreauthAssumption

(* A hash value of at most n messages has a length in 0..n, and appending  *)
(* a message gives a value of length one more.                             *)
LEMMA AppendPreauth ==
    ASSUME NEW n \in Nat, NEW h \in PreauthUpTo(n), NEW m \in Msgs
    PROVE  /\ Len(h) \in 0..n
           /\ Append(h, m) \in PreauthUpTo(Len(h) + 1)
  <1>1. PICK k \in 0..n : h \in [1..k -> Msgs]
    BY DEF PreauthUpTo
  <1>2. h \in Seq(Msgs) /\ Len(h) = k
    <2>1. h \in Seq(Msgs)
      BY <1>1, SeqDef
    <2>2. DOMAIN h = 1..Len(h) /\ Len(h) \in Nat
      BY <2>1, LenProperties
    <2>3. QED
      BY <1>1, <2>1, <2>2
  <1>3. Append(h, m) \in Seq(Msgs) /\ Len(Append(h, m)) = k + 1
    BY <1>2, AppendProperties
  <1>4. Append(h, m) \in [1..(k + 1) -> Msgs]
    BY <1>3, LenProperties
  <1>5. QED
    BY <1>1, <1>2, <1>4 DEF PreauthUpTo

(* Hash values of at most a messages are hash values of at most b >= a.    *)
LEMMA PreauthUpToMono ==
    ASSUME NEW a \in Nat, NEW b \in Nat, a <= b
    PROVE  PreauthUpTo(a) \subseteq PreauthUpTo(b)
  BY DEF PreauthUpTo

(* The empty value, and the bound HashValues is defined with.              *)
LEMMA HashValuesBound ==
    /\ HashValues = PreauthUpTo(MaxPreauth + 1)
    /\ <<>> \in PreauthUpTo(MaxPreauth)
  <1>1. HashValues = PreauthUpTo(MaxPreauth + 1)
    BY DEF HashValues, PreauthUpTo
  <1>2. <<>> \in [1..0 -> Msgs]
    BY EmptySeq
  <1>3. 0 \in 0..MaxPreauth
    OBVIOUS
  <1>4. QED
    BY <1>1, <1>2, <1>3 DEF PreauthUpTo

LEMMA InitIInv == Init => IInv
  <1> SUFFICES ASSUME Init PROVE IInv
    OBVIOUS
  <1>1. <<>> \in HashValues /\ <<>> \in PreauthUpTo(MaxPreauth)
    BY HashValuesBound, PreauthUpToMono
  <1>2. TypeOK
    <2>1. secmech \in [Conns -> [Kinds -> {"null", "ready"}]]
      BY DEF Init
    <2>2. /\ connPreauth \in [Conns -> HashValues]
          /\ sessPreauth \in [Sessions -> HashValues]
          /\ sessBase \in [Sessions -> HashValues]
      BY <1>1 DEF Init
    <2>3. sessWire \in [Sessions -> Seq(Msgs)]
      BY EmptySeq DEF Init
    <2>4. chanKey \in [Channels -> KeyValues]
      BY DEF Init, KeyValues
    <2>5. chanRc \in [Channels -> {"none", "ok", "failed"}] /\ oops \in BOOLEAN
      BY DEF Init
    <2>6. sessHeld \in [Sessions -> SUBSET HashValues]
      BY <1>1 DEF Init
    <2>7. QED
      BY <2>1, <2>2, <2>3, <2>4, <2>5, <2>6 DEF TypeOK
  <1>3. ConnPreauthBounded /\ SessPreauthHeld
    BY <1>1 DEF Init, ConnPreauthBounded, SessPreauthHeld
  <1>4. SigningKeyMatchesDialect
    BY DEF Init, SigningKeyMatchesDialect
  <1>5. QED
    BY <1>2, <1>3, <1>4 DEF IInv

(* A connection's buffer, and a session chain started from it, extended by *)
(* one message: the facts the two preauth actions need.                    *)
LEMMA PreauthStep ==
    ASSUME ConnPreauthBounded, NEW c \in Conns, NEW m \in Msgs
    PROVE  /\ connPreauth[c] \in HashValues
           /\ Sha512(PreauthPrev(c, connPreauth[c]), m) \in HashValues
           /\ Len(connPreauth[c]) < MaxPreauth =>
                Sha512(PreauthPrev(c, connPreauth[c]), m) \in PreauthUpTo(MaxPreauth)
  <1>1. connPreauth[c] \in PreauthUpTo(MaxPreauth)
    BY DEF ConnPreauthBounded
  <1>2. /\ Len(connPreauth[c]) \in 0..MaxPreauth
        /\ Append(connPreauth[c], m) \in PreauthUpTo(Len(connPreauth[c]) + 1)
    BY <1>1, AppendPreauth
  <1>3. connPreauth[c] \in HashValues
    BY <1>1, HashValuesBound, PreauthUpToMono
  <1>4. Append(connPreauth[c], m) \in HashValues
    BY <1>2, HashValuesBound, PreauthUpToMono
  <1>5. Len(connPreauth[c]) < MaxPreauth =>
          Append(connPreauth[c], m) \in PreauthUpTo(MaxPreauth)
    BY <1>2, PreauthUpToMono
  <1>6. QED
    BY <1>3, <1>4, <1>5 DEF Sha512, PreauthPrev

(* The key a successful derivation installs is a key value and is the key  *)
(* the client derives for the session's dialect.                           *)
LEMMA DerivedKey ==
    ASSUME NEW s \in Sessions, NEW x \in HashValues
    PROVE  LET d == ConnDialect[SessConn[s]]
               k == Kdf(SessKey(s), KdfLabel(d), KdfContext(d, x))
           IN  /\ k \in KeyValues
               /\ k # ZeroKey
               /\ k = ProtocolKey(s, x)
  BY DEF Kdf, HmacSha256, KdfLabel, KdfContext, KeyValues, ZeroKey,
         ProtocolKey, Dialects

LEMMA NextIInv == IInv /\ [Next]_vars => IInv'
  <1> SUFFICES ASSUME IInv, [Next]_vars PROVE IInv'
    OBVIOUS
  <1> USE DEF IInv
  <1>1. ASSUME NEW c \in Conns, NEW m \in Msgs, CalcPreauthConn(c, m)
        PROVE  IInv'
    <2>1. Sha512(PreauthPrev(c, connPreauth[c]), m) \in PreauthUpTo(MaxPreauth)
      BY <1>1, PreauthStep DEF CalcPreauthConn
    <2>2. Sha512(PreauthPrev(c, connPreauth[c]), m) \in HashValues
      BY PreauthStep
    <2>3. TypeOK'
      <3>1. Allocated(c, "sha512") \in [Conns -> [Kinds -> {"null", "ready"}]]
        BY DEF TypeOK, Allocated, Kinds
      <3>2. [connPreauth EXCEPT ![c] = Sha512(PreauthPrev(c, connPreauth[c]), m)]
              \in [Conns -> HashValues]
        BY <2>2 DEF TypeOK
      <3>3. QED
        BY <1>1, <3>1, <3>2 DEF CalcPreauthConn, TypeOK
    <2>4. ConnPreauthBounded' /\ SessPreauthHeld'
      BY <1>1, <2>1 DEF CalcPreauthConn, ConnPreauthBounded, SessPreauthHeld, TypeOK
    <2>5. SigningKeyMatchesDialect'
      BY <1>1 DEF CalcPreauthConn, SigningKeyMatchesDialect,
                  ProtocolKey
    <2>6. QED
      BY <2>3, <2>4, <2>5
  <1>2. ASSUME NEW s \in Sessions, NEW m \in Msgs, CalcPreauthSess(s, m)
        PROVE  IInv'
    <2> DEFINE c == SessConn[s]
               h == Sha512(PreauthPrev(c, sessPreauth[s]), m)
    <2>1. c \in Conns
      OBVIOUS
    <2>2. connPreauth[c] \in HashValues /\ h \in HashValues
      BY <2>1, PreauthStep DEF PreauthPrev
    <2>3. CASE UNCHANGED <<secmech, sessPreauth, sessBase, sessWire, sessHeld>>
      BY <1>2, <2>3 DEF CalcPreauthSess, TypeOK, ConnPreauthBounded,
                        SessPreauthHeld,
                        SigningKeyMatchesDialect, ProtocolKey
    <2>4. CASE /\ secmech' = Allocated(c, "sha512")
               /\ sessPreauth' = [sessPreauth EXCEPT ![s] = h]
               /\ sessBase' = IF sessWire[s] = <<>>
                              THEN [sessBase EXCEPT ![s] = connPreauth[c]]
                              ELSE sessBase
               /\ sessWire' = [sessWire EXCEPT ![s] = Append(@, m)]
               /\ sessHeld' = [sessHeld EXCEPT ![s] = @ \cup {sessPreauth'[s]}]
      <3> USE <2>4
      <3>1. sessPreauth'[s] = h
        BY DEF TypeOK
      <3>2. UNCHANGED <<connPreauth, chanKey, chanRc, oops>>
        BY <1>2 DEF CalcPreauthSess
      <3>3. TypeOK'
        <4>1. Allocated(c, "sha512") \in [Conns -> [Kinds -> {"null", "ready"}]]
          BY <2>1 DEF TypeOK, Allocated, Kinds
        <4>2. Append(sessWire[s], m) \in Seq(Msgs)
          BY AppendProperties DEF TypeOK
        <4>3. /\ sessPreauth' \in [Sessions -> HashValues]
              /\ sessBase' \in [Sessions -> HashValues]
              /\ sessWire' \in [Sessions -> Seq(Msgs)]
              /\ sessHeld' \in [Sessions -> SUBSET HashValues]
          BY <2>2, <3>1, <4>2 DEF TypeOK
        <4>4. QED
          BY <3>2, <4>1, <4>3 DEF TypeOK
      <3>4. SessPreauthHeld'
        BY <3>1 DEF TypeOK, SessPreauthHeld
      <3>5. \A u \in Sessions : sessHeld[u] \subseteq sessHeld'[u]
        BY DEF TypeOK
      <3>6. SigningKeyMatchesDialect'
        BY <3>2, <3>5 DEF SigningKeyMatchesDialect, ProtocolKey
      <3>7. ConnPreauthBounded'
        BY <3>2 DEF ConnPreauthBounded
      <3>8. QED
        BY <3>3, <3>4, <3>6, <3>7
    <2>5. QED
      BY <1>2, <2>3, <2>4 DEF CalcPreauthSess
  <1>3. ASSUME NEW ch \in Channels, ComputeSigningKey(ch) PROVE IInv'
    <2> DEFINE s == ChanSess[ch]
               c == SessConn[s]
               d == ConnDialect[c]
               k == Kdf(SessKey(s), KdfLabel(d), KdfContext(d, DerivationPreauth(s)))
    <2>1. /\ s \in Sessions /\ c \in Conns /\ sessPreauth[s] \in HashValues
          /\ DerivationPreauth(s) \in sessHeld[s]
      BY DEF TypeOK, SessPreauthHeld, DerivationPreauth
    <2>2. k \in KeyValues /\ k # ZeroKey /\ k = ProtocolKey(s, sessPreauth[s])
      BY <2>1, DerivedKey DEF DerivationPreauth
    <2>3. ZeroKey \in KeyValues /\ KeyOnEntry(chanKey[ch]) = ZeroKey
      BY DEF KeyValues, KeyOnEntry
    <2>4. CASE /\ chanKey' = [chanKey EXCEPT ![ch] = KeyOnEntry(chanKey[ch])]
               /\ chanRc' = [chanRc EXCEPT ![ch] = "failed"]
               /\ secmech' \in [Conns -> [Kinds -> {"null", "ready"}]]
               /\ UNCHANGED <<connPreauth, sessPreauth, sessBase, sessWire, oops,
                              sessHeld>>
      BY <2>3, <2>4 DEF TypeOK, ConnPreauthBounded, SessPreauthHeld,
                        SigningKeyMatchesDialect
    <2>5. CASE /\ chanKey' = [chanKey EXCEPT ![ch] = k]
               /\ chanRc' = [chanRc EXCEPT ![ch] = "ok"]
               /\ secmech' \in [Conns -> [Kinds -> {"null", "ready"}]]
               /\ UNCHANGED <<connPreauth, sessPreauth, sessBase, sessWire, oops,
                              sessHeld>>
      <3>1. TypeOK' /\ ConnPreauthBounded' /\ SessPreauthHeld'
        BY <2>2, <2>5 DEF TypeOK, ConnPreauthBounded, SessPreauthHeld
      <3>3. SigningKeyMatchesDialect'
        BY <2>1, <2>2, <2>5 DEF TypeOK, SigningKeyMatchesDialect, DerivationPreauth
      <3>4. QED
        BY <3>1, <3>3
    <2>6. QED
      <3>1. /\ Allocated(c, "hmacsha256") \in [Conns -> [Kinds -> {"null", "ready"}]]
            /\ [secmech EXCEPT ![c]["hmacsha256"] = "ready", ![c]["cmacaes"] = "ready"]
                 \in [Conns -> [Kinds -> {"null", "ready"}]]
        BY <2>1 DEF TypeOK, Allocated, Kinds
      <3>2. QED
        BY <1>3, <2>4, <2>5, <3>1 DEF ComputeSigningKey, TypeOK
  <1>4. ASSUME NEW s \in Sessions, SignSmb1(s) \/ SignSmb2(s) PROVE IInv'
    <2>1. /\ Allocated(SessConn[s], "md5") \in [Conns -> [Kinds -> {"null", "ready"}]]
          /\ Allocated(SessConn[s], "hmacsha256") \in [Conns -> [Kinds -> {"null", "ready"}]]
      BY DEF TypeOK, Allocated, Kinds
    <2>2. /\ secmech' \in [Conns -> [Kinds -> {"null", "ready"}]]
          /\ UNCHANGED <<connPreauth, sessPreauth, sessBase, sessWire, chanKey,
                         chanRc, oops, sessHeld>>
      BY <1>4, <2>1 DEF SignSmb1, SignSmb2, TypeOK
    <2>3. QED
      BY <2>2 DEF TypeOK, ConnPreauthBounded, SessPreauthHeld,
                  SigningKeyMatchesDialect, ProtocolKey
  <1>5. ASSUME NEW ch \in Channels, SignSmb3(ch) PROVE IInv'
    BY <1>5 DEF SignSmb3, TypeOK, ConnPreauthBounded, SessPreauthHeld,
                SigningKeyMatchesDialect, ProtocolKey
  <1>6. CASE UNCHANGED vars
    BY <1>6 DEF vars, TypeOK, ConnPreauthBounded, SessPreauthHeld,
                SigningKeyMatchesDialect, ProtocolKey
  <1>7. CASE Halted
    BY <1>6, <1>7 DEF Halted
  <1>8. QED
    BY <1>1, <1>2, <1>3, <1>4, <1>5, <1>6, <1>7 DEF Next

(* Every state of signing, key derivation and preauth hashing is well      *)
(* typed; in particular no hash buffer grows past its bound.               *)
THEOREM SigningTypeCorrect == Spec => []TypeOK
  <1>1. IInv => TypeOK
    BY DEF IInv
  <1>2. QED
    BY InitIInv, NextIInv, <1>1, PTL DEF Spec

(* A channel key compute_smb3xsigningkey derived is the key a client       *)
(* derives for the session's dialect and, for 3.1.1, from a value the      *)
(* session's own preauth hash held, whatever connection the channel is on  *)
(* and whatever preauth updates came after it.                             *)
THEOREM DialectKeyAgreement == Spec => []SigningKeyMatchesDialect
  <1>1. IInv => SigningKeyMatchesDialect
    BY DEF IInv
  <1>2. QED
    BY InitIInv, NextIInv, <1>1, PTL DEF Spec

=============================================================================
