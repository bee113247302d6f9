------------------------- MODULE SecMechRace_proofs -------------------------
(***************************************************************************)
(* Proofs about SecMechRace for any number of threads, keys and data,      *)
(* when every thread serves the same connection, so that the dispatcher    *)
(* serializes their requests: no thread faults, no context leaks, and     *)
(* every MAC returned as good is the thread's own.                         *)
(***************************************************************************)
EXTENDS SecMechRace, TLAPS

(* All threads serve one connection.                                       *)
Serial == \A t, u \in Threads : ThreadConn[t] = ThreadConn[u]

(* The two slots agree: both NULL or both set.                             *)
SlotsAgree ==
    \/ tfm = "null" /\ desc = "null"
    \/ tfm = "ready" /\ desc = "ready"

(* What the shared context holds while thread t is at each step.          *)
AtStep(t) ==
    /\ pc[t] \in {"idle", "done", "check"} => SlotsAgree
    /\ pc[t] = "alloctfm" => tfm = "null" /\ desc = "null"
    /\ pc[t] = "iserr" => tfm \in {"ready", "err"} /\ desc = "null"
    /\ pc[t] = "allocdesc" => tfm = "ready" /\ desc = "null"
    /\ pc[t] = "setdesctfm" => tfm = "ready" /\ desc = "notfm"
    /\ pc[t] = "resettfm" => tfm \in {"err", "freed"} /\ desc = "null"
    /\ pc[t] \in {"setkey", "init", "update", "final"} =>
            tfm = "ready" /\ desc = "ready"
    /\ pc[t] \in {"init", "update", "final"} => tfmKey = ThreadKey[t]
    /\ pc[t] = "update" => descSt = [ikey |-> ThreadKey[t], data |-> <<>>]
    /\ pc[t] = "final" =>
            descSt = [ikey |-> ThreadKey[t], data |-> <<ThreadData[t]>>]

(* The inductive invariant: at most one request runs, the context is what *)
(* its step leaves there (and consistent when none runs), and every good   *)
(* result is the thread's own MAC.                                         *)
IInv ==
    /\ TypeOK
    /\ DOMAIN mac = Threads
    /\ \A t, u \in Threads : pc[t] \in Busy /\ pc[u] \in Busy => t = u
    /\ (\A t \in Threads : pc[t] \notin Busy) => SlotsAgree
    /\ \A t \in Threads : pc[t] \in Busy => AtStep(t)
    /\ MacUsesOwnKey
    /\ NoOops
    /\ SlotNeverReallocated

USE ThreadAssumption

LEMMA InitIInv == Init => IInv
  <1> SUFFICES ASSUME Init PROVE IInv
    OBVIOUS
  <1>1. TypeOK
    <2>1. descSt \in DescStates
      <3>1. <<>> \in Seq({ThreadData[t] : t \in Threads})
        OBVIOUS
      <3>2. QED
        BY <3>1 DEF Init, DescStates, Uninit
    <2>2. /\ pc \in [Threads -> {"idle", "done"} \cup Busy]
          /\ rc \in [Threads -> {"none", "ok", "failed"}]
      BY DEF Init
    <2>3. QED
      BY <2>1, <2>2 DEF Init, TypeOK
  <1>2. \A t \in Threads : pc[t] \notin Busy
    BY DEF Init, Busy
  <1>3. QED
    BY <1>1, <1>2 DEF Init, IInv, SlotsAgree, MacUsesOwnKey, NoOops,
                      SlotNeverReallocated

(* One lemma per action of a thread: the step keeps IInv.                 *)
LEMMA StartIInv ==
    ASSUME Serial, IInv, NEW t \in Threads, Start(t) PROVE IInv'
  <1>1. \A u \in Threads : pc[u] \notin Busy
    BY DEF Start, Serial
  <1>2. SlotsAgree
    BY <1>1 DEF IInv
  <1>3. TypeOK'
    BY DEF IInv, TypeOK, Start, Busy
  <1>4. QED
    BY <1>1, <1>2, <1>3 DEF IInv, Start, AtStep, SlotsAgree, Busy,
                           MacUsesOwnKey, NoOops, SlotNeverReallocated

LEMMA AllocCheckIInv ==
    ASSUME IInv, NEW t \in Threads, AllocCheck(t) PROVE IInv'
  <1>1. pc[t] \in Busy /\ AtStep(t)
    BY DEF AllocCheck, Goto, Return, Busy, IInv
  <1>2. \A u \in Threads \ {t} : pc[u] \notin Busy /\ pc'[u] = pc[u]
    BY <1>1 DEF AllocCheck, Goto, Return, IInv, TypeOK
  <1>3. QED
    BY <1>1, <1>2 DEF AllocCheck, Goto, Return, IInv, TypeOK, AtStep, SlotsAgree,
                      Busy, MacUsesOwnKey, NoOops, SlotNeverReallocated, AlreadyAllocated,
                      HmacSha256Allocated, HmacMd5Allocated

LEMMA AllocTfmIInv ==
    ASSUME IInv, NEW t \in Threads, AllocTfm(t) PROVE IInv'
  <1>1. pc[t] \in Busy /\ AtStep(t)
    BY DEF AllocTfm, Goto, Return, Busy, IInv
  <1>2. \A u \in Threads \ {t} : pc[u] \notin Busy /\ pc'[u] = pc[u]
    BY <1>1 DEF AllocTfm, Goto, Return, IInv, TypeOK
  <1>3. QED
    BY <1>1, <1>2 DEF AllocTfm, Goto, Return, IInv, TypeOK, AtStep, SlotsAgree,
                      Busy, MacUsesOwnKey, NoOops, SlotNeverReallocated,
                      DescStates, Keys

LEMMA IsErrIInv ==
    ASSUME IInv, NEW t \in Threads, IsErr(t) PROVE IInv'
  <1>1. pc[t] \in Busy /\ AtStep(t)
    BY DEF IsErr, Goto, Busy, IInv
  <1>2. \A u \in Threads \ {t} : pc[u] \notin Busy /\ pc'[u] = pc[u]
    BY <1>1 DEF IsErr, Goto, IInv, TypeOK
  <1>3. QED
    BY <1>1, <1>2 DEF IsErr, Goto, IInv, TypeOK, AtStep, SlotsAgree,
                      Busy, MacUsesOwnKey, NoOops, SlotNeverReallocated

LEMMA AllocDescIInv ==
    ASSUME IInv, NEW t \in Threads, AllocDesc(t) PROVE IInv'
  <1>0. pc[t] = "allocdesc"
    BY DEF AllocDesc, Crash, Goto
  <1>1. pc[t] \in Busy /\ AtStep(t) /\ tfm = "ready"
    BY <1>0 DEF Busy, IInv, AtStep
  <1>2. \A u \in Threads \ {t} : pc[u] \notin Busy /\ pc'[u] = pc[u]
    BY <1>1 DEF AllocDesc, Goto, Return, IInv, TypeOK, Uninit
  <1>3. TypeOK'
    <2>1. pc' \in [Threads -> {"idle", "done"} \cup Busy]
      BY <1>1 DEF AllocDesc, Goto, IInv, TypeOK, Busy
    <2>2. /\ tfm' \in {"null", "err", "ready", "freed"} /\ desc' \in {"null", "notfm", "ready"}
          /\ rc' \in [Threads -> {"none", "ok", "failed"}]
          /\ leaked' \in BOOLEAN /\ oops' \in BOOLEAN
      BY <1>1 DEF AllocDesc, Goto, IInv, TypeOK, AtStep, Busy
    <2>3. tfmKey' \in Keys \cup {NoKey}
      BY <1>1 DEF AllocDesc, Goto, IInv, TypeOK, AtStep, Busy, Keys
    <2>4. descSt' \in DescStates
      <3>1. <<>> \in Seq({ThreadData[u] : u \in Threads})
        OBVIOUS
      <3>2. descSt' = Uninit \/ descSt' = descSt
        BY <1>1 DEF AllocDesc
      <3>3. Uninit \in DescStates
        BY <3>1 DEF DescStates, Uninit
      <3>4. QED
        BY <3>2, <3>3 DEF IInv, TypeOK
    <2>5. QED
      BY <2>1, <2>2, <2>3, <2>4 DEF TypeOK
  <1>4. QED
    BY <1>1, <1>2, <1>3 DEF AllocDesc, Goto, Return, IInv, TypeOK, AtStep, SlotsAgree,
                      Busy, MacUsesOwnKey, NoOops, SlotNeverReallocated,
                      Keys, Uninit

LEMMA ResetTfmIInv ==
    ASSUME IInv, NEW t \in Threads, ResetTfm(t) PROVE IInv'
  <1>1. pc[t] \in Busy /\ AtStep(t)
    BY DEF ResetTfm, Goto, Return, Busy, IInv, TfmAfterFree, AfterAllocFail
  <1>2. \A u \in Threads \ {t} : pc[u] \notin Busy /\ pc'[u] = pc[u]
    BY <1>1 DEF ResetTfm, Goto, Return, IInv, TypeOK, TfmAfterFree, AfterAllocFail
  <1>3. QED
    BY <1>1, <1>2 DEF ResetTfm, Goto, Return, IInv, TypeOK, AtStep, SlotsAgree,
                      Busy, MacUsesOwnKey, NoOops, SlotNeverReallocated,
                      DescStates, Keys, TfmAfterFree, AfterAllocFail

LEMMA SetDescTfmIInv ==
    ASSUME IInv, NEW t \in Threads, SetDescTfm(t) PROVE IInv'
  <1>1. pc[t] \in Busy /\ AtStep(t)
    BY DEF SetDescTfm, Goto, Busy, IInv, Crash
  <1>2. \A u \in Threads \ {t} : pc[u] \notin Busy /\ pc'[u] = pc[u]
    BY <1>1 DEF SetDescTfm, Goto, IInv, TypeOK, Crash
  <1>3. QED
    BY <1>1, <1>2 DEF SetDescTfm, Goto, IInv, TypeOK, AtStep, SlotsAgree,
                      Busy, MacUsesOwnKey, NoOops, SlotNeverReallocated,
                      DescStates, Keys, Crash

LEMMA SetKeyIInv ==
    ASSUME IInv, NEW t \in Threads, SetKey(t) PROVE IInv'
  <1>1. pc[t] \in Busy /\ AtStep(t)
    BY DEF SetKey, Goto, Return, Busy, IInv, Crash
  <1>2. \A u \in Threads \ {t} : pc[u] \notin Busy /\ pc'[u] = pc[u]
    BY <1>1 DEF SetKey, Goto, Return, IInv, TypeOK, Crash
  <1>3. QED
    BY <1>1, <1>2 DEF SetKey, Goto, Return, IInv, TypeOK, AtStep, SlotsAgree,
                      Busy, MacUsesOwnKey, NoOops, SlotNeverReallocated,
                      DescStates, Keys, Crash

LEMMA HashInitIInv ==
    ASSUME IInv, NEW t \in Threads, HashInit(t) PROVE IInv'
  <1>1. pc[t] \in Busy /\ AtStep(t)
    BY DEF HashInit, Goto, Return, Busy, IInv, Crash, DescInit
  <1>2. \A u \in Threads \ {t} : pc[u] \notin Busy /\ pc'[u] = pc[u]
    BY <1>1 DEF HashInit, Goto, Return, IInv, TypeOK, Crash, DescInit
  <1>3. TypeOK'
    <2>1. pc' \in [Threads -> {"idle", "done"} \cup Busy]
      BY DEF HashInit, Goto, Crash, IInv, TypeOK, Busy
    <2>2. /\ tfm' \in {"null", "err", "ready", "freed"} /\ desc' \in {"null", "notfm", "ready"}
          /\ rc' \in [Threads -> {"none", "ok", "failed"}]
          /\ leaked' \in BOOLEAN /\ oops' \in BOOLEAN
      BY <1>1 DEF HashInit, Goto, Crash, IInv, TypeOK, AtStep, Busy
    <2>3. tfmKey' \in Keys \cup {NoKey}
      BY <1>1 DEF HashInit, Goto, Crash, IInv, TypeOK, AtStep, Busy, Keys
    <2>4. descSt' \in DescStates
      <3>1. <<>> \in Seq({ThreadData[u] : u \in Threads})
        OBVIOUS
      <3>2. pc[t] = "init"
        BY DEF HashInit, Crash, Goto
      <3>3. tfmKey \in Keys
        BY <1>1, <3>2 DEF AtStep, Keys
      <3>4. descSt' = [ikey |-> tfmKey, data |-> <<>>] \/ descSt' = descSt
        BY DEF HashInit, Crash, DescInit
      <3>5. [ikey |-> tfmKey, data |-> <<>>] \in DescStates
        BY <3>1, <3>3 DEF DescStates
      <3>6. QED
        BY <3>4, <3>5 DEF IInv, TypeOK
    <2>5. QED
      BY <2>1, <2>2, <2>3, <2>4 DEF TypeOK
  <1>4. QED
    BY <1>1, <1>2, <1>3 DEF HashInit, Goto, Return, IInv, TypeOK, AtStep, SlotsAgree,
                      Busy, MacUsesOwnKey, NoOops, SlotNeverReallocated,
                      Keys, Crash, DescInit

LEMMA HashUpdateIInv ==
    ASSUME IInv, NEW t \in Threads, HashUpdate(t) PROVE IInv'
  <1>1. pc[t] \in Busy /\ AtStep(t)
    BY DEF HashUpdate, Goto, Return, Busy, IInv, Crash
  <1>2. \A u \in Threads \ {t} : pc[u] \notin Busy /\ pc'[u] = pc[u]
    BY <1>1 DEF HashUpdate, Goto, Return, IInv, TypeOK, Crash
  <1>3. TypeOK'
    <2>1. pc' \in [Threads -> {"idle", "done"} \cup Busy]
      BY DEF HashUpdate, Goto, Crash, IInv, TypeOK, Busy
    <2>2. /\ tfm' \in {"null", "err", "ready", "freed"} /\ desc' \in {"null", "notfm", "ready"}
          /\ rc' \in [Threads -> {"none", "ok", "failed"}]
          /\ leaked' \in BOOLEAN /\ oops' \in BOOLEAN
      BY <1>1 DEF HashUpdate, Goto, Crash, IInv, TypeOK, AtStep, Busy
    <2>3. tfmKey' \in Keys \cup {NoKey}
      BY <1>1 DEF HashUpdate, Goto, Crash, IInv, TypeOK, AtStep, Busy, Keys
    <2>4. descSt' \in DescStates
      <3>1. descSt.data \in Seq({ThreadData[u] : u \in Threads}) /\ descSt.ikey \in Keys \cup {NoKey, Garbage}
        BY DEF IInv, TypeOK, DescStates
      <3>2. Append(descSt.data, ThreadData[t]) \in Seq({ThreadData[u] : u \in Threads})
        BY <3>1
      <3>3. QED
        BY <1>1, <3>1, <3>2 DEF HashUpdate, Crash, Goto, IInv, TypeOK, AtStep,
                                DescStates
    <2>5. QED
      BY <2>1, <2>2, <2>3, <2>4 DEF TypeOK
  <1>4. /\ desc = "ready" /\ pc[t] = "update"
        /\ pc' = [pc EXCEPT ![t] = "final"]
        /\ descSt' = [descSt EXCEPT !.data = Append(@, ThreadData[t])]
        /\ UNCHANGED <<tfm, desc, tfmKey, rc, mac, leaked, oops>>
    BY <1>1 DEF HashUpdate, Crash, Goto, AtStep, IInv, NoOops
  <1>5. descSt' = [ikey |-> ThreadKey[t], data |-> <<ThreadData[t]>>]
    <2>1. descSt = [ikey |-> ThreadKey[t], data |-> <<>>]
      BY <1>1, <1>4 DEF AtStep
    <2>2. Append(<<>>, ThreadData[t]) = <<ThreadData[t]>>
      OBVIOUS
    <2>3. QED
      BY <1>4, <2>1, <2>2
  <1>6. AtStep(t)'
    <2>1. pc'[t] = "final"
      BY <1>4 DEF IInv, TypeOK
    <2>2. QED
      BY <1>1, <1>4, <1>5, <2>1 DEF AtStep
  <1>7. pc'[t] \in Busy
    BY <1>4 DEF IInv, TypeOK, Busy
  <1>8. \A u \in Threads : pc'[u] \in Busy => u = t
    BY <1>2
  <1>9. \A u \in Threads : pc'[u] \in Busy => AtStep(u)'
    BY <1>6, <1>8
  <1>10. (MacUsesOwnKey /\ NoOops /\ SlotNeverReallocated)'
    BY <1>4 DEF IInv, MacUsesOwnKey, NoOops, SlotNeverReallocated
  <1>11. QED
    BY <1>3, <1>4, <1>7, <1>8, <1>9, <1>10 DEF IInv

LEMMA HashFinalIInv ==
    ASSUME IInv, NEW t \in Threads, HashFinal(t) PROVE IInv'
  <1>1. pc[t] \in Busy /\ AtStep(t)
    BY DEF HashFinal, Goto, Return, Busy, IInv, Crash, ExpectedMac
  <1>2. \A u \in Threads \ {t} : pc[u] \notin Busy /\ pc'[u] = pc[u]
    BY <1>1 DEF HashFinal, Goto, Return, IInv, TypeOK, Crash, ExpectedMac
  <1>3. TypeOK'
    <2>1. pc' \in [Threads -> {"idle", "done"} \cup Busy]
      BY DEF HashFinal, Return, Goto, Crash, IInv, TypeOK, Busy
    <2>2. /\ tfm' \in {"null", "err", "ready", "freed"} /\ desc' \in {"null", "notfm", "ready"}
          /\ rc' \in [Threads -> {"none", "ok", "failed"}]
          /\ leaked' \in BOOLEAN /\ oops' \in BOOLEAN
      BY <1>1 DEF HashFinal, Return, Goto, Crash, IInv, TypeOK, AtStep, Busy
    <2>3. tfmKey' \in Keys \cup {NoKey}
      BY <1>1 DEF HashFinal, Return, Goto, Crash, IInv, TypeOK, AtStep, Busy, Keys
    <2>4. descSt' \in DescStates
      BY <1>1 DEF HashFinal, Crash, Return, Goto, IInv, TypeOK, AtStep
    <2>5. QED
      BY <2>1, <2>2, <2>3, <2>4 DEF TypeOK
  <1>4. /\ desc = "ready" /\ pc[t] = "final"
        /\ pc' = [pc EXCEPT ![t] = "done"]
        /\ rc' = [rc EXCEPT ![t] = "ok"]
        /\ mac' = [mac EXCEPT ![t] =
                     [ikey |-> descSt.ikey, okey |-> tfmKey, data |-> descSt.data]]
        /\ UNCHANGED <<tfm, desc, tfmKey, descSt, leaked, oops>>
    BY <1>1 DEF HashFinal, Crash, Return, Goto, AtStep, IInv, NoOops
  <1>5. mac'[t] = ExpectedMac(t)
    BY <1>1, <1>4 DEF AtStep, ExpectedMac, IInv, TypeOK
  <1>6. MacUsesOwnKey'
    BY <1>4, <1>5 DEF MacUsesOwnKey, IInv, TypeOK
  <1>9. DOMAIN mac' = Threads
    BY <1>4 DEF IInv
  <1>7. SlotsAgree'
    BY <1>1, <1>4 DEF AtStep, SlotsAgree
  <1>8. QED
    BY <1>1, <1>2, <1>3, <1>4, <1>6, <1>7, <1>9 DEF IInv, Busy, AtStep,
                                              NoOops, SlotNeverReallocated

LEMMA StepFailsIInv ==
    ASSUME IInv, NEW t \in Threads, StepFails(t) PROVE IInv'
  <1>1. pc[t] \in Busy /\ AtStep(t)
    BY DEF StepFails, Goto, Return, Busy, IInv
  <1>2. \A u \in Threads \ {t} : pc[u] \notin Busy /\ pc'[u] = pc[u]
    BY <1>1 DEF StepFails, Goto, Return, IInv, TypeOK
  <1>3. QED
    BY <1>1, <1>2 DEF StepFails, Goto, Return, IInv, TypeOK, AtStep, SlotsAgree,
                      Busy, MacUsesOwnKey, NoOops, SlotNeverReallocated,
                      DescStates, Keys

LEMMA NextIInv == Serial /\ IInv /\ [Next]_vars => IInv'
  <1> SUFFICES ASSUME Serial, IInv, [Next]_vars PROVE IInv'
    OBVIOUS
  <1>1. ASSUME NEW t \in Threads, Start(t) PROVE IInv'
    BY <1>1, StartIInv
  <1>2. ASSUME NEW t \in Threads, Run(t) PROVE IInv'
    BY <1>2, AllocCheckIInv, AllocTfmIInv, IsErrIInv, AllocDescIInv, SetDescTfmIInv, ResetTfmIInv,
       SetKeyIInv, HashInitIInv, HashUpdateIInv, HashFinalIInv, StepFailsIInv
    DEF Run
  <1>3. CASE UNCHANGED vars
    BY <1>3 DEF vars, IInv, TypeOK, AtStep, SlotsAgree, MacUsesOwnKey, NoOops,
                SlotNeverReallocated
  <1>4. QED
    BY <1>1, <1>2, <1>3 DEF Next

LEMMA SerialIInv == Serial => (Spec => []IInv)
  <1> SUFFICES ASSUME Serial PROVE Spec => []IInv
    OBVIOUS
  <1>1. Serial /\ IInv /\ [Next]_vars => IInv'
    BY NextIInv
  <1>2. QED
    BY InitIInv, <1>1, PTL DEF Spec

(* When every thread serves the one connection, no crypto_shash_* call of  *)
(* smb2_sign_smbpdu or compute_smb3xsigningkey meets a NULL, ERR_PTR or    *)
(* freed context, whatever fails in crypto_hmacsha256_alloc.               *)
THEOREM SerialNoOops == Serial => (Spec => []NoOops)
  BY SerialIInv, PTL DEF IInv

(* When every thread serves the one connection, crypto_hmacsha256_alloc   *)
(* never overwrites a live tfm or descriptor.                              *)
THEOREM SerialNoLeak == Serial => (Spec => []SlotNeverReallocated)
  BY SerialIInv, PTL DEF IInv

(* When every thread serves the one connection, the MAC a signing or key   *)
(* derivation request returns as good is keyed by its own session key and *)
(* covers only its own data.                                               *)
THEOREM SerialOwnMac == Serial => (Spec => []MacUsesOwnKey)
  BY SerialIInv, PTL DEF IInv

-----------------------------------------------------------------------------
(***************************************************************************)
(* Refinement.  Under the same hypothesis, every step of the cache is a    *)
(* step of the atomic MacService under the mapping of SecMechRace          *)
(* (AbsState, rc, mac), or leaves the mapped state alone.  The fairness   *)
(* part of ImplementsMacService is left to TLC.                            *)
(***************************************************************************)
AbsVars == <<AbsState, rc, mac>>

LEMMA InitRefines == Init => Service!Init
  BY DEF Init, Service!Init, Service!NoMac, AbsState, Busy, NoKey

(* A step that keeps the thread inside the allocator or the HMAC steps,    *)
(* or faults, changes none of the mapped state.                           *)
LEMMA InnerStepStutters ==
    ASSUME IInv, NEW t \in Threads,
           \/ pc' = pc
           \/ pc[t] \in Busy /\ \E to \in Busy : pc' = [pc EXCEPT ![t] = to],
           UNCHANGED <<rc, mac>>
    PROVE  UNCHANGED AbsVars
  BY DEF IInv, TypeOK, AbsVars, AbsState

LEMMA StartRefines ==
    ASSUME IInv, NEW t \in Threads, Start(t) PROVE Service!Request(t)
  <1>1. AbsState[t] \in {"idle", "done"}
    BY DEF Start, AbsState, Busy
  <1>2. \A u \in Threads : ThreadConn[u] = ThreadConn[t] => AbsState[u] # "busy"
    BY DEF Start, AbsState, IInv, TypeOK, Busy
  <1>3. AbsState' = [AbsState EXCEPT ![t] = "busy"]
    BY DEF Start, AbsState, Busy, IInv, TypeOK
  <1>4. QED
    BY <1>1, <1>2, <1>3 DEF Start, Service!Request

(* A call that returns an error is the service's Fail.                    *)
LEMMA ReturnFailedRefines ==
    ASSUME IInv, NEW t \in Threads, pc[t] \in Busy,
           pc' = [pc EXCEPT ![t] = "done"], rc' = [rc EXCEPT ![t] = "failed"],
           UNCHANGED mac
    PROVE  Service!Fail(t)
  <1>1. AbsState[t] = "busy"
    BY DEF AbsState
  <1>2. AbsState' = [AbsState EXCEPT ![t] = "done"]
    BY DEF AbsState, Busy, IInv, TypeOK
  <1>3. QED
    BY <1>1, <1>2 DEF Service!Fail

(* crypto_shash_final returning the thread's own MAC is the service's Sign. *)
LEMMA FinalRefines ==
    ASSUME Serial, IInv, NEW t \in Threads, HashFinal(t), ~UNCHANGED pc
    PROVE  Service!Sign(t)
  <1>1. /\ pc[t] = "final" /\ pc' = [pc EXCEPT ![t] = "done"]
        /\ rc' = [rc EXCEPT ![t] = "ok"]
        /\ mac' = [mac EXCEPT ![t] =
                     [ikey |-> descSt.ikey, okey |-> tfmKey, data |-> descSt.data]]
    BY DEF HashFinal, Crash, Return, Goto
  <1>2. IInv'
    BY HashFinalIInv
  <1>3. mac'[t] = ExpectedMac(t)
    BY <1>1, <1>2 DEF IInv, TypeOK, MacUsesOwnKey
  <1>4. mac' = [mac EXCEPT ![t] = Service!Mac(ThreadKey[t], ThreadData[t])]
    BY <1>1, <1>3 DEF IInv, ExpectedMac, Service!Mac
  <1>5. AbsState[t] = "busy" /\ AbsState' = [AbsState EXCEPT ![t] = "done"]
    BY <1>1 DEF AbsState, Busy, IInv, TypeOK
  <1>6. QED
    BY <1>1, <1>4, <1>5 DEF Service!Sign

LEMMA RunRefines ==
    ASSUME Serial, IInv, NEW t \in Threads, Run(t)
    PROVE  Service!Next \/ UNCHANGED AbsVars
  <1>1. CASE AllocCheck(t) \/ AllocTfm(t) \/ IsErr(t) \/ AllocDesc(t) \/ SetDescTfm(t)
             \/ SetKey(t) \/ HashInit(t) \/ HashUpdate(t)
    <2>1. /\ \/ pc' = pc
             \/ pc[t] \in Busy /\ \E to \in Busy : pc' = [pc EXCEPT ![t] = to]
          /\ UNCHANGED <<rc, mac>>
      BY <1>1 DEF AllocCheck, AllocTfm, IsErr, AllocDesc, SetDescTfm, SetKey, HashInit,
                  HashUpdate, Crash, Goto, Busy
    <2>2. QED
      BY <2>1, InnerStepStutters
  <1>2. CASE ResetTfm(t)
    <2>1. /\ pc[t] \in Busy /\ pc' = [pc EXCEPT ![t] = "done"]
          /\ rc' = [rc EXCEPT ![t] = "failed"] /\ UNCHANGED mac
      BY <1>2 DEF ResetTfm, AfterAllocFail, Busy
    <2>2. QED
      BY <2>1, ReturnFailedRefines DEF Service!Next
  <1>3. CASE StepFails(t)
    <2>1. /\ pc[t] \in Busy /\ pc' = [pc EXCEPT ![t] = "done"]
          /\ rc' = [rc EXCEPT ![t] = "failed"] /\ UNCHANGED mac
      BY <1>3 DEF StepFails, Return, Goto, Busy
    <2>2. QED
      BY <2>1, ReturnFailedRefines DEF Service!Next
  <1>4. CASE HashFinal(t) /\ UNCHANGED pc
    <2>1. ~Return(t, "final", "ok")
      BY <1>4 DEF Return, Goto, IInv, TypeOK
    <2>2. Crash(t, "final")
      BY <1>4, <2>1 DEF HashFinal
    <2>3. QED
      BY <2>2 DEF Crash, AbsVars, AbsState
  <1>5. CASE HashFinal(t) /\ ~UNCHANGED pc
    BY <1>5, FinalRefines DEF Service!Next
  <1>6. QED
    BY <1>1, <1>2, <1>3, <1>4, <1>5 DEF Run

LEMMA StepRefines ==
    Serial /\ IInv /\ [Next]_vars => [Service!Next]_AbsVars
  <1> SUFFICES ASSUME Serial, IInv, [Next]_vars PROVE [Service!Next]_AbsVars
    OBVIOUS
  <1>1. ASSUME NEW t \in Threads, Start(t) PROVE [Service!Next]_AbsVars
    BY <1>1, StartRefines DEF Service!Next
  <1>2. ASSUME NEW t \in Threads, Run(t) PROVE [Service!Next]_AbsVars
    BY <1>2, RunRefines
  <1>3. CASE UNCHANGED vars
    BY <1>3 DEF vars, AbsVars, AbsState
  <1>4. QED
    BY <1>1, <1>2, <1>3 DEF Next

(* When the dispatcher serializes every thread, the step-by-step context   *)
(* cache of smb2_sign_smbpdu and compute_smb3xsigningkey (allocation,      *)
(* setkey, init, update, final, with every failure) implements the safety  *)
(* part of the atomic MAC service: each request either fails or returns    *)
(* the MAC of its own data under its own key, as one step.                 *)
THEOREM SerialRefinement ==
    Serial => (Spec => Service!Init /\ [][Service!Next]_AbsVars)
  <1> SUFFICES ASSUME Serial PROVE Spec => Service!Init /\ [][Service!Next]_AbsVars
    OBVIOUS
  <1>1. Spec => []IInv
    BY SerialIInv
  <1>2. IInv /\ [Next]_vars => [Service!Next]_AbsVars
    BY StepRefines
  <1>3. QED
    BY <1>1, <1>2, InitRefines, PTL DEF Spec

=====
