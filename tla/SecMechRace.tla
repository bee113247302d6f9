----------------------------- MODULE SecMechRace -----------------------------
(***************************************************************************)
(* Kernel threads sharing one connection's cached HMAC context, step by   *)
(* step: the HMAC-SHA256 one (secmech.hmacsha256 and .sdeschmacsha256,    *)
(* used by smb2_sign_smbpdu and compute_smb3xsigningkey) or the HMAC-MD5  *)
(* one (secmech.hmacmd5 and .sdeschmacmd5, used by calc_ntlmv2_hash and   *)
(* process_ntlmv2).  A thread runs the allocator (test the slot, allocate *)
(* the tfm, kmalloc the descriptor, point it at the tfm), then setkey     *)
(* with its session key, init, update with its data and final.  The two   *)
(* allocators are the same text except for the pointer their "already     *)
(* allocated" test reads: the tfm (crypto_hmacsha256_alloc, and           *)
(* crypto_md5_alloc) or the descriptor (crypto_hmacmd5_alloc, and         *)
(* crypto_cmac_alloc, crypto_sha512_alloc).  The tfm holds the key; the   *)
(* descriptor holds the running hash state.  Both are read from           *)
(* sess->server at every step.                                             *)
(*                                                                         *)
(* The dispatcher runs one request at a time per connection (spec 5), so   *)
(* threads of one connection never overlap.  A thread of another          *)
(* connection reaches the same context when its session was bound from    *)
(* there (chann->server != sess->server); nothing serializes the two.      *)
(***************************************************************************)
EXTENDS Naturals, Sequences

CONSTANTS
    Threads,     \* kernel threads serving requests
    ThreadConn,  \* the connection a thread serves requests of
    ThreadKey,   \* sess->sess_key of the session its request belongs to
    ThreadData,  \* what its request feeds to crypto_shash_update
    SlotTested   \* "tfm" or "desc": what the allocator tests for NULL

ASSUME ThreadAssumption ==
    /\ Threads # {}
    /\ DOMAIN ThreadConn = Threads
    /\ DOMAIN ThreadKey = Threads /\ DOMAIN ThreadData = Threads
    /\ SlotTested \in {"tfm", "desc"}

NoKey == "nokey"     \* a tfm on which setkey has not run
Garbage == "garbage" \* the bytes of a descriptor nobody initialised
\* A freshly kmalloc'ed descriptor: its hash state is whatever was there.
Uninit == [ikey |-> Garbage, data |-> <<>>]

(* The MAC a thread must produce: keyed (inner and outer pad) by its own  *)
(* session key, over its own data.                                         *)
ExpectedMac(t) == [ikey |-> ThreadKey[t], okey |-> ThreadKey[t],
                   data |-> <<ThreadData[t]>>]

(* Faults a reviewer of this code would look for; each is the definition  *)
(* below it changed in one place.                                          *)
\* The "already allocated" test dropped: every call allocates.
AlreadyAllocatedNever(tfmSt, descSt) == FALSE
\* The reset of the pointer to NULL left out: it keeps the ERR_PTR or the
\* freed tfm.
TfmAfterFreeKept(cur) == cur
\* crypto_shash_init that keeps the data of the previous computation.
DescInitKeepData(st, key) ==
    [ikey |-> key, data |-> st.data]
\* A failed allocation retried instead of returned.
AfterAllocFailRetry == "check"

\* crypto_hmacsha256_alloc: "if (server->secmech.hmacsha256) return 0;",
\* true for any non-NULL pointer, an ERR_PTR or a freed tfm included.
HmacSha256Allocated(tfmSt, descSt) == tfmSt # "null"
\* crypto_hmacmd5_alloc: "if (server->secmech.sdeschmacmd5) return 0;",
\* true for a descriptor whose shash.tfm is not yet set.
HmacMd5Allocated(tfmSt, descSt) == descSt # "null"
\* The test of the allocator this instance runs.
AlreadyAllocated(tfmSt, descSt) ==
    IF SlotTested = "tfm" THEN HmacSha256Allocated(tfmSt, descSt)
                          ELSE HmacMd5Allocated(tfmSt, descSt)
\* server->secmech.hmacsha256 = NULL after IS_ERR or crypto_free_shash.
TfmAfterFree(cur) == "null"
\* crypto_shash_init: the HMAC state starts from the tfm's inner pad.
DescInit(st, key) == [ikey |-> key, data |-> <<>>]
\* where a thread goes when an allocation fails: it returns rc.
AfterAllocFail == "done"

VARIABLES
    tfm,      \* server->secmech.hmacsha256: "null", "err", "ready", "freed"
    desc,     \* the descriptor slot: "null", "notfm" (shash.tfm unset), "ready"
    tfmKey,   \* the key last set on the tfm
    descSt,   \* the hash state in the descriptor: [ikey, data]
    pc,       \* where each thread is
    rc,       \* what its last call returned: "none", "ok", "failed"
    mac,      \* the MAC its last successful call produced
    leaked,   \* a live tfm was overwritten by a second allocation
    oops      \* a NULL context was dereferenced

vars == <<tfm, desc, tfmKey, descSt, pc, rc, mac, leaked, oops>>

Busy == {"check", "alloctfm", "iserr", "allocdesc", "setdesctfm", "resettfm",
         "setkey", "init", "update", "final"}
Keys == {ThreadKey[t] : t \in Threads}
DescStates == [ikey : Keys \cup {NoKey, Garbage},
               data : Seq({ThreadData[t] : t \in Threads})]

TypeOK ==
    /\ tfm \in {"null", "err", "ready", "freed"} /\ desc \in {"null", "notfm", "ready"}
    /\ tfmKey \in Keys \cup {NoKey}
    /\ descSt \in DescStates
    /\ pc \in [Threads -> {"idle", "done"} \cup Busy]
    /\ rc \in [Threads -> {"none", "ok", "failed"}]
    /\ leaked \in BOOLEAN /\ oops \in BOOLEAN

Init ==
    /\ tfm = "null" /\ desc = "null" /\ tfmKey = NoKey /\ descSt = Uninit
    /\ pc = [t \in Threads |-> "idle"]
    /\ rc = [t \in Threads |-> "none"]
    /\ mac = [t \in Threads |-> [ikey |-> NoKey, okey |-> NoKey, data |-> <<>>]]
    /\ leaked = FALSE /\ oops = FALSE

Goto(t, from, to) == pc[t] = from /\ pc' = [pc EXCEPT ![t] = to]
Return(t, from, r) ==
    /\ Goto(t, from, "done")
    /\ rc' = [rc EXCEPT ![t] = r]

(* The dispatcher hands a thread a request once no other request of its   *)
(* connection is running.                                                  *)
Start(t) ==
    /\ ~oops
    /\ pc[t] \in {"idle", "done"}
    /\ \A u \in Threads : ThreadConn[u] = ThreadConn[t] => pc[u] \notin Busy
    /\ pc' = [pc EXCEPT ![t] = "check"]
    /\ UNCHANGED <<tfm, desc, tfmKey, descSt, rc, mac, leaked, oops>>

(* A crypto_shash_* step on a tfm or descriptor that is NULL, an ERR_PTR   *)
(* or freed, or a descriptor whose shash.tfm is unset or stale: the kernel *)
(* faults (a use after free or of garbage is counted as one).            *)
Crash(t, from) ==
    /\ pc[t] = from
    /\ oops' = TRUE
    /\ UNCHANGED <<tfm, desc, tfmKey, descSt, pc, rc, mac, leaked>>

(* The allocator.  Every assignment is to the shared slot, so   *)
(* each value it holds is seen by the other threads: the ERR_PTR that      *)
(* crypto_alloc_shash returns until it is reset, the tfm before the        *)
(* descriptor exists, the NULL a failed kmalloc writes over the            *)
(* descriptor, the descriptor before its shash.tfm is set, the freed tfm   *)
(* until it is reset.  Each write over a live pointer loses what it held.  *)
AllocCheck(t) ==
    /\ Goto(t, "check", IF AlreadyAllocated(tfm, desc) THEN "setkey" ELSE "alloctfm")
    /\ UNCHANGED <<tfm, desc, tfmKey, descSt, rc, mac, leaked, oops>>

AllocTfm(t) ==
    /\ Goto(t, "alloctfm", "iserr")
    /\ \/ \* crypto_alloc_shash succeeds
          tfm' = "ready" /\ tfmKey' = NoKey
       \/ \* it returns an ERR_PTR
          tfm' = "err" /\ UNCHANGED tfmKey
    /\ leaked' = (leaked \/ tfm = "ready")
    /\ UNCHANGED <<desc, descSt, rc, mac, oops>>

(* IS_ERR(server->secmech.hmacsha256): the slot is read again, and holds   *)
(* whatever the threads stored there last.                                  *)
IsErr(t) ==
    /\ Goto(t, "iserr", IF tfm = "err" THEN "resettfm" ELSE "allocdesc")
    /\ UNCHANGED <<tfm, desc, tfmKey, descSt, rc, mac, leaked, oops>>

(* crypto_shash_descsize(server->secmech.hmacsha256) reads the slot a      *)
(* third time and faults unless it holds a live tfm; then kmalloc.         *)
AllocDesc(t) ==
    \/ tfm # "ready" /\ Crash(t, "allocdesc")
    \/ /\ tfm = "ready"
       /\ \/ \* kmalloc succeeds; a descriptor already there is lost
             /\ Goto(t, "allocdesc", "setdesctfm")
             /\ desc' = "notfm" /\ descSt' = Uninit
             /\ UNCHANGED tfm
          \/ \* kmalloc returns NULL into the slot; the tfm is freed
             /\ Goto(t, "allocdesc", "resettfm")
             /\ desc' = "null" /\ tfm' = "freed"
             /\ UNCHANGED descSt
       /\ leaked' = (leaked \/ desc # "null")
       /\ UNCHANGED <<tfmKey, rc, mac, oops>>

(* sdesc->shash.tfm = the tfm slot, and flags = 0: a NULL descriptor slot  *)
(* faults; a descriptor pointed at a tfm that is not live stays unusable.  *)
SetDescTfm(t) ==
    \/ desc = "null" /\ Crash(t, "setdesctfm")
    \/ /\ desc # "null"
       /\ Goto(t, "setdesctfm", "setkey")
       /\ desc' = IF tfm = "ready" THEN "ready" ELSE "notfm"
       /\ UNCHANGED <<tfm, tfmKey, descSt, rc, mac, leaked, oops>>

(* server->secmech.hmacsha256 = NULL, and the error is returned.           *)
ResetTfm(t) ==
    /\ pc[t] = "resettfm"
    /\ pc' = [pc EXCEPT ![t] = AfterAllocFail]
    /\ rc' = [rc EXCEPT ![t] = "failed"]
    /\ tfm' = TfmAfterFree(tfm)
    /\ UNCHANGED <<desc, tfmKey, descSt, mac, leaked, oops>>

(* crypto_shash_setkey(tfm, sess->sess_key): the key lives in the tfm.     *)
SetKey(t) ==
    \/ tfm # "ready" /\ Crash(t, "setkey")
    \/ /\ tfm = "ready"
       /\ Goto(t, "setkey", "init")
       /\ tfmKey' = ThreadKey[t]
       /\ UNCHANGED <<tfm, desc, descSt, rc, mac, leaked, oops>>

HashInit(t) ==
    \/ desc # "ready" /\ Crash(t, "init")
    \/ /\ desc = "ready"
       /\ Goto(t, "init", "update")
       /\ descSt' = DescInit(descSt, tfmKey)
       /\ UNCHANGED <<tfm, desc, tfmKey, rc, mac, leaked, oops>>

HashUpdate(t) ==
    \/ desc # "ready" /\ Crash(t, "update")
    \/ /\ desc = "ready"
       /\ Goto(t, "update", "final")
       /\ descSt' = [descSt EXCEPT !.data = Append(@, ThreadData[t])]
       /\ UNCHANGED <<tfm, desc, tfmKey, rc, mac, leaked, oops>>

(* crypto_shash_final: the outer pad comes from the tfm at this moment.    *)
HashFinal(t) ==
    \/ desc # "ready" /\ Crash(t, "final")
    \/ /\ desc = "ready"
       /\ Return(t, "final", "ok")
       /\ mac' = [mac EXCEPT ![t] =
                    [ikey |-> descSt.ikey, okey |-> tfmKey, data |-> descSt.data]]
       /\ UNCHANGED <<tfm, desc, tfmKey, descSt, leaked, oops>>

(* setkey, init, update or final returning an error: the call returns rc.  *)
StepFails(t) ==
    /\ pc[t] \in {"setkey", "init", "update", "final"}
    /\ tfm = "ready" /\ desc = "ready"
    /\ Return(t, pc[t], "failed")
    /\ UNCHANGED <<tfm, desc, tfmKey, descSt, mac, leaked, oops>>

(* Every step of a running thread.                                         *)
Run(t) ==
    /\ ~oops
    /\ \/ AllocCheck(t) \/ AllocTfm(t) \/ IsErr(t) \/ AllocDesc(t)
       \/ SetDescTfm(t)
       \/ ResetTfm(t)
       \/ SetKey(t) \/ HashInit(t) \/ HashUpdate(t) \/ HashFinal(t)
       \/ StepFails(t)

(* After an oops the kernel thread is dead and nothing else is modelled:  *)
(* such a state has no successor.                                          *)
Next == \E t \in Threads : Start(t) \/ Run(t)

(* A running kernel thread is never starved: a request that started is    *)
(* worked on until it returns (nothing in these calls blocks for good).    *)
(* A new request is not forced to arrive.                                  *)
Fairness == \A t \in Threads : WF_vars(Run(t))

Spec == Init /\ [][Next]_vars /\ Fairness

-----------------------------------------------------------------------------
(* Every MAC a thread returns as good is the MAC of its own data under its *)
(* own session key: no other request's setkey, init or update got into it. *)
MacUsesOwnKey ==
    \A t \in Threads : rc[t] = "ok" => mac[t] = ExpectedMac(t)

(* Spec 3: a slot is allocated once and never re-allocated while set; a   *)
(* second allocation would leak the first tfm.                            *)
SlotNeverReallocated == ~leaked

(* No thread dereferences a context that is NULL or was freed.             *)
NoOops == ~oops

(* The context cache implements the atomic MAC service of MacService, its *)
(* fairness included: every request that started returns, and returns as  *)
(* good only the MAC of its own data under its own key.  A                *)
(* thread inside the allocator .. crypto_shash_final is "busy",  *)
(* and its rc and MAC are what the service returned.  Every step of the    *)
(* allocation and of setkey, init and update is a stutter of the service;  *)
(* final is its Sign, a failed step its Fail.                              *)
AbsState == [t \in Threads |-> IF pc[t] \in Busy THEN "busy" ELSE pc[t]]
Service == INSTANCE MacService WITH state <- AbsState, result <- rc, tag <- mac
ImplementsMacService == Service!Spec

=============================================================================
