------------------------------ MODULE MacService ------------------------------
(***************************************************************************)
(* What the connection's cached HMAC-SHA256 context promises its callers   *)
(* (spec 3 and 5): a request of a thread runs as one atomic operation that *)
(* either fails or returns the HMAC of its data under its session key,     *)
(* with at most one request per connection at a time, and every request   *)
(* that started returns.  Nothing here of tfm, descriptor or allocation.   *)
(***************************************************************************)
EXTENDS Naturals, Sequences

CONSTANTS Threads, ThreadConn, ThreadKey, ThreadData

(* The MAC of data d under key k: inner and outer pad of the same key.     *)
Mac(k, d) == [ikey |-> k, okey |-> k, data |-> <<d>>]
NoMac == [ikey |-> "nokey", okey |-> "nokey", data |-> <<>>]

VARIABLES
    state,   \* per thread: "idle", "busy" or "done"
    result,  \* what its last request returned: "none", "ok", "failed"
    tag      \* the MAC its last successful request returned

vars == <<state, result, tag>>

Init ==
    /\ state = [t \in Threads |-> "idle"]
    /\ result = [t \in Threads |-> "none"]
    /\ tag = [t \in Threads |-> NoMac]

Request(t) ==
    /\ state[t] \in {"idle", "done"}
    /\ \A u \in Threads : ThreadConn[u] = ThreadConn[t] => state[u] # "busy"
    /\ state' = [state EXCEPT ![t] = "busy"]
    /\ UNCHANGED <<result, tag>>

Sign(t) ==
    /\ state[t] = "busy"
    /\ state' = [state EXCEPT ![t] = "done"]
    /\ result' = [result EXCEPT ![t] = "ok"]
    /\ tag' = [tag EXCEPT ![t] = Mac(ThreadKey[t], ThreadData[t])]

Fail(t) ==
    /\ state[t] = "busy"
    /\ state' = [state EXCEPT ![t] = "done"]
    /\ result' = [result EXCEPT ![t] = "failed"]
    /\ UNCHANGED tag

Next == \E t \in Threads : Request(t) \/ Sign(t) \/ Fail(t)

Spec == Init /\ [][Next]_vars /\ \A t \in Threads : WF_vars(Sign(t) \/ Fail(t))

=============================================================================
