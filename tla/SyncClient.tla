------------------------------ MODULE SyncClient ------------------------------
(***************************************************************************)
(* Synchronize together with clients that do what the sample's main does:  *)
(* efx::synchronize, then one request, over and over.  What the broker     *)
(* limits is the requests, and a client sends its request some time after  *)
(* it was let through, when the mutex is no longer held.                   *)
(***************************************************************************)
EXTENDS Synchronize

VARIABLE requests    \* history: the paced requests sent in the last Window

clientVars == <<vars, requests>>

ClientInit == Init /\ requests = NoEvents

(* efx::request_data after efx::synchronize. *)
SendRequest(t) ==
    /\ Proceed(t)
    /\ requests' = IF t \in Opened THEN Note(requests) ELSE requests

ClientNext ==
    \/ \E t \in Thread : SendRequest(t)
    \/ Next /\ (\A t \in Thread : ~Proceed(t)) /\ requests' = IF now' = now THEN requests ELSE Aged(requests)

ClientSpec == ClientInit /\ [][ClientNext]_clientVars

(* Two clients that send one request after each call keep within the limit *)
(* that REQ_LIMIT_MS is chosen for (efx.rs:9: at most 5 in 20 ms), also if *)
(* one stalls between its grant and its request.                           *)
RequestsPaced == SumFunction(requests) <= Limit
===============================================================================
