----------------------------- MODULE JobService -----------------------------
(***************************************************************************)
(* What a loaded model promises about the requests it is given, without    *)
(* threads, locks, queues or clocks: admission is bounded, at most         *)
(* Capacity requests are served at a time, a request that is not served    *)
(* leaves the line once, and every verdict is given once, after the        *)
(* request has left, for a reason that is true.                            *)
(***************************************************************************)
EXTENDS Integers, FiniteSets

CONSTANTS Jobs, Capacity, MaxWaiting

VARIABLES
    phase,     \* where each request is
    verdict,   \* what its caller was told
    withdrawn, \* requests their caller no longer wants
    closed     \* no more requests are taken

serviceVars == <<phase, verdict, withdrawn, closed>>

In(p) == {j \in Jobs : phase[j] = p}

ServiceInit ==
    /\ phase = [j \in Jobs |-> "new"]
    /\ verdict = [j \in Jobs |-> "open"]
    /\ withdrawn = {}
    /\ closed = FALSE

Admit(j) ==
    /\ phase[j] = "new"
    /\ ~closed
    /\ Cardinality(In("waiting")) < MaxWaiting
    /\ phase' = [phase EXCEPT ![j] = "waiting"]
    /\ UNCHANGED <<verdict, withdrawn, closed>>

Refuse(j) ==
    /\ phase[j] = "new"
    /\ phase' = [phase EXCEPT ![j] = "refused"]
    /\ UNCHANGED <<verdict, withdrawn, closed>>

Withdraw(j) ==
    /\ phase[j] \notin {"new", "refused"}
    /\ verdict[j] = "open"
    /\ withdrawn' = withdrawn \union {j}
    /\ UNCHANGED <<phase, verdict, closed>>

\* A withdrawn request leaves the line without being served.
Leave(j) ==
    /\ phase[j] = "waiting"
    /\ j \in withdrawn
    /\ phase' = [phase EXCEPT ![j] = "left"]
    /\ UNCHANGED <<verdict, withdrawn, closed>>

\* Closing turns everybody in the line away.
Close ==
    /\ closed' = TRUE
    /\ phase' = [j \in Jobs |-> IF phase[j] = "waiting" THEN "left" ELSE phase[j]]
    /\ UNCHANGED <<verdict, withdrawn>>

Serve(j) ==
    /\ phase[j] = "waiting"
    /\ ~closed
    /\ Cardinality(In("serving")) < Capacity
    /\ phase' = [phase EXCEPT ![j] = "serving"]
    /\ UNCHANGED <<verdict, withdrawn, closed>>

Served(j) ==
    /\ phase[j] = "serving"
    /\ phase' = [phase EXCEPT ![j] = "served"]
    /\ UNCHANGED <<verdict, withdrawn, closed>>

Verdict(j) ==
    /\ verdict[j] = "open"
    /\ \E v \in {"completed", "error", "cancelled", "unloading"} :
          /\ v \in {"completed", "error"} => phase[j] = "served"
          /\ v = "unloading" => phase[j] = "left" /\ closed
          /\ v = "cancelled" => phase[j] \in {"left", "served"} /\ j \in withdrawn
          /\ verdict' = [verdict EXCEPT ![j] = v]
    /\ UNCHANGED <<phase, withdrawn, closed>>

ServiceNext ==
    \/ Close
    \/ \E j \in Jobs : \/ Admit(j) \/ Refuse(j) \/ Withdraw(j) \/ Leave(j)
                       \/ Serve(j) \/ Served(j) \/ Verdict(j)

ServiceSpec == ServiceInit /\ [][ServiceNext]_serviceVars
=============================================================================
