------------------------------- MODULE Router -------------------------------
(***************************************************************************)
(* TTSRouterEngine (app/engine/router.py) and one of its models: requests  *)
(* for a stream against administrators that load and unload the model.     *)
(* The models of an engine share only the lock of the router, so one of    *)
(* them stands for all.                                                    *)
(*                                                                         *)
(* Every load that gets as far as a loaded runtime makes a new instance: a *)
(* runtime and the executor built on it, which the router installs and     *)
(* removes together.  An executor is what JobService promises: it takes    *)
(* requests until it is shut down, turns the waiting ones away then, and   *)
(* ends a request after its runtime slot has been given back.              *)
(*                                                                         *)
(* A step is one section under the router's lock, or what a thread does    *)
(* between two of them.  _RLock and _Condition: NotifyAll wakes the        *)
(* unloader that waits for the streams of the model to end.                *)
(***************************************************************************)
EXTENDS Integers, FiniteSets

CONSTANTS
    Admins,     \* threads that load and unload the model
    Streams,    \* requests, each made once
    MaxLoads,   \* bound on the number of loaded runtimes
    Capacity    \* runtime slots of an executor

ASSUME RouterAssumption ==
    /\ IsFiniteSet(Streams)
    /\ MaxLoads \in Nat \ {0}
    /\ Capacity \in Nat \ {0}

VARIABLES
    lifecycle,   \* state.lifecycle
    inflight,    \* state.inflight_requests
    installed,   \* the instance in _runtimes and _executors
    runtime,     \* whether the runtime of an instance is open
    accepting,   \* whether the executor of an instance takes requests
    pc,          \* where an administrator's thread stands
    mine,        \* the instance in its local variables
    late,        \* its deadline has passed
    stage,       \* where a request stands
    at           \* the executor it was given

adminVars == <<pc, mine, late>>
streamVars == <<stage, at>>
vars == <<lifecycle, inflight, installed, runtime, accepting, adminVars, streamVars>>

Instances == 1 .. MaxLoads
None == 0

LoadPcs == {"building", "checking", "failing", "installing"}
UnloadPcs == {"shutting", "turning_away", "draining", "waiting", "closing", "ending"}

Unused == {i \in Instances : runtime[i] = "none"}
At(i, st) == {s \in Streams : at[s] = i /\ stage[s] = st}

Init ==
    /\ lifecycle = "unloaded"
    /\ inflight = 0
    /\ installed = None
    /\ runtime = [i \in Instances |-> "none"]
    /\ accepting = [i \in Instances |-> FALSE]
    /\ pc = [a \in Admins |-> "idle"]
    /\ mine = [a \in Admins |-> None]
    /\ late = [a \in Admins |-> FALSE]
    /\ stage = [s \in Streams |-> "new"]
    /\ at = [s \in Streams |-> None]

\* Thread a goes on to p; whoever waits on _state_changed is woken.
GoTo(a, p) == pc' = [pc EXCEPT ![a] = p]

Woken == [a \in Admins |-> IF pc[a] = "waiting" THEN "draining" ELSE pc[a]]

NotifyAll == pc' = Woken

NotifyAllAndGoTo(a, p) == pc' = [Woken EXCEPT ![a] = p]

----------------------------------------------------------------------------
(* Requests *)

\* Mutant: the request is not counted.
StreamBeginUncounted(s) ==
    /\ stage[s] = "new"
    /\ lifecycle = "loaded"
    /\ installed # None
    /\ stage' = [stage EXCEPT ![s] = "begun"]
    /\ at' = [at EXCEPT ![s] = installed]
    /\ UNCHANGED <<lifecycle, inflight, installed, runtime, accepting, adminVars>>

\* stream(), up to the end of its locked section
StreamBegin(s) ==
    /\ stage[s] = "new"
    /\ lifecycle = "loaded"
    /\ installed # None
    /\ inflight' = inflight + 1
    /\ stage' = [stage EXCEPT ![s] = "begun"]
    /\ at' = [at EXCEPT ![s] = installed]
    /\ UNCHANGED <<lifecycle, installed, runtime, accepting, adminVars>>

\* executor.enqueue_stream, which may find its queue full.
Enqueue(s) ==
    /\ stage[s] = "begun"
    /\ \/ accepting[at[s]] /\ stage' = [stage EXCEPT ![s] = "waiting"]
       \/ stage' = [stage EXCEPT ![s] = "rejected"]
    /\ UNCHANGED <<lifecycle, inflight, installed, runtime, accepting, adminVars, at>>

\* _stream_finished, called by the terminal callback, or when enqueue_stream
\* raised
StreamFinished(s) ==
    /\ stage[s] \in {"rejected", "leaving"}
    /\ stage' = [stage EXCEPT ![s] = "ended"]
    /\ IF inflight > 0
       THEN inflight' = inflight - 1 /\ NotifyAll
       ELSE UNCHANGED <<inflight, pc>>
    /\ UNCHANGED <<lifecycle, installed, runtime, accepting, mine, late, at>>

\* What the executor does: a waiting request is served or withdrawn; a served
\* one leaves the runtime and will then be told so.
Serve(s) ==
    /\ stage[s] = "waiting"
    /\ Cardinality(At(at[s], "serving")) < Capacity
    /\ stage' = [stage EXCEPT ![s] = "serving"]
    /\ UNCHANGED <<lifecycle, inflight, installed, runtime, accepting, adminVars, at>>

Withdraw(s) ==
    /\ stage[s] = "waiting"
    /\ stage' = [stage EXCEPT ![s] = "leaving"]
    /\ UNCHANGED <<lifecycle, inflight, installed, runtime, accepting, adminVars, at>>

Served(s) ==
    /\ stage[s] = "serving"
    /\ stage' = [stage EXCEPT ![s] = "leaving"]
    /\ UNCHANGED <<lifecycle, inflight, installed, runtime, accepting, adminVars, at>>

----------------------------------------------------------------------------
(* load_model *)

\* A load of a model that is loaded, or being loaded or unloaded, changes nothing.
LoadBegin(a) ==
    /\ pc[a] = "idle"
    /\ Unused # {}
    /\ lifecycle \notin {"unloading", "loaded", "loading"}
    /\ lifecycle' = "loading"
    /\ GoTo(a, "building")
    /\ UNCHANGED <<inflight, installed, runtime, accepting, mine, late, streamVars>>

\* _build_runtime and runtime.load(); a runtime that fails to load is closed.
LoadRuntime(a) ==
    /\ pc[a] = "building"
    /\ \/ GoTo(a, "failing") /\ UNCHANGED <<runtime, mine>>
       \/ \E i \in Unused :
             /\ \A k \in Unused : i <= k
             /\ runtime' = [runtime EXCEPT ![i] = "open"]
             /\ mine' = [mine EXCEPT ![a] = i]
             /\ GoTo(a, "checking")
    /\ UNCHANGED <<lifecycle, inflight, installed, accepting, late, streamVars>>

\* The runtime's chunks may not fit the buffer, or the executor's thread may
\* not start: the loaded runtime is dropped as it is.
LoadExecutor(a) ==
    /\ pc[a] = "checking"
    /\ \/ GoTo(a, "failing") /\ UNCHANGED accepting
       \/ /\ accepting' = [accepting EXCEPT ![mine[a]] = TRUE]
          /\ GoTo(a, "installing")
    /\ UNCHANGED <<lifecycle, inflight, installed, runtime, mine, late, streamVars>>

LoadFail(a) ==
    /\ pc[a] = "failing"
    /\ lifecycle' = "failed"
    /\ mine' = [mine EXCEPT ![a] = None]
    /\ NotifyAllAndGoTo(a, "idle")
    /\ UNCHANGED <<inflight, installed, runtime, accepting, late, streamVars>>

LoadInstall(a) ==
    /\ pc[a] = "installing"
    /\ lifecycle' = "loaded"
    /\ installed' = mine[a]
    /\ mine' = [mine EXCEPT ![a] = None]
    /\ NotifyAllAndGoTo(a, "idle")
    /\ UNCHANGED <<inflight, runtime, accepting, late, streamVars>>

----------------------------------------------------------------------------
(* unload_model *)

UnloadBegin(a) ==
    /\ pc[a] = "idle"
    /\ lifecycle \notin {"loading", "unloaded", "unloading"}
    /\ lifecycle' = "unloading"
    /\ mine' = [mine EXCEPT ![a] = installed]
    /\ late' = [late EXCEPT ![a] = FALSE]
    /\ GoTo(a, "shutting")
    /\ UNCHANGED <<inflight, installed, runtime, accepting, streamVars>>

\* executor.begin_shutdown takes the waiting requests,
BeginShutdown(a) ==
    /\ pc[a] = "shutting"
    /\ IF mine[a] = None
       THEN UNCHANGED <<accepting, stage>>
       ELSE /\ accepting' = [accepting EXCEPT ![mine[a]] = FALSE]
            /\ stage' = [s \in Streams |->
                            IF s \in At(mine[a], "waiting") THEN "drained" ELSE stage[s]]
    /\ GoTo(a, "turning_away")
    /\ UNCHANGED <<lifecycle, inflight, installed, runtime, mine, late, at>>

\* and fails them, one by one, on the unloader's thread.
TurnAway(a, s) ==
    /\ pc[a] = "turning_away"
    /\ stage[s] = "drained"
    /\ stage' = [stage EXCEPT ![s] = "ended"]
    /\ IF inflight > 0
       THEN inflight' = inflight - 1 /\ NotifyAll
       ELSE UNCHANGED <<inflight, pc>>
    /\ UNCHANGED <<lifecycle, installed, runtime, accepting, mine, late, at>>

AllTurnedAway(a) ==
    /\ pc[a] = "turning_away"
    /\ \A s \in Streams : stage[s] # "drained"
    /\ GoTo(a, "draining")
    /\ UNCHANGED <<lifecycle, inflight, installed, runtime, accepting, mine, late,
                   streamVars>>

\* Mutant: the wait has no timeout.
DeadlinePassesSilent(a) ==
    /\ pc[a] \in {"draining", "waiting"}
    /\ ~late[a]
    /\ late' = [late EXCEPT ![a] = TRUE]
    /\ UNCHANGED <<lifecycle, inflight, installed, runtime, accepting, pc, mine,
                   streamVars>>

DeadlinePasses(a) ==
    /\ pc[a] \in {"draining", "waiting"}
    /\ ~late[a]
    /\ late' = [late EXCEPT ![a] = TRUE]
    /\ GoTo(a, "draining")
    /\ UNCHANGED <<lifecycle, inflight, installed, runtime, accepting, mine,
                   streamVars>>

UnloadWaits(a) ==
    /\ pc[a] = "draining"
    /\ inflight > 0
    /\ ~late[a]
    /\ GoTo(a, "waiting")
    /\ UNCHANGED <<lifecycle, inflight, installed, runtime, accepting, mine, late,
                   streamVars>>

\* Mutant: the model is as it was before.
UnloadTimesOutLoaded(a) ==
    /\ pc[a] = "draining"
    /\ inflight > 0
    /\ late[a]
    /\ lifecycle' = "loaded"
    /\ mine' = [mine EXCEPT ![a] = None]
    /\ NotifyAllAndGoTo(a, "idle")
    /\ UNCHANGED <<inflight, installed, runtime, accepting, late, streamVars>>

UnloadTimesOut(a) ==
    /\ pc[a] = "draining"
    /\ inflight > 0
    /\ late[a]
    /\ lifecycle' = "failed"
    /\ mine' = [mine EXCEPT ![a] = None]
    /\ NotifyAllAndGoTo(a, "idle")
    /\ UNCHANGED <<inflight, installed, runtime, accepting, late, streamVars>>

\* Mutant: after the deadline the runtime is closed all the same.
UnloadPopsLate(a) ==
    /\ pc[a] = "draining"
    /\ inflight = 0 \/ late[a]
    /\ mine' = [mine EXCEPT ![a] = installed]
    /\ installed' = None
    /\ GoTo(a, "closing")
    /\ UNCHANGED <<lifecycle, inflight, runtime, accepting, late, streamVars>>

UnloadPops(a) ==
    /\ pc[a] = "draining"
    /\ inflight = 0
    /\ mine' = [mine EXCEPT ![a] = installed]
    /\ installed' = None
    /\ GoTo(a, "closing")
    /\ UNCHANGED <<lifecycle, inflight, runtime, accepting, late, streamVars>>

\* executor.join(timeout=1.0), whose end is not looked at, and runtime.close()
UnloadCloses(a) ==
    /\ pc[a] = "closing"
    /\ runtime' = IF mine[a] = None THEN runtime
                  ELSE [runtime EXCEPT ![mine[a]] = "closed"]
    /\ GoTo(a, "ending")
    /\ UNCHANGED <<lifecycle, inflight, installed, accepting, mine, late, streamVars>>

UnloadEnds(a) ==
    /\ pc[a] = "ending"
    /\ lifecycle' = "unloaded"
    /\ mine' = [mine EXCEPT ![a] = None]
    /\ NotifyAllAndGoTo(a, "idle")
    /\ UNCHANGED <<inflight, installed, runtime, accepting, late, streamVars>>

----------------------------------------------------------------------------
\* The steps of an administrator's thread that no runtime can hold up
AdminStep(a) ==
    \/ LoadExecutor(a) \/ LoadFail(a) \/ LoadInstall(a)
    \/ BeginShutdown(a) \/ AllTurnedAway(a)
    \/ \E s \in Streams : TurnAway(a, s)
    \/ UnloadWaits(a) \/ UnloadTimesOut(a) \/ UnloadPops(a) \/ UnloadEnds(a)

StreamStep(s) == Enqueue(s) \/ StreamFinished(s)

Next ==
    \/ \E s \in Streams : \/ StreamBegin(s) \/ StreamStep(s)
                          \/ Serve(s) \/ Withdraw(s) \/ Served(s)
    \/ \E a \in Admins : \/ LoadBegin(a) \/ LoadRuntime(a)
                         \/ UnloadBegin(a) \/ DeadlinePasses(a) \/ UnloadCloses(a)
                         \/ AdminStep(a)

Spec == Init /\ [][Next]_vars

\* Threads keep running and deadlines pass; a runtime may hang in a call, while
\* it loads or while it closes, and nobody has to load or unload anything.
Fairness ==
    /\ \A a \in Admins : WF_vars(AdminStep(a)) /\ WF_vars(DeadlinePasses(a))
    /\ \A s \in Streams : WF_vars(StreamStep(s))

FairSpec == Spec /\ Fairness
=============================================================================
