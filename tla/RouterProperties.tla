-------------------------- MODULE RouterProperties --------------------------
(* What the router owes its callers: the properties of module Router. *)
EXTENDS Router

\* The variables have their types (ModelRuntimeState, and the locals of
\* load_model and unload_model).
TypeOK ==
    /\ lifecycle \in {"unloaded", "loading", "loaded", "unloading", "failed"}
    /\ inflight \in 0 .. Cardinality(Streams)
    /\ installed \in Instances \union {None}
    /\ runtime \in [Instances -> {"none", "open", "closed"}]
    /\ accepting \in [Instances -> BOOLEAN]
    /\ pc \in [Admins -> {"idle"} \union LoadPcs \union UnloadPcs]
    /\ mine \in [Admins -> Instances \union {None}]
    /\ late \in [Admins -> BOOLEAN]
    /\ stage \in [Streams -> {"new", "begun", "waiting", "serving", "drained",
                              "rejected", "leaving", "ended"}]
    /\ at \in [Streams -> Instances \union {None}]

\* The requests that have begun and not ended.
Underway == {s \in Streams : stage[s] \notin {"new", "ended"}}

\* inflight_requests is the number of requests that are under way, whatever
\* way they end: rejected, cancelled, drained, served (router.py:85, 95, 99,
\* 208-213).
InflightAccounting == inflight = Cardinality(Underway)

\* A runtime is closed only when no request is in it, or can still get into it
\* through an executor the request was given before (router.py:235-250).
NeverClosedInUse ==
    \A s \in Underway : at[s] \in Instances /\ runtime[at[s]] = "open"

\* At most one thread loads or unloads the model at a time, and the state an
\* administrator sees says which (router.py:135-139, 222-228).
OneOperationAtATime ==
    /\ (lifecycle = "loading") = (\E a \in Admins : pc[a] \in LoadPcs)
    /\ (lifecycle = "unloading") = (\E a \in Admins : pc[a] \in UnloadPcs)
    /\ \A a, b \in Admins : pc[a] # "idle" /\ pc[b] # "idle" => a = b

\* A model that is listed as loaded can serve: its runtime is there, open, and
\* its executor takes requests (router.py:65-72, 80-84).  An unload that timed
\* out does not bring it back to that state.
LoadedMeansServing ==
    lifecycle = "loaded" =>
        installed # None /\ runtime[installed] = "open" /\ accepting[installed]

\* An unloader that waits has something to wait for (router.py:213, 242).
UnloaderNotForgotten ==
    \A a \in Admins : pc[a] = "waiting" => inflight > 0

\* An unload ends, one way or the other, even if a runtime never returns from a
\* call: only runtime.close() can hold it up (router.py:233-242).
UnloadEventuallyEnds ==
    (\A a \in Admins : WF_vars(UnloadCloses(a)))
        => (lifecycle = "unloading" ~> lifecycle # "unloading")

----------------------------------------------------------------------------
(* The inductive invariant *)

\* What is installed is open; what a loader is about to install is open and
\* accepts; a closing runtime is not installed, and no request is under way.
HeldInv ==
    /\ installed # None => runtime[installed] = "open"
    /\ \A a \in Admins :
          /\ pc[a] \in {"checking", "installing"} =>
                mine[a] # None /\ runtime[mine[a]] = "open"
          /\ pc[a] = "installing" => accepting[mine[a]]
          /\ pc[a] \in {"closing", "ending"} => installed = None /\ Underway = {}

IInv ==
    /\ TypeOK
    /\ InflightAccounting
    /\ NeverClosedInUse
    /\ OneOperationAtATime
    /\ LoadedMeansServing
    /\ UnloaderNotForgotten
    /\ HeldInv

----------------------------------------------------------------------------
(* Disagreement with the documentation *)

\* When a model is unloaded, no runtime of it is left open
\* (docs/scheduler-fairness.md:333-342, "Model unload keeps the existing
\* graceful boundary: ... 6. close the runtime").  A runtime that load_model
\* drops, or that it replaces after an unload timed out, is never closed
\* (router.py:158-183, 197).
UnloadedMeansClosed ==
    lifecycle = "unloaded" => \A i \in Instances : runtime[i] # "open"
=============================================================================
