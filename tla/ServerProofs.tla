---------------------------- MODULE ServerProofs ----------------------------
(***************************************************************************)
(* IInv of RouterProperties is an inductive invariant of the router, and   *)
(* with it its safety properties hold for any number of administrators,    *)
(* requests and loads.  A process runs the router and nothing else, so     *)
(* what is proved of the router holds in it; and it leaves nothing behind  *)
(* when it ends.                                                           *)
(***************************************************************************)
EXTENDS Server, FiniteSetTheorems, TLAPS

USE DEF None

----------------------------------------------------------------------------
(* The requests under way *)

\* Sets of requests are finite.
LEMMA UnderwayFinite ==
    ASSUME NEW S, S \subseteq Streams
    PROVE  IsFiniteSet(S) /\ Cardinality(S) \in 0 .. Cardinality(Streams)
  BY RouterAssumption, FS_Subset, FS_CardinalityType

\* A step by which no request begins or ends
LEMMA NoneBeginsOrEnds ==
    ASSUME \A s \in Streams : stage[s] \in {"new", "ended"}
                                  <=> stage'[s] \in {"new", "ended"}
    PROVE  Underway' = Underway
  BY DEF Underway

\* A step by which request s ends
LEMMA OneEnds ==
    ASSUME InflightAccounting, TypeOK, NEW s \in Underway,
           stage' = [stage EXCEPT ![s] = "ended"]
    PROVE  /\ Underway' = Underway \ {s}
           /\ inflight > 0
           /\ inflight - 1 = Cardinality(Underway')
<1>1. Underway' = Underway \ {s}
  BY DEF Underway, TypeOK
<1>2. IsFiniteSet(Underway) /\ Cardinality(Underway) \in Nat
  BY UnderwayFinite DEF Underway
<1>3. /\ Cardinality(Underway \ {s}) = Cardinality(Underway) - 1
      /\ IsFiniteSet(Underway \ {s})
  BY <1>2, FS_RemoveElement
<1>4. Cardinality(Underway \ {s}) \in Nat
  BY <1>3, FS_CardinalityType
<1> QED
  BY <1>1, <1>2, <1>3, <1>4 DEF InflightAccounting

\* A step by which request s begins
LEMMA OneBegins ==
    ASSUME InflightAccounting, TypeOK, NEW s \in Streams, stage[s] = "new",
           stage' = [stage EXCEPT ![s] = "begun"]
    PROVE  Underway' = Underway \union {s} /\ inflight + 1 = Cardinality(Underway')
<1>1. Underway' = Underway \union {s} /\ s \notin Underway
  BY DEF Underway, TypeOK
<1>2. IsFiniteSet(Underway)
  BY UnderwayFinite DEF Underway
<1> QED
  BY <1>1, <1>2, FS_AddElement DEF InflightAccounting

\* The count stays within its type.
LEMMA CountInRange ==
    ASSUME InflightAccounting
    PROVE  inflight \in 0 .. Cardinality(Streams)
<1>1. Underway \subseteq Streams
  BY DEF Underway
<1> QED
  BY <1>1, UnderwayFinite DEF InflightAccounting

----------------------------------------------------------------------------
(* The initial states *)

\* Nothing is loaded, and nobody has asked for anything.
LEMMA InitInvariant == Init => IInv
<1> SUFFICES ASSUME Init PROVE IInv
  OBVIOUS
<1>1. Underway = {}
  BY DEF Init, Underway
<1>2. InflightAccounting
  BY <1>1, FS_EmptySet DEF Init, InflightAccounting
<1>3. TypeOK
  BY <1>2, CountInRange DEF Init, TypeOK
<1> QED
  BY <1>1, <1>2, <1>3
  DEF Init, IInv, NeverClosedInUse, OneOperationAtATime, LoadedMeansServing,
      UnloaderNotForgotten, HeldInv, LoadPcs, UnloadPcs

----------------------------------------------------------------------------
(* Steps of requests *)

\* A step of a request on its way through the executor
LEMMA RequestMoves ==
    ASSUME IInv, NEW s \in Underway, NEW p \in {"waiting", "serving", "rejected", "leaving"},
           stage' = [stage EXCEPT ![s] = p],
           UNCHANGED <<lifecycle, inflight, installed, runtime, accepting, adminVars, at>>
    PROVE  IInv'
<1>1. Underway' = Underway
  BY NoneBeginsOrEnds DEF Underway, IInv, TypeOK
<1>2. TypeOK'
  BY DEF IInv, TypeOK, adminVars
<1> QED
  BY <1>1, <1>2
  DEF IInv, InflightAccounting, NeverClosedInUse, OneOperationAtATime,
      LoadedMeansServing, UnloaderNotForgotten, HeldInv, adminVars

\* The wake-up of a waiting unloader
LEMMA Wakes ==
    ASSUME TypeOK
    PROVE  /\ Woken \in [Admins -> {"idle"} \union LoadPcs \union UnloadPcs]
           /\ \A a \in Admins :
                 /\ Woken[a] # "waiting"
                 /\ Woken[a] \in LoadPcs <=> pc[a] \in LoadPcs
                 /\ Woken[a] \in UnloadPcs <=> pc[a] \in UnloadPcs
                 /\ Woken[a] = "idle" <=> pc[a] = "idle"
                 /\ pc[a] # "waiting" /\ pc[a] # "draining" => Woken[a] = pc[a]
                 /\ Woken[a] # "draining" => Woken[a] = pc[a]
  BY DEF TypeOK, Woken, LoadPcs, UnloadPcs

\* A request ends, counts itself down and wakes the unloader.
LEMMA RequestEnds ==
    ASSUME IInv, NEW s \in Underway, stage' = [stage EXCEPT ![s] = "ended"],
           IF inflight > 0
           THEN inflight' = inflight - 1 /\ NotifyAll
           ELSE UNCHANGED <<inflight, pc>>,
           UNCHANGED <<lifecycle, installed, runtime, accepting, mine, late, at>>
    PROVE  IInv'
<1>1. /\ Underway' = Underway \ {s}
      /\ InflightAccounting'
      /\ pc' = Woken
  BY OneEnds DEF IInv, InflightAccounting, NotifyAll
<1>2. inflight' \in 0 .. Cardinality(Streams)
  <2>1. Underway' \subseteq Streams
    BY DEF Underway
  <2> QED
    BY <1>1, <2>1, UnderwayFinite DEF InflightAccounting
<1>3. TypeOK'
  BY <1>1, <1>2, Wakes DEF IInv, TypeOK
<1>4. NeverClosedInUse'
  BY <1>1 DEF IInv, NeverClosedInUse
<1>5. OneOperationAtATime'
  BY <1>1, Wakes DEF IInv, OneOperationAtATime
<1>6. LoadedMeansServing'
  BY DEF IInv, LoadedMeansServing
<1>7. UnloaderNotForgotten'
  BY <1>1, Wakes DEF IInv, UnloaderNotForgotten
<1>8. HeldInv'
  BY <1>1, Wakes DEF IInv, HeldInv
<1> QED
  BY <1>1, <1>3, <1>4, <1>5, <1>6, <1>7, <1>8 DEF IInv

\* A request begins only while its instance is installed, hence open.
LEMMA StreamBeginKeeps ==
    ASSUME IInv, NEW s \in Streams, StreamBegin(s)
    PROVE  IInv'
<1>1. /\ Underway' = Underway \union {s}
      /\ InflightAccounting'
  BY OneBegins DEF IInv, InflightAccounting, StreamBegin
<1>2. inflight' \in 0 .. Cardinality(Streams)
  <2>1. Underway' \subseteq Streams
    BY DEF Underway
  <2> QED
    BY <1>1, <2>1, UnderwayFinite DEF InflightAccounting
<1>3. TypeOK'
  BY <1>2 DEF IInv, TypeOK, StreamBegin, adminVars
<1>4. NeverClosedInUse'
  BY <1>1 DEF IInv, TypeOK, NeverClosedInUse, HeldInv, StreamBegin
<1>5. OneOperationAtATime' /\ LoadedMeansServing'
  BY DEF IInv, OneOperationAtATime, LoadedMeansServing, StreamBegin, adminVars
<1>6. UnloaderNotForgotten'
  BY <1>2 DEF IInv, TypeOK, UnloaderNotForgotten, StreamBegin, adminVars
<1>7. HeldInv'
  BY DEF IInv, HeldInv, OneOperationAtATime, UnloadPcs, StreamBegin, adminVars
<1> QED
  BY <1>1, <1>3, <1>4, <1>5, <1>6, <1>7 DEF IInv

\* Every step of a request keeps the invariant.
LEMMA StreamKeeps ==
    ASSUME IInv, NEW s \in Streams,
           StreamBegin(s) \/ StreamStep(s) \/ Serve(s) \/ Withdraw(s) \/ Served(s)
    PROVE  IInv'
<1>1. CASE StreamBegin(s)
  BY <1>1, StreamBeginKeeps
<1>2. CASE Enqueue(s)
  BY <1>2, RequestMoves DEF Enqueue, Underway
<1>3. CASE StreamFinished(s)
  BY <1>3, RequestEnds DEF StreamFinished, Underway
<1>4. CASE Serve(s)
  BY <1>4, RequestMoves DEF Serve, Underway
<1>5. CASE Withdraw(s)
  BY <1>5, RequestMoves DEF Withdraw, Underway
<1>6. CASE Served(s)
  BY <1>6, RequestMoves DEF Served, Underway
<1> QED
  BY <1>1, <1>2, <1>3, <1>4, <1>5, <1>6 DEF StreamStep

----------------------------------------------------------------------------
(* Steps of administrators *)

\* A step of an administrator that leaves the requests alone
LEMMA RequestsStay ==
    ASSUME IInv, UNCHANGED <<inflight, streamVars>>
    PROVE  /\ Underway' = Underway
           /\ InflightAccounting'
           /\ inflight \in 0 .. Cardinality(Streams)
<1>1. Underway' = Underway
  BY DEF Underway, streamVars
<1> QED
  BY <1>1, CountInRange DEF IInv, InflightAccounting

\* An administrator who loads or unloads is the only one who does.
LEMMA Alone ==
    ASSUME IInv, NEW a \in Admins, pc[a] # "idle" \/ lifecycle \notin {"loading", "unloading"}
    PROVE  \A b \in Admins \ {a} : pc[b] = "idle"
  BY DEF IInv, TypeOK, OneOperationAtATime, LoadPcs, UnloadPcs

\* An administrator moves on while the others are idle.
LEMMA AloneMoves ==
    ASSUME IInv, NEW a \in Admins, NEW p \in {"idle"} \union LoadPcs \union UnloadPcs,
           \A b \in Admins \ {a} : pc[b] = "idle",
           GoTo(a, p) \/ NotifyAllAndGoTo(a, p),
           lifecycle' = "loading" <=> p \in LoadPcs,
           lifecycle' = "unloading" <=> p \in UnloadPcs
    PROVE  /\ pc' \in [Admins -> {"idle"} \union LoadPcs \union UnloadPcs]
           /\ pc'[a] = p
           /\ \A b \in Admins \ {a} : pc'[b] = "idle"
           /\ OneOperationAtATime'
<1>1. pc' \in [Admins -> {"idle"} \union LoadPcs \union UnloadPcs]
  BY DEF IInv, TypeOK, GoTo, NotifyAllAndGoTo, Woken, LoadPcs, UnloadPcs
<1>2. pc'[a] = p /\ \A b \in Admins \ {a} : pc'[b] = "idle"
  BY DEF IInv, TypeOK, GoTo, NotifyAllAndGoTo, Woken
<1>3. "idle" \notin LoadPcs /\ "idle" \notin UnloadPcs
  BY DEF LoadPcs, UnloadPcs
<1>4. \A q \in Admins : pc'[q] # "idle" => q = a
  BY <1>2
<1>5. /\ (lifecycle' = "loading") = (\E q \in Admins : pc'[q] \in LoadPcs)
      /\ (lifecycle' = "unloading") = (\E q \in Admins : pc'[q] \in UnloadPcs)
  BY <1>2, <1>3, <1>4
<1>6. OneOperationAtATime'
  BY <1>4, <1>5 DEF OneOperationAtATime
<1> QED
  BY <1>1, <1>2, <1>6

\* What is left to show of a step by which a, alone, goes on to p without
\* touching the requests
LEMMA AdminMoves ==
    ASSUME IInv, NEW a \in Admins, NEW p \in {"idle"} \union LoadPcs \union UnloadPcs,
           pc[a] # "idle" \/ lifecycle \notin {"loading", "unloading"},
           GoTo(a, p) \/ NotifyAllAndGoTo(a, p),
           lifecycle' = "loading" <=> p \in LoadPcs,
           lifecycle' = "unloading" <=> p \in UnloadPcs,
           UNCHANGED <<inflight, streamVars>>,
           lifecycle' \in {"unloaded", "loading", "loaded", "unloading", "failed"},
           installed' \in Instances \union {None},
           runtime' \in [Instances -> {"none", "open", "closed"}],
           accepting' \in [Instances -> BOOLEAN],
           mine' \in [Admins -> Instances \union {None}],
           late' \in [Admins -> BOOLEAN],
           \A i \in Instances : runtime[i] = "open" /\ runtime'[i] # "open" => Underway = {},
           installed' # None => runtime'[installed'] = "open",
           p \in {"checking", "installing"} => mine'[a] # None /\ runtime'[mine'[a]] = "open",
           p = "installing" => accepting'[mine'[a]],
           p \in {"closing", "ending"} => installed' = None /\ Underway = {},
           p = "waiting" => inflight > 0,
           LoadedMeansServing'
    PROVE  IInv'
<1>1. Underway' = Underway /\ InflightAccounting' /\ inflight \in 0 .. Cardinality(Streams)
  BY RequestsStay
<1>2. \A b \in Admins \ {a} : pc[b] = "idle"
  BY Alone
<1>3. /\ pc' \in [Admins -> {"idle"} \union LoadPcs \union UnloadPcs]
      /\ pc'[a] = p
      /\ \A b \in Admins \ {a} : pc'[b] = "idle"
      /\ OneOperationAtATime'
  BY <1>2, AloneMoves
<1>4. TypeOK'
  BY <1>1, <1>3 DEF IInv, TypeOK, streamVars
<1>5. NeverClosedInUse'
  BY <1>1 DEF IInv, NeverClosedInUse, streamVars
<1>6. UnloaderNotForgotten'
  BY <1>3 DEF UnloaderNotForgotten
<1>7. HeldInv'
  BY <1>1, <1>3 DEF HeldInv
<1> QED
  BY <1>1, <1>3, <1>4, <1>5, <1>6, <1>7 DEF IInv

\* The lifecycle tells what a thread that is not idle does.
LEMMA Doing ==
    ASSUME IInv, NEW a \in Admins
    PROVE  /\ pc[a] \in LoadPcs => lifecycle = "loading"
           /\ pc[a] \in UnloadPcs => lifecycle = "unloading"
  BY DEF IInv, OneOperationAtATime

\* Every step of load_model keeps the invariant.
LEMMA LoadKeeps ==
    ASSUME IInv, NEW a \in Admins,
           \/ LoadBegin(a) \/ LoadRuntime(a) \/ LoadExecutor(a)
           \/ LoadFail(a) \/ LoadInstall(a)
    PROVE  IInv'
<1> USE DEF LoadPcs, UnloadPcs
<1>0. IInv /\ TypeOK /\ HeldInv /\ LoadedMeansServing
  BY DEF IInv
<1>1. CASE LoadBegin(a)
  BY <1>0, <1>1, Doing, AdminMoves
  DEF TypeOK, HeldInv, LoadedMeansServing, LoadBegin, streamVars
<1>2. CASE LoadRuntime(a)
  <2>0. /\ pc[a] = "building" /\ lifecycle = "loading"
        /\ UNCHANGED <<lifecycle, inflight, installed, accepting, late, streamVars>>
    BY <1>0, <1>2, Doing DEF LoadRuntime
  <2>1. CASE GoTo(a, "failing") /\ UNCHANGED <<runtime, mine>>
    BY <1>0, <2>0, <2>1, AdminMoves DEF TypeOK, HeldInv, LoadedMeansServing
  <2>2. ASSUME NEW i \in Unused, runtime' = [runtime EXCEPT ![i] = "open"],
               mine' = [mine EXCEPT ![a] = i], GoTo(a, "checking")
        PROVE  IInv'
    <3>1. i \in Instances /\ i # None
      BY DEF Unused, Instances
    <3>2. /\ runtime' \in [Instances -> {"none", "open", "closed"}]
          /\ mine' \in [Admins -> Instances \union {None}]
          /\ mine'[a] = i /\ runtime'[i] = "open"
          /\ \A k \in Instances : runtime[k] = "open" => runtime'[k] = "open"
      BY <1>0, <2>2, <3>1 DEF TypeOK
    <3> QED
      BY <1>0, <2>0, <2>2, <3>1, <3>2, AdminMoves DEF TypeOK, HeldInv, LoadedMeansServing
  <2> QED
    BY <1>2, <2>1, <2>2 DEF LoadRuntime
<1>3. CASE LoadExecutor(a)
  <2>1. CASE GoTo(a, "failing")
    BY <1>0, <1>3, <2>1, Doing, AdminMoves
    DEF TypeOK, HeldInv, LoadedMeansServing, LoadExecutor, streamVars
  <2>2. CASE GoTo(a, "installing")
    BY <1>0, <1>3, <2>2, Doing, AdminMoves
    DEF TypeOK, HeldInv, LoadedMeansServing, LoadExecutor, streamVars
  <2> QED
    BY <1>3, <2>1, <2>2 DEF LoadExecutor
<1>4. CASE LoadFail(a)
  BY <1>0, <1>4, Doing, AdminMoves
  DEF TypeOK, HeldInv, LoadedMeansServing, LoadFail, streamVars
<1>5. CASE LoadInstall(a)
  BY <1>0, <1>5, Doing, AdminMoves
  DEF TypeOK, HeldInv, LoadedMeansServing, LoadInstall, streamVars
<1> QED
  BY <1>1, <1>2, <1>3, <1>4, <1>5

\* Every step of unload_model that leaves the requests alone keeps the invariant.
LEMMA UnloadKeeps ==
    ASSUME IInv, NEW a \in Admins,
           \/ UnloadBegin(a) \/ AllTurnedAway(a) \/ DeadlinePasses(a)
           \/ UnloadWaits(a) \/ UnloadTimesOut(a) \/ UnloadPops(a)
           \/ UnloadCloses(a) \/ UnloadEnds(a)
    PROVE  IInv'
<1> USE DEF LoadPcs, UnloadPcs
<1>0. IInv /\ TypeOK /\ HeldInv /\ LoadedMeansServing
  BY DEF IInv
<1>1. CASE UnloadBegin(a)
  BY <1>0, <1>1, Doing, AdminMoves
  DEF TypeOK, HeldInv, LoadedMeansServing, UnloadBegin, streamVars
<1>2. CASE AllTurnedAway(a)
  BY <1>0, <1>2, Doing, AdminMoves
  DEF TypeOK, HeldInv, LoadedMeansServing, AllTurnedAway, streamVars
<1>3. CASE DeadlinePasses(a)
  BY <1>0, <1>3, Doing, AdminMoves
  DEF TypeOK, HeldInv, LoadedMeansServing, DeadlinePasses, streamVars
<1>4. CASE UnloadWaits(a)
  BY <1>0, <1>4, Doing, AdminMoves
  DEF TypeOK, HeldInv, LoadedMeansServing, UnloadWaits, streamVars
<1>5. CASE UnloadTimesOut(a)
  BY <1>0, <1>5, Doing, AdminMoves
  DEF TypeOK, HeldInv, LoadedMeansServing, UnloadTimesOut, streamVars
<1>6. CASE UnloadPops(a)
  <2>1. Underway = {}
    <3>1. IsFiniteSet(Underway) /\ Cardinality(Underway) = 0
      BY <1>0, <1>6, UnderwayFinite DEF IInv, InflightAccounting, UnloadPops, Underway
    <3> QED
      BY <3>1, FS_EmptySet
  <2> QED
    BY <1>0, <1>6, <2>1, Doing, AdminMoves
    DEF TypeOK, HeldInv, LoadedMeansServing, UnloadPops, streamVars
<1>7. CASE UnloadCloses(a)
  BY <1>0, <1>7, Doing, AdminMoves
  DEF TypeOK, HeldInv, LoadedMeansServing, UnloadCloses, streamVars
<1>8. CASE UnloadEnds(a)
  BY <1>0, <1>8, Doing, AdminMoves
  DEF TypeOK, HeldInv, LoadedMeansServing, UnloadEnds, streamVars
<1> QED
  BY <1>1, <1>2, <1>3, <1>4, <1>5, <1>6, <1>7, <1>8

\* begin_shutdown takes requests from the queue; no request begins or ends.
LEMMA BeginShutdownKeeps ==
    ASSUME IInv, NEW a \in Admins, BeginShutdown(a)
    PROVE  IInv'
<1> USE DEF LoadPcs, UnloadPcs
<1>0. /\ IInv /\ TypeOK /\ lifecycle = "unloading" /\ lifecycle' = lifecycle
      /\ GoTo(a, "turning_away")
      /\ UNCHANGED <<inflight, installed, runtime, mine, late, at>>
  BY Doing DEF IInv, BeginShutdown
<1>1. Underway' = Underway
  <2>1. \A s \in Streams :
            stage[s] \in {"new", "ended"} <=> stage'[s] \in {"new", "ended"}
    BY DEF IInv, TypeOK, BeginShutdown, At
  <2> QED
    BY <2>1, NoneBeginsOrEnds
<1>2. /\ pc' \in [Admins -> {"idle"} \union LoadPcs \union UnloadPcs]
      /\ pc'[a] = "turning_away"
      /\ \A b \in Admins \ {a} : pc'[b] = "idle"
      /\ OneOperationAtATime'
  BY <1>0, Alone, AloneMoves DEF BeginShutdown
<1>3. TypeOK'
  <2>1. CASE mine[a] = None
    BY <1>0, <1>2, <2>1 DEF TypeOK, BeginShutdown
  <2>2. CASE mine[a] # None
    <3>1. accepting' \in [Instances -> BOOLEAN]
      BY <1>0, <2>2 DEF TypeOK, BeginShutdown
    <3>2. stage' \in [Streams -> {"new", "begun", "waiting", "serving", "drained",
                                  "rejected", "leaving", "ended"}]
      BY <1>0, <2>2 DEF TypeOK, BeginShutdown
    <3> QED
      BY <1>0, <1>2, <3>1, <3>2 DEF TypeOK
  <2> QED
    BY <2>1, <2>2
<1>4. InflightAccounting' /\ NeverClosedInUse' /\ LoadedMeansServing'
  BY <1>0, <1>1 DEF IInv, InflightAccounting, NeverClosedInUse, LoadedMeansServing
<1>5. UnloaderNotForgotten' /\ HeldInv'
  BY <1>0, <1>1, <1>2 DEF IInv, UnloaderNotForgotten, HeldInv
<1> QED
  BY <1>2, <1>3, <1>4, <1>5 DEF IInv

----------------------------------------------------------------------------
(* The theorems *)

\* Every step of every thread keeps the inductive invariant.
THEOREM NextInvariant == IInv /\ [Next]_vars => IInv'
<1> SUFFICES ASSUME IInv, [Next]_vars PROVE IInv'
  OBVIOUS
<1>1. CASE UNCHANGED vars
  <2>1. Underway' = Underway
    BY <1>1, NoneBeginsOrEnds DEF vars, streamVars
  <2> QED
    BY <1>1, <2>1
    DEF IInv, vars, adminVars, streamVars, TypeOK, InflightAccounting, NeverClosedInUse,
        OneOperationAtATime, LoadedMeansServing, UnloaderNotForgotten, HeldInv
<1>2. ASSUME NEW s \in Streams,
             StreamBegin(s) \/ StreamStep(s) \/ Serve(s) \/ Withdraw(s) \/ Served(s)
      PROVE  IInv'
  BY <1>2, StreamKeeps
<1>3. ASSUME NEW a \in Admins, NEW s \in Streams, TurnAway(a, s)
      PROVE  IInv'
  BY <1>3, RequestEnds DEF TurnAway, Underway
<1>4. ASSUME NEW a \in Admins, BeginShutdown(a)
      PROVE  IInv'
  BY <1>4, BeginShutdownKeeps
<1>5. ASSUME NEW a \in Admins,
             \/ LoadBegin(a) \/ LoadRuntime(a) \/ LoadExecutor(a)
             \/ LoadFail(a) \/ LoadInstall(a)
      PROVE  IInv'
  BY <1>5, LoadKeeps
<1>6. ASSUME NEW a \in Admins,
             \/ UnloadBegin(a) \/ AllTurnedAway(a) \/ DeadlinePasses(a)
             \/ UnloadWaits(a) \/ UnloadTimesOut(a) \/ UnloadPops(a)
             \/ UnloadCloses(a) \/ UnloadEnds(a)
      PROVE  IInv'
  BY <1>6, UnloadKeeps
<1> QED
  BY <1>1, <1>2, <1>3, <1>4, <1>5, <1>6 DEF Next, AdminStep

\* The inductive invariant holds always.
LEMMA Invariance == Spec => []IInv
<1>1. Init => IInv
  BY InitInvariant
<1>2. IInv /\ [Next]_vars => IInv'
  BY NextInvariant
<1> QED
  BY <1>1, <1>2, PTL DEF Spec

\* The variables of the router always have their types.
THEOREM TypeCorrect == Spec => []TypeOK
<1>1. IInv => TypeOK
  BY DEF IInv
<1> QED
  BY <1>1, Invariance, PTL

\* inflight_requests counts the requests under way, for any number of requests,
\* administrators and reloads.
THEOREM InflightSafety == Spec => []InflightAccounting
<1>1. IInv => InflightAccounting
  BY DEF IInv
<1> QED
  BY <1>1, Invariance, PTL

\* No runtime is closed while a request is in it or on its way to it, however
\* many unloads time out and loads replace the instance.
THEOREM CloseSafety == Spec => []NeverClosedInUse
<1>1. IInv => NeverClosedInUse
  BY DEF IInv
<1> QED
  BY <1>1, Invariance, PTL

\* Loads and unloads exclude each other through the lifecycle alone.
THEOREM OperationsExclude == Spec => []OneOperationAtATime
<1>1. IInv => OneOperationAtATime
  BY DEF IInv
<1> QED
  BY <1>1, Invariance, PTL

\* A model listed as loaded has an open runtime and an executor that accepts.
THEOREM LoadedSafety == Spec => []LoadedMeansServing
<1>1. IInv => LoadedMeansServing
  BY DEF IInv
<1> QED
  BY <1>1, Invariance, PTL

\* An unloader that waits has a request to wait for.
THEOREM UnloaderSafety == Spec => []UnloaderNotForgotten
<1>1. IInv => UnloaderNotForgotten
  BY DEF IInv
<1> QED
  BY <1>1, Invariance, PTL

----------------------------------------------------------------------------
(* The process implements the router *)

\* What a step of the process does to the router is a step of the router, or
\* nothing.
LEMMA StepsAreRouterSteps == [ServerNext]_serverVars => [Next]_vars
<1> USE DEF Next
<1>1. CASE Build \/ Close
  BY <1>1, ServerAssumption DEF Build, Close, Become
<1>2. CASE Stop \/ Built \/ Start \/ Announce \/ GraceEnds \/ Closed
  BY <1>2 DEF Stop, Built, Start, Announce, GraceEnds, Closed, Become
<1>3. ASSUME NEW s \in Streams, OnLoop(s) \/ InStream(s) \/ InExecutor(s)
      PROVE  Next
  BY <1>3 DEF OnLoop, InStream, InExecutor
<1>4. ASSUME NEW a \in Http, HttpBegins(a)
      PROVE  Next
  BY <1>4 DEF HttpBegins, Http
<1>5. ASSUME NEW a \in Admins, InRouter(a)
      PROVE  Next
  BY <1>5 DEF InRouter
<1>6. CASE UNCHANGED serverVars
  BY <1>6 DEF serverVars
<1> QED
  BY <1>1, <1>2, <1>3, <1>4, <1>5, <1>6 DEF ServerNext, ProcessStep

\* The process implements the router: every request and administrator in it
\* behaves as module Router says.
THEOREM RunsTheRouter == ServerSpec => Spec
<1>1. ServerInit => Init
  BY DEF ServerInit
<1> QED
  BY <1>1, StepsAreRouterSteps, PTL DEF ServerSpec, Spec

----------------------------------------------------------------------------
\* What a step of a thread inside the router may do to the threads' places: the
\* idle ones stay idle, a loader stays a loader until it is idle, and so does an
\* unloader.
PlacesKept ==
    \A b \in Admins :
        /\ pc[b] = "idle" => pc'[b] = "idle"
        /\ pc[b] \notin LoadPcs => pc'[b] \notin LoadPcs
        /\ pc[b] \notin UnloadPcs => pc'[b] \notin UnloadPcs

\* A thread that moves on, with or without waking the others, keeps its kind.
LEMMA MovesKeepPlaces ==
    ASSUME TypeOK, NEW a \in Admins, pc[a] # "idle",
           NEW p, p \in LoadPcs => pc[a] \in LoadPcs,
           p \in UnloadPcs => pc[a] \in UnloadPcs,
           GoTo(a, p) \/ NotifyAllAndGoTo(a, p)
    PROVE  PlacesKept
<1>1. CASE GoTo(a, p)
  BY <1>1 DEF GoTo, TypeOK, PlacesKept
<1>2. CASE NotifyAllAndGoTo(a, p)
  BY <1>2, Wakes DEF NotifyAllAndGoTo, PlacesKept
<1> QED
  BY <1>1, <1>2

\* A load in progress: it ends loaded or failed, and installs what it loaded.
LEMMA LoadEffect ==
    ASSUME TypeOK, NEW a \in Admins,
           LoadRuntime(a) \/ LoadExecutor(a) \/ LoadFail(a) \/ LoadInstall(a)
    PROVE  /\ PlacesKept
           /\ pc[a] \in LoadPcs
           /\ lifecycle' \in {lifecycle, "failed", "loaded"}
           /\ lifecycle' # "loaded" => installed' = installed
           /\ Underway' = Underway
<1> USE DEF streamVars
<1>1. Underway' = Underway
  BY NoneBeginsOrEnds DEF LoadRuntime, LoadExecutor, LoadFail, LoadInstall
<1>2. CASE LoadRuntime(a)
  <2>1. PICK p \in {"failing", "checking"} : GoTo(a, p)
    BY <1>2 DEF LoadRuntime
  <2> QED
    BY <1>1, <1>2, <2>1, MovesKeepPlaces DEF LoadRuntime, LoadPcs, UnloadPcs
<1>3. CASE LoadExecutor(a)
  <2>1. PICK p \in {"failing", "installing"} : GoTo(a, p)
    BY <1>3 DEF LoadExecutor
  <2> QED
    BY <1>1, <1>3, <2>1, MovesKeepPlaces DEF LoadExecutor, LoadPcs, UnloadPcs
<1>4. CASE LoadFail(a)
  BY <1>1, <1>4, MovesKeepPlaces DEF LoadFail, LoadPcs, UnloadPcs
<1>5. CASE LoadInstall(a)
  BY <1>1, <1>5, MovesKeepPlaces DEF LoadInstall, LoadPcs, UnloadPcs
<1> QED
  BY <1>2, <1>3, <1>4, <1>5

\* An unload in progress: it ends failed or, when nothing is left, unloaded.
LEMMA UnloadEffect ==
    ASSUME IInv, NEW a \in Admins,
           \/ BeginShutdown(a) \/ AllTurnedAway(a) \/ DeadlinePasses(a)
           \/ UnloadWaits(a) \/ UnloadTimesOut(a) \/ UnloadPops(a)
           \/ UnloadCloses(a) \/ UnloadEnds(a)
           \/ \E s \in Streams : TurnAway(a, s)
    PROVE  /\ PlacesKept
           /\ pc[a] \in UnloadPcs
           /\ \/ lifecycle' \in {lifecycle, "failed"}
              \/ /\ lifecycle' = "unloaded"
                 /\ installed' = None /\ Underway' = {}
           /\ installed' \in {None, installed}
           /\ Underway' \subseteq Underway
<1> USE DEF streamVars
<1>1. TypeOK
  BY DEF IInv
<1>2. Underway' \subseteq Underway
  BY <1>1 DEF Underway, At, TypeOK, BeginShutdown, AllTurnedAway, DeadlinePasses,
              UnloadWaits, UnloadTimesOut, UnloadPops, UnloadCloses, UnloadEnds,
              TurnAway
<1>3. CASE BeginShutdown(a) \/ AllTurnedAway(a)
  BY <1>1, <1>2, <1>3, MovesKeepPlaces
  DEF BeginShutdown, AllTurnedAway, LoadPcs, UnloadPcs
<1>4. CASE DeadlinePasses(a) \/ UnloadWaits(a)
  BY <1>1, <1>2, <1>4, MovesKeepPlaces
  DEF DeadlinePasses, UnloadWaits, LoadPcs, UnloadPcs
<1>5. CASE UnloadTimesOut(a)
  BY <1>1, <1>2, <1>5, MovesKeepPlaces DEF UnloadTimesOut, LoadPcs, UnloadPcs
<1>6. CASE UnloadPops(a) \/ UnloadCloses(a)
  BY <1>1, <1>2, <1>6, MovesKeepPlaces DEF UnloadPops, UnloadCloses, LoadPcs, UnloadPcs
<1>7. CASE UnloadEnds(a)
  BY <1>1, <1>2, <1>7, MovesKeepPlaces
  DEF IInv, HeldInv, UnloadEnds, LoadPcs, UnloadPcs
<1>8. CASE \E s \in Streams : TurnAway(a, s)
  <2>1. pc' = Woken \/ pc' = pc
    BY <1>8 DEF TurnAway, NotifyAll
  <2>2. PlacesKept
    BY <1>1, <2>1, Wakes DEF PlacesKept
  <2> QED
    BY <1>2, <1>8, <2>2 DEF TurnAway, UnloadPcs
<1> QED
  BY <1>3, <1>4, <1>5, <1>6, <1>7, <1>8

\* A step of a request touches no administrator but to wake one, and begins only
\* while the model is loaded.
LEMMA RequestEffect ==
    ASSUME IInv, NEW s \in Streams,
           StreamBegin(s) \/ StreamStep(s) \/ Serve(s) \/ Withdraw(s) \/ Served(s)
    PROVE  /\ PlacesKept
           /\ UNCHANGED <<lifecycle, installed>>
           /\ lifecycle = "loaded" \/ Underway' \subseteq Underway
<1> USE DEF adminVars
<1>1. pc' = Woken \/ pc' = pc
  BY DEF StreamBegin, StreamStep, Enqueue, StreamFinished, NotifyAll, Serve, Withdraw,
         Served
<1>2. PlacesKept
  BY <1>1, Wakes DEF PlacesKept, IInv
<1>3. TypeOK
  BY DEF IInv
<1>4. CASE StreamBegin(s)
  BY <1>2, <1>4 DEF StreamBegin
<1>5. CASE StreamStep(s) \/ Serve(s) \/ Withdraw(s) \/ Served(s)
  <2>1. Underway' \subseteq Underway
    BY <1>3, <1>5 DEF StreamStep, Enqueue, StreamFinished, Serve, Withdraw, Served,
                      Underway, TypeOK
  <2> QED
    BY <1>2, <1>5, <2>1 DEF StreamStep, Enqueue, StreamFinished, Serve, Withdraw, Served
<1> QED
  BY <1>4, <1>5

----------------------------------------------------------------------------
(* The phases *)

\* The part of ServerInv that is about the phases
PhaseInv ==
    /\ phase \in Phases
    /\ phase # "loading" /\ phase # "unloading" => pc[Main] = "idle"
    /\ phase # "serving" => \A a \in Http : pc[a] = "idle"
    /\ phase = "loading" => pc[Main] \notin UnloadPcs
    /\ phase = "unloading" =>
          /\ pc[Main] \notin LoadPcs
          /\ lifecycle \in {"unloading", "unloaded", "failed"}
    /\ phase = "ended" => lifecycle \in {"unloaded", "failed"}
    /\ lifecycle = "unloaded" => installed = None /\ Underway = {}

\* When no administrator is in the router, no operation is recorded.
LEMMA NobodyInside ==
    ASSUME OneOperationAtATime, \A a \in Admins : pc[a] = "idle"
    PROVE  lifecycle # "loading" /\ lifecycle # "unloading"
  BY DEF OneOperationAtATime, LoadPcs, UnloadPcs

\* A step inside the phase: requests
LEMMA RequestsKeepPhase ==
    ASSUME ServerInv, UNCHANGED phase, NEW s \in Streams,
           StreamBegin(s) \/ StreamStep(s) \/ Serve(s) \/ Withdraw(s) \/ Served(s)
    PROVE  PhaseInv'
<1>1. /\ PlacesKept
      /\ UNCHANGED <<lifecycle, installed>>
      /\ lifecycle = "loaded" \/ Underway' \subseteq Underway
  BY RequestEffect DEF ServerInv
<1> QED
  BY <1>1, ServerAssumption DEF ServerInv, PhaseInv, PlacesKept, Http

\* A step inside the phase: administrators, in the middle of an operation
LEMMA AdminsKeepPhase ==
    ASSUME ServerInv, UNCHANGED phase, NEW a \in Admins, InRouter(a)
    PROVE  PhaseInv'
<1>1. /\ phase # "serving" => a = Main
      /\ phase \in {"serving", "loading", "unloading"}
      /\ phase = "loading" => pc[a] \notin UnloadPcs
      /\ phase = "unloading" => pc[a] \notin LoadPcs
  <2>1. pc[a] # "idle"
    BY DEF InRouter, AdminStep, LoadRuntime, DeadlinePasses, UnloadCloses, LoadExecutor,
           LoadFail, LoadInstall, BeginShutdown, AllTurnedAway, TurnAway, UnloadWaits,
           UnloadTimesOut, UnloadPops, UnloadEnds
  <2> QED
    BY <2>1 DEF ServerInv, Http
<1>2. CASE LoadRuntime(a) \/ LoadExecutor(a) \/ LoadFail(a) \/ LoadInstall(a)
  <2>1. /\ PlacesKept
        /\ pc[a] \in LoadPcs
        /\ lifecycle' \in {lifecycle, "failed", "loaded"}
        /\ lifecycle' # "loaded" => installed' = installed
        /\ Underway' = Underway
    BY <1>2, LoadEffect DEF ServerInv, IInv
  <2> QED
    BY <1>1, <2>1, ServerAssumption DEF ServerInv, PhaseInv, PlacesKept, Http
<1>3. CASE \/ BeginShutdown(a) \/ AllTurnedAway(a) \/ DeadlinePasses(a)
           \/ UnloadWaits(a) \/ UnloadTimesOut(a) \/ UnloadPops(a)
           \/ UnloadCloses(a) \/ UnloadEnds(a)
           \/ \E s \in Streams : TurnAway(a, s)
  <2>1. /\ PlacesKept
        /\ pc[a] \in UnloadPcs
        /\ \/ lifecycle' \in {lifecycle, "failed"}
           \/ lifecycle' = "unloaded" /\ installed' = None /\ Underway' = {}
        /\ installed' \in {None, installed}
        /\ Underway' \subseteq Underway
    BY <1>3, UnloadEffect DEF ServerInv
  <2> QED
    BY <1>1, <2>1, ServerAssumption DEF ServerInv, PhaseInv, PlacesKept, Http
<1> QED
  BY <1>2, <1>3 DEF InRouter, AdminStep

\* The beginning of an operation, by an HTTP request or by the lifespan
LEMMA BeginsKeepPhase ==
    ASSUME ServerInv, NEW a \in Admins,
           \/ a = Main /\ phase = "building" /\ phase' = "loading" /\ LoadBegin(a)
           \/ a = Main /\ phase = "closing" /\ phase' = "unloading" /\ UnloadBegin(a)
           \/ a \in Http /\ HttpBegins(a) /\ UNCHANGED phase
    PROVE  PhaseInv'
<1>1. /\ \A b \in Admins : b # a => pc'[b] = pc[b]
      /\ LoadBegin(a) => pc'[a] = "building"
      /\ UnloadBegin(a) => pc'[a] = "shutting"
  BY DEF LoadBegin, UnloadBegin, GoTo, HttpBegins, ServerInv, IInv, TypeOK
<1>2. /\ installed' = installed
      /\ lifecycle' \in {"loading", "unloading"}
      /\ UnloadBegin(a) => lifecycle' = "unloading"
  BY DEF LoadBegin, UnloadBegin, HttpBegins
<1>3. CASE a = Main /\ phase = "building" /\ phase' = "loading" /\ LoadBegin(a)
  BY <1>1, <1>2, <1>3 DEF ServerInv, PhaseInv, Phases, Http, UnloadPcs
<1>4. CASE a = Main /\ phase = "closing" /\ phase' = "unloading" /\ UnloadBegin(a)
  BY <1>1, <1>2, <1>4 DEF ServerInv, PhaseInv, Phases, Http, LoadPcs
<1>5. CASE a \in Http /\ HttpBegins(a) /\ UNCHANGED phase
  BY <1>1, <1>2, <1>5, ServerAssumption
  DEF ServerInv, PhaseInv, Phases, Http, HttpBegins
<1> QED
  BY <1>3, <1>4, <1>5

\* The phases follow each other.
LEMMA PhasesKeep ==
    ASSUME ServerInv,
           \/ Stop \/ Built \/ Start \/ Announce \/ GraceEnds \/ Closed
           \/ Build /\ Become("starting")
           \/ Close /\ Become("ended")
    PROVE  PhaseInv'
<1>1. UNCHANGED vars
  BY DEF Stop, Built, Start, Announce, GraceEnds, Closed, Become
<1>2. /\ UNCHANGED <<pc, lifecycle, installed>>
      /\ Underway' = Underway
  BY <1>1 DEF vars, adminVars, streamVars, Underway
<1>3. CASE Stop \/ Built \/ Start \/ Announce \/ GraceEnds
           \/ (Build /\ Become("starting"))
  BY <1>2, <1>3
  DEF ServerInv, PhaseInv, Phases, Stop, Built, Start, Announce, GraceEnds, Build, Become
<1>4. CASE Closed \/ (Close /\ Become("ended"))
  <2>1. \A a \in Admins : pc[a] = "idle"
    BY <1>4 DEF ServerInv, Closed, Close, Http
  <2>2. lifecycle # "loading" /\ lifecycle # "unloading"
    BY <2>1, NobodyInside DEF ServerInv, IInv
  <2>3. lifecycle \in {"unloaded", "failed"}
    BY <1>4, <2>2 DEF Closed, Close, Become, ServerInv, vars, UnloadBegin
  <2> QED
    BY <1>2, <1>4, <2>1, <2>3 DEF ServerInv, PhaseInv, Phases, Closed, Close, Become
<1> QED
  BY <1>3, <1>4

----------------------------------------------------------------------------
\* Every step of the process keeps ServerInv.
THEOREM ServerInvariant == ServerInv /\ [ServerNext]_serverVars => ServerInv'
<1> SUFFICES ASSUME ServerInv, [ServerNext]_serverVars PROVE ServerInv'
  OBVIOUS
<1>1. IInv'
  BY StepsAreRouterSteps, NextInvariant DEF ServerInv
<1>2. PhaseInv' => ServerInv'
  BY <1>1 DEF PhaseInv, ServerInv
<1>3. CASE Stop \/ Built \/ Start \/ Announce \/ GraceEnds \/ Closed
  BY <1>2, <1>3, PhasesKeep
<1>4. CASE Build \/ Close
  <2>1. CASE (Build /\ Become("starting")) \/ (Close /\ Become("ended"))
    BY <1>2, <2>1, PhasesKeep
  <2>2. CASE phase = "building" /\ phase' = "loading" /\ LoadBegin(Main)
    BY <1>2, <2>2, BeginsKeepPhase, ServerAssumption
  <2>3. CASE phase = "closing" /\ phase' = "unloading" /\ UnloadBegin(Main)
    BY <1>2, <2>3, BeginsKeepPhase, ServerAssumption
  <2> QED
    BY <1>4, <2>1, <2>2, <2>3 DEF Build, Close
<1>5. ASSUME NEW s \in Streams, UNCHANGED phase, OnLoop(s) \/ InStream(s) \/ InExecutor(s)
      PROVE  ServerInv'
  BY <1>2, <1>5, RequestsKeepPhase DEF OnLoop, InStream, InExecutor
<1>6. ASSUME NEW a \in Http, UNCHANGED phase, HttpBegins(a)
      PROVE  ServerInv'
  BY <1>2, <1>6, BeginsKeepPhase DEF Http
<1>7. ASSUME NEW a \in Admins, UNCHANGED phase, InRouter(a)
      PROVE  ServerInv'
  BY <1>2, <1>7, AdminsKeepPhase
<1>8. CASE UNCHANGED serverVars
  <2>1. UNCHANGED <<phase, pc, lifecycle, installed>> /\ Underway' = Underway
    BY <1>8 DEF serverVars, vars, adminVars, streamVars, Underway
  <2> QED
    BY <1>2, <2>1 DEF ServerInv, PhaseInv
<1> QED
  BY <1>3, <1>4, <1>5, <1>6, <1>7, <1>8 DEF ServerNext, ProcessStep

\* The invariant holds always.
LEMMA ServerInvariance == ServerSpec => []ServerInv
<1>1. ServerInit => ServerInv
  <2> SUFFICES ASSUME ServerInit PROVE ServerInv
    OBVIOUS
  <2>1. Underway = {}
    BY DEF ServerInit, Init, Underway
  <2> QED
    BY <2>1, InitInvariant, ServerAssumption
    DEF ServerInit, Init, ServerInv, Phases, Http, UnloadPcs
<1>2. ServerInv /\ [ServerNext]_serverVars => ServerInv'
  BY ServerInvariant
<1> QED
  BY <1>1, <1>2, PTL DEF ServerSpec

\* A process that has ended leaves nobody in the router and no request under
\* way, unless it reports the model as failed.
THEOREM EndSafety == ServerSpec => []EndLeavesNothing
<1>1. ServerInv => EndLeavesNothing
  BY DEF ServerInv, EndLeavesNothing, Http
<1> QED
  BY <1>1, ServerInvariance, PTL
=============================================================================
