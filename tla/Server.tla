------------------------------- MODULE Server -------------------------------
(***************************************************************************)
(* The process around the router: create_app's lifespan (app/main.py), the *)
(* gRPC server it starts and stops (app/grpc_api/server.py), and the       *)
(* engine it builds before and closes after (TTSRouterEngine.__init__ and  *)
(* close).                                                                 *)
(*                                                                         *)
(* One thread, Main, runs the event loop, and with it the lifespan, the    *)
(* beginning of every RPC and its cancellation.  It also loads the model   *)
(* at the start and unloads it at the end, and the loop stands still       *)
(* meanwhile.  The other administrators are HTTP requests in threads of    *)
(* their own.                                                              *)
(***************************************************************************)
EXTENDS RouterProperties

CONSTANT Main

ASSUME ServerAssumption == Main \in Admins

VARIABLE phase   \* where the process stands

serverVars == <<vars, phase>>

Http == Admins \ {Main}

\* The loop runs callbacks: Main is in none of the router's functions, and no
\* RPC is in the middle of engine.stream.
LoopFree ==
    /\ phase \in {"listening", "serving", "grace"}
    /\ \A s \in Streams : stage[s] \notin {"begun", "rejected"}

Become(p) == phase' = p /\ UNCHANGED vars

ServerInit == Init /\ phase = "building"

----------------------------------------------------------------------------
(* The start *)

\* __init__ loads the model if it is enabled, and swallows its failure.
Build ==
    /\ phase = "building"
    /\ \/ phase' = "loading" /\ LoadBegin(Main)
       \/ Become("starting")

Built ==
    /\ phase = "loading"
    /\ pc[Main] = "idle"
    /\ Become("starting")

\* GrpcServer.start: the port cannot be bound, and the lifespan goes on to its
\* finally; or RPCs are accepted,
Start ==
    /\ phase = "starting"
    /\ Become("listening") \/ Become("closing")

\* and are announced once the health service says SERVING.
Announce ==
    /\ phase = "listening"
    /\ LoopFree
    /\ Become("serving")

----------------------------------------------------------------------------
(* The end *)

\* Mutant: HTTP requests may still be under way.
StopEarly ==
    /\ phase = "serving"
    /\ LoopFree
    /\ Become("grace")

\* The HTTP server ends the lifespan when it has answered its requests;
\* GrpcServer.stop says NOT_SERVING, and no RPC is accepted from then on.
Stop ==
    /\ phase = "serving"
    /\ LoopFree
    /\ \A a \in Http : pc[a] = "idle"
    /\ Become("grace")

\* server.stop returns when the RPCs have ended or shutdown_grace_s is over.
GraceEnds ==
    /\ phase = "grace"
    /\ LoopFree
    /\ Become("closing")

\* engine.close: unload_model returns at once, or raises at once, or begins.
Close ==
    /\ phase = "closing"
    /\ pc[Main] = "idle"
    /\ IF lifecycle \in {"unloaded", "loading", "unloading"}
       THEN Become("ended")
       ELSE phase' = "unloading" /\ UnloadBegin(Main)

\* What it raises is swallowed.
Closed ==
    /\ phase = "unloading"
    /\ pc[Main] = "idle"
    /\ Become("ended")

----------------------------------------------------------------------------
(* What the router does meanwhile *)

OnLoop(s) ==
    /\ LoopFree
    /\ \/ phase # "grace" /\ StreamBegin(s)
       \/ Withdraw(s)

\* engine.stream does not let go of the loop, other than to its callbacks.
InStream(s) == stage[s] \in {"begun", "rejected"} /\ StreamStep(s)

InExecutor(s) ==
    \/ stage[s] = "leaving" /\ StreamStep(s)
    \/ Serve(s) \/ Served(s)

HttpBegins(a) == phase = "serving" /\ (LoadBegin(a) \/ UnloadBegin(a))

InRouter(a) == LoadRuntime(a) \/ DeadlinePasses(a) \/ UnloadCloses(a) \/ AdminStep(a)

ProcessStep == Built \/ Start \/ Announce \/ GraceEnds \/ Close \/ Closed

ServerNext ==
    \/ Build \/ Stop \/ ProcessStep
    \/ /\ UNCHANGED phase
       /\ \/ \E s \in Streams : OnLoop(s) \/ InStream(s) \/ InExecutor(s)
          \/ \E a \in Http : HttpBegins(a)
          \/ \E a \in Admins : InRouter(a)

ServerSpec == ServerInit /\ [][ServerNext]_serverVars

\* As in FairSpec; the process goes on by itself, but nobody has to stop it.
FairServerSpec == ServerSpec /\ Fairness /\ WF_serverVars(ProcessStep)

----------------------------------------------------------------------------
(* Properties *)

\* When the process has ended, nobody is left in the router, and either nothing
\* is installed and no request is under way, or the model is listed as failed:
\* a load failed or an unload ran out of time (main.py:31-37, router.py:58-63).
EndLeavesNothing ==
    phase = "ended" =>
        /\ \A a \in Admins : pc[a] = "idle"
        /\ lifecycle \in {"unloaded", "failed"}
        /\ installed # None \/ Underway # {} => lifecycle = "failed"

\* The end of the process is bounded, even if the runtime never returns from a
\* synthesis: it must not wait forever
\* (docs/low-latency-tts-delivery.md:276-279).  Only runtime.close() can hold it
\* up.
ProcessEnds ==
    WF_vars(UnloadCloses(Main))
        => (phase = "grace" ~> phase = "ended")

----------------------------------------------------------------------------
(* The inductive invariant *)

Phases == {"building", "loading", "starting", "listening", "serving", "grace",
           "closing", "unloading", "ended"}

\* Who may be in the router in each phase; an unloaded model has no instance and
\* no request.
ServerInv ==
    /\ IInv
    /\ phase \in Phases
    /\ phase # "loading" /\ phase # "unloading" => pc[Main] = "idle"
    /\ phase # "serving" => \A a \in Http : pc[a] = "idle"
    /\ phase = "loading" => pc[Main] \notin UnloadPcs
    /\ phase = "unloading" =>
          /\ pc[Main] \notin LoadPcs
          /\ lifecycle \in {"unloading", "unloaded", "failed"}
    /\ phase = "ended" => lifecycle \in {"unloaded", "failed"}
    /\ lifecycle = "unloaded" => installed = None /\ Underway = {}
=============================================================================
