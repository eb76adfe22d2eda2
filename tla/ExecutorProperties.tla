------------------------ MODULE ExecutorProperties ------------------------
(***************************************************************************)
(* What makes the executor of a loaded model correct.                      *)
(***************************************************************************)
EXTENDS Executor

\* The job holds a runtime slot: popped by the loop and not yet given back.
SlotPositions == {"popped", "spawned", "dispatched", "running", "returned"}

Positions == SlotPositions \union {"none", "unstarted", "released", "completing", "ended"}

SlotHolders == {j \in Jobs : worker[j] \in SlotPositions}

QueuedJobs == {j \in Jobs : Pending(j)}

----------------------------------------------------------------------------
(* Types *)

KeyStateOK(st) ==
    /\ st \in [pending : Seq(Jobs), active : {st.active}, virtual : {st.virtual},
               activation : Nat, lastSelected : Nat, idleSince : Nat \union {NoTime}]
    /\ DOMAIN st.active \subseteq Jobs
    /\ st.active \in [DOMAIN st.active -> Nat]

\* Every variable has its type: the shape of the fields of _FairPendingQueue,
\* of LoadedModelExecutor and of the threads' positions.
TypeOK ==
    /\ DOMAIN states \subseteq Keys
    /\ states = [k \in DOMAIN states |-> states[k]]
    /\ \A k \in DOMAIN states : KeyStateOK(states[k])
    /\ pendingCount \in Nat
    /\ jobId \in [Jobs -> Nat]
    /\ nextJobId \in Nat /\ nextActivation \in Nat /\ nextSelection \in Nat
    /\ clock \in Nat
    /\ stopRequested \in BOOLEAN
    /\ runtimeInflight \in Nat
    /\ activeHandles \subseteq Jobs
    /\ loop \in {"created", "running", "waiting", "spawning", "unwinding", "returned"}
    /\ worker \in [Jobs -> Positions]
    /\ startedAt \in [Jobs -> Nat] /\ finishedAt \in [Jobs -> Nat]
    /\ result \in [Jobs -> {"none", "ok", "error", "cancelled"}]
    /\ submitted \in [Jobs -> {"no", "admitted", "rejected"}]
    /\ cancelled \in [Jobs -> BOOLEAN]
    /\ canceller \in [Jobs -> {"idle", "callback", "failing", "done"}]
    /\ outcome \in [Jobs -> {"open", "completed", "error", "cancelled", "unloading"}]
    /\ shutdown \in {"idle", "ending"}
    /\ toFail \subseteq Jobs /\ toCancel \subseteq Jobs
    /\ calling \subseteq Jobs

----------------------------------------------------------------------------
(* Safety *)

\* The runtime is never given more than its capacity, and the slot counter,
\* the handles a shutdown would cancel and the jobs whose running time counts
\* in the scores are those of the jobs that hold a slot.  A start that fails
\* or a release that is lost would leak a slot or charge a job for ever.
SlotAccounting ==
    /\ runtimeInflight = Cardinality(SlotHolders)
    /\ runtimeInflight <= EffectiveTargetInflight
    /\ activeHandles = SlotHolders
    /\ UNION {DOMAIN states[k].active : k \in DOMAIN states} = SlotHolders

\* The aggregate count that admission and the loop read is the size of the
\* buckets, within both limits: a job cancelled while a shutdown drains it, or
\* a bucket forgotten with its key, would make the two differ for good.
PendingAccounting ==
    /\ pendingCount = Cardinality(QueuedJobs)
    /\ pendingCount <= MaxPendingPerExecutor
    /\ \A k \in DOMAIN states : Len(states[k].pending) <= MaxPendingPerKey

\* Who is going to end the job: the queue on behalf of the loop, the dispatch,
\* the canceller that removed it, or the shutdown that drained it.
Owners(j) ==
    {o \in {"queue", "dispatch", "canceller", "shutdown"} :
        \/ o = "queue" /\ Pending(j)
        \/ o = "dispatch" /\ worker[j] \notin {"none", "ended"}
        \/ o = "canceller" /\ canceller[j] = "failing"
        \/ o = "shutdown" /\ j \in toFail}

\* An admitted job without an outcome has exactly one owner, a job with one has
\* none: no interleaving of a cancellation, the dispatch, a failed start and a
\* shutdown loses a job or ends it twice.
ExactlyOneOwner ==
    \A j \in Jobs : submitted[j] = "admitted" =>
        Cardinality(Owners(j)) = IF outcome[j] = "open" THEN 1 ELSE 0

\* A caller is told the truth: completed only what the runtime completed,
\* cancelled only what was cancelled, unloading only what never left the queue
\* of a stopped executor.
VerdictTruthful ==
    \A j \in Jobs :
        /\ outcome[j] = "completed" => worker[j] = "ended" /\ result[j] = "ok"
        /\ outcome[j] = "cancelled" => cancelled[j] /\ result[j] # "error"
        /\ outcome[j] = "unloading" => stopRequested /\ worker[j] = "none"

\* When a caller sees the end of a stream the job's slot is free and the
\* scheduler has forgotten it: the router counts streams by this to know that
\* nothing is left inside a runtime it closes.
EndedMeansReleased ==
    \A j \in Jobs : outcome[j] # "open" =>
        /\ j \notin SlotHolders
        /\ j \notin activeHandles
        /\ ~Pending(j)

\* The loop sleeps only when there is nothing for it to do, whatever happened
\* between its last look and its wait: every change it waits for notifies it.
NoLostWakeup ==
    loop = "waiting" => ~MayReturn /\ ~MayDispatch

\* The loop thread leaves only an executor that is stopped and empty, and it
\* stays so: no job is admitted to a queue nobody serves.
ReturnsEmpty ==
    loop = "returned" => stopRequested /\ QueuedJobs = {} /\ SlotHolders = {}

\* A key with queued or running work is never idle and never forgotten, and a
\* key without any is on its way out: expiry cannot drop a job or reset the
\* account of a key in use, and cannot leak the state of a key that is not.
IdleMeansUnused ==
    /\ \A k \in DOMAIN states : states[k].idleSince = NoTime <=> Busy(states[k])
    /\ \A j \in Jobs : worker[j] \in SlotPositions => KeyOf[j] \in DOMAIN states

----------------------------------------------------------------------------
(* The inductive strengthening the proofs use.  w is the worker function. *)

\* A key's bucket holds only its own undispatched jobs, each once, and its
\* active jobs are its slot holders.
KeyCore(st, k, w) ==
    /\ KeyStateOK(st)
    /\ \A j \in Jobs : j \in DOMAIN st.active <=> KeyOf[j] = k /\ w[j] \in SlotPositions
    /\ \A i \in DOMAIN st.pending :
          KeyOf[st.pending[i]] = k /\ w[st.pending[i]] = "none"
    /\ \A i, h \in DOMAIN st.pending : st.pending[i] = st.pending[h] => i = h
    /\ Len(st.pending) <= MaxPendingPerKey

KeyInv(st, k, w) == KeyCore(st, k, w) /\ (st.idleSince = NoTime <=> Busy(st))

StatesInv(ss, w) ==
    /\ DOMAIN ss \subseteq Keys
    /\ ss = [k \in DOMAIN ss |-> ss[k]]
    /\ \A k \in DOMAIN ss : KeyInv(ss[k], k, w)
    /\ \A j \in Jobs : w[j] \in SlotPositions => KeyOf[j] \in DOMAIN ss

QueueInv == StatesInv(states, worker)

\* Where the threads that deal with a job can be.
ThreadInv(j) ==
    /\ Pending(j) => submitted[j] = "admitted" /\ outcome[j] = "open"
    /\ submitted[j] # "admitted" =>
          /\ worker[j] = "none" /\ canceller[j] = "idle" /\ ~cancelled[j]
          /\ outcome[j] = "open"
    /\ canceller[j] = "idle" <=> ~cancelled[j]
    /\ canceller[j] = "failing" => worker[j] = "none" /\ ~Pending(j) /\ outcome[j] = "open"
    /\ j \in toFail =>
          /\ worker[j] = "none" /\ ~Pending(j) /\ outcome[j] = "open"
          /\ submitted[j] = "admitted" /\ canceller[j] # "failing" /\ stopRequested
    /\ j \in toCancel => worker[j] # "none"
    /\ worker[j] # "none" => (outcome[j] # "open" <=> worker[j] = "ended")
    /\ worker[j] = "popped" => loop = "spawning"
    /\ worker[j] = "unstarted" => loop = "unwinding"

ThreadsInv == \A j \in Jobs : ThreadInv(j)

\* The loop thread starts one worker at a time.
OneStart ==
    \A i, j \in Jobs :
        worker[i] \in {"popped", "unstarted"} /\ worker[j] \in {"popped", "unstarted"} => i = j

IInv ==
    /\ TypeOK
    /\ QueueInv
    /\ ThreadsInv
    /\ OneStart
    /\ SlotAccounting
    /\ PendingAccounting
    /\ NoLostWakeup

\* What a key has been charged is a number, and a key with an active job has
\* been selected.  A charge is the time between two readings of the clock.
ChargeOK(st) ==
    /\ st.virtual \in Nat
    /\ DOMAIN st.active # {} => st.lastSelected >= 1

ChargeInv ==
    /\ \A k \in DOMAIN states : ChargeOK(states[k])
    /\ \A j \in Jobs :
          /\ startedAt[j] <= clock
          /\ worker[j] = "returned" => startedAt[j] <= finishedAt[j]
    /\ nextSelection >= 1

\* The jobs of a bucket wait in the order of their numbers.
InOrder(q, id) == \A g, h \in DOMAIN q : g < h => id[q[g]] < id[q[h]]

OrderInv ==
    /\ \A j \in Jobs : jobId[j] < nextJobId
    /\ \A k \in DOMAIN states : InOrder(states[k].pending, jobId)

\* What the end of a job is made of: until it has one somebody will give it
\* one, what its worker got is settled when the runtime has returned, and an
\* outcome agrees with both.
FateInv(j) ==
    /\ submitted[j] = "admitted" /\ outcome[j] = "open" =>
          \/ Pending(j) \/ worker[j] \notin {"none", "ended"}
          \/ canceller[j] = "failing" \/ j \in toFail
    /\ worker[j] \in {"none", "popped", "spawned", "dispatched", "running"} =>
          result[j] = "none"
    /\ worker[j] \in {"returned", "released", "completing"} => result[j] # "none"
    /\ worker[j] = "completing" => result[j] = "ok"
    /\ result[j] = "cancelled" => cancelled[j]
    /\ outcome[j] = "completed" => worker[j] = "ended" /\ result[j] = "ok"
    /\ outcome[j] = "cancelled" => cancelled[j] /\ result[j] # "error"
    /\ outcome[j] = "unloading" => stopRequested /\ worker[j] = "none"

\* A stopped executor has no queue, and a shutdown ends when it has failed all
\* jobs it drained.
StopInv ==
    /\ stopRequested => pendingCount = 0
    /\ loop = "returned" => stopRequested /\ runtimeInflight = 0
    /\ shutdown = "idle" => toFail = {}

ServiceInv ==
    /\ IInv
    /\ OrderInv
    /\ \A j \in Jobs : FateInv(j)
    /\ StopInv

----------------------------------------------------------------------------
(* Action properties *)

Dispatched(j) == worker[j] = "none" /\ worker'[j] = "popped"

\* Requests of one key are dispatched in the order in which they were admitted,
\* also when requests between them are cancelled.
FifoWithinKey ==
    [][\A j \in Jobs : Dispatched(j) =>
          \A i \in QueuedJobs : KeyOf[i] = KeyOf[j] => jobId[j] <= jobId[i]]_vars

----------------------------------------------------------------------------
(* Liveness *)

RuntimeReturns == \A j \in Jobs : WF_vars(WorkerReturn(j))

\* Every admitted request ends, if runtime calls return.
EveryRequestEnds ==
    RuntimeReturns =>
        \A j \in Jobs : submitted[j] = "admitted" ~> outcome[j] # "open"

\* A stopped executor's loop thread ends, if runtime calls return.
ShutdownEnds == RuntimeReturns => (stopRequested ~> loop = "returned")

\* A request cancelled, or drained by a shutdown, before it was dispatched is
\* told so even if the runtime never returns.
WaitingEndsWithoutRuntime ==
    \A j \in Jobs :
        (submitted[j] = "admitted" /\ (cancelled[j] \/ stopRequested))
            ~> (outcome[j] # "open" \/ worker[j] # "none")

\* A free slot does not stay free while a request waits, even if the runtime
\* calls in the other slots never return.
FreeSlotIsUsed == MayDispatch ~> ~MayDispatch

----------------------------------------------------------------------------
(* The executor implements the abstract service *)

Phase(j) ==
    CASE submitted[j] = "no"        -> "new"
      [] submitted[j] = "rejected"  -> "refused"
      [] OTHER ->
           CASE Pending(j)                         -> "waiting"
             [] j \in SlotHolders                  -> "serving"
             [] worker[j] = "none" /\ ~Pending(j)  -> "left"
             [] OTHER                              -> "served"

Service == INSTANCE JobService WITH
    Capacity   <- EffectiveTargetInflight,
    MaxWaiting <- MaxPendingPerExecutor,
    phase      <- [j \in Jobs |-> Phase(j)],
    verdict    <- outcome,
    withdrawn  <- {j \in Jobs : cancelled[j]},
    closed     <- stopRequested

\* Every behaviour of the executor is one the abstract service allows.
ImplementsService == Service!ServiceSpec
=============================================================================
