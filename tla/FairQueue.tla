----------------------------- MODULE FairQueue -----------------------------
(***************************************************************************)
(* The weighted fair pending queue of one loaded model                     *)
(* (app/engine/scheduler.py, class _FairPendingQueue).                     *)
(*                                                                         *)
(* Every fairness key that is, or recently was, in use has a state: a FIFO *)
(* bucket of pending jobs, the start times of its active jobs and the      *)
(* normalised slot time it has been charged.  The next job comes from the  *)
(* bucket with the lowest score.  The methods run with the executor's lock *)
(* held, so each of them is one atomic operation; `now' is the clock value *)
(* the caller passes.                                                      *)
(*                                                                         *)
(* Time is a natural number of milliseconds.  Dividing by a key's weight   *)
(* is multiplying by its Cost, a common multiple of the weights over the   *)
(* weight: all scores are scaled by the same factor and keep their order.  *)
(* The rejection counters, which only feed the admin payload, are left     *)
(* out.                                                                    *)
(***************************************************************************)
EXTENDS Integers, FiniteSets, Sequences, SequencesExt

CONSTANTS
    Jobs,                   \* requests; each is enqueued at most once
    Keys,                   \* fairness keys, the anonymous bucket included
    KeyOf,                  \* request.fairness_key
    Cost,                   \* inverse weight of each key
    SoftMaxInflightPerKey,
    MaxPendingPerKey,
    MaxPendingPerExecutor,
    IdleStateTTL

ASSUME FairQueueAssumption ==
    /\ IsFiniteSet(Jobs)
    /\ KeyOf \in [Jobs -> Keys]
    /\ Cost \in [Keys -> Nat \ {0}]
    /\ SoftMaxInflightPerKey \in Nat \ {0}
    /\ MaxPendingPerKey \in Nat \ {0}
    /\ MaxPendingPerExecutor \in Nat \ {0}
    /\ IdleStateTTL \in Nat \ {0}

VARIABLES
    states,          \* _states: the key states that exist
    pendingCount,    \* _pending_count
    jobId,           \* SchedulerJob.job_id, 0 for a request never enqueued
    nextJobId,       \* _next_job_id
    nextActivation,  \* _next_activation_order
    nextSelection    \* _next_selection_order

queueVars == <<states, pendingCount, jobId, nextJobId, nextActivation,
               nextSelection>>

NoTime == -1         \* idle_since is None

----------------------------------------------------------------------------
(* Key states *)

Busy(st) == st.pending # <<>> \/ DOMAIN st.active # {}

Elapsed(from, now) == IF now > from THEN now - from ELSE 0

ActiveElapsed(st, now) ==
    MapThenSumSet(LAMBDA j : Elapsed(st.active[j], now), DOMAIN st.active)

Score(st, k, now) == st.virtual + Cost[k] * ActiveElapsed(st, now)

MarkIdleIfNeeded(st, now) ==
    IF Busy(st) THEN st ELSE [st EXCEPT !.idleSince = now]

Expired(st, now) ==
    st.idleSince # NoTime /\ now - st.idleSince >= IdleStateTTL

\* The key states that survive _expire_idle_states.
Live(now) == Restrict(states, {k \in DOMAIN states : ~Expired(states[k], now)})

\* A new key starts level with the least served busy key, not at zero.
NewState(ss, k, now) ==
    LET busyScores == {Score(ss[q], q, now) : q \in {q \in DOMAIN ss : Busy(ss[q])}}
    IN  [pending      |-> <<>>,
         active       |-> <<>>,
         virtual      |-> IF busyScores = {} THEN 0 ELSE Min(busyScores),
         activation   |-> nextActivation,
         lastSelected |-> 0,
         idleSince    |-> NoTime]

With(f, x, y) == [z \in DOMAIN f \union {x} |-> IF z = x THEN y ELSE f[z]]

Without(f, x) == Restrict(f, DOMAIN f \ {x})

\* The first pending job of a key becomes active,
Dispatch(st, j, now) ==
    [st EXCEPT !.pending = Tail(@), !.active = With(@, j, now),
               !.lastSelected = nextSelection, !.idleSince = NoTime]

\* and later gives its slot back, for a charge.
GiveBack(st, j, charge) ==
    [st EXCEPT !.active = Without(@, j), !.virtual = @ + charge]

Pending(j) ==
    KeyOf[j] \in DOMAIN states /\ Contains(states[KeyOf[j]].pending, j)

Position(q, j) == CHOOSE i \in DOMAIN q : q[i] = j

----------------------------------------------------------------------------
(* Operations *)

QueueInit ==
    /\ states = <<>>
    /\ pendingCount = 0
    /\ jobId = [j \in Jobs |-> 0]
    /\ nextJobId = 1
    /\ nextActivation = 0
    /\ nextSelection = 1

HasRoom(ss, k) ==
    /\ k \in DOMAIN ss => Len(ss[k].pending) < MaxPendingPerKey
    /\ pendingCount < MaxPendingPerExecutor

\* Mutant: the bucket as a stack.
EnqueueFirst(j, now) ==
    LET k  == KeyOf[j]
        ss == Live(now)
        st == IF k \in DOMAIN ss THEN ss[k] ELSE NewState(ss, k, now)
    IN  /\ HasRoom(ss, k)
        /\ states' = With(ss, k, [st EXCEPT !.pending = <<j>> \o @,
                                            !.idleSince = NoTime])
        /\ pendingCount' = pendingCount + 1
        /\ jobId' = [jobId EXCEPT ![j] = nextJobId]
        /\ nextJobId' = nextJobId + 1
        /\ nextActivation' = nextActivation + (IF k \in DOMAIN ss THEN 0 ELSE 1)
        /\ UNCHANGED nextSelection

\* Mutant: a returning key stays marked idle.
EnqueueStaysIdle(j, now) ==
    LET k  == KeyOf[j]
        ss == Live(now)
        st == IF k \in DOMAIN ss THEN ss[k] ELSE NewState(ss, k, now)
    IN  /\ HasRoom(ss, k)
        /\ states' = With(ss, k, [st EXCEPT !.pending = Append(@, j)])
        /\ pendingCount' = pendingCount + 1
        /\ jobId' = [jobId EXCEPT ![j] = nextJobId]
        /\ nextJobId' = nextJobId + 1
        /\ nextActivation' = nextActivation + (IF k \in DOMAIN ss THEN 0 ELSE 1)
        /\ UNCHANGED nextSelection

Enqueue(j, now) ==
    LET k  == KeyOf[j]
        ss == Live(now)
        st == IF k \in DOMAIN ss THEN ss[k] ELSE NewState(ss, k, now)
    IN  /\ HasRoom(ss, k)
        /\ states' = With(ss, k, [st EXCEPT !.pending = Append(@, j),
                                            !.idleSince = NoTime])
        /\ pendingCount' = pendingCount + 1
        /\ jobId' = [jobId EXCEPT ![j] = nextJobId]
        /\ nextJobId' = nextJobId + 1
        /\ nextActivation' = nextActivation + (IF k \in DOMAIN ss THEN 0 ELSE 1)
        /\ UNCHANGED nextSelection

\* RequestAdmissionError: fairness_key_queue_full or executor_queue_full.
RejectEnqueue(j, now) ==
    /\ ~HasRoom(Live(now), KeyOf[j])
    /\ states' = Live(now)
    /\ UNCHANGED <<pendingCount, jobId, nextJobId, nextActivation, nextSelection>>

\* Mutant: the aggregate count is forgotten.
RemoveUncounted(j, now) ==
    /\ Pending(j)
    /\ LET k == KeyOf[j]
       IN  states' = With(states, k, MarkIdleIfNeeded(
                         [states[k] EXCEPT !.pending = RemoveAt(@, Position(@, j))], now))
    /\ UNCHANGED <<pendingCount, jobId, nextJobId, nextActivation, nextSelection>>

\* remove() that finds the job; a remove() that does not find it changes nothing.
RemovePending(j, now) ==
    /\ Pending(j)
    /\ LET k == KeyOf[j]
       IN  states' = With(states, k, MarkIdleIfNeeded(
                         [states[k] EXCEPT !.pending = RemoveAt(@, Position(@, j))], now))
    /\ pendingCount' = pendingCount - 1
    /\ UNCHANGED <<jobId, nextJobId, nextActivation, nextSelection>>

\* The sort key of pop_next, compared lexicographically.
Rank(ss, k, now) ==
    <<Score(ss[k], k, now),
      IF Cardinality(DOMAIN ss[k].active) >= SoftMaxInflightPerKey THEN 1 ELSE 0,
      ss[k].lastSelected,
      ss[k].activation>>

Precedes(a, b) ==
    \E i \in DOMAIN a : a[i] < b[i] /\ \A h \in 1 .. i - 1 : a[h] = b[h]

\* pop_next() that returns job j.
PopNext(j, now) ==
    LET k  == KeyOf[j]
        ss == Live(now)
        candidates == {q \in DOMAIN ss : ss[q].pending # <<>>}
    IN  /\ k \in candidates
        /\ j = Head(ss[k].pending)
        /\ \A q \in candidates \ {k} : Precedes(Rank(ss, k, now), Rank(ss, q, now))
        /\ states' = With(ss, k, Dispatch(ss[k], j, now))
        /\ nextSelection' = nextSelection + 1
        /\ pendingCount' = pendingCount - 1
        /\ UNCHANGED <<jobId, nextJobId, nextActivation>>

\* Mutant: nothing is charged.
CompleteFree(j, service, now) ==
    LET k == KeyOf[j]
    IN  /\ states' = IF k \in DOMAIN states /\ j \in DOMAIN states[k].active
                     THEN With(states, k, MarkIdleIfNeeded(
                              GiveBack(states[k], j, 0), now))
                     ELSE states
        /\ UNCHANGED <<pendingCount, jobId, nextJobId, nextActivation, nextSelection>>

\* Mutant: the weight is forgotten.
CompleteUnweighted(j, service, now) ==
    LET k == KeyOf[j]
    IN  /\ states' = IF k \in DOMAIN states /\ j \in DOMAIN states[k].active
                     THEN With(states, k, MarkIdleIfNeeded(
                              GiveBack(states[k], j, service), now))
                     ELSE states
        /\ UNCHANGED <<pendingCount, jobId, nextJobId, nextActivation, nextSelection>>

Complete(j, service, now) ==
    LET k == KeyOf[j]
    IN  /\ states' = IF k \in DOMAIN states /\ j \in DOMAIN states[k].active
                     THEN With(states, k, MarkIdleIfNeeded(
                              GiveBack(states[k], j, service * Cost[k]), now))
                     ELSE states
        /\ UNCHANGED <<pendingCount, jobId, nextJobId, nextActivation, nextSelection>>

Abandon(j, now) ==
    LET k == KeyOf[j]
    IN  /\ states' = IF k \in DOMAIN states
                     THEN With(states, k, MarkIdleIfNeeded(
                              GiveBack(states[k], j, 0), now))
                     ELSE states
        /\ UNCHANGED <<pendingCount, jobId, nextJobId, nextActivation, nextSelection>>

Drain(now) ==
    /\ states' = [k \in DOMAIN states |->
                    MarkIdleIfNeeded([states[k] EXCEPT !.pending = <<>>], now)]
    /\ pendingCount' = 0
    /\ UNCHANGED <<jobId, nextJobId, nextActivation, nextSelection>>

\* snapshots() expires idle states before it reads the others.
Snapshots(now) ==
    /\ states' = Live(now)
    /\ UNCHANGED <<pendingCount, jobId, nextJobId, nextActivation, nextSelection>>
============================================================================
