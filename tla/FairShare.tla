----------------------------- MODULE FairShare -----------------------------
(***************************************************************************)
(* What the executor promises to the clients that compete for one model.   *)
(* The executor runs with three history variables.  Requests are not       *)
(* cancelled, worker threads start, the executor is not shut down, and a   *)
(* job holds its slot for at most MaxHold.                                 *)
(***************************************************************************)
EXTENDS ExecutorProperties

CONSTANTS
    MaxHold,     \* bound on the time a job holds a slot
    Overhead     \* whether threads take time between their runtime calls

ASSUME FairShareAssumption == MaxHold \in Nat /\ Overhead \in BOOLEAN

VARIABLES
    share,   \* backend time per key, over its weight, in the current contest;
             \* <<>> while there is no contest
    base,    \* the score each key had when the contest began, or <<>>
    joined   \* keys that arrived when other keys held all slots, not served yet

fairVars == <<vars, share, base, joined>>

Waiting(k) == k \in DOMAIN states /\ states[k].pending # <<>>

ScoreOf(k) == Score(states[k], k, clock)

\* Backend time is what the scheduler charges: from the start of the worker to
\* the return of the runtime.
InBackend(k) == {j \in Jobs : KeyOf[j] = k /\ worker[j] \in {"dispatched", "running"}}

\* There is a contest while all keys have waiting requests.
UpdateShare ==
    \/ /\ ~ \A k \in Keys : Waiting(k)'
       /\ share' = <<>> /\ base' = <<>>
    \/ /\ share = <<>>
       /\ \A k \in Keys : Waiting(k)'
       /\ share' = [k \in Keys |-> 0]
       /\ base' = [k \in Keys |-> ScoreOf(k)']
    \/ /\ share # <<>>
       /\ \A k \in Keys : Waiting(k)'
       /\ share' = [k \in Keys |-> share[k] + (clock' - clock) * Cost[k] *
                                               Cardinality(InBackend(k))]
       /\ UNCHANGED base

\* Keys whose state a request creates.
Arrived == {k \in Keys : k \notin DOMAIN Live(clock) /\ Waiting(k)'}

UpdateJoined ==
    joined' =
        {k \in joined : \A j \in Jobs : Dispatched(j) => KeyOf[j] # k}
        \union {k \in Arrived : runtimeInflight = EffectiveTargetInflight}

FairInit == Init /\ share = <<>> /\ base = <<>> /\ joined = {}

\* Without overhead the threads outrun the clock and the clients: time passes,
\* and requests arrive, only when the loop waits for work or for a slot and the
\* workers wait for the runtime.
AtRest ==
    /\ loop = "waiting"
    /\ \A j \in Jobs : worker[j] \in {"none", "running", "ended"}

Competition ==
    \/ LoopStart \/ LoopWait
    \/ \E j \in Jobs :
          \/ LoopDispatch(j) \/ LoopSpawn(j)
          \/ (~AtRest => Overhead) /\ Submit(j)
          \/ WorkerOwnStep(j)
          \/ WorkerReturn(j) /\ result'[j] = "ok"
    \/ /\ \A j \in SlotHolders : clock - states[KeyOf[j]].active[j] < MaxHold
       /\ ~AtRest => Overhead
       /\ Tick

FairShareSpec ==
    FairInit /\ [][Competition /\ UpdateShare /\ UpdateJoined]_fairVars

----------------------------------------------------------------------------
\* What k may catch up on q, from before the contest.
Behind(k, q) == IF base[k] < base[q] THEN base[q] - base[k] ELSE 0

\* While every key waits all the time, each gets backend time in proportion to
\* its weight: a key gets more than another at most what it was behind when the
\* contest began, a returning key by the score it left with, and what one round
\* of slots, each held for MaxHold, is worth.
ShareBounded ==
    share # <<>> =>
        \A k, q \in Keys : share[k] - share[q] <=
            EffectiveTargetInflight * MaxHold * Cost[k] + Behind(k, q)

\* docs/scheduler-fairness.md: a new key that arrives when another occupies all
\* slots gets the next slot.
NewKeyGetsNextSlot ==
    [][\A j \in Jobs : Dispatched(j) => joined = {} \/ KeyOf[j] \in joined]_fairVars

\* A key whose arrival begins a contest is behind nobody: its score is the lowest
\* and another key has the same.  Two keys then have nothing to catch up.
NewKeyStartsLevel ==
    [][\A k \in Arrived : base' # <<>> =>
          /\ \A q \in Keys : base'[k] <= base'[q]
          /\ Keys # {k} => \E q \in Keys \ {k} : base'[k] = base'[q]]_fairVars

----------------------------------------------------------------------------
(* The inductive strengthening the proofs use *)

\* With three keys one that returns from idleness can have a score lower than
\* both others, and is served before the new one.
TwoKeys == \A a, b, c \in Keys : a = b \/ a = c \/ b = c

\* Time passes only while the slot holders are in the runtime, so a worker
\* measures exactly the time for which its job is active.
Timed(j) ==
    LET since == states[KeyOf[j]].active[j]
    IN  /\ since <= clock
        /\ clock <= since + MaxHold
        /\ worker[j] \in {"popped", "spawned"} => since = clock
        /\ worker[j] \in {"dispatched", "running", "returned"} => startedAt[j] = since
        /\ worker[j] = "returned" => finishedAt[j] = clock

TimingInv == \A j \in SlotHolders : Timed(j)

\* What the slot holders of a key may still be charged.
Slack(k) ==
    MaxHold * Cardinality(DOMAIN states[k].active) - ActiveElapsed(states[k], clock)

\* During a contest scores and shares grow together, and a key that is ahead is
\* ahead by what its slot holders have been given since it was behind.
ContestInv ==
    share # <<>> =>
        /\ share \in [Keys -> Nat] /\ base \in [Keys -> Nat]
        /\ \A k \in Keys : Waiting(k) /\ ScoreOf(k) = base[k] + share[k]
        /\ \A k, q \in Keys :
              share[k] - share[q] + Cost[k] * Slack(k) <=
                  Cost[k] * (EffectiveTargetInflight * MaxHold) + Behind(k, q)

\* A key that has joined waits at a score no other has fallen below.
JoinedInv ==
    \A k \in joined :
        /\ k \in Keys
        /\ Waiting(k)
        /\ DOMAIN states[k].active = {}
        /\ states[k].lastSelected = 0
        /\ \A q \in DOMAIN states \ {k} :
              states[q].lastSelected >= 1 /\ ScoreOf(q) >= ScoreOf(k)

ShareInv == IInv /\ ChargeInv /\ TimingInv /\ ContestInv

FairInv == ShareInv /\ JoinedInv
============================================================================
