-------------------------- MODULE FairShareProofs --------------------------
(***************************************************************************)
(* What keys are charged, in every executor; and in one without overhead,  *)
(* that FairShare keeps its promises.                                      *)
(***************************************************************************)
EXTENDS FairShare, ExecutorProofs, Sums

----------------------------------------------------------------------------
(* The time that the active jobs of a key have run *)

Times(st, now) == [j \in DOMAIN st.active |-> Elapsed(st.active[j], now)]

ActiveOK(st) ==
    /\ IsFiniteSet(DOMAIN st.active)
    /\ \A j \in DOMAIN st.active : st.active[j] \in Nat

LEMMA TimesType ==
    ASSUME NEW st, ActiveOK(st), NEW now \in Nat
    PROVE  Times(st, now) \in [DOMAIN st.active -> Nat]
<1>1. \A j \in DOMAIN st.active : Elapsed(st.active[j], now) \in Nat
  BY DEF ActiveOK, Elapsed
<1> QED
  BY <1>1 DEF Times

LEMMA ElapsedIsTotal ==
    ASSUME NEW st, ActiveOK(st), NEW now \in Nat
    PROVE  IsTotal(ActiveElapsed(st, now), Times(st, now), DOMAIN st.active)
<1> DEFINE S == DOMAIN st.active
           w == Times(st, now)
           Body(g) == [s \in SUBSET S |->
                          IF s = {} THEN 0
                          ELSE Elapsed(st.active[Pick(s)], now) + g[s \ {Pick(s)}]]
           iter == CHOOSE g : g = Body(g)
<1>1. ActiveElapsed(st, now) = iter[S]
  BY DEF ActiveElapsed, MapThenSumSet, MapThenFoldSet, Pick
<1>2. w \in [S -> Int] /\ \A j \in S : w[j] = Elapsed(st.active[j], now)
  BY TimesType DEF Times
<1> HIDE DEF w
<1>3. PICK g \in [SUBSET S -> Int] : IsSum(g, w, S)
  BY <1>2, SumExists DEF ActiveOK
<1>4. \A s \in SUBSET S : s # {} => Pick(s) \in S
  BY DEF Pick
<1>5. g = Body(g)
  BY <1>2, <1>3, <1>4 DEF IsSum, SumStep
<1>6. iter = Body(iter)
  <2> HIDE DEF Body
  <2> QED
    BY <1>5
<1>7. IsSum(iter, w, S)
  <2> SUFFICES ASSUME NEW s \in SUBSET S PROVE SumStep(iter, w, s)
    BY DEF IsSum
  <2>1. iter[s] = Body(iter)[s]
    BY <1>6
  <2> HIDE DEF iter
  <2> QED
    BY <1>2, <1>4, <2>1 DEF SumStep
<1>8. \A s \in SUBSET S : iter[s] = g[s]
  <2> HIDE DEF iter
  <2> QED
    BY <1>3, <1>7, SumSame DEF ActiveOK
<1> QED
  BY <1>1, <1>3, <1>8 DEF IsTotal, w

\* Each has run for at most the bound on their times.
LEMMA ElapsedBound ==
    ASSUME NEW st, ActiveOK(st), NEW now \in Nat, NEW H \in Nat,
           \A j \in DOMAIN st.active : Elapsed(st.active[j], now) <= H
    PROVE  /\ ActiveElapsed(st, now) \in Nat
           /\ ActiveElapsed(st, now) <= H * Cardinality(DOMAIN st.active)
<1> DEFINE S == DOMAIN st.active
           w == Times(st, now)
           x == ActiveElapsed(st, now)
<1>1. IsTotal(x, w, S) /\ IsFiniteSet(S)
  BY ElapsedIsTotal DEF ActiveOK
<1>2. \A j \in S : w[j] \in Nat /\ w[j] <= H
  BY TimesType DEF Times
<1> HIDE DEF S, w, x
<1>3. x \in Nat /\ x <= H * Cardinality(S)
  BY <1>1, <1>2, TotalBound
<1> QED
  BY <1>3 DEF S, x

LEMMA ElapsedType ==
    ASSUME NEW st, ActiveOK(st), NEW now \in Nat
    PROVE  ActiveElapsed(st, now) \in Nat
<1>1. \A j \in DOMAIN st.active : Elapsed(st.active[j], now) <= now
  BY DEF ActiveOK, Elapsed
<1> QED
  BY <1>1, ElapsedBound

\* When time passes all of them run on.
LEMMA ElapsedTick ==
    ASSUME NEW st, ActiveOK(st), NEW now \in Nat,
           \A j \in DOMAIN st.active : st.active[j] <= now
    PROVE  ActiveElapsed(st, now + 1) =
               ActiveElapsed(st, now) + Cardinality(DOMAIN st.active)
<1> DEFINE S == DOMAIN st.active
           w == Times(st, now)
           v == Times(st, now + 1)
           x == ActiveElapsed(st, now)
           y == ActiveElapsed(st, now + 1)
<1>1. now + 1 \in Nat
  OBVIOUS
<1>2. IsTotal(x, w, S) /\ IsTotal(y, v, S) /\ IsFiniteSet(S)
  BY <1>1, ElapsedIsTotal DEF ActiveOK
<1>3. w \in [S -> Int]
  BY TimesType
<1>4. \A j \in S : v[j] = w[j] + 1
  BY DEF Times, Elapsed, ActiveOK
<1> HIDE DEF S, w, v, x, y
<1>5. y = x + Cardinality(S)
  BY <1>2, <1>3, <1>4, TotalShift
<1> QED
  BY <1>5 DEF S, x, y

\* It depends on nothing else in a key's state.
LEMMA ElapsedSame ==
    ASSUME NEW st, NEW t, ActiveOK(st), NEW now \in Nat, t.active = st.active
    PROVE  ActiveElapsed(t, now) = ActiveElapsed(st, now)
<1>1. ActiveOK(t) /\ Times(t, now) = Times(st, now)
  BY DEF ActiveOK, Times
<1>2. /\ IsTotal(ActiveElapsed(t, now), Times(st, now), DOMAIN st.active)
      /\ IsTotal(ActiveElapsed(st, now), Times(st, now), DOMAIN st.active)
  BY <1>1, ElapsedIsTotal
<1>3. IsFiniteSet(DOMAIN st.active) /\ Times(st, now) \in [DOMAIN st.active -> Int]
  BY TimesType DEF ActiveOK
<1> QED
  BY <1>2, <1>3, TotalUnique DEF Agree

\* A job that stops being active takes its own time along.
LEMMA ElapsedWithout ==
    ASSUME NEW st, NEW t, ActiveOK(st), NEW now \in Nat, NEW j \in DOMAIN st.active,
           t.active = Without(st.active, j)
    PROVE  /\ ActiveOK(t)
           /\ DOMAIN t.active = DOMAIN st.active \ {j}
           /\ ActiveElapsed(st, now) =
                  Elapsed(st.active[j], now) + ActiveElapsed(t, now)
           /\ Cardinality(DOMAIN st.active) = Cardinality(DOMAIN t.active) + 1
<1> DEFINE S == DOMAIN st.active
           w == Times(st, now)
           v == Times(t, now)
           x == ActiveElapsed(st, now)
           y == ActiveElapsed(t, now)
<1>1. /\ DOMAIN t.active = S \ {j}
      /\ \A i \in S \ {j} : t.active[i] = st.active[i]
  BY DEF Without, Restrict
<1>2. /\ IsFiniteSet(S) /\ IsFiniteSet(S \ {j})
      /\ Cardinality(S \ {j}) = Cardinality(S) - 1 /\ Cardinality(S) \in Nat
  BY FS_RemoveElement, FS_CardinalityType DEF ActiveOK
<1>3. ActiveOK(t)
  BY <1>1, <1>2 DEF ActiveOK
<1>4. IsTotal(x, w, S)
  BY ElapsedIsTotal
<1>5. IsTotal(y, v, S \ {j})
  BY <1>1, <1>3, ElapsedIsTotal
<1>6. w \in [S -> Int] /\ w[j] = Elapsed(st.active[j], now)
  BY TimesType DEF Times
<1>7. Agree(w, v, S \ {j})
  BY <1>1 DEF Agree, Times
<1> HIDE DEF w, v, x, y
<1>8. x = w[j] + y
  BY <1>2, <1>4, <1>5, <1>6, <1>7, TotalRest
<1> QED
  BY <1>1, <1>2, <1>3, <1>6, <1>8 DEF x, y

\* A job that becomes active has not run yet.
LEMMA ElapsedWith ==
    ASSUME NEW st, NEW t, ActiveOK(st), NEW now \in Nat, NEW j, j \notin DOMAIN st.active,
           t.active = With(st.active, j, now)
    PROVE  /\ ActiveOK(t)
           /\ DOMAIN t.active = DOMAIN st.active \union {j}
           /\ ActiveElapsed(t, now) = ActiveElapsed(st, now)
           /\ Cardinality(DOMAIN t.active) = Cardinality(DOMAIN st.active) + 1
<1> DEFINE S == DOMAIN st.active
           T == S \union {j}
           w == Times(st, now)
           v == Times(t, now)
           x == ActiveElapsed(st, now)
           y == ActiveElapsed(t, now)
<1>1. /\ DOMAIN t.active = T /\ t.active[j] = now
      /\ \A i \in S : t.active[i] = st.active[i]
  BY DEF With
<1>2. /\ IsFiniteSet(S) /\ IsFiniteSet(T) /\ T \ {j} = S
      /\ Cardinality(T) = Cardinality(S) + 1
  BY FS_AddElement DEF ActiveOK
<1>3. ActiveOK(t)
  BY <1>1, <1>2 DEF ActiveOK
<1>4. IsTotal(x, w, T \ {j})
  BY <1>2, ElapsedIsTotal
<1>5. IsTotal(y, v, T)
  BY <1>1, <1>3, ElapsedIsTotal
<1>6. v \in [T -> Int] /\ v[j] = 0
  BY <1>1, <1>3, TimesType DEF Times, Elapsed
<1>7. Agree(v, w, T \ {j})
  BY <1>1, <1>2 DEF Agree, Times
<1>8. x \in Int /\ j \in T
  BY <1>4, TotalType
<1> HIDE DEF w, v, x, y, T
<1>9. y = v[j] + x
  BY <1>2, <1>4, <1>5, <1>6, <1>7, <1>8, TotalRest
<1> QED
  BY <1>1, <1>2, <1>3, <1>6, <1>8, <1>9 DEF x, y, T

----------------------------------------------------------------------------
(* What keys are charged *)

LEMMA ActiveOfKey ==
    ASSUME NEW st, KeyStateOK(st)
    PROVE  ActiveOK(st)
  BY FiniteSetsOfJobs DEF KeyStateOK, ActiveOK

LEMMA ScoreType ==
    ASSUME NEW k \in Keys, NEW st, KeyStateOK(st), st.virtual \in Nat, NEW now \in Nat
    PROVE  Score(st, k, now) \in Nat
<1>1. ActiveElapsed(st, now) \in Nat
  BY ActiveOfKey, ElapsedType
<1>2. Cost[k] \in Nat
  BY FairQueueAssumption
<1>3. Cost[k] * ActiveElapsed(st, now) \in Nat
  BY <1>1, <1>2
<1> QED
  BY <1>3 DEF Score

LEMMA LeastScore ==
    ASSUME NEW S \in SUBSET Nat, S # {}
    PROVE  Min(S) \in S /\ \A x \in S : Min(S) <= x
  BY LeastNumber DEF Min

\* A new key starts at a number, whatever it is that is busy.
LEMMA NewStateCharge ==
    ASSUME NEW ss, NEW w, StatesInv(ss, w), \A q \in DOMAIN ss : ChargeOK(ss[q]),
           NEW k, NEW now \in Nat
    PROVE  ChargeOK(NewState(ss, k, now))
<1> DEFINE S == {Score(ss[q], q, now) : q \in {q \in DOMAIN ss : Busy(ss[q])}}
           st == NewState(ss, k, now)
<1>1. \A q \in DOMAIN ss : q \in Keys /\ Score(ss[q], q, now) \in Nat
  BY StatesType, ScoreType DEF ChargeOK
<1>2. S \in SUBSET Nat
  BY <1>1
<1>3. st.virtual = (IF S = {} THEN 0 ELSE Min(S)) /\ DOMAIN st.active = {}
  BY DEF NewState
<1> HIDE DEF S, st
<1>4. S # {} => Min(S) \in Nat
  BY <1>2, LeastScore
<1> QED
  BY <1>3, <1>4 DEF ChargeOK, st

\* Changing the state of one key.
LEMMA ChargeOne ==
    ASSUME NEW ss, NEW k, NEW st, \A q \in DOMAIN ss : ChargeOK(ss[q]), ChargeOK(st)
    PROVE  \A q \in DOMAIN With(ss, k, st) : ChargeOK(With(ss, k, st)[q])
<1> DEFINE u == With(ss, k, st)
<1>1. DOMAIN u = DOMAIN ss \union {k} /\ u[k] = st /\ \A z \in DOMAIN ss \ {k} : u[z] = ss[z]
  BY DEF With
<1> HIDE DEF u
<1> QED
  BY <1>1 DEF u

LEMMA EnqueueCharge ==
    ASSUME IInv, ChargeInv, NEW j \in Jobs, Enqueue(j, clock)
    PROVE  \A k \in DOMAIN states' : ChargeOK(states'[k])
<1> DEFINE k == KeyOf[j]
           ss == Live(clock)
           st == IF k \in DOMAIN ss THEN ss[k] ELSE NewState(ss, k, clock)
           t == [st EXCEPT !.pending = Append(@, j), !.idleSince = NoTime]
<1>1. clock \in Nat /\ nextActivation \in Nat /\ k \in Keys
  BY FairQueueAssumption DEF IInv, TypeOK
<1>2. StatesInv(ss, worker) /\ \A q \in DOMAIN ss : ChargeOK(ss[q])
  BY <1>1, LiveInv DEF IInv, ChargeInv
<1>3. states' = With(ss, k, t)
  BY DEF Enqueue
<1> HIDE DEF ss, k
<1>4. ChargeOK(st) /\ KeyCore(st, k, worker)
  <2>1. CASE k \in DOMAIN ss
    BY <1>2, <2>1 DEF StatesInv, KeyInv
  <2>2. CASE k \notin DOMAIN ss
    BY <1>1, <1>2, <2>2, NewStateCharge, NewStateKey
  <2> QED
    BY <2>1, <2>2
<1> HIDE DEF st
<1>5. t.virtual = st.virtual /\ t.active = st.active /\ t.lastSelected = st.lastSelected
  BY <1>4 DEF KeyCore, KeyStateOK
<1>6. ChargeOK(t)
  BY <1>4, <1>5 DEF ChargeOK
<1> QED
  BY <1>2, <1>3, <1>6, ChargeOne

LEMMA PopCharge ==
    ASSUME IInv, ChargeInv, NEW j \in Jobs, PopNext(j, clock)
    PROVE  \A k \in DOMAIN states' : ChargeOK(states'[k])
<1> DEFINE k == KeyOf[j]
           ss == Live(clock)
           st == ss[k]
           t == Dispatch(st, j, clock)
<1>1. StatesInv(ss, worker) /\ \A q \in DOMAIN ss : ChargeOK(ss[q])
  BY LiveInv DEF IInv, TypeOK, ChargeInv
<1>2. states' = With(ss, k, t) /\ k \in DOMAIN ss
  BY DEF PopNext
<1> HIDE DEF ss, k
<1>3. ChargeOK(st) /\ KeyStateOK(st)
  BY <1>1, <1>2 DEF StatesInv, KeyInv, KeyCore
<1> HIDE DEF st
<1>4. t.virtual = st.virtual /\ t.lastSelected = nextSelection
  BY <1>3 DEF Dispatch, KeyStateOK
<1>5. ChargeOK(t)
  BY <1>3, <1>4 DEF ChargeOK, ChargeInv
<1> QED
  BY <1>1, <1>2, <1>5, ChargeOne

\* Removing a waiting job and marking a key idle charge nothing.
LEMMA RemoveCharge ==
    ASSUME IInv, ChargeInv, NEW j \in Jobs, RemovePending(j, clock)
    PROVE  \A k \in DOMAIN states' : ChargeOK(states'[k])
<1> DEFINE k == KeyOf[j]
           st == states[k]
           u == [st EXCEPT !.pending = RemoveAt(@, Position(@, j))]
           t == MarkIdleIfNeeded(u, clock)
<1>1. states' = With(states, k, t) /\ k \in DOMAIN states
  BY DEF RemovePending, Pending
<1>2. ChargeOK(st) /\ KeyStateOK(st)
  BY <1>1 DEF IInv, QueueInv, StatesInv, KeyInv, KeyCore, ChargeInv
<1> HIDE DEF st, k
<1>3. t.virtual = st.virtual /\ t.active = st.active /\ t.lastSelected = st.lastSelected
  BY <1>2 DEF MarkIdleIfNeeded, KeyStateOK
<1>4. ChargeOK(t)
  BY <1>2, <1>3 DEF ChargeOK
<1> QED
  BY <1>1, <1>4, ChargeOne DEF ChargeInv

LEMMA GiveBackFields ==
    ASSUME NEW st, KeyStateOK(st), NEW j, NEW v, NEW now
    PROVE  LET t == MarkIdleIfNeeded(GiveBack(st, j, v), now)
           IN  /\ t.virtual = st.virtual + v /\ t.active = Without(st.active, j)
               /\ t.pending = st.pending /\ t.lastSelected = st.lastSelected
  BY DEF MarkIdleIfNeeded, GiveBack, KeyStateOK

LEMMA ReleaseCharge ==
    ASSUME IInv, ChargeInv, NEW j \in Jobs, NEW now \in Nat,
           \/ Abandon(j, now)
           \/ \E s \in Nat : Complete(j, s, now)
    PROVE  \A k \in DOMAIN states' : ChargeOK(states'[k])
<1> DEFINE k == KeyOf[j]
           st == states[k]
<1>1. CASE states' = states
  BY <1>1 DEF ChargeInv
<1>2. ASSUME NEW v \in Nat, k \in DOMAIN states,
             states' = With(states, k, MarkIdleIfNeeded(GiveBack(st, j, v), now))
      PROVE  \A q \in DOMAIN states' : ChargeOK(states'[q])
  <2> DEFINE t == MarkIdleIfNeeded(GiveBack(st, j, v), now)
  <2>1. ChargeOK(st) /\ KeyStateOK(st)
    BY <1>2 DEF IInv, QueueInv, StatesInv, KeyInv, KeyCore, ChargeInv
  <2>2. /\ t.virtual = st.virtual + v /\ t.lastSelected = st.lastSelected
        /\ t.active = Without(st.active, j)
    BY <2>1, GiveBackFields
  <2>3. DOMAIN t.active \subseteq DOMAIN st.active
    BY <2>2 DEF Without, Restrict
  <2> HIDE DEF t
  <2>4. ChargeOK(t)
    BY <2>1, <2>2, <2>3 DEF ChargeOK
  <2>5. states' = With(states, k, t)
    BY <1>2 DEF t
  <2> QED
    BY <2>4, <2>5, ChargeOne DEF ChargeInv
<1>3. Cost[k] \in Nat
  BY FairQueueAssumption
<1>4. \A s \in Nat : s * Cost[k] \in Nat
  BY <1>3
<1> QED
  BY <1>1, <1>2, <1>4 DEF Abandon, Complete

\* A step that leaves the keys' states alone or settles them as above.
LEMMA ClocksKept ==
    ASSUME IInv, ChargeInv, UNCHANGED <<clock, startedAt, finishedAt>>,
           \A j \in Jobs : worker'[j] = "returned" => worker[j] = "returned"
    PROVE  \A j \in Jobs :
              /\ startedAt'[j] <= clock'
              /\ worker'[j] = "returned" => startedAt'[j] <= finishedAt'[j]
  BY DEF ChargeInv

\* Every step of every thread charges keys numbers.
THEOREM ChargeStep == IInv /\ ChargeInv /\ [Next]_vars => ChargeInv'
<1> SUFFICES ASSUME IInv, ChargeInv, [Next]_vars PROVE ChargeInv'
  OBVIOUS
<1> DEFINE Keep == \A k \in DOMAIN states' : ChargeOK(states'[k])
           Clocks == \A j \in Jobs :
                        /\ startedAt'[j] <= clock'
                        /\ worker'[j] = "returned" => startedAt'[j] <= finishedAt'[j]
<1> USE DEF queueVars, slotVars, workerVars, handleVars, shutdownVars
<1>0. /\ clock \in Nat /\ worker \in [Jobs -> Positions] /\ nextSelection \in Nat
      /\ startedAt \in [Jobs -> Nat] /\ finishedAt \in [Jobs -> Nat]
  BY DEF IInv, TypeOK
<1>1. ASSUME NEW j \in Jobs, Submit(j)
      PROVE  ChargeInv'
  <2>1. Keep
    BY <1>1, EnqueueCharge DEF Submit
  <2>2. Clocks
    BY <1>1, ClocksKept DEF Submit
  <2>3. nextSelection' = nextSelection
    BY <1>1 DEF Submit, Enqueue
  <2> QED
    BY <2>1, <2>2, <2>3 DEF ChargeInv
<1>2. ASSUME NEW j \in Jobs, LoopDispatch(j)
      PROVE  ChargeInv'
  <2>1. Keep
    BY <1>2, PopCharge DEF LoopDispatch
  <2>2. Clocks
    BY <1>0, <1>2, ClocksKept DEF LoopDispatch
  <2>3. nextSelection' >= 1
    BY <1>0, <1>2 DEF LoopDispatch, PopNext, ChargeInv
  <2> QED
    BY <2>1, <2>2, <2>3 DEF ChargeInv
<1>3. ASSUME NEW j \in Jobs, CancelRemove(j)
      PROVE  ChargeInv'
  <2>1. Keep
    BY <1>3, RemoveCharge DEF CancelRemove, ChargeInv
  <2>2. Clocks
    BY <1>3, ClocksKept DEF CancelRemove
  <2>3. nextSelection' = nextSelection
    BY <1>3 DEF CancelRemove, RemovePending
  <2> QED
    BY <2>1, <2>2, <2>3 DEF ChargeInv
<1>4. ASSUME NEW j \in Jobs, LoopUnwind(j)
      PROVE  ChargeInv'
  <2>1. Keep
    BY <1>0, <1>4, ReleaseCharge DEF LoopUnwind
  <2>2. Clocks
    BY <1>0, <1>4, ClocksKept DEF LoopUnwind
  <2>3. nextSelection' = nextSelection
    BY <1>4 DEF LoopUnwind, Abandon
  <2> QED
    BY <2>1, <2>2, <2>3 DEF ChargeInv
<1>5. ASSUME NEW j \in Jobs, WorkerRelease(j)
      PROVE  ChargeInv'
  <2>1. finishedAt[j] \in Nat /\ finishedAt[j] - startedAt[j] \in Nat
    BY <1>0, <1>5 DEF WorkerRelease, ChargeInv
  <2>2. Keep
    BY <1>5, <2>1, ReleaseCharge DEF WorkerRelease
  <2>3. Clocks
    BY <1>0, <1>5 DEF WorkerRelease, ChargeInv
  <2>4. nextSelection' = nextSelection
    BY <1>5 DEF WorkerRelease, Complete
  <2> QED
    BY <2>2, <2>3, <2>4 DEF ChargeInv
<1>6. CASE BeginShutdown
  <2>1. Keep
    <3>1. \A k \in DOMAIN states : KeyStateOK(states[k])
      BY DEF IInv, TypeOK
    <3>2. /\ DOMAIN states' = DOMAIN states
          /\ \A k \in DOMAIN states : states'[k] =
                 MarkIdleIfNeeded([states[k] EXCEPT !.pending = <<>>], clock)
      BY <1>6 DEF BeginShutdown, Drain
    <3>3. ASSUME NEW k \in DOMAIN states
          PROVE  ChargeOK(states'[k])
      BY <3>1, <3>2, <3>3 DEF MarkIdleIfNeeded, KeyStateOK, ChargeOK, ChargeInv
    <3> QED
      BY <3>2, <3>3
  <2>2. Clocks
    BY <1>6, ClocksKept DEF BeginShutdown
  <2>3. nextSelection' = nextSelection
    BY <1>6 DEF BeginShutdown, Drain
  <2> QED
    BY <2>1, <2>2, <2>3 DEF ChargeInv
<1>7. ASSUME states' = Live(clock), UNCHANGED <<clock, workerVars, nextSelection>>
      PROVE  ChargeInv'
  <2>1. Keep
    BY <1>0, <1>7, LiveInv DEF IInv, ChargeInv
  <2>2. Clocks
    BY <1>7, ClocksKept
  <2> QED
    BY <1>7, <2>1, <2>2 DEF ChargeInv
<1>8. ASSUME UNCHANGED <<states, nextSelection, clock, startedAt, finishedAt>>,
             \A j \in Jobs : worker'[j] = "returned" => worker[j] = "returned"
      PROVE  ChargeInv'
  BY <1>8, ClocksKept DEF ChargeInv
<1>9. CASE Tick
  BY <1>0, <1>9 DEF Tick, ChargeInv
<1>10. ASSUME NEW j \in Jobs, WorkerBegin(j)
       PROVE  ChargeInv'
  BY <1>0, <1>10 DEF WorkerBegin, ChargeInv
<1>11. ASSUME NEW j \in Jobs, WorkerCheckCancelled(j)
       PROVE  ChargeInv'
  BY <1>0, <1>11 DEF WorkerCheckCancelled, ChargeInv
<1>12. ASSUME NEW j \in Jobs, WorkerReturn(j)
       PROVE  ChargeInv'
  BY <1>0, <1>12 DEF WorkerReturn, ChargeInv
<1>13. ASSUME NEW j \in Jobs, SubmitRejected(j)
       PROVE  ChargeInv'
  BY <1>7, <1>13 DEF SubmitRejected, RejectEnqueue
<1>14. CASE Snapshot
  BY <1>7, <1>14 DEF Snapshot, Snapshots
<1>15. CASE LoopStart \/ LoopReturn \/ LoopWait \/ ShutdownReturn \/ UNCHANGED vars
  BY <1>8, <1>15 DEF LoopStart, LoopReturn, LoopWait, ShutdownReturn, vars
<1>16. ASSUME NEW j \in Jobs,
              \/ SubmitUnloading(j) \/ Cancel(j) \/ CancelFail(j)
              \/ ShutdownFail(j) \/ ShutdownCancel(j) \/ ShutdownCancelled(j)
       PROVE  ChargeInv'
  BY <1>8, <1>16 DEF SubmitUnloading, Cancel, CancelFail, ShutdownFail, ShutdownCancel,
                     ShutdownCancelled
<1>17. ASSUME NEW j \in Jobs,
              LoopSpawn(j) \/ LoopFail(j) \/ WorkerReport(j) \/ WorkerComplete(j)
       PROVE  ChargeInv'
  BY <1>0, <1>8, <1>17 DEF LoopSpawn, LoopFail, WorkerReport, WorkerComplete
<1> QED
  BY <1>1, <1>2, <1>3, <1>4, <1>5, <1>6, <1>9, <1>10, <1>11, <1>12, <1>13, <1>14, <1>15,
     <1>16, <1>17
     DEF Next, LoopThread, Caller, CancelCallback, WorkerOwnStep, ShutdownThread

LEMMA ChargeStart == Init => ChargeInv
  BY DEF Init, QueueInit, ChargeInv

\* Whatever is cancelled, dropped or fails, no key is charged a negative time
\* or starts at anything but a number: scores can be compared.
THEOREM ChargeSafety == Spec => []ChargeInv
<1>1. ChargeInv /\ IInv /\ [Next]_vars => ChargeInv'
  BY ChargeStep
<1> QED
  BY <1>1, ChargeStart, Invariance, PTL DEF Spec

----------------------------------------------------------------------------
(* The keys of a competition *)

\* A key's active jobs hold slots, and a slot holder is active in its key.
LEMMA Holders ==
    ASSUME QueueInv
    PROVE  /\ \A j \in SlotHolders :
                 /\ j \in Jobs /\ KeyOf[j] \in DOMAIN states
                 /\ j \in DOMAIN states[KeyOf[j]].active
           /\ \A k \in DOMAIN states : \A j \in DOMAIN states[k].active :
                 j \in SlotHolders /\ KeyOf[j] = k
  BY DEF QueueInv, StatesInv, KeyInv, KeyCore, KeyStateOK, SlotHolders

\* Only keys without work expire.
LEMMA BusyLive ==
    ASSUME QueueInv, NEW now \in Nat
    PROVE  /\ \A k \in DOMAIN Live(now) : k \in DOMAIN states /\ Live(now)[k] = states[k]
           /\ \A k \in DOMAIN states : Busy(states[k]) => k \in DOMAIN Live(now)
<1>1. \A k \in DOMAIN states : Busy(states[k]) => ~Expired(states[k], now)
  BY DEF QueueInv, StatesInv, KeyInv, Expired
<1> QED
  BY <1>1 DEF Live, Restrict

LEMMA KeyFacts ==
    ASSUME IInv, ChargeInv, NEW k \in DOMAIN states
    PROVE  /\ k \in Keys /\ Cost[k] \in Nat /\ clock \in Nat
           /\ KeyStateOK(states[k]) /\ ActiveOK(states[k])
           /\ states[k].virtual \in Nat
           /\ ActiveElapsed(states[k], clock) \in Nat
           /\ ScoreOf(k) \in Nat
           /\ Cardinality(DOMAIN states[k].active) \in Nat
           /\ Cardinality(DOMAIN states[k].active) <= runtimeInflight
           /\ runtimeInflight \in Nat /\ runtimeInflight <= EffectiveTargetInflight
<1>1. k \in Keys /\ KeyStateOK(states[k]) /\ clock \in Nat /\ states[k].virtual \in Nat
  BY DEF IInv, QueueInv, StatesInv, KeyInv, KeyCore, TypeOK, ChargeInv, ChargeOK
<1>2. ActiveOK(states[k]) /\ Cost[k] \in Nat
  BY <1>1, ActiveOfKey, FairQueueAssumption
<1>3. ActiveElapsed(states[k], clock) \in Nat /\ ScoreOf(k) \in Nat
  BY <1>1, <1>2, ElapsedType, ScoreType DEF ScoreOf
<1>4. DOMAIN states[k].active \subseteq SlotHolders
  BY Holders DEF IInv
<1>5. /\ IsFiniteSet(SlotHolders) /\ Cardinality(SlotHolders) = runtimeInflight
      /\ runtimeInflight <= EffectiveTargetInflight
  BY FiniteSetsOfJobs DEF SlotHolders, IInv, SlotAccounting
<1>6. /\ Cardinality(DOMAIN states[k].active) \in Nat
      /\ Cardinality(SlotHolders) \in Nat
      /\ Cardinality(DOMAIN states[k].active) <= Cardinality(SlotHolders)
  BY <1>4, <1>5, FS_Subset, FS_CardinalityType
<1> QED
  BY <1>1, <1>2, <1>3, <1>5, <1>6, Capacity

\* What its slot holders may still be charged is not negative.
LEMMA SlackFacts ==
    ASSUME IInv, ChargeInv, NEW k \in DOMAIN states
    PROVE  /\ Slack(k) \in Int
           /\ Slack(k) <= MaxHold * Cardinality(DOMAIN states[k].active)
           /\ TimingInv => Slack(k) >= 0
<1> DEFINE n == Cardinality(DOMAIN states[k].active)
           e == ActiveElapsed(states[k], clock)
<1>1. n \in Nat /\ e \in Nat /\ MaxHold * n \in Nat
  BY KeyFacts, FairShareAssumption
<1>2. ASSUME TimingInv
      PROVE  e <= MaxHold * n
  <2>1. \A j \in DOMAIN states[k].active : Elapsed(states[k].active[j], clock) <= MaxHold
    <3> SUFFICES ASSUME NEW j \in DOMAIN states[k].active
                 PROVE  Elapsed(states[k].active[j], clock) <= MaxHold
      OBVIOUS
    <3>1. j \in SlotHolders /\ KeyOf[j] = k
      BY Holders DEF IInv
    <3>2. states[k].active[j] <= clock /\ clock <= states[k].active[j] + MaxHold
      BY <1>2, <3>1 DEF TimingInv, Timed
    <3>3. states[k].active[j] \in Nat /\ clock \in Nat /\ MaxHold \in Nat
      BY KeyFacts, FairShareAssumption DEF ActiveOK
    <3> QED
      BY <3>2, <3>3 DEF Elapsed
  <2> QED
    BY <2>1, KeyFacts, ElapsedBound, FairShareAssumption
<1>3. Slack(k) = MaxHold * n - e
  BY DEF Slack
<1> HIDE DEF n, e
<1> QED
  BY <1>1, <1>2, <1>3 DEF n

----------------------------------------------------------------------------
(* What the steps of a competition do to the keys *)

LEMMA CompetitionSteps ==
    [Competition /\ UpdateShare /\ UpdateJoined]_fairVars => [Next]_vars
<1>1. Competition => Next
  <2> SUFFICES ASSUME Competition PROVE Next
    OBVIOUS
  <2>1. CASE LoopStart \/ LoopWait \/ Tick
    BY <2>1 DEF Next, LoopThread
  <2>2. ASSUME NEW j \in Jobs,
               \/ LoopDispatch(j) \/ LoopSpawn(j) \/ Submit(j)
               \/ WorkerOwnStep(j) \/ WorkerReturn(j)
        PROVE  Next
    BY <2>2 DEF Next, LoopThread, Caller
  <2> QED
    BY <2>1, <2>2 DEF Competition
<1> QED
  BY <1>1 DEF fairVars

LEMMA SubmitEffect ==
    ASSUME IInv, NEW j \in Jobs, Submit(j), NEW k, k = KeyOf[j]
    PROVE  /\ k \in DOMAIN states' /\ states'[k].pending # <<>>
           /\ \A q \in DOMAIN states' \ {k} :
                 q \in DOMAIN Live(clock) /\ states'[q] = states[q]
           /\ DOMAIN Live(clock) \subseteq DOMAIN states'
           /\ k \in DOMAIN Live(clock) =>
                 /\ states'[k].active = states[k].active
                 /\ states'[k].virtual = states[k].virtual
                 /\ states'[k].lastSelected = states[k].lastSelected
           /\ k \notin DOMAIN Live(clock) =>
                 /\ DOMAIN states'[k].active = {}
                 /\ states'[k].virtual = NewState(Live(clock), k, clock).virtual
                 /\ states'[k].lastSelected = 0
<1> DEFINE ss == Live(clock)
           n == NewState(ss, k, clock)
           st == IF k \in DOMAIN ss THEN ss[k] ELSE n
           t == [st EXCEPT !.pending = Append(@, j), !.idleSince = NoTime]
<1>1. clock \in Nat /\ nextActivation \in Nat /\ k \in Keys
  BY FairQueueAssumption DEF IInv, TypeOK
<1>2. StatesInv(ss, worker) /\ \A q \in DOMAIN ss : ss[q] = states[q]
  BY <1>1, LiveInv DEF IInv
<1>3. states' = With(ss, k, t)
  BY DEF Submit, Enqueue
<1>4. DOMAIN n.active = {} /\ n.lastSelected = 0
  BY DEF NewState
<1> HIDE DEF ss, n
<1>5. KeyStateOK(st)
  <2>1. CASE k \in DOMAIN ss
    BY <1>2, <2>1 DEF StatesInv, KeyInv, KeyCore
  <2>2. CASE k \notin DOMAIN ss
    BY <1>1, <1>2, <2>2, NewStateKey DEF n, KeyCore
  <2> QED
    BY <2>1, <2>2
<1>6. /\ k \in DOMAIN ss => st = states[k]
      /\ k \notin DOMAIN ss => st = n
  BY <1>2
<1> HIDE DEF st
<1>7. /\ t.active = st.active /\ t.virtual = st.virtual
      /\ t.lastSelected = st.lastSelected /\ t.pending = Append(st.pending, j)
  BY <1>5 DEF KeyStateOK
<1>8. t.pending # <<>>
  BY <1>5, <1>7 DEF KeyStateOK
<1> HIDE DEF t
<1>9. /\ DOMAIN states' = DOMAIN ss \union {k} /\ states'[k] = t
      /\ \A q \in DOMAIN ss \ {k} : states'[q] = ss[q]
  BY <1>3 DEF With
<1>10. k \notin DOMAIN ss => t.virtual = n.virtual
  BY <1>6, <1>7
<1> QED
  BY <1>2, <1>4, <1>6, <1>7, <1>8, <1>9, <1>10 DEF ss, n

LEMMA DispatchEffect ==
    ASSUME IInv, NEW j \in Jobs, LoopDispatch(j), NEW k, k = KeyOf[j]
    PROVE  /\ k \in DOMAIN Live(clock) /\ k \in DOMAIN states' /\ Waiting(k)
           /\ \A q \in DOMAIN states' \ {k} :
                 q \in DOMAIN Live(clock) /\ states'[q] = states[q]
           /\ DOMAIN Live(clock) \subseteq DOMAIN states'
           /\ states'[k].active = With(states[k].active, j, clock)
           /\ states'[k].virtual = states[k].virtual
           /\ states'[k].lastSelected = nextSelection
           /\ j \notin SlotHolders
           /\ \A q \in DOMAIN Live(clock) \ {k} : Waiting(q) =>
                 Precedes(Rank(states, k, clock), Rank(states, q, clock))
<1> DEFINE ss == Live(clock)
           t == Dispatch(ss[k], j, clock)
<1>1. clock \in Nat /\ QueueInv /\ nextSelection \in Nat /\ worker \in [Jobs -> Positions]
  BY DEF IInv, TypeOK
<1>2. /\ \A q \in DOMAIN ss : q \in DOMAIN states /\ ss[q] = states[q]
      /\ \A q \in DOMAIN ss : KeyStateOK(ss[q])
  BY <1>1, LiveInv DEF StatesInv, KeyInv, KeyCore
<1>3. /\ k \in DOMAIN ss /\ ss[k].pending # <<>> /\ states' = With(ss, k, t)
      /\ \A q \in DOMAIN ss \ {k} : ss[q].pending # <<>> =>
             Precedes(Rank(ss, k, clock), Rank(ss, q, clock))
  BY DEF LoopDispatch, PopNext
<1>4. \A q \in DOMAIN ss : Rank(ss, q, clock) = Rank(states, q, clock)
  BY <1>2 DEF Rank
<1>5. /\ t.active = With(states[k].active, j, clock)
      /\ t.virtual = states[k].virtual /\ t.lastSelected = nextSelection
  BY <1>2, <1>3 DEF Dispatch, KeyStateOK
<1>6. j \notin SlotHolders
  <2>1. PopNext(j, clock)
    BY DEF LoopDispatch
  <2>2. worker[j] = "none"
    BY <1>1, <2>1, PopStep
  <2> QED
    BY <2>2 DEF SlotHolders, SlotPositions
<1> HIDE DEF t, ss
<1>7. /\ DOMAIN states' = DOMAIN ss \union {k} /\ states'[k] = t
      /\ \A q \in DOMAIN ss \ {k} : states'[q] = ss[q]
  BY <1>3 DEF With
<1>8. \A q \in DOMAIN ss : Waiting(q) <=> ss[q].pending # <<>>
  BY <1>2 DEF Waiting
<1>9. \A q \in DOMAIN ss \ {k} : Waiting(q) =>
         Precedes(Rank(states, k, clock), Rank(states, q, clock))
  BY <1>3, <1>4, <1>8
<1> QED
  BY <1>2, <1>3, <1>5, <1>6, <1>7, <1>8, <1>9 DEF ss

LEMMA ReleaseEffect ==
    ASSUME IInv, NEW j \in Jobs, WorkerRelease(j), NEW k, k = KeyOf[j]
    PROVE  /\ k \in DOMAIN states /\ j \in DOMAIN states[k].active /\ j \in SlotHolders
           /\ DOMAIN states' = DOMAIN states
           /\ \A q \in DOMAIN states \ {k} : states'[q] = states[q]
           /\ states'[k].active = Without(states[k].active, j)
           /\ states'[k].virtual =
                 states[k].virtual + (finishedAt[j] - startedAt[j]) * Cost[k]
           /\ states'[k].lastSelected = states[k].lastSelected
           /\ states'[k].pending = states[k].pending
<1> DEFINE v == (finishedAt[j] - startedAt[j]) * Cost[k]
           t == MarkIdleIfNeeded(GiveBack(states[k], j, v), finishedAt[j])
<1>1. j \in SlotHolders
  BY DEF WorkerRelease, SlotHolders, SlotPositions
<1>2. k \in DOMAIN states /\ j \in DOMAIN states[k].active
  BY <1>1, Holders DEF IInv
<1>3. states' = With(states, k, t)
  BY <1>2 DEF WorkerRelease, Complete
<1>4. KeyStateOK(states[k])
  BY <1>2 DEF IInv, TypeOK
<1> HIDE DEF v
<1>5. /\ t.virtual = states[k].virtual + v /\ t.active = Without(states[k].active, j)
      /\ t.pending = states[k].pending /\ t.lastSelected = states[k].lastSelected
  BY <1>4, GiveBackFields
<1> HIDE DEF t
<1>6. /\ DOMAIN states' = DOMAIN states /\ states'[k] = t
      /\ \A q \in DOMAIN states \ {k} : states'[q] = states[q]
  BY <1>2, <1>3 DEF With
<1> QED
  BY <1>1, <1>2, <1>5, <1>6 DEF v

\* Steps of a thread that leave the queue and the clock alone.
Quiet ==
    \/ LoopStart \/ LoopWait
    \/ \E j \in Jobs :
          \/ LoopSpawn(j) \/ WorkerBegin(j) \/ WorkerCheckCancelled(j)
          \/ WorkerReport(j) \/ WorkerComplete(j) \/ WorkerReturn(j)

LEMMA QuietEffect ==
    ASSUME Quiet
    PROVE  UNCHANGED <<states, clock>>
  BY DEF Quiet, LoopStart, LoopWait, LoopSpawn, WorkerBegin, WorkerCheckCancelled,
         WorkerReport, WorkerComplete, WorkerReturn, queueVars

\* Which steps there are.
LEMMA CompetitionCases ==
    ASSUME Competition
    PROVE  \/ Quiet
           \/ \E j \in Jobs : \/ LoopDispatch(j) \/ WorkerRelease(j)
                              \/ (~AtRest => Overhead) /\ Submit(j)
           \/ /\ \A j \in SlotHolders : clock - states[KeyOf[j]].active[j] < MaxHold
              /\ ~AtRest => Overhead
              /\ Tick
  BY DEF Competition, Quiet, WorkerOwnStep

----------------------------------------------------------------------------
(* Workers measure the time their jobs are active *)

\* A job that held its slot before a step at the same time, and whose worker
\* stands where it stood.
LEMMA TimedKept ==
    ASSUME NEW i \in SlotHolders, Timed(i), UNCHANGED clock,
           worker'[i] = worker[i], startedAt'[i] = startedAt[i],
           finishedAt'[i] = finishedAt[i],
           states'[KeyOf[i]].active[i] = states[KeyOf[i]].active[i]
    PROVE  Timed(i)'
  BY DEF Timed

LEMMA TimingStep ==
    ASSUME IInv, TimingInv, Competition, ~Overhead
    PROVE  TimingInv'
<1> USE DEF workerVars
<1>0. /\ clock \in Nat /\ worker \in [Jobs -> Positions] /\ MaxHold \in Nat /\ QueueInv
      /\ startedAt \in [Jobs -> Nat] /\ finishedAt \in [Jobs -> Nat]
      /\ SlotHolders \subseteq Jobs
  BY FairShareAssumption DEF IInv, TypeOK, SlotHolders
<1>1. \A i \in SlotHolders : /\ KeyOf[i] \in DOMAIN states /\ KeyOf[i] \in DOMAIN Live(clock)
                             /\ i \in DOMAIN states[KeyOf[i]].active
  BY <1>0, Holders, BusyLive DEF Busy
<1>2. CASE LoopStart \/ LoopWait
  BY <1>2 DEF LoopStart, LoopWait, queueVars, TimingInv, Timed, SlotHolders
<1>3. ASSUME NEW j \in Jobs,
             \/ LoopSpawn(j) \/ WorkerBegin(j) \/ WorkerCheckCancelled(j)
             \/ WorkerReport(j) \/ WorkerComplete(j) \/ WorkerReturn(j)
      PROVE  TimingInv'
  <2> SUFFICES ASSUME NEW i \in SlotHolders' PROVE Timed(i)'
    BY DEF TimingInv
  <2>1. states' = states /\ clock' = clock
    BY <1>3, QuietEffect DEF Quiet
  <2>2. i \in SlotHolders /\ Timed(i)
    BY <1>0, <1>3 DEF LoopSpawn, WorkerBegin, WorkerCheckCancelled, WorkerReport,
           WorkerComplete, WorkerReturn, SlotHolders, SlotPositions, TimingInv
  <2>3. CASE i # j
    <3>1. worker'[i] = worker[i] /\ startedAt'[i] = startedAt[i] /\ finishedAt'[i] = finishedAt[i]
      BY <1>0, <1>3, <2>2, <2>3 DEF LoopSpawn, WorkerBegin, WorkerCheckCancelled, WorkerReport,
             WorkerComplete, WorkerReturn
    <3> QED
      BY <2>1, <2>2, <3>1, TimedKept
  <2>4. CASE i = j
    <3>1. CASE LoopSpawn(j)
      BY <1>0, <2>1, <2>2, <2>4, <3>1 DEF LoopSpawn, Timed
    <3>2. CASE WorkerBegin(j)
      BY <1>0, <2>1, <2>2, <2>4, <3>2 DEF WorkerBegin, Timed
    <3>3. CASE WorkerCheckCancelled(j)
      BY <1>0, <2>1, <2>2, <2>4, <3>3 DEF WorkerCheckCancelled, Timed
    <3>4. CASE WorkerReturn(j)
      BY <1>0, <2>1, <2>2, <2>4, <3>4 DEF WorkerReturn, Timed
    <3>5. CASE WorkerReport(j) \/ WorkerComplete(j)
      BY <1>0, <2>2, <2>4, <3>5 DEF WorkerReport, WorkerComplete, SlotHolders, SlotPositions
    <3> QED
      BY <1>3, <3>1, <3>2, <3>3, <3>4, <3>5
  <2> QED
    BY <2>3, <2>4
<1>4. ASSUME NEW j \in Jobs, Submit(j)
      PROVE  TimingInv'
  <2> SUFFICES ASSUME NEW i \in SlotHolders' PROVE Timed(i)'
    BY DEF TimingInv
  <2>1. /\ clock' = clock /\ UNCHANGED workerVars /\ i \in SlotHolders /\ Timed(i)
    BY <1>4 DEF Submit, SlotHolders, TimingInv
  <2>2. states'[KeyOf[i]].active = states[KeyOf[i]].active
    BY <1>1, <1>4, <2>1, SubmitEffect
  <2> QED
    BY <2>1, <2>2, TimedKept
<1>5. ASSUME NEW j \in Jobs, LoopDispatch(j)
      PROVE  TimingInv'
  <2> SUFFICES ASSUME NEW i \in SlotHolders' PROVE Timed(i)'
    BY DEF TimingInv
  <2> DEFINE k == KeyOf[j]
  <2>1. /\ states'[k].active = With(states[k].active, j, clock)
        /\ \A q \in DOMAIN states' \ {k} : states'[q] = states[q]
        /\ DOMAIN Live(clock) \subseteq DOMAIN states'
    BY <1>5, DispatchEffect
  <2> HIDE DEF k
  <2>2. /\ clock' = clock /\ worker' = [worker EXCEPT ![j] = "popped"]
        /\ UNCHANGED <<startedAt, finishedAt>>
    BY <1>5 DEF LoopDispatch
  <2>3. CASE i = j
    <3>1. states'[KeyOf[j]].active[j] = clock
      BY <2>1 DEF k, With
    <3>2. worker'[j] = "popped"
      BY <1>0, <2>2
    <3> QED
      BY <1>0, <2>2, <2>3, <3>1, <3>2 DEF Timed
  <2>4. CASE i # j
    <3>1. i \in SlotHolders /\ Timed(i) /\ worker'[i] = worker[i]
      BY <1>0, <2>2, <2>4 DEF SlotHolders, TimingInv
    <3>2. states'[KeyOf[i]].active[i] = states[KeyOf[i]].active[i]
      <4>1. CASE KeyOf[i] = k
        BY <1>1, <2>1, <2>4, <3>1, <4>1 DEF With
      <4>2. CASE KeyOf[i] # k
        BY <1>1, <2>1, <3>1, <4>2
      <4> QED
        BY <4>1, <4>2
    <3> QED
      BY <2>2, <3>1, <3>2, TimedKept
  <2> QED
    BY <2>3, <2>4
<1>6. ASSUME NEW j \in Jobs, WorkerRelease(j)
      PROVE  TimingInv'
  <2> SUFFICES ASSUME NEW i \in SlotHolders' PROVE Timed(i)'
    BY DEF TimingInv
  <2> DEFINE k == KeyOf[j]
  <2>1. /\ states'[k].active = Without(states[k].active, j)
        /\ \A q \in DOMAIN states \ {k} : states'[q] = states[q]
    BY <1>6, ReleaseEffect
  <2> HIDE DEF k
  <2>2. /\ clock' = clock /\ worker' = [worker EXCEPT ![j] = "released"]
        /\ startedAt' = [startedAt EXCEPT ![j] = 0] /\ finishedAt' = [finishedAt EXCEPT ![j] = 0]
    BY <1>6 DEF WorkerRelease
  <2>3. i \in SlotHolders /\ Timed(i) /\ i # j
    BY <1>0, <2>2 DEF SlotHolders, SlotPositions, TimingInv
  <2>4. states'[KeyOf[i]].active[i] = states[KeyOf[i]].active[i]
    <3>1. CASE KeyOf[i] = k
      BY <1>1, <2>1, <2>3, <3>1 DEF Without, Restrict
    <3>2. CASE KeyOf[i] # k
      BY <1>1, <2>1, <2>3, <3>2
    <3> QED
      BY <3>1, <3>2
  <2>5. worker'[i] = worker[i] /\ startedAt'[i] = startedAt[i] /\ finishedAt'[i] = finishedAt[i]
    BY <1>0, <2>2, <2>3
  <2> QED
    BY <2>2, <2>3, <2>4, <2>5, TimedKept
<1>7. CASE /\ \A j \in SlotHolders : clock - states[KeyOf[j]].active[j] < MaxHold
           /\ ~AtRest => Overhead
           /\ Tick
  <2> SUFFICES ASSUME NEW i \in SlotHolders' PROVE Timed(i)'
    BY DEF TimingInv
  <2>1. /\ clock' = clock + 1 /\ states' = states /\ UNCHANGED workerVars
        /\ i \in SlotHolders /\ Timed(i)
    BY <1>7 DEF Tick, queueVars, SlotHolders, TimingInv
  <2>2. worker[i] = "running"
    BY <1>0, <1>7, <2>1 DEF AtRest, SlotHolders, SlotPositions
  <2>3. states[KeyOf[i]].active[i] \in Nat
    BY <1>0, <1>1, <2>1 DEF QueueInv, StatesInv, KeyInv, KeyCore, KeyStateOK
  <2>4. clock - states[KeyOf[i]].active[i] < MaxHold
    BY <1>7, <2>1
  <2> QED
    BY <1>0, <2>1, <2>2, <2>3, <2>4 DEF Timed
<1> QED
  BY <1>2, <1>3, <1>4, <1>5, <1>6, <1>7, CompetitionCases DEF Quiet

----------------------------------------------------------------------------
(* Contests *)

LEMMA WaitingLive ==
    ASSUME IInv, NEW k, Waiting(k)
    PROVE  k \in DOMAIN states /\ k \in DOMAIN Live(clock) /\ k \in Keys
  BY BusyLive DEF Waiting, Busy, IInv, TypeOK

\* Keys arrive only when requests do.
LEMMA NobodyArrives ==
    ASSUME IInv, \A k \in Keys : Waiting(k)' => Waiting(k)
    PROVE  Arrived = {}
  BY WaitingLive DEF Arrived

LEMMA CostTimes ==
    ASSUME NEW c \in Nat, NEW x \in Int, NEW y \in Int
    PROVE  /\ c * x \in Int
           /\ x <= y => c * x <= c * y
           /\ c * (x - y) = c * x - c * y
           /\ c * (x + y) = c * x + c * y
           /\ x * c = c * x
  OBVIOUS

\* What one round of slots is worth.
Round == EffectiveTargetInflight * MaxHold

LEMMA RoundType ==
    /\ Round \in Nat
    /\ \A k \in Keys : Cost[k] \in Nat /\ Cost[k] * Round \in Nat
<1>1. Round \in Nat /\ \A k \in Keys : Cost[k] \in Nat
  BY Capacity, FairShareAssumption, FairQueueAssumption DEF Round
<1> HIDE DEF Round
<1> QED
  BY <1>1

\* No key's slots are worth more.
LEMMA SlackMost ==
    IInv /\ ChargeInv =>
        \A k \in DOMAIN states : ScoreOf(k) \in Nat /\ Slack(k) \in Int /\ Slack(k) <= Round
<1> SUFFICES ASSUME IInv, ChargeInv, NEW k \in DOMAIN states
             PROVE  ScoreOf(k) \in Nat /\ Slack(k) \in Int /\ Slack(k) <= Round
  OBVIOUS
<1> DEFINE n == Cardinality(DOMAIN states[k].active)
           C == EffectiveTargetInflight
           x == MaxHold * n
<1>1. n \in Nat /\ n <= C /\ C \in Nat /\ MaxHold \in Nat
  BY KeyFacts, Capacity, FairShareAssumption
<1>2. ScoreOf(k) \in Nat /\ Slack(k) \in Int /\ Slack(k) <= x
  BY KeyFacts, SlackFacts
<1> HIDE DEF n
<1>3. x \in Int /\ x <= C * MaxHold
  <2> HIDE DEF C
  <2> QED
    BY <1>1, CostTimes
<1>4. x <= Round
  BY <1>3 DEF Round
<1> HIDE DEF x
<1> QED
  BY <1>2, <1>3, <1>4, RoundType

LEMMA SlackNext ==
    (IInv /\ ChargeInv)' =>
        (\A k \in DOMAIN states : ScoreOf(k) \in Nat /\ Slack(k) \in Int /\ Slack(k) <= Round)'
  BY SlackMost, PTL

\* A contest begins.
LEMMA ContestStart ==
    ASSUME IInv', ChargeInv', share = <<>>, UpdateShare
    PROVE  ContestInv'
<1> SUFFICES ASSUME share' # <<>> PROVE ContestInv'
  BY DEF ContestInv
<1>1. /\ \A k \in Keys : Waiting(k)'
      /\ share' = [k \in Keys |-> 0] /\ base' = [k \in Keys |-> ScoreOf(k)']
  BY DEF UpdateShare
<1>2. \A k \in Keys : ScoreOf(k)' \in Nat /\ Slack(k)' \in Int /\ Slack(k)' <= Round
  BY <1>1, SlackNext DEF Waiting, Round, EffectiveTargetInflight
<1>3. share' \in [Keys -> Nat] /\ base' \in [Keys -> Nat]
  BY <1>1, <1>2
<1>4. \A k \in Keys : ScoreOf(k)' = base'[k] + share'[k]
  BY <1>1, <1>2
<1>5. ASSUME NEW k \in Keys, NEW q \in Keys
      PROVE  share'[k] - share'[q] + Cost[k] * Slack(k)' <= Cost[k] * Round + Behind(k, q)'
  <2> DEFINE x == Cost[k] * Slack(k)'
             y == Cost[k] * Round
             d == Behind(k, q)'
  <2>1. x \in Int /\ y \in Int /\ x <= y
    BY <1>2, RoundType, CostTimes
  <2>2. d \in Nat
    BY <1>3 DEF Behind
  <2>3. share'[k] = 0 /\ share'[q] = 0
    BY <1>1
  <2> HIDE DEF x, y, d
  <2>4. share'[k] - share'[q] + x <= y + d
    BY <2>1, <2>2, <2>3
  <2> QED
    BY <2>4 DEF x, y, d
<1> QED
  BY <1>1, <1>3, <1>4, <1>5 DEF ContestInv, Round, EffectiveTargetInflight

\* While no time passes the shares stay, and so does a lead if no score moves
\* and a key can be charged more than before only when it is not ahead.
LEMMA ContestKept ==
    ASSUME IInv, ChargeInv, ContestInv, UpdateShare, clock' = clock, share # <<>>,
           \A k \in Keys : /\ ScoreOf(k)' = ScoreOf(k) /\ Slack(k)' \in Int
                           /\ \/ Slack(k)' <= Slack(k)
                              \/ /\ Slack(k)' <= Round
                                 /\ \A q \in Keys : ScoreOf(k) <= ScoreOf(q)
    PROVE  ContestInv'
<1> SUFFICES ASSUME share' # <<>> PROVE ContestInv'
  BY DEF ContestInv
<1>1. /\ \A k \in Keys : Waiting(k)'
      /\ base' = base
      /\ share' = [k \in Keys |-> share[k] + (clock' - clock) * Cost[k] *
                                              Cardinality(InBackend(k))]
  BY DEF UpdateShare
<1>2. /\ share \in [Keys -> Nat] /\ base \in [Keys -> Nat] /\ clock \in Nat
      /\ \A k \in Keys : k \in DOMAIN states
  BY DEF ContestInv, IInv, TypeOK, Waiting
<1>3. share' = share
  <2>1. ASSUME NEW k \in Keys PROVE share'[k] = share[k]
    <3> DEFINE n == Cardinality(InBackend(k))
    <3>1. n \in Nat /\ Cost[k] \in Nat
      BY FiniteSetsOfJobs, FairQueueAssumption DEF InBackend
    <3>2. share'[k] = share[k] + (clock' - clock) * Cost[k] * n
      BY <1>1
    <3> HIDE DEF n
    <3>3. (clock' - clock) * Cost[k] * n = 0
      BY <1>2, <3>1
    <3> QED
      BY <1>2, <3>2, <3>3
  <2>2. share' = [k \in Keys |-> share'[k]]
    BY <1>1
  <2> QED
    BY <1>2, <2>1, <2>2
<1>4. \A k \in Keys : ScoreOf(k)' = base'[k] + share'[k]
  BY <1>1, <1>3 DEF ContestInv
<1>5. ASSUME NEW k \in Keys, NEW q \in Keys
      PROVE  share[k] - share[q] + Cost[k] * Slack(k)' <= Cost[k] * Round + Behind(k, q)
  <2> DEFINE w == Slack(k)
             v == Slack(k)'
             x == Cost[k] * w
             y == Cost[k] * v
             z == Cost[k] * Round
             d == Behind(k, q)
  <2>1. share[k] - share[q] + x <= z + d
    BY DEF ContestInv, Round
  <2>2. /\ w \in Int /\ v \in Int /\ Cost[k] \in Nat /\ Round \in Int
        /\ share[k] \in Nat /\ share[q] \in Nat /\ base[k] \in Nat /\ base[q] \in Nat
    BY <1>2, SlackFacts, RoundType
  <2>3. d \in Nat /\ base[q] - base[k] <= d
    BY <2>2 DEF Behind
  <2>4. ScoreOf(k) = base[k] + share[k] /\ ScoreOf(q) = base[q] + share[q]
    BY DEF ContestInv
  <2>5. v <= w \/ (v <= Round /\ ScoreOf(k) <= ScoreOf(q))
    OBVIOUS
  <2> HIDE DEF w, v, d
  <2>6. x \in Int /\ y \in Int /\ z \in Int /\ (v <= w => y <= x) /\ (v <= Round => y <= z)
    BY <2>2, CostTimes
  <2> HIDE DEF x, y, z
  <2>7. share[k] - share[q] + y <= z + d
    <3>1. CASE v <= w
      BY <2>1, <2>2, <2>3, <2>6, <3>1
    <3>2. CASE v <= Round /\ ScoreOf(k) <= ScoreOf(q)
      <4>1. y <= z
        BY <2>6, <3>2
      <4>2. base[k] + share[k] <= base[q] + share[q]
        BY <2>4, <3>2
      <4>3. share[k] - share[q] <= d
        BY <2>2, <2>3, <4>2
      <4> QED
        BY <2>2, <2>3, <2>6, <4>1, <4>3
    <3> QED
      BY <2>5, <3>1, <3>2
  <2> QED
    BY <2>7 DEF v, y, z, d
<1>6. \A k, q \in Keys : Behind(k, q)' = Behind(k, q)
  BY <1>1 DEF Behind
<1> QED
  BY <1>1, <1>2, <1>3, <1>4, <1>5, <1>6 DEF ContestInv, Round, EffectiveTargetInflight

\* A charge for the time a job was active changes no score.
Left(st, now) == MaxHold * Cardinality(DOMAIN st.active) - ActiveElapsed(st, now)

LEMMA SettledScore ==
    ASSUME NEW st, NEW t, ActiveOK(st), st.virtual \in Nat, NEW k \in Keys, NEW now \in Nat,
           NEW j \in DOMAIN st.active, Elapsed(st.active[j], now) <= MaxHold,
           t.active = Without(st.active, j),
           t.virtual = st.virtual + Elapsed(st.active[j], now) * Cost[k]
    PROVE  /\ DOMAIN t.active = DOMAIN st.active \ {j}
           /\ Score(t, k, now) = Score(st, k, now)
           /\ Left(t, now) \in Int /\ Left(t, now) <= Left(st, now)
<1> DEFINE e == ActiveElapsed(st, now)
           f == ActiveElapsed(t, now)
           n == Cardinality(DOMAIN st.active)
           m == Cardinality(DOMAIN t.active)
           d == Elapsed(st.active[j], now)
           c == Cost[k]
<1>1. ActiveOK(t) /\ DOMAIN t.active = DOMAIN st.active \ {j} /\ e = d + f /\ n = m + 1
  <2>1. ActiveOK(t)
    BY ElapsedWithout
  <2>2. DOMAIN t.active = DOMAIN st.active \ {j}
    BY ElapsedWithout
  <2>3. e = d + f
    BY ElapsedWithout
  <2>4. n = m + 1
    BY ElapsedWithout
  <2> QED
    BY <2>1, <2>2, <2>3, <2>4
<1>2. e \in Nat /\ f \in Nat
  BY <1>1, ElapsedType
<1>3. m \in Nat
  BY <1>1, FS_CardinalityType DEF ActiveOK
<1>4. d \in Nat /\ d <= MaxHold /\ c \in Nat /\ MaxHold \in Nat
  BY FairQueueAssumption, FairShareAssumption DEF ActiveOK, Elapsed
<1>5. /\ Score(st, k, now) = st.virtual + c * e
      /\ Score(t, k, now) = (st.virtual + d * c) + c * f
      /\ Left(st, now) = MaxHold * n - e
      /\ Left(t, now) = MaxHold * m - f
  BY DEF Score, Left
<1> HIDE DEF d, c, n, m, e, f
<1>6. d * c + c * f = c * e /\ d * c \in Int /\ c * f \in Int
  BY <1>1, <1>2, <1>3, <1>4, CostTimes
<1>7. MaxHold * n = MaxHold * m + MaxHold /\ MaxHold * m \in Int
  BY <1>1, <1>2, <1>3, <1>4, CostTimes
<1>8. Score(t, k, now) = Score(st, k, now)
  <2> DEFINE x == d * c
             y == c * f
             z == c * e
  <2>1. x + y = z /\ x \in Int /\ y \in Int /\ st.virtual \in Int
    BY <1>6
  <2>2. Score(st, k, now) = st.virtual + z /\ Score(t, k, now) = (st.virtual + x) + y
    BY <1>5
  <2> HIDE DEF x, y, z
  <2> QED
    BY <2>1, <2>2
<1>9. Left(t, now) \in Int /\ Left(t, now) <= Left(st, now)
  BY <1>1, <1>2, <1>3, <1>4, <1>5, <1>7
<1> QED
  BY <1>1, <1>8, <1>9

\* The release charges what the score has counted already.
LEMMA ReleaseScore ==
    ASSUME IInv, ChargeInv, TimingInv, NEW j \in Jobs, WorkerRelease(j),
           NEW q \in DOMAIN states
    PROVE  /\ q \in DOMAIN states' /\ (Waiting(q)' <=> Waiting(q))
           /\ states'[q].lastSelected = states[q].lastSelected
           /\ DOMAIN states'[q].active \subseteq DOMAIN states[q].active
           /\ ScoreOf(q)' = ScoreOf(q)
           /\ Slack(q)' \in Int /\ Slack(q)' <= Slack(q)
<1> DEFINE k == KeyOf[j]
<1>1. /\ k \in DOMAIN states /\ j \in DOMAIN states[k].active /\ j \in SlotHolders
      /\ DOMAIN states' = DOMAIN states
      /\ \A x \in DOMAIN states \ {k} : states'[x] = states[x]
      /\ states'[k].active = Without(states[k].active, j)
      /\ states'[k].virtual = states[k].virtual + (finishedAt[j] - startedAt[j]) * Cost[k]
      /\ states'[k].lastSelected = states[k].lastSelected
      /\ states'[k].pending = states[k].pending
  BY ReleaseEffect
<1>2. clock' = clock
  BY DEF WorkerRelease
<1>3. CASE q # k
  <2>1. states'[q] = states[q]
    BY <1>1, <1>3
  <2> QED
    BY <1>1, <1>2, <2>1, SlackFacts DEF Waiting, ScoreOf, Slack
<1>4. CASE q = k
  <2>1. /\ ActiveOK(states[k]) /\ clock \in Nat /\ k \in Keys /\ states[k].virtual \in Nat
        /\ states[k].active[j] \in Nat
    BY <1>1, KeyFacts DEF ActiveOK
  <2>2. /\ finishedAt[j] - startedAt[j] = Elapsed(states[k].active[j], clock)
        /\ Elapsed(states[k].active[j], clock) <= MaxHold
    <3>1. Timed(j) /\ worker[j] = "returned"
      BY <1>1 DEF TimingInv, WorkerRelease
    <3> QED
      BY <2>1, <3>1, FairShareAssumption DEF Timed, Elapsed
  <2>3. states'[k].virtual = states[k].virtual + Elapsed(states[k].active[j], clock) * Cost[k]
    BY <1>1, <2>2
  <2>4. states'[k].active = Without(states[k].active, j) /\ j \in DOMAIN states[k].active
    BY <1>1
  <2> HIDE DEF k
  <2>5. /\ DOMAIN states'[k].active = DOMAIN states[k].active \ {j}
        /\ Score(states'[k], k, clock) = Score(states[k], k, clock)
        /\ Left(states'[k], clock) \in Int /\ Left(states'[k], clock) <= Left(states[k], clock)
    BY <2>1, <2>2, <2>3, <2>4, SettledScore
  <2>6. Waiting(k)' <=> Waiting(k)
    BY <1>1 DEF Waiting
  <2> QED
    BY <1>1, <1>2, <1>4, <2>5, <2>6 DEF ScoreOf, Slack, Left
<1> QED
  BY <1>3, <1>4

LEMMA ReleaseContest ==
    ASSUME IInv, ChargeInv, TimingInv, ContestInv, NEW j \in Jobs, WorkerRelease(j),
           UpdateShare, share # <<>>
    PROVE  ContestInv'
<1>1. clock' = clock
  BY DEF WorkerRelease
<1>2. \A k \in Keys : k \in DOMAIN states
  BY DEF ContestInv, Waiting
<1>3. \A k \in Keys : /\ ScoreOf(k)' = ScoreOf(k)
                      /\ Slack(k)' \in Int /\ Slack(k)' <= Slack(k)
  BY <1>2, ReleaseScore
<1> QED
  BY <1>1, <1>3, ContestKept

LEMMA SameContest ==
    ASSUME IInv, ChargeInv, ContestInv, UNCHANGED <<states, clock>>, UpdateShare, share # <<>>
    PROVE  ContestInv'
<1>1. \A k \in Keys : k \in DOMAIN states
  BY DEF ContestInv, Waiting
<1>2. \A k \in Keys : /\ ScoreOf(k)' = ScoreOf(k)
                      /\ Slack(k)' \in Int /\ Slack(k)' <= Slack(k)
  BY <1>1, SlackFacts DEF ScoreOf, Slack
<1> QED
  BY <1>2, ContestKept

\* At rest the active jobs of a key are in the runtime.
LEMMA RestingInBackend ==
    ASSUME IInv, AtRest, NEW k \in DOMAIN states
    PROVE  InBackend(k) = DOMAIN states[k].active
<1>1. \A j \in Jobs : j \in DOMAIN states[k].active <=> KeyOf[j] = k /\ worker[j] \in SlotPositions
  BY DEF IInv, QueueInv, StatesInv, KeyInv, KeyCore
<1>2. DOMAIN states[k].active \subseteq Jobs
  BY DEF IInv, TypeOK, KeyStateOK
<1> QED
  BY <1>1, <1>2 DEF AtRest, InBackend, SlotPositions

\* Time adds to a score what it adds to a share.
LEMMA TickScore ==
    ASSUME IInv, ChargeInv, TimingInv, Tick, NEW k \in DOMAIN states
    PROVE  LET n == Cardinality(DOMAIN states[k].active)
           IN  /\ ScoreOf(k)' = ScoreOf(k) + Cost[k] * n
               /\ Slack(k)' = Slack(k) - n
<1> DEFINE n == Cardinality(DOMAIN states[k].active)
           e == ActiveElapsed(states[k], clock)
           f == ActiveElapsed(states[k], clock + 1)
           c == Cost[k]
           v == states[k].virtual
<1>1. clock' = clock + 1 /\ states' = states
  BY DEF Tick, queueVars
<1>2. \A j \in DOMAIN states[k].active : states[k].active[j] <= clock
  BY Holders DEF IInv, TimingInv, Timed
<1>3. /\ c \in Nat /\ n \in Nat /\ e \in Nat /\ v \in Nat /\ ActiveOK(states[k])
      /\ clock \in Nat
  BY KeyFacts
<1>4. f = e + n
  BY <1>2, <1>3, ElapsedTick
<1>5. /\ ScoreOf(k) = v + c * e /\ ScoreOf(k)' = v + c * f
      /\ Slack(k) = MaxHold * n - e /\ Slack(k)' = MaxHold * n - f
  BY <1>1 DEF ScoreOf, Score, Slack
<1> HIDE DEF n, e, f, c, v
<1>6. c * f = c * e + c * n /\ c * e \in Int /\ c * n \in Int
  BY <1>3, <1>4, CostTimes
<1>7. MaxHold * n \in Int
  BY <1>3, FairShareAssumption, CostTimes
<1>8. ScoreOf(k)' = ScoreOf(k) + c * n
  BY <1>3, <1>5, <1>6
<1>9. Slack(k)' = Slack(k) - n
  BY <1>3, <1>4, <1>5, <1>7
<1> QED
  BY <1>8, <1>9 DEF c, n

LEMMA TickContest ==
    ASSUME IInv, ChargeInv, TimingInv, ContestInv, AtRest, Tick, UpdateShare, share # <<>>
    PROVE  ContestInv'
<1> DEFINE n(k) == Cardinality(DOMAIN states[k].active)
<1> SUFFICES ASSUME share' # <<>> PROVE ContestInv'
  BY DEF ContestInv
<1>1. /\ \A k \in Keys : Waiting(k)'
      /\ base' = base
      /\ share' = [k \in Keys |-> share[k] + (clock' - clock) * Cost[k] *
                                              Cardinality(InBackend(k))]
  BY DEF UpdateShare
<1>2. clock' = clock + 1
  BY DEF Tick
<1>3. /\ share \in [Keys -> Nat] /\ base \in [Keys -> Nat] /\ clock \in Nat
      /\ \A k \in Keys : k \in DOMAIN states
  BY DEF ContestInv, IInv, TypeOK, Waiting
<1>4. \A k \in Keys : /\ Cost[k] \in Nat /\ n(k) \in Nat /\ Slack(k) \in Int
                      /\ Cost[k] * n(k) \in Nat
                      /\ ScoreOf(k)' = ScoreOf(k) + Cost[k] * n(k)
                      /\ Slack(k)' = Slack(k) - n(k)
  <2> SUFFICES ASSUME NEW k \in Keys
               PROVE  /\ Cost[k] \in Nat /\ n(k) \in Nat /\ Slack(k) \in Int
                      /\ Cost[k] * n(k) \in Nat
                      /\ ScoreOf(k)' = ScoreOf(k) + Cost[k] * n(k)
                      /\ Slack(k)' = Slack(k) - n(k)
    OBVIOUS
  <2>1. k \in DOMAIN states
    BY <1>3
  <2>2. Cost[k] \in Nat /\ n(k) \in Nat
    BY <2>1, KeyFacts
  <2>3. Cost[k] * n(k) \in Nat
    BY <2>2
  <2> QED
    BY <2>1, <2>2, <2>3, SlackFacts, TickScore
<1>5. \A k \in Keys : share'[k] = share[k] + Cost[k] * n(k)
  <2> SUFFICES ASSUME NEW k \in Keys PROVE share'[k] = share[k] + Cost[k] * n(k)
    OBVIOUS
  <2>1. share'[k] = share[k] + (clock' - clock) * Cost[k] * Cardinality(InBackend(k))
    BY <1>1
  <2>2. Cardinality(InBackend(k)) = n(k)
    BY <1>3, RestingInBackend
  <2>3. clock' - clock = 1 /\ 1 * Cost[k] = Cost[k]
    BY <1>2, <1>3, <1>4
  <2> QED
    BY <2>1, <2>2, <2>3
<1> HIDE DEF n
<1>6. share' \in [Keys -> Nat]
  <2>1. share' = [k \in Keys |-> share'[k]]
    BY <1>1
  <2>2. ASSUME NEW k \in Keys PROVE share'[k] \in Nat
    <3> DEFINE a == Cost[k] * n(k)
    <3>1. a \in Nat /\ share[k] \in Nat /\ share'[k] = share[k] + a
      BY <1>3, <1>4, <1>5
    <3> HIDE DEF a
    <3> QED
      BY <3>1
  <2> QED
    BY <2>1, <2>2
<1>7. ASSUME NEW k \in Keys PROVE ScoreOf(k)' = base[k] + share'[k]
  <2> DEFINE a == Cost[k] * n(k)
  <2>1. /\ ScoreOf(k) = base[k] + share[k] /\ ScoreOf(k)' = ScoreOf(k) + a
        /\ share'[k] = share[k] + a /\ a \in Nat
        /\ base[k] \in Nat /\ share[k] \in Nat
    BY <1>3, <1>4, <1>5 DEF ContestInv
  <2> HIDE DEF a
  <2> QED
    BY <2>1
<1>8. ASSUME NEW k \in Keys, NEW q \in Keys
      PROVE  share'[k] - share'[q] + Cost[k] * Slack(k)' <= Cost[k] * Round + Behind(k, q)
  <2> DEFINE x == Cost[k] * Slack(k)
             a == Cost[k] * n(k)
             b == Cost[q] * n(q)
             z == Cost[k] * Round
             d == Behind(k, q)
  <2>1. share[k] - share[q] + x <= z + d
    BY DEF ContestInv, Round
  <2>2. z \in Nat /\ d \in Nat
    BY <1>3, RoundType DEF Behind
  <2>3. /\ share'[k] = share[k] + a /\ share'[q] = share[q] + b
        /\ a \in Nat /\ b \in Nat /\ share[k] \in Nat /\ share[q] \in Nat
    BY <1>3, <1>4, <1>5
  <2>4. Cost[k] * Slack(k)' = x - a /\ x \in Int
    BY <1>4, CostTimes
  <2> HIDE DEF x, a, b, z, d
  <2>5. share'[k] - share'[q] + (x - a) <= z + d
    BY <2>1, <2>2, <2>3, <2>4
  <2> QED
    BY <2>4, <2>5 DEF z, d
<1>9. \A k, q \in Keys : Behind(k, q)' = Behind(k, q)
  BY <1>1 DEF Behind
<1> QED
  BY <1>1, <1>3, <1>6, <1>7, <1>8, <1>9 DEF ContestInv, Round, EffectiveTargetInflight

\* The key that is served has the lowest score.
LEMMA LeadersScore ==
    ASSUME NEW k, NEW q, ScoreOf(k) \in Nat, ScoreOf(q) \in Nat,
           Precedes(Rank(states, k, clock), Rank(states, q, clock))
    PROVE  ScoreOf(k) <= ScoreOf(q)
<1> DEFINE a == Rank(states, k, clock)
           b == Rank(states, q, clock)
<1>1. a[1] = ScoreOf(k) /\ b[1] = ScoreOf(q) /\ DOMAIN a = 1 .. 4
  BY DEF Rank, ScoreOf
<1> HIDE DEF a, b
<1>2. PICK i \in DOMAIN a : a[i] < b[i] /\ \A h \in 1 .. i - 1 : a[h] = b[h]
  BY DEF Precedes, a, b
<1>3. CASE i = 1
  BY <1>1, <1>2, <1>3
<1>4. CASE i # 1
  <2>1. 1 \in 1 .. i - 1
    BY <1>1, <1>4
  <2> QED
    BY <1>1, <1>2, <2>1
<1> QED
  BY <1>3, <1>4

\* A job that becomes active changes no score.
LEMMA ServedScore ==
    ASSUME NEW st, NEW t, ActiveOK(st), NEW k \in Keys, NEW now \in Nat,
           NEW j \in Jobs, j \notin DOMAIN st.active,
           t.active = With(st.active, j, now), t.virtual = st.virtual,
           NEW C \in Nat, Cardinality(DOMAIN st.active) + 1 <= C
    PROVE  /\ Score(t, k, now) = Score(st, k, now)
           /\ Left(t, now) \in Int /\ Left(t, now) <= C * MaxHold
<1> DEFINE a == Cardinality(DOMAIN st.active)
           e == ActiveElapsed(st, now)
<1>1. ActiveElapsed(t, now) = e
  BY ElapsedWith
<1>2. Cardinality(DOMAIN t.active) = a + 1
  BY ElapsedWith
<1>3. Score(t, k, now) = Score(st, k, now)
  BY <1>1 DEF Score
<1>4. Left(t, now) = MaxHold * (a + 1) - e
  BY <1>1, <1>2 DEF Left
<1>5. a \in Nat /\ a + 1 <= C
  BY FS_CardinalityType DEF ActiveOK
<1>6. e \in Nat /\ MaxHold \in Nat
  BY ElapsedType, FairShareAssumption
<1> DEFINE x == MaxHold * (a + 1)
           y == C * MaxHold
<1> HIDE DEF a, e
<1>7. x <= y /\ x \in Int /\ y \in Int
  BY <1>5, <1>6, CostTimes
<1> HIDE DEF x
<1>8. Left(t, now) \in Int /\ Left(t, now) <= y
  <2> HIDE DEF y
  <2> QED
    BY <1>4, <1>6, <1>7 DEF x
<1> QED
  BY <1>3, <1>8

\* A key is served when its score is lowest: then it may get ahead by what its
\* slots are worth.
LEMMA DispatchContest ==
    ASSUME IInv, ChargeInv, TimingInv, ContestInv, NEW j \in Jobs, LoopDispatch(j),
           UpdateShare, share # <<>>
    PROVE  ContestInv'
<1> DEFINE k == KeyOf[j]
<1>1. /\ k \in DOMAIN Live(clock) /\ k \in DOMAIN states' /\ Waiting(k)
      /\ \A q \in DOMAIN states' \ {k} :
            q \in DOMAIN Live(clock) /\ states'[q] = states[q]
      /\ DOMAIN Live(clock) \subseteq DOMAIN states'
      /\ states'[k].active = With(states[k].active, j, clock)
      /\ states'[k].virtual = states[k].virtual
      /\ j \notin SlotHolders
      /\ \A q \in DOMAIN Live(clock) \ {k} : Waiting(q) =>
            Precedes(Rank(states, k, clock), Rank(states, q, clock))
  BY DispatchEffect
<1>2. /\ clock' = clock /\ runtimeInflight < EffectiveTargetInflight
      /\ k \in DOMAIN states /\ k \in Keys
  BY <1>1, WaitingLive DEF LoopDispatch, MayDispatch
<1> HIDE DEF k
<1>3. \A q \in Keys : Waiting(q) /\ q \in DOMAIN states /\ q \in DOMAIN Live(clock)
  BY WaitingLive DEF ContestInv
<1>4. clock \in Nat /\ EffectiveTargetInflight \in Nat
  BY Capacity DEF IInv, TypeOK
<1>5. /\ ActiveOK(states[k]) /\ j \notin DOMAIN states[k].active
      /\ Cardinality(DOMAIN states[k].active) + 1 <= EffectiveTargetInflight
  BY <1>1, <1>2, <1>4, KeyFacts, Holders DEF IInv
<1>6. ScoreOf(k)' = ScoreOf(k) /\ Slack(k)' \in Int /\ Slack(k)' <= Round
  <2>1. /\ states'[k].active = With(states[k].active, j, clock)
        /\ states'[k].virtual = states[k].virtual
    BY <1>1
  <2>2. /\ Score(states'[k], k, clock) = Score(states[k], k, clock)
        /\ Left(states'[k], clock) \in Int
        /\ Left(states'[k], clock) <= EffectiveTargetInflight * MaxHold
    BY <1>2, <1>4, <1>5, <2>1, ServedScore
  <2> QED
    BY <1>2, <2>2 DEF ScoreOf, Slack, Left, Round
<1>7. \A q \in Keys \ {k} : /\ ScoreOf(q)' = ScoreOf(q) /\ Slack(q)' = Slack(q)
                            /\ Slack(q) \in Int
  BY <1>1, <1>2, <1>3, SlackFacts DEF ScoreOf, Slack
<1>8. \A q \in Keys : ScoreOf(k) <= ScoreOf(q)
  <2> SUFFICES ASSUME NEW q \in Keys PROVE ScoreOf(k) <= ScoreOf(q)
    OBVIOUS
  <2>1. ScoreOf(k) \in Nat /\ ScoreOf(q) \in Nat
    BY <1>2, <1>3, KeyFacts
  <2>2. CASE q = k
    BY <2>1, <2>2
  <2>3. CASE q # k
    <3>1. Precedes(Rank(states, k, clock), Rank(states, q, clock))
      BY <1>1, <1>3, <2>3
    <3> QED
      BY <2>1, <3>1, LeadersScore
  <2> QED
    BY <2>2, <2>3
<1>9. \A q \in Keys \ {k} : Slack(q)' <= Slack(q)
  BY <1>7
<1>10. \A q \in Keys : /\ ScoreOf(q)' = ScoreOf(q) /\ Slack(q)' \in Int
                       /\ \/ Slack(q)' <= Slack(q)
                          \/ /\ Slack(q)' <= Round
                             /\ \A p \in Keys : ScoreOf(q) <= ScoreOf(p)
  BY <1>6, <1>7, <1>8, <1>9
<1> QED
  BY <1>2, <1>10, ContestKept

\* A key that has active jobs, or waiting ones, is alive in the table.
LEMMA FullSlots ==
    ASSUME IInv, ChargeInv, runtimeInflight = EffectiveTargetInflight
    PROVE  \E q \in DOMAIN states : /\ DOMAIN states[q].active # {} /\ q \in DOMAIN Live(clock)
                                    /\ states[q].lastSelected >= 1
<1>1. SlotHolders # {}
  BY Capacity, FS_EmptySet DEF IInv, SlotAccounting
<1>2. PICK j : j \in SlotHolders
  BY <1>1
<1>3. KeyOf[j] \in DOMAIN states /\ j \in DOMAIN states[KeyOf[j]].active
  BY <1>2, Holders DEF IInv
<1>4. KeyOf[j] \in DOMAIN Live(clock)
  BY <1>3, BusyLive DEF Busy, IInv, TypeOK
<1>5. states[KeyOf[j]].lastSelected >= 1
  BY <1>3 DEF ChargeInv, ChargeOK
<1> QED
  BY <1>3, <1>4, <1>5

\* A key that arrives starts at the lowest score of the keys in use.
LEMMA ArrivalScore ==
    ASSUME IInv, ChargeInv, NEW j \in Jobs, Submit(j), NEW k, k = KeyOf[j],
           k \notin DOMAIN Live(clock)
    PROVE  /\ k \in DOMAIN states' /\ ScoreOf(k)' \in Nat
           /\ DOMAIN states'[k].active = {} /\ states'[k].lastSelected = 0
           /\ \A q \in DOMAIN Live(clock) : Busy(states[q]) => ScoreOf(k)' <= ScoreOf(q)
           /\ (\E q \in DOMAIN Live(clock) : Busy(states[q])) =>
                 \E q \in DOMAIN Live(clock) : Busy(states[q]) /\ ScoreOf(k)' = ScoreOf(q)
<1> DEFINE ss == Live(clock)
           S == {Score(ss[q], q, clock) : q \in {q \in DOMAIN ss : Busy(ss[q])}}
           t == states'[k]
<1>1. /\ k \in DOMAIN states' /\ DOMAIN t.active = {} /\ t.lastSelected = 0
      /\ t.virtual = NewState(Live(clock), k, clock).virtual
  BY SubmitEffect
<1>2. clock' = clock /\ clock \in Nat /\ k \in Keys
  BY FairQueueAssumption DEF Submit, IInv, TypeOK
<1>3. t.virtual = IF S = {} THEN 0 ELSE Min(S)
  BY <1>1 DEF NewState
<1>4. \A q \in DOMAIN ss : q \in DOMAIN states /\ ss[q] = states[q]
  BY <1>2, BusyLive DEF IInv
<1>5. \A q \in DOMAIN ss : Score(ss[q], q, clock) = ScoreOf(q) /\ ScoreOf(q) \in Nat
  BY <1>4, KeyFacts DEF ScoreOf
<1>6. S \in SUBSET Nat
  BY <1>5
<1>7. ActiveElapsed(t, clock) = 0 /\ Cardinality(DOMAIN t.active) = 0
  <2> HIDE DEF t
  <2>1. IsFiniteSet(DOMAIN t.active) /\ Cardinality(DOMAIN t.active) = 0
    BY <1>1, FS_EmptySet
  <2>2. ActiveOK(t) /\ \A i \in DOMAIN t.active : Elapsed(t.active[i], clock) <= 0
    BY <1>1, <2>1 DEF ActiveOK
  <2>3. ActiveElapsed(t, clock) \in Nat /\ ActiveElapsed(t, clock) <= 0 * Cardinality(DOMAIN t.active)
    BY <1>2, <2>2, ElapsedBound
  <2> QED
    BY <2>1, <2>3
<1>8. t.virtual \in Nat /\ (S # {} => t.virtual \in S /\ \A x \in S : t.virtual <= x)
  <2> HIDE DEF S, t
  <2>1. CASE S = {}
    BY <1>3, <2>1
  <2>2. CASE S # {}
    <3>1. Min(S) \in S /\ \A x \in S : Min(S) <= x
      BY <1>6, <2>2, LeastScore
    <3>2. t.virtual = Min(S)
      BY <1>3, <2>2
    <3> QED
      BY <1>6, <3>1, <3>2
  <2> QED
    BY <2>1, <2>2
<1>9. ScoreOf(k)' = t.virtual
  <2>1. Cost[k] * 0 = 0
    BY <1>2, FairQueueAssumption
  <2>2. ScoreOf(k)' = t.virtual + Cost[k] * 0
    BY <1>2, <1>7 DEF ScoreOf, Score
  <2> HIDE DEF t
  <2> QED
    BY <1>8, <2>1, <2>2
<1> HIDE DEF ss, t
<1>10. \A q \in DOMAIN ss : Busy(states[q]) => ScoreOf(q) \in S
  BY <1>4, <1>5
<1>11. \A x \in S : \E q \in DOMAIN ss : Busy(states[q]) /\ x = ScoreOf(q)
  BY <1>4, <1>5
<1> HIDE DEF S
<1> QED
  BY <1>1, <1>8, <1>9, <1>10, <1>11 DEF ss, t

\* A request charges nothing.
LEMMA SubmitScore ==
    ASSUME IInv, ChargeInv, NEW j \in Jobs, Submit(j), NEW q \in DOMAIN Live(clock)
    PROVE  /\ q \in DOMAIN states /\ q \in DOMAIN states'
           /\ states'[q].active = states[q].active
           /\ states'[q].lastSelected = states[q].lastSelected
           /\ ScoreOf(q)' = ScoreOf(q) /\ Slack(q)' = Slack(q)
<1>1. clock' = clock /\ clock \in Nat
  BY DEF Submit, IInv, TypeOK
<1>2. q \in DOMAIN states
  BY <1>1, BusyLive DEF IInv
<1>3. /\ q \in DOMAIN states'
      /\ states'[q].active = states[q].active
      /\ states'[q].virtual = states[q].virtual
      /\ states'[q].lastSelected = states[q].lastSelected
  BY SubmitEffect
<1>4. ActiveElapsed(states'[q], clock) = ActiveElapsed(states[q], clock)
  BY <1>1, <1>2, <1>3, KeyFacts, ElapsedSame
<1> QED
  BY <1>1, <1>2, <1>3, <1>4 DEF ScoreOf, Score, Slack

LEMMA SubmitContest ==
    ASSUME IInv, ChargeInv, ContestInv, NEW j \in Jobs, Submit(j), UpdateShare, share # <<>>
    PROVE  ContestInv'
<1>1. clock' = clock
  BY DEF Submit
<1>2. \A k \in Keys : k \in DOMAIN Live(clock)
  BY WaitingLive DEF ContestInv
<1>3. \A k \in Keys : ScoreOf(k)' = ScoreOf(k) /\ Slack(k)' = Slack(k) /\ Slack(k) \in Int
  BY <1>2, SubmitScore, SlackFacts
<1>4. \A k \in Keys : Slack(k)' \in Int /\ Slack(k)' <= Slack(k)
  BY <1>3
<1> QED
  BY <1>1, <1>3, <1>4, ContestKept

----------------------------------------------------------------------------
(* New keys *)

\* While no key loses its place a key that has joined keeps its own.
LEMMA JoinedKept ==
    ASSUME IInv, ChargeInv, JoinedInv, joined' \subseteq joined,
           DOMAIN states' \subseteq DOMAIN states,
           \A q \in DOMAIN states :
              /\ q \in DOMAIN states' /\ (Waiting(q)' <=> Waiting(q))
              /\ states'[q].lastSelected = states[q].lastSelected
              /\ DOMAIN states'[q].active \subseteq DOMAIN states[q].active
              /\ ScoreOf(q)' \in Nat /\ ScoreOf(q)' >= ScoreOf(q)
              /\ DOMAIN states[q].active = {} => ScoreOf(q)' = ScoreOf(q)
    PROVE  JoinedInv'
<1> SUFFICES ASSUME NEW k \in joined
             PROVE  /\ k \in Keys /\ Waiting(k)' /\ DOMAIN states'[k].active = {}
                    /\ states'[k].lastSelected = 0
                    /\ \A q \in DOMAIN states \ {k} :
                          states'[q].lastSelected >= 1 /\ ScoreOf(q)' >= ScoreOf(k)'
  BY DEF JoinedInv
<1>1. /\ k \in Keys /\ Waiting(k) /\ k \in DOMAIN states
      /\ DOMAIN states[k].active = {} /\ states[k].lastSelected = 0
      /\ \A q \in DOMAIN states \ {k} :
            states[q].lastSelected >= 1 /\ ScoreOf(q) >= ScoreOf(k)
  BY DEF JoinedInv, Waiting
<1>2. \A q \in DOMAIN states : ScoreOf(q) \in Nat
  BY KeyFacts
<1> QED
  BY <1>1, <1>2

\* The key that is served is the one that has joined.
LEMMA JoinedIsServed ==
    ASSUME IInv, ChargeInv, JoinedInv, NEW j \in Jobs, LoopDispatch(j), NEW x \in joined
    PROVE  x = KeyOf[j]
<1> SUFFICES ASSUME x # KeyOf[j] PROVE FALSE
  OBVIOUS
<1> DEFINE k == KeyOf[j]
           a == Rank(states, k, clock)
           b == Rank(states, x, clock)
<1>1. /\ Waiting(x) /\ x \in DOMAIN Live(clock)
      /\ DOMAIN states[x].active = {} /\ states[x].lastSelected = 0
      /\ \A q \in DOMAIN states \ {x} :
            states[q].lastSelected >= 1 /\ ScoreOf(q) >= ScoreOf(x)
  BY WaitingLive DEF JoinedInv
<1>2. k \in DOMAIN states /\ x \in DOMAIN states /\ Precedes(a, b)
  BY <1>1, DispatchEffect, WaitingLive
<1>3. /\ ScoreOf(k) \in Nat /\ ScoreOf(x) \in Nat /\ KeyStateOK(states[k])
      /\ ScoreOf(k) >= ScoreOf(x) /\ states[k].lastSelected >= 1
  BY <1>1, <1>2, KeyFacts
<1>4. /\ a[1] = ScoreOf(k) /\ b[1] = ScoreOf(x) /\ a[2] \in {0, 1}
      /\ a[3] = states[k].lastSelected /\ b[3] = 0 /\ DOMAIN a = 1 .. 4
  BY <1>1 DEF Rank, ScoreOf
<1>5. b[2] = 0
  <2>1. Cardinality(DOMAIN states[x].active) = 0
    BY <1>1, FS_EmptySet
  <2>2. ~(0 >= SoftMaxInflightPerKey)
    BY FairQueueAssumption
  <2> QED
    BY <2>1, <2>2 DEF Rank
<1>6. states[k].lastSelected \in Nat
  BY <1>3 DEF KeyStateOK
<1> HIDE DEF a, b
<1>7. PICK i \in 1 .. 4 : a[i] < b[i] /\ \A h \in 1 .. i - 1 : a[h] = b[h]
  BY <1>2, <1>4 DEF Precedes
<1>8. i = 4
  BY <1>3, <1>4, <1>5, <1>6, <1>7
<1>9. a[3] = b[3]
  BY <1>7, <1>8
<1> QED
  BY <1>3, <1>4, <1>6, <1>9

LEMMA ReleaseJoined ==
    ASSUME IInv, ChargeInv, TimingInv, JoinedInv, NEW j \in Jobs, WorkerRelease(j),
           joined' \subseteq joined
    PROVE  JoinedInv'
<1>1. DOMAIN states' = DOMAIN states
  BY ReleaseEffect
<1>2. \A q \in DOMAIN states :
         /\ q \in DOMAIN states' /\ (Waiting(q)' <=> Waiting(q))
         /\ states'[q].lastSelected = states[q].lastSelected
         /\ DOMAIN states'[q].active \subseteq DOMAIN states[q].active
         /\ ScoreOf(q)' = ScoreOf(q)
  BY ReleaseScore
<1>3. \A q \in DOMAIN states : ScoreOf(q) \in Nat
  BY KeyFacts
<1>4. \A q \in DOMAIN states : ScoreOf(q)' \in Nat /\ ScoreOf(q)' >= ScoreOf(q)
  BY <1>2, <1>3
<1> QED
  BY <1>1, <1>2, <1>4, JoinedKept

LEMMA QuietJoined ==
    ASSUME IInv, ChargeInv, JoinedInv, UNCHANGED <<states, clock>>, joined' \subseteq joined
    PROVE  JoinedInv'
<1>1. \A q \in DOMAIN states : ScoreOf(q)' = ScoreOf(q) /\ ScoreOf(q) \in Nat
  BY KeyFacts DEF ScoreOf
<1>2. \A q \in DOMAIN states : ScoreOf(q)' \in Nat /\ ScoreOf(q)' >= ScoreOf(q)
  BY <1>1
<1> QED
  BY <1>1, <1>2, JoinedKept DEF Waiting

LEMMA TickJoined ==
    ASSUME IInv, ChargeInv, TimingInv, JoinedInv, Tick, joined' \subseteq joined
    PROVE  JoinedInv'
<1>1. states' = states
  BY DEF Tick, queueVars
<1>2. ASSUME NEW q \in DOMAIN states
      PROVE  /\ ScoreOf(q)' \in Nat /\ ScoreOf(q)' >= ScoreOf(q)
             /\ DOMAIN states[q].active = {} => ScoreOf(q)' = ScoreOf(q)
  <2> DEFINE n == Cardinality(DOMAIN states[q].active)
             y == Cost[q] * n
  <2>1. ScoreOf(q)' = ScoreOf(q) + y
    BY TickScore
  <2>2. Cost[q] \in Nat /\ n \in Nat /\ ScoreOf(q) \in Nat
    BY KeyFacts
  <2>3. DOMAIN states[q].active = {} => n = 0
    BY FS_EmptySet
  <2> HIDE DEF n
  <2>4. y \in Nat /\ (n = 0 => y = 0)
    BY <2>2
  <2> HIDE DEF y
  <2> QED
    BY <2>1, <2>2, <2>3, <2>4
<1> QED
  BY <1>1, <1>2, JoinedKept DEF Waiting

\* At rest the slots are full when a request waits.
LEMMA RestingFull ==
    ASSUME IInv, loop = "waiting", NEW k, Waiting(k)
    PROVE  runtimeInflight = EffectiveTargetInflight
<1>1. k \in DOMAIN states /\ states[k].pending # <<>> /\ KeyStateOK(states[k])
  BY DEF Waiting, IInv, TypeOK
<1> DEFINE p == states[k].pending
<1>2. p \in Seq(Jobs) /\ p # <<>>
  BY <1>1 DEF KeyStateOK
<1>3. 1 \in DOMAIN p /\ p[1] \in Jobs /\ KeyOf[p[1]] = k
  BY <1>1, <1>2 DEF IInv, QueueInv, StatesInv, KeyInv, KeyCore
<1>4. p[1] \in QueuedJobs
  BY <1>1, <1>2, <1>3 DEF QueuedJobs, Pending, Contains
<1>5. IsFiniteSet(QueuedJobs) /\ Cardinality(QueuedJobs) # 0 /\ Cardinality(QueuedJobs) \in Nat
  BY <1>4, FiniteSetsOfJobs, FS_EmptySet, FS_CardinalityType DEF QueuedJobs
<1>6. pendingCount > 0
  BY <1>5 DEF IInv, PendingAccounting
<1> QED
  BY <1>6, Capacity DEF IInv, NoLostWakeup, MayDispatch, SlotAccounting, TypeOK

\* No other key arrives while one that has joined waits, and the key that holds
\* the slots has a score no lower than the one that joins.
LEMMA SubmitJoined ==
    ASSUME TwoKeys, IInv, ChargeInv, JoinedInv, NEW j \in Jobs, Submit(j), AtRest,
           \A x \in joined' : x \in joined \/ (x \in Arrived /\ runtimeInflight = EffectiveTargetInflight)
    PROVE  JoinedInv'
<1> DEFINE k == KeyOf[j]
<1>1. /\ k \in DOMAIN states' /\ states'[k].pending # <<>>
      /\ \A q \in DOMAIN states' \ {k} : q \in DOMAIN Live(clock) /\ states'[q] = states[q]
      /\ DOMAIN Live(clock) \subseteq DOMAIN states'
      /\ k \in DOMAIN Live(clock) =>
            /\ states'[k].active = states[k].active
            /\ states'[k].virtual = states[k].virtual
            /\ states'[k].lastSelected = states[k].lastSelected
  BY SubmitEffect
<1>2. clock' = clock /\ clock \in Nat /\ k \in Keys /\ DOMAIN states \subseteq Keys
  BY FairQueueAssumption DEF Submit, IInv, TypeOK
<1>3. \A q \in DOMAIN Live(clock) : q \in DOMAIN states
  BY <1>2, BusyLive DEF IInv
<1>4. \A q \in DOMAIN Live(clock) :
         /\ states'[q].active = states[q].active
         /\ states'[q].lastSelected = states[q].lastSelected
         /\ ScoreOf(q)' = ScoreOf(q)
  BY SubmitScore
<1> SUFFICES ASSUME NEW x \in joined'
             PROVE  /\ x \in Keys /\ Waiting(x)' /\ DOMAIN states'[x].active = {}
                    /\ states'[x].lastSelected = 0
                    /\ \A q \in DOMAIN states' \ {x} :
                          states'[q].lastSelected >= 1 /\ ScoreOf(q)' >= ScoreOf(x)'
  BY DEF JoinedInv
<1>5. CASE x \in joined
  <2>1. /\ x \in Keys /\ Waiting(x) /\ x \in DOMAIN Live(clock)
        /\ DOMAIN states[x].active = {} /\ states[x].lastSelected = 0
        /\ \A q \in DOMAIN states \ {x} :
              states[q].lastSelected >= 1 /\ ScoreOf(q) >= ScoreOf(x)
    BY <1>5, WaitingLive DEF JoinedInv
  <2>2. Waiting(x)'
    BY <1>1, <2>1 DEF Waiting
  <2>3. runtimeInflight = EffectiveTargetInflight
    BY <2>1, RestingFull DEF AtRest
  <2>4. k \in DOMAIN Live(clock)
    <3>1. PICK y \in DOMAIN states : DOMAIN states[y].active # {} /\ y \in DOMAIN Live(clock)
      BY <2>3, FullSlots
    <3>2. y # x /\ y \in Keys
      BY <1>2, <2>1, <3>1
    <3> QED
      BY <1>2, <2>1, <3>1, <3>2 DEF TwoKeys
  <2>5. \A q \in DOMAIN states' : q \in DOMAIN Live(clock)
    BY <1>1, <2>4
  <2> QED
    BY <1>3, <1>4, <2>1, <2>2, <2>5
<1>6. CASE x \in Arrived /\ runtimeInflight = EffectiveTargetInflight
  <2>1. x \notin DOMAIN Live(clock) /\ x \in DOMAIN states' /\ x \in Keys /\ Waiting(x)'
    BY <1>6 DEF Arrived, Waiting
  <2>2. x = k
    BY <1>1, <2>1
  <2>3. /\ DOMAIN states'[x].active = {} /\ states'[x].lastSelected = 0
        /\ \A q \in DOMAIN Live(clock) : Busy(states[q]) => ScoreOf(x)' <= ScoreOf(q)
    BY <2>1, <2>2, ArrivalScore
  <2>4. PICK y \in DOMAIN states : /\ DOMAIN states[y].active # {} /\ y \in DOMAIN Live(clock)
                                   /\ states[y].lastSelected >= 1
    BY <1>6, FullSlots
  <2>5. \A q \in DOMAIN states' \ {x} : q = y
    BY <1>1, <1>2, <1>3, <2>1, <2>2, <2>4 DEF TwoKeys
  <2>6. states'[y].lastSelected >= 1 /\ ScoreOf(y)' = ScoreOf(y) /\ Busy(states[y])
    BY <1>4, <2>4 DEF Busy
  <2>7. ScoreOf(x)' <= ScoreOf(y)
    BY <2>3, <2>4, <2>6
  <2> QED
    BY <2>1, <2>3, <2>5, <2>6, <2>7
<1> QED
  BY <1>5, <1>6

----------------------------------------------------------------------------
(* The competition *)

\* Only the loop dispatches a job, and it does.
LEMMA DispatchedByLoop ==
    ASSUME IInv, NEW j \in Jobs, LoopDispatch(j)
    PROVE  Dispatched(j)
<1>1. worker[j] = "none"
  <2>1. PopNext(j, clock) /\ QueueInv /\ clock \in Nat /\ nextSelection \in Nat
    BY DEF LoopDispatch, IInv, TypeOK
  <2> QED
    BY <2>1, PopStep DEF IInv, TypeOK
<1> QED
  BY <1>1 DEF LoopDispatch, Dispatched, IInv, TypeOK

LEMMA DispatchersOnly ==
    ASSUME IInv, Competition, NEW j \in Jobs, Dispatched(j)
    PROVE  LoopDispatch(j)
<1> USE DEF workerVars
<1>0. worker[j] = "none" /\ worker'[j] = "popped" /\ worker \in [Jobs -> Positions]
  BY DEF Dispatched, IInv, TypeOK
<1>1. ~UNCHANGED worker
  BY <1>0
<1>2. ASSUME NEW i \in Jobs,
             \/ LoopSpawn(i) \/ WorkerBegin(i) \/ WorkerCheckCancelled(i) \/ WorkerReturn(i)
             \/ WorkerRelease(i) \/ WorkerReport(i) \/ WorkerComplete(i)
      PROVE  FALSE
  BY <1>0, <1>2 DEF LoopSpawn, WorkerBegin, WorkerCheckCancelled, WorkerReturn,
         WorkerRelease, WorkerReport, WorkerComplete
<1>3. ASSUME NEW i \in Jobs, LoopDispatch(i)
      PROVE  i = j
  BY <1>0, <1>3 DEF LoopDispatch
<1>4. ~LoopStart /\ ~LoopWait /\ ~Tick /\ \A i \in Jobs : ~Submit(i)
  BY <1>1 DEF LoopStart, LoopWait, Tick, Submit
<1> QED
  BY <1>2, <1>3, <1>4 DEF Competition, WorkerOwnStep

\* Only a request makes a key wait.
LEMMA OnlyRequestsArrive ==
    ASSUME IInv,
           \/ UNCHANGED states
           \/ \E j \in Jobs : LoopDispatch(j) \/ WorkerRelease(j)
    PROVE  Arrived = {}
<1>1. CASE UNCHANGED states
  BY <1>1, NobodyArrives DEF Waiting
<1>2. ASSUME NEW j \in Jobs, LoopDispatch(j)
      PROVE  Arrived = {}
  <2> DEFINE k == KeyOf[j]
  <2>1. /\ Waiting(k)
        /\ \A q \in DOMAIN states' \ {k} : q \in DOMAIN Live(clock) /\ states'[q] = states[q]
    BY <1>2, DispatchEffect
  <2>2. \A q \in DOMAIN states' \ {k} : q \in DOMAIN states
    BY <2>1, BusyLive DEF IInv, TypeOK
  <2> HIDE DEF k
  <2>3. \A q \in Keys : Waiting(q)' => Waiting(q)
    BY <2>1, <2>2 DEF Waiting
  <2> QED
    BY <2>3, NobodyArrives
<1>3. ASSUME NEW j \in Jobs, WorkerRelease(j)
      PROVE  Arrived = {}
  <2> DEFINE k == KeyOf[j]
  <2>1. /\ DOMAIN states' = DOMAIN states /\ states'[k].pending = states[k].pending
        /\ \A q \in DOMAIN states \ {k} : states'[q] = states[q]
    BY <1>3, ReleaseEffect
  <2> HIDE DEF k
  <2>2. \A q \in Keys : Waiting(q)' => Waiting(q)
    BY <2>1 DEF Waiting
  <2> QED
    BY <2>2, NobodyArrives
<1> QED
  BY <1>1, <1>2, <1>3

LEMMA FairStart == FairInit => FairInv
<1> SUFFICES ASSUME FairInit PROVE FairInv
  OBVIOUS
<1>1. IInv /\ ChargeInv
  BY InitInvariant, ChargeStart DEF FairInit
<1>2. TimingInv
  BY DEF FairInit, Init, TimingInv, SlotHolders, SlotPositions
<1> QED
  BY <1>1, <1>2 DEF FairInit, FairInv, ShareInv, ContestInv, JoinedInv

LEMMA ShareStep ==
    ASSUME ~Overhead
    PROVE  ShareInv /\ [Competition /\ UpdateShare /\ UpdateJoined]_fairVars => ShareInv'
<1> SUFFICES ASSUME ShareInv, [Competition /\ UpdateShare /\ UpdateJoined]_fairVars
             PROVE  ShareInv'
  OBVIOUS
<1>1. IInv /\ ChargeInv /\ TimingInv /\ ContestInv
  BY DEF ShareInv
<1>2. IInv' /\ ChargeInv'
  BY <1>1, CompetitionSteps, NextInvariant, ChargeStep
<1>3. CASE UNCHANGED fairVars
  <2>1. UNCHANGED <<states, clock, worker, startedAt, finishedAt, share, base>>
    BY <1>3 DEF fairVars, vars, queueVars, workerVars
  <2>2. TimingInv'
    BY <1>1, <2>1 DEF TimingInv, Timed, SlotHolders
  <2>3. ContestInv'
    BY <1>1, <2>1 DEF ContestInv, Waiting, ScoreOf, Slack, Behind, EffectiveTargetInflight
  <2> QED
    BY <1>2, <2>2, <2>3 DEF ShareInv
<1>4. CASE Competition /\ UpdateShare
  <2>1. TimingInv'
    BY <1>1, <1>4, TimingStep
  <2>2. ContestInv'
    <3>1. CASE share = <<>>
      BY <1>2, <1>4, <3>1, ContestStart
    <3>2. CASE share # <<>> /\ Quiet
      BY <1>1, <1>4, <3>2, QuietEffect, SameContest
    <3>3. ASSUME share # <<>>, NEW j \in Jobs, LoopDispatch(j)
          PROVE  ContestInv'
      BY <1>1, <1>4, <3>3, DispatchContest
    <3>4. ASSUME share # <<>>, NEW j \in Jobs, WorkerRelease(j)
          PROVE  ContestInv'
      BY <1>1, <1>4, <3>4, ReleaseContest
    <3>5. ASSUME share # <<>>, NEW j \in Jobs, Submit(j)
          PROVE  ContestInv'
      BY <1>1, <1>4, <3>5, SubmitContest
    <3>6. CASE share # <<>> /\ AtRest /\ Tick
      BY <1>1, <1>4, <3>6, TickContest
    <3> QED
      BY <1>4, <3>1, <3>2, <3>3, <3>4, <3>5, <3>6, CompetitionCases
  <2> QED
    BY <1>2, <2>1, <2>2 DEF ShareInv
<1> QED
  BY <1>3, <1>4

LEMMA JoinedStep ==
    ASSUME TwoKeys, ~Overhead
    PROVE  FairInv /\ [Competition /\ UpdateShare /\ UpdateJoined]_fairVars => JoinedInv'
<1> SUFFICES ASSUME FairInv, [Competition /\ UpdateShare /\ UpdateJoined]_fairVars
             PROVE  JoinedInv'
  OBVIOUS
<1>1. IInv /\ ChargeInv /\ TimingInv /\ JoinedInv
  BY DEF FairInv, ShareInv
<1>2. CASE UNCHANGED fairVars
  <2>1. UNCHANGED <<states, clock, joined>>
    BY <1>2 DEF fairVars, vars, queueVars
  <2> QED
    BY <1>1, <2>1 DEF JoinedInv, Waiting, ScoreOf
<1>3. CASE Competition /\ UpdateJoined
  <2>1. Arrived = {} => joined' \subseteq joined
    BY <1>3 DEF UpdateJoined
  <2>2. CASE Quiet
    <3>1. UNCHANGED <<states, clock>>
      BY <2>2, QuietEffect
    <3>2. Arrived = {}
      BY <1>1, <3>1, OnlyRequestsArrive
    <3> QED
      BY <1>1, <2>1, <3>1, <3>2, QuietJoined
  <2>3. ASSUME NEW j \in Jobs, LoopDispatch(j)
        PROVE  JoinedInv'
    <3>1. Arrived = {}
      BY <1>1, <2>3, OnlyRequestsArrive
    <3>2. Dispatched(j)
      BY <1>1, <2>3, DispatchedByLoop
    <3>3. \A x \in joined : x = KeyOf[j]
      BY <1>1, <2>3, JoinedIsServed
    <3>4. joined' = {}
      BY <1>3, <3>1, <3>2, <3>3 DEF UpdateJoined
    <3> QED
      BY <3>4 DEF JoinedInv
  <2>4. ASSUME NEW j \in Jobs, WorkerRelease(j)
        PROVE  JoinedInv'
    <3>1. Arrived = {}
      BY <1>1, <2>4, OnlyRequestsArrive
    <3> QED
      BY <1>1, <2>1, <2>4, <3>1, ReleaseJoined
  <2>5. ASSUME NEW j \in Jobs, AtRest, Submit(j)
        PROVE  JoinedInv'
    <3>1. \A x \in joined' :
             x \in joined \/ (x \in Arrived /\ runtimeInflight = EffectiveTargetInflight)
      BY <1>3 DEF UpdateJoined
    <3> QED
      BY <1>1, <2>5, <3>1, SubmitJoined
  <2>6. CASE Tick
    <3>1. Arrived = {}
      BY <1>1, <2>6, OnlyRequestsArrive DEF Tick, queueVars
    <3> QED
      BY <1>1, <2>1, <2>6, <3>1, TickJoined
  <2> QED
    BY <1>3, <2>2, <2>3, <2>4, <2>5, <2>6, CompetitionCases
<1> QED
  BY <1>2, <1>3

\* Keys that compete without overhead share the backend in proportion to their
\* weights, whatever the number of keys and slots, the bound on the time a job
\* holds one, the weights and the queue limits.
THEOREM ShareSafety ==
    ASSUME ~Overhead
    PROVE  FairShareSpec => []ShareBounded
<1>1. ShareInv => ShareBounded
  <2> SUFFICES ASSUME ShareInv, share # <<>>, NEW k \in Keys, NEW q \in Keys
               PROVE  share[k] - share[q] <=
                          EffectiveTargetInflight * MaxHold * Cost[k] + Behind(k, q)
    BY DEF ShareBounded
  <2> DEFINE x == Cost[k] * Slack(k)
             z == Cost[k] * Round
             d == Behind(k, q)
  <2>1. IInv /\ ChargeInv /\ TimingInv /\ ContestInv
    BY DEF ShareInv
  <2>2. share \in [Keys -> Nat] /\ base \in [Keys -> Nat] /\ k \in DOMAIN states
    BY <2>1 DEF ContestInv, Waiting
  <2>3. Slack(k) \in Int /\ 0 <= Slack(k)
    BY <2>1, <2>2, SlackFacts
  <2>4. share[k] - share[q] + x <= z + d
    BY <2>1 DEF ContestInv, Round
  <2>5. x \in Nat /\ z \in Nat /\ z = Round * Cost[k] /\ Cost[k] \in Nat
    BY <2>3, RoundType
  <2>6. d \in Nat
    BY <2>2 DEF Behind
  <2> HIDE DEF x, z, d
  <2>7. share[k] - share[q] <= z + d
    BY <2>2, <2>4, <2>5, <2>6
  <2> QED
    BY <2>5, <2>7 DEF Round, d
<1>2. FairInit => ShareInv
  BY FairStart DEF FairInv
<1> QED
  BY <1>1, <1>2, ShareStep, PTL DEF FairShareSpec

\* Of two keys that compete without overhead, one that is new when the other
\* holds all slots is served next.
THEOREM NewKeySafety ==
    ASSUME TwoKeys, ~Overhead
    PROVE  FairShareSpec => NewKeyGetsNextSlot
<1>1. FairInv /\ [Competition /\ UpdateShare /\ UpdateJoined]_fairVars =>
          [\A j \in Jobs : Dispatched(j) => joined = {} \/ KeyOf[j] \in joined]_fairVars
  <2> SUFFICES ASSUME FairInv, Competition, NEW j \in Jobs, Dispatched(j), joined # {}
               PROVE  KeyOf[j] \in joined
    OBVIOUS
  <2>1. IInv /\ ChargeInv /\ JoinedInv
    BY DEF FairInv, ShareInv
  <2>2. LoopDispatch(j)
    BY <2>1, DispatchersOnly
  <2> QED
    BY <2>1, <2>2, JoinedIsServed
<1>2. FairInv /\ [Competition /\ UpdateShare /\ UpdateJoined]_fairVars => FairInv'
  BY ShareStep, JoinedStep DEF FairInv
<1> QED
  BY <1>1, <1>2, FairStart, PTL DEF FairShareSpec, NewKeyGetsNextSlot

\* Whatever keys there are, one whose arrival begins a contest begins level.
THEOREM LevelSafety ==
    ASSUME ~Overhead
    PROVE  FairShareSpec => NewKeyStartsLevel
<1> DEFINE Level(k) == base' # <<>> =>
               /\ \A q \in Keys : base'[k] <= base'[q]
               /\ Keys # {k} => \E q \in Keys \ {k} : base'[k] = base'[q]
<1>1. ShareInv /\ [Competition /\ UpdateShare /\ UpdateJoined]_fairVars =>
          [\A k \in Arrived : Level(k)]_fairVars
  <2> SUFFICES ASSUME ShareInv, Competition, UpdateShare, NEW k \in Arrived, base' # <<>>
               PROVE  /\ \A q \in Keys : base'[k] <= base'[q]
                      /\ Keys # {k} => \E q \in Keys \ {k} : base'[k] = base'[q]
    OBVIOUS
  <2>1. IInv /\ ChargeInv /\ ContestInv
    BY DEF ShareInv
  <2>2. k \in Keys /\ k \notin DOMAIN Live(clock) /\ k \in DOMAIN states'
    BY DEF Arrived, Waiting
  <2>3. PICK j \in Jobs : Submit(j)
    BY <2>1, OnlyRequestsArrive, QuietEffect, CompetitionCases DEF Tick, queueVars
  <2>4. /\ \A q \in DOMAIN states' \ {KeyOf[j]} : q \in DOMAIN Live(clock) /\ states'[q] = states[q]
        /\ k = KeyOf[j]
    BY <2>1, <2>2, <2>3, SubmitEffect
  <2>5. share = <<>>
    BY <2>1, <2>2, WaitingLive DEF ContestInv
  <2>6. (\A q \in Keys : Waiting(q)') /\ base' = [q \in Keys |-> ScoreOf(q)']
    BY <2>5 DEF UpdateShare
  <2>7. /\ ScoreOf(k)' \in Nat
        /\ \A q \in DOMAIN Live(clock) : Busy(states[q]) => ScoreOf(k)' <= ScoreOf(q)
        /\ (\E q \in DOMAIN Live(clock) : Busy(states[q])) =>
              \E q \in DOMAIN Live(clock) : Busy(states[q]) /\ ScoreOf(k)' = ScoreOf(q)
    BY <2>1, <2>2, <2>3, <2>4, ArrivalScore
  <2>8. \A q \in DOMAIN Live(clock) : ScoreOf(q)' = ScoreOf(q) /\ q \in Keys
    BY <2>1, <2>3, SubmitScore DEF IInv, TypeOK
  <2>9. \A q \in Keys \ {k} : q \in DOMAIN Live(clock) /\ Busy(states[q])
    BY <2>4, <2>6 DEF Waiting, Busy
  <2>10. ASSUME NEW q \in Keys PROVE base'[k] <= base'[q]
    <3>1. CASE q = k
      BY <2>2, <2>6, <2>7, <3>1
    <3>2. CASE q # k
      BY <2>2, <2>6, <2>7, <2>8, <2>9, <3>2
    <3> QED
      BY <3>1, <3>2
  <2>11. ASSUME Keys # {k} PROVE \E q \in Keys \ {k} : base'[k] = base'[q]
    <3>1. PICK p \in Keys \ {k} : TRUE
      BY <2>2, <2>11
    <3>2. PICK q \in DOMAIN Live(clock) : ScoreOf(k)' = ScoreOf(q)
      BY <2>7, <2>9, <3>1
    <3> QED
      BY <2>2, <2>6, <2>8, <3>2
  <2> QED
    BY <2>10, <2>11
<1>2. FairInit => ShareInv
  BY FairStart DEF FairInv
<1> QED
  BY <1>1, <1>2, ShareStep, PTL DEF FairShareSpec, NewKeyStartsLevel

=============================================================================
