--------------------------- MODULE ServiceProofs ---------------------------
(***************************************************************************)
(* What the callers of a loaded model see of its threads: every admitted   *)
(* request is owned by one thread and gets one true verdict, requests of a *)
(* key are served in order, a loop that returns leaves nothing behind, and *)
(* the executor implements JobService.                                     *)
(***************************************************************************)
EXTENDS ExecutorProofs

----------------------------------------------------------------------------
(* Which jobs wait after a step of the queue *)

LEMMA SameStates ==
    ASSUME states' = states
    PROVE  \A i \in Jobs : Pending(i)' <=> Pending(i)
  BY DEF Pending

LEMMA SubmitMoves ==
    ASSUME IInv, NEW j \in Jobs, Submit(j)
    PROVE  \A i \in Jobs : Pending(i)' <=> Pending(i) \/ i = j
<1>1. worker[j] = "none" /\ ~Pending(j) /\ clock \in Nat /\ nextActivation \in Nat /\ QueueInv
  BY DEF IInv, Submit, ThreadsInv, ThreadInv, TypeOK
<1>2. \A i \in Jobs : PendingIn(states', i) <=> Pending(i) \/ i = j
  BY <1>1, EnqueueStep DEF Submit
<1> QED
  BY <1>2 DEF Pending, PendingIn

LEMMA RemoveMoves ==
    ASSUME IInv, NEW j \in Jobs, RemovePending(j, clock)
    PROVE  Pending(j) /\ \A i \in Jobs : Pending(i)' <=> Pending(i) /\ i # j
<1>1. Pending(j) /\ \A i \in Jobs : PendingIn(states', i) <=> Pending(i) /\ i # j
  BY RemoveStep DEF IInv, TypeOK
<1> QED
  BY <1>1 DEF Pending, PendingIn

LEMMA DispatchMoves ==
    ASSUME IInv, NEW j \in Jobs, LoopDispatch(j)
    PROVE  /\ Pending(j) /\ worker[j] = "none"
           /\ \A i \in Jobs : Pending(i)' <=> Pending(i) /\ i # j
<1>1. /\ Pending(j) /\ worker[j] = "none"
      /\ \A i \in Jobs : PendingIn(states', i) <=> Pending(i) /\ i # j
  BY PopStep DEF IInv, TypeOK, LoopDispatch
<1> QED
  BY <1>1 DEF Pending, PendingIn

\* The slot comes back and the queue's jobs are those it had, whether a worker
\* ends or could not be started.
LEMMA ReleaseMoves ==
    ASSUME IInv, NEW j \in Jobs, LoopUnwind(j) \/ WorkerRelease(j)
    PROVE  /\ \E now \in Nat : \E v : states' = With(states, KeyOf[j],
                  MarkIdleIfNeeded(GiveBack(states[KeyOf[j]], j, v), now))
           /\ KeyOf[j] \in DOMAIN states
           /\ \A i \in Jobs : Pending(i)' <=> Pending(i)
<1>1. worker[j] \in SlotPositions /\ worker \in [Jobs -> Positions] /\ QueueInv
      /\ clock \in Nat /\ finishedAt[j] \in Nat
  BY DEF IInv, TypeOK, LoopUnwind, WorkerRelease, SlotPositions
<1>2. KeyOf[j] \in DOMAIN states /\ j \in DOMAIN states[KeyOf[j]].active
  BY <1>1 DEF QueueInv, StatesInv, KeyInv, KeyCore
<1>3. \E now \in Nat : \E v : states' = With(states, KeyOf[j],
          MarkIdleIfNeeded(GiveBack(states[KeyOf[j]], j, v), now))
  BY <1>1, <1>2 DEF LoopUnwind, WorkerRelease, Abandon, Complete
<1>4. "ended" \notin SlotPositions
  BY DEF SlotPositions
<1>5. \A i \in Jobs : PendingIn(states', i) <=> Pending(i)
  BY <1>1, <1>3, <1>4, ReleaseStep
<1> QED
  BY <1>2, <1>3, <1>5 DEF Pending, PendingIn

LEMMA ExpireMoves ==
    ASSUME IInv, states' = Live(clock)
    PROVE  \A i \in Jobs : Pending(i)' <=> Pending(i)
<1>1. \A i \in Jobs : PendingIn(states', i) <=> Pending(i)
  BY ExpireStep DEF IInv, TypeOK
<1> QED
  BY <1>1 DEF Pending, PendingIn

LEMMA DrainMoves ==
    ASSUME IInv, Drain(clock)
    PROVE  \A i \in Jobs : ~Pending(i)'
<1>1. \A i \in Jobs : ~PendingIn(states', i)
  BY DrainStep DEF IInv, TypeOK
<1> QED
  BY <1>1 DEF Pending, PendingIn

----------------------------------------------------------------------------
(* Order within a key *)

LEMMA TailInOrder ==
    ASSUME NEW q \in Seq(Jobs), q # <<>>, InOrder(q, jobId)
    PROVE  InOrder(Tail(q), jobId)
<1>1. /\ DOMAIN q = 1 .. Len(q) /\ Len(q) \in Nat \ {0}
      /\ DOMAIN Tail(q) = 1 .. Len(q) - 1
      /\ \A h \in 1 .. Len(q) - 1 : Tail(q)[h] = q[h + 1]
  BY TailProperties
<1> QED
  BY <1>1 DEF InOrder

LEMMA RemoveAtInOrder ==
    ASSUME NEW q \in Seq(Jobs), NEW i \in DOMAIN q, InOrder(q, jobId)
    PROVE  InOrder(RemoveAt(q, i), jobId)
<1> DEFINE r == RemoveAt(q, i)
<1>1. /\ DOMAIN q = 1 .. Len(q) /\ Len(q) \in Nat
      /\ r \in Seq(Jobs) /\ Len(r) = Len(q) - 1
      /\ \A h \in 1 .. Len(q) - 1 : r[h] = IF h < i THEN q[h] ELSE q[h + 1]
  BY RemoveAtProperties
<1>2. DOMAIN r = 1 .. Len(q) - 1
  BY <1>1
<1> HIDE DEF r
<1>3. ASSUME NEW g \in 1 .. Len(q) - 1, NEW h \in 1 .. Len(q) - 1, g < h
      PROVE  jobId[r[g]] < jobId[r[h]]
  <2>1. PICK a \in 1 .. Len(q) : r[g] = q[a] /\ a = IF g < i THEN g ELSE g + 1
    BY <1>1
  <2>2. PICK b \in 1 .. Len(q) : r[h] = q[b] /\ b = IF h < i THEN h ELSE h + 1
    BY <1>1
  <2>3. a < b
    BY <1>1, <1>3, <2>1, <2>2
  <2> QED
    BY <1>1, <2>1, <2>2, <2>3 DEF InOrder
<1> QED
  BY <1>2, <1>3 DEF InOrder, r

LEMMA AppendInOrder ==
    ASSUME NEW q \in Seq(Jobs), NEW j \in Jobs, NEW id, InOrder(q, id),
           \A h \in DOMAIN q : id[q[h]] < id[j]
    PROVE  InOrder(Append(q, j), id)
<1>1. /\ DOMAIN q = 1 .. Len(q) /\ Len(q) \in Nat
      /\ DOMAIN Append(q, j) = 1 .. Len(q) + 1
      /\ \A h \in 1 .. Len(q) : Append(q, j)[h] = q[h]
      /\ Append(q, j)[Len(q) + 1] = j
  BY AppendFacts
<1> QED
  BY <1>1 DEF InOrder

\* A step that gives no numbers and disturbs at most the bucket of k.
LEMMA OneBucket ==
    ASSUME OrderInv, UNCHANGED <<jobId, nextJobId>>, NEW k,
           \A q \in DOMAIN states' \ {k} :
               q \in DOMAIN states /\ states'[q].pending = states[q].pending,
           k \in DOMAIN states' => InOrder(states'[k].pending, jobId)
    PROVE  OrderInv'
<1>1. \A q \in DOMAIN states' : InOrder(states'[q].pending, jobId)
  BY DEF OrderInv
<1> QED
  BY <1>1 DEF OrderInv

LEMMA BucketType ==
    ASSUME QueueInv, NEW k \in DOMAIN states
    PROVE  /\ states[k].pending \in Seq(Jobs)
           /\ DOMAIN states[k].pending = 1 .. Len(states[k].pending)
           /\ \A j \in Jobs : Pending(j) <=> KeyOf[j] \in DOMAIN states
                 /\ \E h \in DOMAIN states[KeyOf[j]].pending : states[KeyOf[j]].pending[h] = j
<1>1. \A q \in DOMAIN states : states[q].pending \in Seq(Jobs)
  BY DEF QueueInv, StatesInv, KeyInv, KeyCore, KeyStateOK
<1>2. \A q \in DOMAIN states : DOMAIN states[q].pending = 1 .. Len(states[q].pending)
  BY <1>1
<1> QED
  BY <1>1, <1>2 DEF Pending, Contains

LEMMA LiveFields ==
    ASSUME NEW now
    PROVE  \A k \in DOMAIN Live(now) : k \in DOMAIN states /\ Live(now)[k] = states[k]
  BY DEF Live, Restrict

LEMMA SubmitOrder ==
    ASSUME IInv, OrderInv, NEW j \in Jobs, Submit(j)
    PROVE  OrderInv'
<1> DEFINE k == KeyOf[j]
           ss == Live(clock)
           st == IF k \in DOMAIN ss THEN ss[k] ELSE NewState(ss, k, clock)
           t == [st EXCEPT !.pending = Append(@, j), !.idleSince = NoTime]
<1>1. /\ QueueInv /\ ~Pending(j) /\ nextJobId \in Nat /\ jobId \in [Jobs -> Nat]
      /\ jobId' = [jobId EXCEPT ![j] = nextJobId] /\ nextJobId' = nextJobId + 1
      /\ states' = With(ss, k, t)
  BY DEF IInv, Submit, Enqueue, ThreadsInv, ThreadInv, TypeOK
<1>2. \A i \in Jobs : jobId'[i] < nextJobId'
  BY <1>1 DEF OrderInv
<1>3. \A q \in DOMAIN ss : q \in DOMAIN states /\ ss[q] = states[q]
  BY LiveFields
<1>4. /\ DOMAIN states' = DOMAIN ss \union {k} /\ states'[k] = t
      /\ \A q \in DOMAIN ss \ {k} : states'[q] = ss[q]
  <2> HIDE DEF k, ss, st, t
  <2> QED
    BY <1>1 DEF With
<1> HIDE DEF ss
<1>5. ASSUME NEW q \in DOMAIN states \ {k}
      PROVE  InOrder(states[q].pending, jobId')
  <2>1. \A h \in DOMAIN states[q].pending :
           states[q].pending[h] \in Jobs /\ states[q].pending[h] # j
    BY <1>1, <1>5, BucketType DEF QueueInv, StatesInv, KeyInv, KeyCore
  <2> QED
    BY <1>1, <2>1 DEF OrderInv, InOrder
<1>6. InOrder(t.pending, jobId')
  <2> DEFINE e == <<>>
             p == IF k \in DOMAIN ss THEN states[k].pending ELSE e
  <2>0. e = <<>> /\ e \in Seq(Jobs) /\ DOMAIN e = {}
    OBVIOUS
  <2> HIDE DEF e
  <2>1. t.pending = Append(p, j)
    <3>1. CASE k \in DOMAIN ss
      BY <1>1, <1>3, <3>1 DEF QueueInv, StatesInv, KeyInv, KeyCore, KeyStateOK
    <3>2. CASE k \notin DOMAIN ss
      <4>1. st.pending = e
        BY <2>0, <3>2 DEF NewState
      <4>2. t.pending = Append(st.pending, j)
        BY <3>2 DEF NewState
      <4> QED
        BY <3>2, <4>1, <4>2
    <3> QED
      BY <3>1, <3>2
  <2>2. p \in Seq(Jobs) /\ \A h \in DOMAIN p : p[h] \in Jobs /\ p[h] # j
    BY <1>1, <1>3, <2>0, BucketType
  <2>3. InOrder(p, jobId)
    BY <1>3, <2>0 DEF OrderInv, InOrder
  <2> HIDE DEF p, t
  <2>4. InOrder(p, jobId') /\ \A h \in DOMAIN p : jobId'[p[h]] < jobId'[j]
    BY <1>1, <2>2, <2>3 DEF OrderInv, InOrder
  <2> QED
    BY <2>1, <2>2, <2>4, AppendInOrder
<1> QED
  BY <1>2, <1>3, <1>4, <1>5, <1>6 DEF OrderInv

LEMMA RemoveOrder ==
    ASSUME IInv, OrderInv, NEW j \in Jobs, RemovePending(j, clock)
    PROVE  OrderInv'
<1> DEFINE k == KeyOf[j]
           p == states[k].pending
           r == RemoveAt(p, Position(p, j))
           t == MarkIdleIfNeeded([states[k] EXCEPT !.pending = r], clock)
<1>1. /\ QueueInv /\ k \in DOMAIN states /\ Pending(j)
      /\ states' = With(states, k, t) /\ UNCHANGED <<jobId, nextJobId>>
  BY DEF IInv, RemovePending, Pending
<1>2. p \in Seq(Jobs) /\ Position(p, j) \in DOMAIN p
  BY <1>1, BucketType DEF Position
<1>3. t.pending = r
  BY <1>1 DEF MarkIdleIfNeeded, QueueInv, StatesInv, KeyInv, KeyCore, KeyStateOK
<1>4. InOrder(r, jobId)
  BY <1>1, <1>2, RemoveAtInOrder DEF OrderInv
<1>6. states' = With(states, k, t)
  BY <1>1
<1>7. UNCHANGED <<jobId, nextJobId>>
  BY <1>1
<1> HIDE DEF k, p, r, t
<1>5. /\ states'[k] = t
      /\ \A q \in DOMAIN states' \ {k} : q \in DOMAIN states /\ states'[q] = states[q]
  BY <1>6 DEF With
<1> QED
  BY <1>3, <1>4, <1>5, <1>7, OneBucket

LEMMA DispatchOrder ==
    ASSUME IInv, OrderInv, NEW j \in Jobs, LoopDispatch(j)
    PROVE  /\ OrderInv'
           /\ \A i \in QueuedJobs : KeyOf[i] = KeyOf[j] => jobId[j] <= jobId[i]
<1> DEFINE k == KeyOf[j]
           ss == Live(clock)
           p == states[k].pending
           t == Dispatch(ss[k], j, clock)
<1>1. /\ QueueInv /\ k \in DOMAIN ss /\ ss[k].pending # <<>> /\ j = Head(ss[k].pending)
      /\ states' = With(ss, k, t) /\ UNCHANGED <<jobId, nextJobId>>
      /\ jobId \in [Jobs -> Nat]
  BY DEF IInv, TypeOK, LoopDispatch, PopNext
<1>2. \A q \in DOMAIN ss : q \in DOMAIN states /\ ss[q] = states[q]
  BY LiveFields
<1> HIDE DEF ss
<1>3. /\ k \in DOMAIN states /\ p \in Seq(Jobs) /\ p # <<>> /\ ss[k] = states[k]
      /\ 1 \in DOMAIN p /\ j = p[1] /\ DOMAIN p = 1 .. Len(p) /\ Len(p) \in Nat
  BY <1>1, <1>2, BucketType, TailProperties
<1>4. t.pending = Tail(p)
  BY <1>1, <1>3 DEF Dispatch, QueueInv, StatesInv, KeyInv, KeyCore, KeyStateOK
<1>5. InOrder(Tail(p), jobId) /\ InOrder(p, jobId)
  BY <1>3, TailInOrder DEF OrderInv
<1> HIDE DEF t
<1>6. /\ states'[k] = t
      /\ \A q \in DOMAIN states' \ {k} : q \in DOMAIN states /\ states'[q] = states[q]
  <2> HIDE DEF k
  <2> QED
    BY <1>1, <1>2 DEF With
<1>7. OrderInv'
  BY <1>1, <1>4, <1>5, <1>6, OneBucket
<1>8. ASSUME NEW i \in QueuedJobs, KeyOf[i] = k
      PROVE  jobId[j] <= jobId[i]
  <2>1. PICK h \in DOMAIN p : p[h] = i
    BY <1>1, <1>3, <1>8, BucketType DEF QueuedJobs
  <2>2. h = 1 \/ 1 < h
    BY <1>3
  <2>3. i \in Jobs
    BY DEF QueuedJobs
  <2>4. CASE h = 1
    BY <1>1, <1>3, <2>1, <2>3, <2>4
  <2>5. CASE 1 < h
    <3>1. jobId[p[1]] < jobId[p[h]]
      BY <1>3, <1>5, <2>5 DEF InOrder
    <3> QED
      BY <1>1, <1>3, <2>1, <2>3, <3>1
  <2> QED
    BY <2>2, <2>4, <2>5
<1> QED
  BY <1>7, <1>8

LEMMA ReleaseOrder ==
    ASSUME IInv, OrderInv, NEW j \in Jobs, LoopUnwind(j) \/ WorkerRelease(j)
    PROVE  OrderInv'
<1> DEFINE k == KeyOf[j]
<1> PICK now \in Nat : \E v : states' = With(states, k,
          MarkIdleIfNeeded(GiveBack(states[k], j, v), now))
  BY ReleaseMoves
<1>1. PICK v : states' = With(states, k,
          MarkIdleIfNeeded(GiveBack(states[k], j, v), now))
  OBVIOUS
<1> DEFINE t == MarkIdleIfNeeded(GiveBack(states[k], j, v), now)
<1>2. k \in DOMAIN states /\ UNCHANGED <<jobId, nextJobId>> /\ QueueInv
  BY ReleaseMoves DEF IInv, LoopUnwind, WorkerRelease, Abandon, Complete
<1>3. t.pending = states[k].pending
  BY <1>2 DEF MarkIdleIfNeeded, GiveBack, QueueInv, StatesInv, KeyInv, KeyCore, KeyStateOK
<1>4. states' = With(states, k, t)
  BY <1>1
<1> HIDE DEF k, t
<1>5. /\ states'[k] = t
      /\ \A q \in DOMAIN states' \ {k} : q \in DOMAIN states /\ states'[q] = states[q]
  BY <1>4 DEF With
<1>6. InOrder(states'[k].pending, jobId)
  BY <1>2, <1>3, <1>5 DEF OrderInv
<1> QED
  BY <1>2, <1>5, <1>6, OneBucket

LEMMA ExpireOrder ==
    ASSUME OrderInv, states' = Live(clock), UNCHANGED <<jobId, nextJobId>>
    PROVE  OrderInv'
  BY LiveFields DEF OrderInv

LEMMA DrainOrder ==
    ASSUME IInv, OrderInv, Drain(clock)
    PROVE  OrderInv'
<1>1. \A k \in DOMAIN states :
         LET t == MarkIdleIfNeeded([states[k] EXCEPT !.pending = <<>>], clock)
         IN  t.pending = <<>>
  BY DrainKeepsKey DEF IInv, TypeOK, QueueInv, StatesInv
<1>1a. \A k \in DOMAIN states' : states'[k].pending = <<>>
  BY <1>1 DEF Drain
<1>2. \A k \in DOMAIN states' : InOrder(states'[k].pending, jobId)
  BY <1>1a DEF InOrder
<1> QED
  BY <1>2 DEF OrderInv, Drain

----------------------------------------------------------------------------
(* The inductive step *)

LEMMA PendingCounted ==
    ASSUME IInv, NEW j \in Jobs, Pending(j)
    PROVE  pendingCount > 0
<1>1. QueuedJobs \subseteq Jobs /\ j \in QueuedJobs /\ pendingCount = Cardinality(QueuedJobs)
  BY DEF QueuedJobs, IInv, PendingAccounting
<1>2. Cardinality(QueuedJobs) # 0 /\ Cardinality(QueuedJobs) \in Nat
  BY <1>1, FiniteSetsOfJobs, FS_EmptySet
<1> QED
  BY <1>1, <1>2

\* Every step of every thread keeps what is known of the jobs' fates, their
\* order and the end of the loop.
THEOREM ServiceStep == ServiceInv /\ [Next]_vars => ServiceInv'
<1> SUFFICES ASSUME ServiceInv, [Next]_vars PROVE ServiceInv'
  OBVIOUS
<1> USE DEF ServiceInv, queueVars, slotVars, workerVars, handleVars, shutdownVars
<1>0. /\ IInv /\ IInv' /\ TypeOK /\ ThreadsInv
      /\ OrderInv /\ StopInv /\ \A i \in Jobs : FateInv(i)
  BY NextInvariant DEF IInv
<1>1. ASSUME NEW j \in Jobs, SubmitUnloading(j)
      PROVE  ServiceInv'
  <2>1. \A i \in Jobs : Pending(i)' <=> Pending(i)
    BY <1>1, SameStates DEF SubmitUnloading
  <2>2. \A i \in Jobs : FateInv(i)'
    BY <1>0, <1>1, <2>1 DEF SubmitUnloading, FateInv, ThreadsInv, ThreadInv, TypeOK
  <2>3. OrderInv' /\ StopInv'
    BY <1>0, <1>1 DEF SubmitUnloading, OrderInv, StopInv, TypeOK
  <2> QED
    BY <1>0, <2>2, <2>3
<1>2. ASSUME NEW j \in Jobs, Cancel(j)
      PROVE  ServiceInv'
  <2>1. \A i \in Jobs : Pending(i)' <=> Pending(i)
    BY <1>2, SameStates DEF Cancel
  <2>2. \A i \in Jobs : FateInv(i)'
    BY <1>0, <1>2, <2>1 DEF Cancel, FateInv, ThreadsInv, ThreadInv, TypeOK
  <2>3. OrderInv' /\ StopInv'
    BY <1>0, <1>2 DEF Cancel, OrderInv, StopInv, TypeOK
  <2> QED
    BY <1>0, <2>2, <2>3
<1>3. ASSUME NEW j \in Jobs, CancelFail(j)
      PROVE  ServiceInv'
  <2>1. \A i \in Jobs : Pending(i)' <=> Pending(i)
    BY <1>3, SameStates DEF CancelFail
  <2>2. \A i \in Jobs : FateInv(i)'
    BY <1>0, <1>3, <2>1 DEF CancelFail, Finish, FateInv, ThreadsInv, ThreadInv, TypeOK
  <2>3. OrderInv' /\ StopInv'
    BY <1>0, <1>3 DEF CancelFail, Finish, OrderInv, StopInv, TypeOK
  <2> QED
    BY <1>0, <2>2, <2>3
<1>4. CASE LoopStart
  <2>1. \A i \in Jobs : Pending(i)' <=> Pending(i)
    BY <1>4, SameStates DEF LoopStart
  <2>2. \A i \in Jobs : FateInv(i)'
    BY <1>0, <1>4, <2>1 DEF LoopStart, FateInv, ThreadsInv, ThreadInv, TypeOK
  <2>3. OrderInv' /\ StopInv'
    BY <1>0, <1>4 DEF LoopStart, OrderInv, StopInv, TypeOK
  <2> QED
    BY <1>0, <2>2, <2>3
<1>5. CASE LoopReturn
  <2>1. \A i \in Jobs : Pending(i)' <=> Pending(i)
    BY <1>5, SameStates DEF LoopReturn
  <2>2. \A i \in Jobs : FateInv(i)'
    BY <1>0, <1>5, <2>1 DEF LoopReturn, MayReturn, FateInv, ThreadsInv, ThreadInv, TypeOK
  <2>3. OrderInv' /\ StopInv'
    BY <1>0, <1>5 DEF LoopReturn, MayReturn, OrderInv, StopInv, TypeOK
  <2> QED
    BY <1>0, <2>2, <2>3
<1>6. CASE LoopWait
  <2>1. \A i \in Jobs : Pending(i)' <=> Pending(i)
    BY <1>6, SameStates DEF LoopWait
  <2>2. \A i \in Jobs : FateInv(i)'
    BY <1>0, <1>6, <2>1 DEF LoopWait, FateInv, ThreadsInv, ThreadInv, TypeOK
  <2>3. OrderInv' /\ StopInv'
    BY <1>0, <1>6 DEF LoopWait, OrderInv, StopInv, TypeOK
  <2> QED
    BY <1>0, <2>2, <2>3
<1>7. ASSUME NEW j \in Jobs, LoopSpawn(j)
      PROVE  ServiceInv'
  <2>1. \A i \in Jobs : Pending(i)' <=> Pending(i)
    BY <1>7, SameStates DEF LoopSpawn
  <2>2. \A i \in Jobs : FateInv(i)'
    BY <1>0, <1>7, <2>1 DEF LoopSpawn, FateInv, ThreadsInv, ThreadInv, TypeOK
  <2>3. OrderInv' /\ StopInv'
    BY <1>0, <1>7 DEF LoopSpawn, OrderInv, StopInv, TypeOK
  <2> QED
    BY <1>0, <2>2, <2>3
<1>8. ASSUME NEW j \in Jobs, LoopFail(j)
      PROVE  ServiceInv'
  <2>1. \A i \in Jobs : Pending(i)' <=> Pending(i)
    BY <1>8, SameStates DEF LoopFail
  <2>2. \A i \in Jobs : FateInv(i)'
    BY <1>0, <1>8, <2>1 DEF LoopFail, Finish, FateInv, ThreadsInv, ThreadInv, TypeOK
  <2>3. OrderInv' /\ StopInv'
    BY <1>0, <1>8 DEF LoopFail, Finish, OrderInv, StopInv, TypeOK
  <2> QED
    BY <1>0, <2>2, <2>3
<1>9. ASSUME NEW j \in Jobs, WorkerBegin(j)
      PROVE  ServiceInv'
  <2>1. \A i \in Jobs : Pending(i)' <=> Pending(i)
    BY <1>9, SameStates DEF WorkerBegin
  <2>2. \A i \in Jobs : FateInv(i)'
    BY <1>0, <1>9, <2>1 DEF WorkerBegin, FateInv, ThreadsInv, ThreadInv, TypeOK
  <2>3. OrderInv' /\ StopInv'
    BY <1>0, <1>9 DEF WorkerBegin, OrderInv, StopInv, TypeOK
  <2> QED
    BY <1>0, <2>2, <2>3
<1>10. ASSUME NEW j \in Jobs, WorkerCheckCancelled(j)
      PROVE  ServiceInv'
  <2>1. \A i \in Jobs : Pending(i)' <=> Pending(i)
    BY <1>10, SameStates DEF WorkerCheckCancelled
  <2>2. \A i \in Jobs : FateInv(i)'
    BY <1>0, <1>10, <2>1 DEF WorkerCheckCancelled, FateInv, ThreadsInv, ThreadInv, TypeOK
  <2>3. OrderInv' /\ StopInv'
    BY <1>0, <1>10 DEF WorkerCheckCancelled, OrderInv, StopInv, TypeOK
  <2> QED
    BY <1>0, <2>2, <2>3
<1>11. ASSUME NEW j \in Jobs, WorkerReturn(j)
      PROVE  ServiceInv'
  <2>1. \A i \in Jobs : Pending(i)' <=> Pending(i)
    BY <1>11, SameStates DEF WorkerReturn
  <2>2. \A i \in Jobs : FateInv(i)'
    BY <1>0, <1>11, <2>1 DEF WorkerReturn, FateInv, ThreadsInv, ThreadInv, TypeOK
  <2>3. OrderInv' /\ StopInv'
    BY <1>0, <1>11 DEF WorkerReturn, OrderInv, StopInv, TypeOK
  <2> QED
    BY <1>0, <2>2, <2>3
<1>12. ASSUME NEW j \in Jobs, WorkerReport(j)
      PROVE  ServiceInv'
  <2>1. \A i \in Jobs : Pending(i)' <=> Pending(i)
    BY <1>12, SameStates DEF WorkerReport
  <2>2. \A i \in Jobs : FateInv(i)'
    BY <1>0, <1>12, <2>1 DEF WorkerReport, Finish, FateInv, ThreadsInv, ThreadInv, TypeOK
  <2>3. OrderInv' /\ StopInv'
    BY <1>0, <1>12 DEF WorkerReport, Finish, OrderInv, StopInv, TypeOK
  <2> QED
    BY <1>0, <2>2, <2>3
<1>13. ASSUME NEW j \in Jobs, WorkerComplete(j)
      PROVE  ServiceInv'
  <2>1. \A i \in Jobs : Pending(i)' <=> Pending(i)
    BY <1>13, SameStates DEF WorkerComplete
  <2>2. \A i \in Jobs : FateInv(i)'
    BY <1>0, <1>13, <2>1 DEF WorkerComplete, Finish, FateInv, ThreadsInv, ThreadInv, TypeOK
  <2>3. OrderInv' /\ StopInv'
    BY <1>0, <1>13 DEF WorkerComplete, Finish, OrderInv, StopInv, TypeOK
  <2> QED
    BY <1>0, <2>2, <2>3
<1>14. ASSUME NEW j \in Jobs, ShutdownFail(j)
      PROVE  ServiceInv'
  <2>1. \A i \in Jobs : Pending(i)' <=> Pending(i)
    BY <1>14, SameStates DEF ShutdownFail
  <2>2. \A i \in Jobs : FateInv(i)'
    BY <1>0, <1>14, <2>1 DEF ShutdownFail, Finish, FateInv, ThreadsInv, ThreadInv, TypeOK
  <2>3. OrderInv' /\ StopInv'
    BY <1>0, <1>14 DEF ShutdownFail, Finish, OrderInv, StopInv, TypeOK
  <2> QED
    BY <1>0, <2>2, <2>3
<1>15. ASSUME NEW j \in Jobs, ShutdownCancel(j)
      PROVE  ServiceInv'
  <2>1. \A i \in Jobs : Pending(i)' <=> Pending(i)
    BY <1>15, SameStates DEF ShutdownCancel
  <2>2. \A i \in Jobs : FateInv(i)'
    BY <1>0, <1>15, <2>1 DEF ShutdownCancel, FateInv, ThreadsInv, ThreadInv, TypeOK
  <2>3. OrderInv' /\ StopInv'
    BY <1>0, <1>15 DEF ShutdownCancel, OrderInv, StopInv, TypeOK
  <2> QED
    BY <1>0, <2>2, <2>3
<1>16. ASSUME NEW j \in Jobs, ShutdownCancelled(j)
      PROVE  ServiceInv'
  <2>1. \A i \in Jobs : Pending(i)' <=> Pending(i)
    BY <1>16, SameStates DEF ShutdownCancelled
  <2>2. \A i \in Jobs : FateInv(i)'
    BY <1>0, <1>16, <2>1 DEF ShutdownCancelled, FateInv, ThreadsInv, ThreadInv, TypeOK
  <2>3. OrderInv' /\ StopInv'
    BY <1>0, <1>16 DEF ShutdownCancelled, OrderInv, StopInv, TypeOK
  <2> QED
    BY <1>0, <2>2, <2>3
<1>17. CASE ShutdownReturn
  <2>1. \A i \in Jobs : Pending(i)' <=> Pending(i)
    BY <1>17, SameStates DEF ShutdownReturn
  <2>2. \A i \in Jobs : FateInv(i)'
    BY <1>0, <1>17, <2>1 DEF ShutdownReturn, FateInv, ThreadsInv, ThreadInv, TypeOK
  <2>3. OrderInv' /\ StopInv'
    BY <1>0, <1>17 DEF ShutdownReturn, OrderInv, StopInv, TypeOK
  <2> QED
    BY <1>0, <2>2, <2>3
<1>18. CASE Tick
  <2>1. \A i \in Jobs : Pending(i)' <=> Pending(i)
    BY <1>18, SameStates DEF Tick
  <2>2. \A i \in Jobs : FateInv(i)'
    BY <1>0, <1>18, <2>1 DEF Tick, FateInv, ThreadsInv, ThreadInv, TypeOK
  <2>3. OrderInv' /\ StopInv'
    BY <1>0, <1>18 DEF Tick, OrderInv, StopInv, TypeOK
  <2> QED
    BY <1>0, <2>2, <2>3
<1>19. ASSUME NEW j \in Jobs, Submit(j)
      PROVE  ServiceInv'
  <2>1. \A i \in Jobs : Pending(i)' <=> Pending(i) \/ i = j
    BY <1>0, <1>19, SubmitMoves DEF Submit
  <2>2. \A i \in Jobs : FateInv(i)'
    BY <1>0, <1>19, <2>1 DEF Submit, FateInv, ThreadsInv, ThreadInv, TypeOK
  <2>3. OrderInv'
    BY <1>0, <1>19, SubmitOrder DEF Submit
  <2>4. StopInv'
    BY <1>0, <1>19 DEF Submit, NotifyAll, StopInv, TypeOK
  <2> QED
    BY <1>0, <2>2, <2>3, <2>4
<1>20. ASSUME NEW j \in Jobs, SubmitRejected(j)
      PROVE  ServiceInv'
  <2>1. \A i \in Jobs : Pending(i)' <=> Pending(i)
    BY <1>0, <1>20, ExpireMoves DEF SubmitRejected, RejectEnqueue
  <2>2. \A i \in Jobs : FateInv(i)'
    BY <1>0, <1>20, <2>1 DEF SubmitRejected, FateInv, ThreadsInv, ThreadInv, TypeOK
  <2>3. OrderInv'
    BY <1>0, <1>20, ExpireOrder DEF SubmitRejected, RejectEnqueue
  <2>4. StopInv'
    BY <1>0, <1>20 DEF SubmitRejected, RejectEnqueue, StopInv, TypeOK
  <2> QED
    BY <1>0, <2>2, <2>3, <2>4
<1>21. CASE Snapshot
  <2>1. \A i \in Jobs : Pending(i)' <=> Pending(i)
    BY <1>0, <1>21, ExpireMoves DEF Snapshot, Snapshots
  <2>2. \A i \in Jobs : FateInv(i)'
    BY <1>0, <1>21, <2>1 DEF Snapshot, FateInv, ThreadsInv, ThreadInv, TypeOK
  <2>3. OrderInv'
    BY <1>0, <1>21, ExpireOrder DEF Snapshot, Snapshots
  <2>4. StopInv'
    BY <1>0, <1>21 DEF Snapshot, Snapshots, StopInv, TypeOK
  <2> QED
    BY <1>0, <2>2, <2>3, <2>4
<1>22. ASSUME NEW j \in Jobs, LoopDispatch(j)
      PROVE  ServiceInv'
  <2>1. Pending(j) /\ worker[j] = "none" /\ \A i \in Jobs : Pending(i)' <=> Pending(i) /\ i # j
    BY <1>0, <1>22, DispatchMoves DEF LoopDispatch
  <2>2. \A i \in Jobs : FateInv(i)'
    BY <1>0, <1>22, <2>1 DEF LoopDispatch, FateInv, ThreadsInv, ThreadInv, TypeOK
  <2>3. OrderInv'
    BY <1>0, <1>22, DispatchOrder DEF LoopDispatch
  <2>4. StopInv'
    BY <1>0, <1>22 DEF LoopDispatch, MayDispatch, PopNext, StopInv, TypeOK
  <2> QED
    BY <1>0, <2>2, <2>3, <2>4
<1>23. ASSUME NEW j \in Jobs, LoopUnwind(j)
      PROVE  ServiceInv'
  <2>1. \A i \in Jobs : Pending(i)' <=> Pending(i)
    BY <1>0, <1>23, ReleaseMoves DEF LoopUnwind
  <2>2. \A i \in Jobs : FateInv(i)'
    BY <1>0, <1>23, <2>1 DEF LoopUnwind, FateInv, ThreadsInv, ThreadInv, TypeOK
  <2>3. OrderInv'
    BY <1>0, <1>23, ReleaseOrder DEF LoopUnwind
  <2>4. StopInv'
    BY <1>0, <1>23 DEF LoopUnwind, ReleaseSlot, Abandon, StopInv, TypeOK
  <2> QED
    BY <1>0, <2>2, <2>3, <2>4
<1>24. ASSUME NEW j \in Jobs, WorkerRelease(j)
      PROVE  ServiceInv'
  <2>1. \A i \in Jobs : Pending(i)' <=> Pending(i)
    BY <1>0, <1>24, ReleaseMoves DEF WorkerRelease
  <2>2. \A i \in Jobs : FateInv(i)'
    BY <1>0, <1>24, <2>1 DEF WorkerRelease, FateInv, ThreadsInv, ThreadInv, TypeOK
  <2>3. OrderInv'
    BY <1>0, <1>24, ReleaseOrder DEF WorkerRelease
  <2>4. StopInv'
    BY <1>0, <1>24 DEF WorkerRelease, ReleaseSlot, Complete, NotifyAll, StopInv, TypeOK
  <2> QED
    BY <1>0, <2>2, <2>3, <2>4
<1>25. CASE BeginShutdown
  <2>1. \A i \in Jobs : ~Pending(i)'
    BY <1>0, <1>25, DrainMoves DEF BeginShutdown
  <2>2. \A i \in Jobs : FateInv(i)'
    BY <1>0, <1>25, <2>1 DEF BeginShutdown, FateInv, ThreadsInv, ThreadInv, TypeOK, StopInv
  <2>3. OrderInv'
    BY <1>0, <1>25, DrainOrder DEF BeginShutdown
  <2>4. StopInv'
    BY <1>0, <1>25 DEF BeginShutdown, Drain, NotifyAll, StopInv, TypeOK
  <2> QED
    BY <1>0, <2>2, <2>3, <2>4
<1>26. ASSUME NEW j \in Jobs, CancelRemove(j)
      PROVE  ServiceInv'
  <2>1. CASE RemovePending(j, clock) /\ canceller' = [canceller EXCEPT ![j] = "failing"]
             /\ NotifyAll
    <3>1. Pending(j) /\ \A i \in Jobs : Pending(i)' <=> Pending(i) /\ i # j
      BY <1>0, <2>1, RemoveMoves
    <3>2. \A i \in Jobs : FateInv(i)'
      BY <1>0, <1>26, <2>1, <3>1 DEF CancelRemove, FateInv, ThreadsInv, ThreadInv, TypeOK
    <3>3. OrderInv'
      BY <1>0, <2>1, RemoveOrder
    <3>4. StopInv'
      <4>1. pendingCount > 0
        BY <1>0, <3>1, PendingCounted
      <4> QED
        BY <1>0, <1>26, <2>1, <4>1 DEF CancelRemove, RemovePending, NotifyAll, StopInv, TypeOK
    <3> QED
      BY <1>0, <3>2, <3>3, <3>4
  <2>2. CASE ~Pending(j) /\ canceller' = [canceller EXCEPT ![j] = "done"]
             /\ UNCHANGED <<queueVars, loop>>
    <3>1. \A i \in Jobs : Pending(i)' <=> Pending(i)
      BY <2>2, SameStates DEF queueVars
    <3>2. \A i \in Jobs : FateInv(i)'
      BY <1>0, <1>26, <2>2, <3>1 DEF CancelRemove, FateInv, ThreadsInv, ThreadInv, TypeOK
    <3>3. OrderInv' /\ StopInv'
      BY <1>0, <1>26, <2>2 DEF CancelRemove, OrderInv, StopInv
    <3> QED
      BY <1>0, <3>2, <3>3
  <2> QED
    BY <1>26, <2>1, <2>2 DEF CancelRemove
<1>27. CASE UNCHANGED vars
  <2>1. \A i \in Jobs : Pending(i)' <=> Pending(i)
    BY <1>27, SameStates DEF vars
  <2>2. (\A i \in Jobs : FateInv(i)') /\ OrderInv' /\ StopInv'
    BY <1>0, <1>27, <2>1 DEF vars, FateInv, OrderInv, StopInv
  <2> QED
    BY <1>0, <2>2
<1> QED
  BY <1>1, <1>2, <1>3, <1>4, <1>5, <1>6, <1>7, <1>8, <1>9, <1>10, <1>11,
     <1>12, <1>13, <1>14, <1>15, <1>16, <1>17, <1>18, <1>19, <1>20, <1>21,
     <1>22, <1>23, <1>24, <1>25, <1>26, <1>27
     DEF Next, LoopThread, Caller, CancelCallback, WorkerOwnStep, ShutdownThread

----------------------------------------------------------------------------
(* The abstract service: how its steps look from the executor *)

\* The phase of a request, one at a time.
LEMMA PhaseIs ==
    ASSUME TypeOK, QueueInv, NEW j \in Jobs
    PROVE  /\ Phase(j) = "new" <=> submitted[j] = "no"
           /\ Phase(j) = "refused" <=> submitted[j] = "rejected"
           /\ Phase(j) = "waiting" <=> submitted[j] = "admitted" /\ Pending(j)
           /\ Phase(j) = "serving" <=>
                 submitted[j] = "admitted" /\ ~Pending(j) /\ j \in SlotHolders
           /\ Phase(j) = "left" <=>
                 submitted[j] = "admitted" /\ ~Pending(j) /\ worker[j] = "none"
           /\ Phase(j) = "served" <=>
                 /\ submitted[j] = "admitted" /\ ~Pending(j)
                 /\ worker[j] # "none" /\ j \notin SlotHolders
<1>1. submitted[j] \in {"no", "admitted", "rejected"}
  BY DEF TypeOK
<1>2. j \in SlotHolders => worker[j] # "none" /\ ~Pending(j)
  BY PendingUndispatched DEF SlotHolders, SlotPositions
<1>3. CASE submitted[j] = "no"
  BY <1>3 DEF Phase
<1>4. CASE submitted[j] = "rejected"
  <2>1. Phase(j) = "refused"
    BY <1>4 DEF Phase
  <2> QED
    BY <1>4, <2>1
<1>5. CASE submitted[j] = "admitted" /\ Pending(j)
  BY <1>2, <1>5 DEF Phase
<1>6. CASE submitted[j] = "admitted" /\ ~Pending(j) /\ j \in SlotHolders
  BY <1>2, <1>6 DEF Phase
<1>7. CASE submitted[j] = "admitted" /\ ~Pending(j) /\ worker[j] = "none"
  BY <1>2, <1>7 DEF Phase
<1>8. CASE /\ submitted[j] = "admitted" /\ ~Pending(j)
           /\ worker[j] # "none" /\ j \notin SlotHolders
  BY <1>8 DEF Phase
<1> QED
  BY <1>1, <1>3, <1>4, <1>5, <1>6, <1>7, <1>8

LEMMA SameCardinality == \A S : Service!Cardinality(S) = Cardinality(S)
  BY DEF Service!Cardinality, Cardinality

\* The requests that the service has waiting and being served are those that
\* the executor counts.
LEMMA CountsOfService ==
    ASSUME ServiceInv
    PROVE  /\ Cardinality(Service!In("waiting")) = pendingCount
           /\ Cardinality(Service!In("serving")) = runtimeInflight
<1>1. /\ pendingCount = Cardinality(QueuedJobs) /\ runtimeInflight = Cardinality(SlotHolders)
      /\ QueueInv /\ ThreadsInv /\ TypeOK
  BY DEF ServiceInv, IInv, PendingAccounting, SlotAccounting
<1>2. \A j \in Jobs : (Phase(j) = "waiting" <=> Pending(j))
  BY <1>1, PhaseIs DEF ThreadsInv, ThreadInv
<1>3. \A j \in Jobs : (Phase(j) = "serving" <=> j \in SlotHolders)
  BY <1>1, PhaseIs, PendingUndispatched DEF SlotHolders, SlotPositions, ThreadsInv, ThreadInv
<1>4. Service!In("waiting") = QueuedJobs /\ Service!In("serving") = SlotHolders
  BY <1>2, <1>3 DEF Service!In, QueuedJobs, SlotHolders
<1> QED
  BY <1>1, <1>4

LEMMA AdmitStep ==
    ASSUME ServiceInv, NEW j \in Jobs, Phase(j) = "new", ~stopRequested,
           pendingCount < MaxPendingPerExecutor,
           \A i \in Jobs : Phase(i)' = IF i = j THEN "waiting" ELSE Phase(i),
           UNCHANGED <<outcome, cancelled, stopRequested>>
    PROVE  Service!ServiceNext
<1>1. [i \in Jobs |-> Phase(i)]' = [[i \in Jobs |-> Phase(i)] EXCEPT ![j] = "waiting"]
  OBVIOUS
<1>2. [i \in Jobs |-> Phase(i)][j] = Phase(j)
  OBVIOUS
<1>3. Cardinality({i \in Jobs : [h \in Jobs |-> Phase(h)][i] = "waiting"}) = pendingCount
  BY CountsOfService DEF Service!In
<1> QED
  BY <1>1, <1>2, <1>3, SameCardinality DEF Service!ServiceNext, Service!Admit, Service!In

LEMMA RefuseStep ==
    ASSUME ServiceInv, NEW j \in Jobs, Phase(j) = "new",
           \A i \in Jobs : Phase(i)' = IF i = j THEN "refused" ELSE Phase(i),
           UNCHANGED <<outcome, cancelled, stopRequested>>
    PROVE  Service!ServiceNext
<1>1. [i \in Jobs |-> Phase(i)]' = [[i \in Jobs |-> Phase(i)] EXCEPT ![j] = "refused"]
  OBVIOUS
<1>2. [i \in Jobs |-> Phase(i)][j] = Phase(j)
  OBVIOUS
<1> QED
  BY <1>1, <1>2 DEF Service!ServiceNext, Service!Refuse

LEMMA LeaveStep ==
    ASSUME ServiceInv, NEW j \in Jobs, Phase(j) = "waiting", cancelled[j],
           \A i \in Jobs : Phase(i)' = IF i = j THEN "left" ELSE Phase(i),
           UNCHANGED <<outcome, cancelled, stopRequested>>
    PROVE  Service!ServiceNext
<1>1. [i \in Jobs |-> Phase(i)]' = [[i \in Jobs |-> Phase(i)] EXCEPT ![j] = "left"]
  OBVIOUS
<1>2. [i \in Jobs |-> Phase(i)][j] = Phase(j)
  OBVIOUS
<1> QED
  BY <1>1, <1>2 DEF Service!ServiceNext, Service!Leave

LEMMA ServeStep ==
    ASSUME ServiceInv, NEW j \in Jobs, Phase(j) = "waiting", ~stopRequested,
           runtimeInflight < EffectiveTargetInflight,
           \A i \in Jobs : Phase(i)' = IF i = j THEN "serving" ELSE Phase(i),
           UNCHANGED <<outcome, cancelled, stopRequested>>
    PROVE  Service!ServiceNext
<1>1. [i \in Jobs |-> Phase(i)]' = [[i \in Jobs |-> Phase(i)] EXCEPT ![j] = "serving"]
  OBVIOUS
<1>2. [i \in Jobs |-> Phase(i)][j] = Phase(j)
  OBVIOUS
<1>3. Cardinality({i \in Jobs : [h \in Jobs |-> Phase(h)][i] = "serving"}) = runtimeInflight
  BY CountsOfService DEF Service!In
<1> QED
  BY <1>1, <1>2, <1>3, SameCardinality DEF Service!ServiceNext, Service!Serve, Service!In

LEMMA ServedStep ==
    ASSUME ServiceInv, NEW j \in Jobs, Phase(j) = "serving",
           \A i \in Jobs : Phase(i)' = IF i = j THEN "served" ELSE Phase(i),
           UNCHANGED <<outcome, cancelled, stopRequested>>
    PROVE  Service!ServiceNext
<1>1. [i \in Jobs |-> Phase(i)]' = [[i \in Jobs |-> Phase(i)] EXCEPT ![j] = "served"]
  OBVIOUS
<1>2. [i \in Jobs |-> Phase(i)][j] = Phase(j)
  OBVIOUS
<1> QED
  BY <1>1, <1>2 DEF Service!ServiceNext, Service!Served

LEMMA WithdrawStep ==
    ASSUME ServiceInv, NEW j \in Jobs, Phase(j) \notin {"new", "refused"}, outcome[j] = "open",
           \A i \in Jobs : Phase(i)' = Phase(i),
           cancelled' = [cancelled EXCEPT ![j] = TRUE], UNCHANGED <<outcome, stopRequested>>
    PROVE  Service!ServiceNext
<1>1. [i \in Jobs |-> Phase(i)]' = [i \in Jobs |-> Phase(i)]
  OBVIOUS
<1>2. {i \in Jobs : cancelled[i]}' = {i \in Jobs : cancelled[i]} \union {j}
  BY DEF ServiceInv, IInv, TypeOK
<1> QED
  BY <1>1, <1>2 DEF Service!ServiceNext, Service!Withdraw

LEMMA VerdictStep ==
    ASSUME ServiceInv, NEW j \in Jobs, outcome[j] = "open",
           NEW v \in {"completed", "error", "cancelled", "unloading"},
           v \in {"completed", "error"} => Phase(j) = "served",
           v = "unloading" => Phase(j) = "left" /\ stopRequested,
           v = "cancelled" => Phase(j) \in {"left", "served"} /\ cancelled[j],
           \A i \in Jobs : Phase(i)' = Phase(i),
           outcome' = [outcome EXCEPT ![j] = v], UNCHANGED <<cancelled, stopRequested>>
    PROVE  Service!ServiceNext
<1>1. [i \in Jobs |-> Phase(i)]' = [i \in Jobs |-> Phase(i)]
  OBVIOUS
<1> QED
  BY <1>1 DEF Service!ServiceNext, Service!Verdict

LEMMA CloseStep ==
    ASSUME \A i \in Jobs : Phase(i)' = IF Phase(i) = "waiting" THEN "left" ELSE Phase(i),
           stopRequested' = TRUE, UNCHANGED <<outcome, cancelled>>
    PROVE  Service!ServiceNext
  BY DEF Service!ServiceNext, Service!Close

LEMMA StutterStep ==
    ASSUME \A i \in Jobs : Phase(i)' = Phase(i), UNCHANGED <<outcome, cancelled, stopRequested>>
    PROVE  UNCHANGED Service!serviceVars
  BY DEF Service!serviceVars

----------------------------------------------------------------------------
(* Refinement *)

\* Every step of a thread of the executor is a step of the service, or none.
THEOREM ServiceSimulation ==
    ServiceInv /\ [Next]_vars => [Service!ServiceNext]_(Service!serviceVars)
<1> SUFFICES ASSUME ServiceInv, [Next]_vars
             PROVE  [Service!ServiceNext]_(Service!serviceVars)
  OBVIOUS
<1> USE DEF queueVars, slotVars, workerVars, handleVars, shutdownVars
<1>0. /\ ServiceInv /\ IInv /\ TypeOK /\ ThreadsInv
      /\ OrderInv /\ StopInv /\ \A i \in Jobs : FateInv(i)
  BY DEF ServiceInv, IInv
<1>1. CASE LoopStart
  <2>1. \A i \in Jobs : Pending(i)' <=> Pending(i)
    BY <1>0, <1>1, SameStates DEF LoopStart
  <2>2. \A i \in Jobs : Phase(i)' = Phase(i)
    BY <1>0, <1>1, <2>1 DEF LoopStart, Phase, SlotHolders, SlotPositions, TypeOK
  <2> QED
    BY <1>1, <2>2, StutterStep DEF LoopStart
<1>2. CASE LoopReturn
  <2>1. \A i \in Jobs : Pending(i)' <=> Pending(i)
    BY <1>0, <1>2, SameStates DEF LoopReturn
  <2>2. \A i \in Jobs : Phase(i)' = Phase(i)
    BY <1>0, <1>2, <2>1 DEF LoopReturn, Phase, SlotHolders, SlotPositions, TypeOK
  <2> QED
    BY <1>2, <2>2, StutterStep DEF LoopReturn
<1>3. CASE LoopWait
  <2>1. \A i \in Jobs : Pending(i)' <=> Pending(i)
    BY <1>0, <1>3, SameStates DEF LoopWait
  <2>2. \A i \in Jobs : Phase(i)' = Phase(i)
    BY <1>0, <1>3, <2>1 DEF LoopWait, Phase, SlotHolders, SlotPositions, TypeOK
  <2> QED
    BY <1>3, <2>2, StutterStep DEF LoopWait
<1>4. ASSUME NEW j \in Jobs, LoopSpawn(j)
      PROVE  [Service!ServiceNext]_(Service!serviceVars)
  <2>1. \A i \in Jobs : Pending(i)' <=> Pending(i)
    BY <1>0, <1>4, SameStates DEF LoopSpawn
  <2>2. \A i \in Jobs : Phase(i)' = Phase(i)
    BY <1>0, <1>4, <2>1 DEF LoopSpawn, Phase, SlotHolders, SlotPositions, TypeOK
  <2> QED
    BY <1>4, <2>2, StutterStep DEF LoopSpawn
<1>5. ASSUME NEW j \in Jobs, WorkerBegin(j)
      PROVE  [Service!ServiceNext]_(Service!serviceVars)
  <2>1. \A i \in Jobs : Pending(i)' <=> Pending(i)
    BY <1>0, <1>5, SameStates DEF WorkerBegin
  <2>2. \A i \in Jobs : Phase(i)' = Phase(i)
    BY <1>0, <1>5, <2>1 DEF WorkerBegin, Phase, SlotHolders, SlotPositions, TypeOK
  <2> QED
    BY <1>5, <2>2, StutterStep DEF WorkerBegin
<1>6. ASSUME NEW j \in Jobs, WorkerCheckCancelled(j)
      PROVE  [Service!ServiceNext]_(Service!serviceVars)
  <2>1. \A i \in Jobs : Pending(i)' <=> Pending(i)
    BY <1>0, <1>6, SameStates DEF WorkerCheckCancelled
  <2>2. \A i \in Jobs : Phase(i)' = Phase(i)
    BY <1>0, <1>6, <2>1 DEF WorkerCheckCancelled, Phase, SlotHolders, SlotPositions, TypeOK
  <2> QED
    BY <1>6, <2>2, StutterStep DEF WorkerCheckCancelled
<1>7. ASSUME NEW j \in Jobs, WorkerReturn(j)
      PROVE  [Service!ServiceNext]_(Service!serviceVars)
  <2>1. \A i \in Jobs : Pending(i)' <=> Pending(i)
    BY <1>0, <1>7, SameStates DEF WorkerReturn
  <2>2. \A i \in Jobs : Phase(i)' = Phase(i)
    BY <1>0, <1>7, <2>1 DEF WorkerReturn, Phase, SlotHolders, SlotPositions, TypeOK
  <2> QED
    BY <1>7, <2>2, StutterStep DEF WorkerReturn
<1>8. ASSUME NEW j \in Jobs, ShutdownCancelled(j)
      PROVE  [Service!ServiceNext]_(Service!serviceVars)
  <2>1. \A i \in Jobs : Pending(i)' <=> Pending(i)
    BY <1>0, <1>8, SameStates DEF ShutdownCancelled
  <2>2. \A i \in Jobs : Phase(i)' = Phase(i)
    BY <1>0, <1>8, <2>1 DEF ShutdownCancelled, Phase, SlotHolders, SlotPositions, TypeOK
  <2> QED
    BY <1>8, <2>2, StutterStep DEF ShutdownCancelled
<1>9. CASE ShutdownReturn
  <2>1. \A i \in Jobs : Pending(i)' <=> Pending(i)
    BY <1>0, <1>9, SameStates DEF ShutdownReturn
  <2>2. \A i \in Jobs : Phase(i)' = Phase(i)
    BY <1>0, <1>9, <2>1 DEF ShutdownReturn, Phase, SlotHolders, SlotPositions, TypeOK
  <2> QED
    BY <1>9, <2>2, StutterStep DEF ShutdownReturn
<1>10. CASE Tick
  <2>1. \A i \in Jobs : Pending(i)' <=> Pending(i)
    BY <1>0, <1>10, SameStates DEF Tick
  <2>2. \A i \in Jobs : Phase(i)' = Phase(i)
    BY <1>0, <1>10, <2>1 DEF Tick, Phase, SlotHolders, SlotPositions, TypeOK
  <2> QED
    BY <1>10, <2>2, StutterStep DEF Tick
<1>11. CASE Snapshot
  <2>1. \A i \in Jobs : Pending(i)' <=> Pending(i)
    BY <1>0, <1>11, ExpireMoves DEF Snapshot, Snapshots
  <2>2. \A i \in Jobs : Phase(i)' = Phase(i)
    BY <1>0, <1>11, <2>1 DEF Snapshot, Phase, SlotHolders, SlotPositions, TypeOK
  <2> QED
    BY <1>11, <2>2, StutterStep DEF Snapshot
<1>12. ASSUME NEW j \in Jobs, Submit(j)
      PROVE  [Service!ServiceNext]_(Service!serviceVars)
  <2>1. \A i \in Jobs : Pending(i)' <=> Pending(i) \/ i = j
    BY <1>0, <1>12, SubmitMoves DEF Submit
  <2>2. submitted[j] = "no" /\ worker[j] = "none"
    BY <1>0, <1>12, <2>1, PendingUndispatched
       DEF Submit, SlotPositions, ThreadsInv, ThreadInv, TypeOK, IInv
  <2>3. submitted' = [submitted EXCEPT ![j] = "admitted"] /\ worker' = worker
    BY <1>12 DEF Submit
  <2>4. \A i \in Jobs : Phase(i)' = IF i = j THEN "waiting" ELSE Phase(i)
    <3> SUFFICES ASSUME NEW i \in Jobs
                 PROVE  Phase(i)' = IF i = j THEN "waiting" ELSE Phase(i)
      OBVIOUS
    <3>1. CASE i = j
      BY <1>0, <2>1, <2>2, <2>3, <3>1 DEF Phase, SlotHolders, SlotPositions, TypeOK, IInv
    <3>2. CASE i # j
      BY <1>0, <2>1, <2>3, <3>2 DEF Phase, SlotHolders, TypeOK
    <3> QED
      BY <3>1, <3>2
  <2>5. Phase(j) = "new" /\ ~stopRequested /\ pendingCount < MaxPendingPerExecutor
    BY <1>0, <1>12, <2>1, <2>2, PhaseIs DEF IInv, Submit, Enqueue, HasRoom
  <2>6. UNCHANGED <<outcome, cancelled, stopRequested>>
    BY <1>12 DEF Submit
  <2> QED
    BY <1>0, <2>4, <2>5, <2>6, AdmitStep
<1>13. ASSUME NEW j \in Jobs, SubmitRejected(j)
      PROVE  [Service!ServiceNext]_(Service!serviceVars)
  <2>1. \A i \in Jobs : Pending(i)' <=> Pending(i)
    BY <1>0, <1>13, ExpireMoves DEF SubmitRejected, RejectEnqueue
  <2>2. submitted[j] = "no" /\ worker[j] = "none"
    BY <1>0, <1>13, <2>1, PendingUndispatched
       DEF SubmitRejected, SlotPositions, ThreadsInv, ThreadInv, TypeOK, IInv
  <2>3. submitted' = [submitted EXCEPT ![j] = "rejected"] /\ worker' = worker
    BY <1>13 DEF SubmitRejected
  <2>4. \A i \in Jobs : Phase(i)' = IF i = j THEN "refused" ELSE Phase(i)
    <3> SUFFICES ASSUME NEW i \in Jobs
                 PROVE  Phase(i)' = IF i = j THEN "refused" ELSE Phase(i)
      OBVIOUS
    <3>1. CASE i = j
      BY <1>0, <2>1, <2>2, <2>3, <3>1 DEF Phase, SlotHolders, SlotPositions, TypeOK, IInv
    <3>2. CASE i # j
      BY <1>0, <2>1, <2>3, <3>2 DEF Phase, SlotHolders, TypeOK
    <3> QED
      BY <3>1, <3>2
  <2>5. Phase(j) = "new"
    BY <1>0, <1>13, <2>1, <2>2, PhaseIs DEF IInv
  <2>6. UNCHANGED <<outcome, cancelled, stopRequested>>
    BY <1>13 DEF SubmitRejected
  <2> QED
    BY <1>0, <2>4, <2>5, <2>6, RefuseStep
<1>14. ASSUME NEW j \in Jobs, SubmitUnloading(j)
      PROVE  [Service!ServiceNext]_(Service!serviceVars)
  <2>1. \A i \in Jobs : Pending(i)' <=> Pending(i)
    BY <1>0, <1>14, SameStates DEF SubmitUnloading
  <2>2. submitted[j] = "no" /\ worker[j] = "none"
    BY <1>0, <1>14, <2>1, PendingUndispatched
       DEF SubmitUnloading, SlotPositions, ThreadsInv, ThreadInv, TypeOK, IInv
  <2>3. submitted' = [submitted EXCEPT ![j] = "rejected"] /\ worker' = worker
    BY <1>14 DEF SubmitUnloading
  <2>4. \A i \in Jobs : Phase(i)' = IF i = j THEN "refused" ELSE Phase(i)
    <3> SUFFICES ASSUME NEW i \in Jobs
                 PROVE  Phase(i)' = IF i = j THEN "refused" ELSE Phase(i)
      OBVIOUS
    <3>1. CASE i = j
      BY <1>0, <2>1, <2>2, <2>3, <3>1 DEF Phase, SlotHolders, SlotPositions, TypeOK, IInv
    <3>2. CASE i # j
      BY <1>0, <2>1, <2>3, <3>2 DEF Phase, SlotHolders, TypeOK
    <3> QED
      BY <3>1, <3>2
  <2>5. Phase(j) = "new"
    BY <1>0, <1>14, <2>1, <2>2, PhaseIs DEF IInv
  <2>6. UNCHANGED <<outcome, cancelled, stopRequested>>
    BY <1>14 DEF SubmitUnloading
  <2> QED
    BY <1>0, <2>4, <2>5, <2>6, RefuseStep
<1>15. ASSUME NEW j \in Jobs, LoopDispatch(j)
      PROVE  [Service!ServiceNext]_(Service!serviceVars)
  <2>1. Pending(j) /\ worker[j] = "none" /\ \A i \in Jobs : Pending(i)' <=> Pending(i) /\ i # j
    BY <1>0, <1>15, DispatchMoves DEF LoopDispatch
  <2>2. submitted[j] = "admitted"
    BY <1>0, <1>15, <2>1, PendingUndispatched
       DEF LoopDispatch, SlotPositions, ThreadsInv, ThreadInv, TypeOK, IInv
  <2>3. worker' = [worker EXCEPT ![j] = "popped"] /\ submitted' = submitted
    BY <1>15 DEF LoopDispatch
  <2>4. \A i \in Jobs : Phase(i)' = IF i = j THEN "serving" ELSE Phase(i)
    <3> SUFFICES ASSUME NEW i \in Jobs
                 PROVE  Phase(i)' = IF i = j THEN "serving" ELSE Phase(i)
      OBVIOUS
    <3>1. CASE i = j
      BY <1>0, <2>1, <2>2, <2>3, <3>1 DEF Phase, SlotHolders, SlotPositions, TypeOK, IInv
    <3>2. CASE i # j
      BY <1>0, <2>1, <2>3, <3>2 DEF Phase, SlotHolders, TypeOK
    <3> QED
      BY <3>1, <3>2
  <2>5. Phase(j) = "waiting" /\ ~stopRequested /\ runtimeInflight < EffectiveTargetInflight
    BY <1>0, <1>15, <2>1, <2>2, PhaseIs DEF IInv, LoopDispatch, MayDispatch, StopInv
  <2>6. UNCHANGED <<outcome, cancelled, stopRequested>>
    BY <1>15 DEF LoopDispatch
  <2> QED
    BY <1>0, <2>4, <2>5, <2>6, ServeStep
<1>16. ASSUME NEW j \in Jobs, LoopUnwind(j)
      PROVE  [Service!ServiceNext]_(Service!serviceVars)
  <2>1. \A i \in Jobs : Pending(i)' <=> Pending(i)
    BY <1>0, <1>16, ReleaseMoves DEF LoopUnwind
  <2>2. submitted[j] = "admitted" /\ ~Pending(j) /\ worker[j] \in SlotPositions
    BY <1>0, <1>16, <2>1, PendingUndispatched
       DEF LoopUnwind, SlotPositions, ThreadsInv, ThreadInv, TypeOK, IInv
  <2>3. worker' = [worker EXCEPT ![j] = "unstarted"] /\ submitted' = submitted
    BY <1>16 DEF LoopUnwind
  <2>4. \A i \in Jobs : Phase(i)' = IF i = j THEN "served" ELSE Phase(i)
    <3> SUFFICES ASSUME NEW i \in Jobs
                 PROVE  Phase(i)' = IF i = j THEN "served" ELSE Phase(i)
      OBVIOUS
    <3>1. CASE i = j
      BY <1>0, <2>1, <2>2, <2>3, <3>1 DEF Phase, SlotHolders, SlotPositions, TypeOK, IInv
    <3>2. CASE i # j
      BY <1>0, <2>1, <2>3, <3>2 DEF Phase, SlotHolders, TypeOK
    <3> QED
      BY <3>1, <3>2
  <2>5. Phase(j) = "serving"
    BY <1>0, <1>16, <2>1, <2>2, PhaseIs DEF IInv, SlotHolders
  <2>6. UNCHANGED <<outcome, cancelled, stopRequested>>
    BY <1>16 DEF LoopUnwind
  <2> QED
    BY <1>0, <2>4, <2>5, <2>6, ServedStep
<1>17. ASSUME NEW j \in Jobs, WorkerRelease(j)
      PROVE  [Service!ServiceNext]_(Service!serviceVars)
  <2>1. \A i \in Jobs : Pending(i)' <=> Pending(i)
    BY <1>0, <1>17, ReleaseMoves DEF WorkerRelease
  <2>2. submitted[j] = "admitted" /\ ~Pending(j) /\ worker[j] \in SlotPositions
    BY <1>0, <1>17, <2>1, PendingUndispatched
       DEF WorkerRelease, SlotPositions, ThreadsInv, ThreadInv, TypeOK, IInv
  <2>3. worker' = [worker EXCEPT ![j] = "released"] /\ submitted' = submitted
    BY <1>17 DEF WorkerRelease
  <2>4. \A i \in Jobs : Phase(i)' = IF i = j THEN "served" ELSE Phase(i)
    <3> SUFFICES ASSUME NEW i \in Jobs
                 PROVE  Phase(i)' = IF i = j THEN "served" ELSE Phase(i)
      OBVIOUS
    <3>1. CASE i = j
      BY <1>0, <2>1, <2>2, <2>3, <3>1 DEF Phase, SlotHolders, SlotPositions, TypeOK, IInv
    <3>2. CASE i # j
      BY <1>0, <2>1, <2>3, <3>2 DEF Phase, SlotHolders, TypeOK
    <3> QED
      BY <3>1, <3>2
  <2>5. Phase(j) = "serving"
    BY <1>0, <1>17, <2>1, <2>2, PhaseIs DEF IInv, SlotHolders
  <2>6. UNCHANGED <<outcome, cancelled, stopRequested>>
    BY <1>17 DEF WorkerRelease
  <2> QED
    BY <1>0, <2>4, <2>5, <2>6, ServedStep
<1>18. ASSUME NEW j \in Jobs, Cancel(j)
      PROVE  [Service!ServiceNext]_(Service!serviceVars)
  <2>1. \A i \in Jobs : Pending(i)' <=> Pending(i)
    BY <1>0, <1>18, SameStates DEF Cancel
  <2>2. \A i \in Jobs : Phase(i)' = Phase(i)
    BY <1>0, <1>18, <2>1
       DEF Cancel, Phase, SlotHolders, SlotPositions, ThreadsInv, ThreadInv, TypeOK
  <2>3. Phase(j) \notin {"new", "refused"} /\ outcome[j] = "open"
    BY <1>18 DEF Cancel, Phase
  <2>4. cancelled' = [cancelled EXCEPT ![j] = TRUE] /\ UNCHANGED <<outcome, stopRequested>>
    BY <1>18 DEF Cancel
  <2> QED
    BY <1>0, <2>2, <2>3, <2>4, WithdrawStep
<1>19. ASSUME NEW j \in Jobs, ShutdownCancel(j)
      PROVE  [Service!ServiceNext]_(Service!serviceVars)
  <2>1. \A i \in Jobs : Pending(i)' <=> Pending(i)
    BY <1>0, <1>19, SameStates DEF ShutdownCancel
  <2>2. \A i \in Jobs : Phase(i)' = Phase(i)
    BY <1>0, <1>19, <2>1
       DEF ShutdownCancel, Phase, SlotHolders, SlotPositions, ThreadsInv, ThreadInv, TypeOK
  <2>3. CASE outcome[j] = "open" /\ ~cancelled[j]
    <3>1. Phase(j) \notin {"new", "refused"}
      BY <1>0, <1>19 DEF ShutdownCancel, Phase, ThreadsInv, ThreadInv
    <3>2. cancelled' = [cancelled EXCEPT ![j] = TRUE] /\ UNCHANGED <<outcome, stopRequested>>
      BY <1>19, <2>3 DEF ShutdownCancel
    <3> QED
      BY <1>0, <2>2, <2>3, <3>1, <3>2, WithdrawStep
  <2>4. CASE ~(outcome[j] = "open" /\ ~cancelled[j])
    BY <1>19, <2>2, <2>4, StutterStep DEF ShutdownCancel
  <2> QED
    BY <2>3, <2>4
<1>20. ASSUME NEW j \in Jobs, CancelFail(j)
      PROVE  [Service!ServiceNext]_(Service!serviceVars)
  <2>1. \A i \in Jobs : Pending(i)' <=> Pending(i)
    BY <1>0, <1>20, SameStates DEF CancelFail
  <2>2. \A i \in Jobs : Phase(i)' = Phase(i)
    BY <1>0, <1>20, <2>1
       DEF CancelFail, Phase, SlotHolders, SlotPositions, ThreadsInv, ThreadInv, TypeOK
  <2>3. outcome[j] = "open" /\ Phase(j) = "left" /\ cancelled[j]
    BY <1>0, <1>20, PhaseIs, PendingUndispatched
       DEF CancelFail, IInv, SlotHolders, SlotPositions, ThreadsInv,
          ThreadInv, FateInv
  <2>4. outcome' = [outcome EXCEPT ![j] = "cancelled"] /\ UNCHANGED <<cancelled, stopRequested>>
    BY <1>0, <1>20, <2>3 DEF CancelFail, Finish, TypeOK
  <2> QED
    BY <1>0, <2>2, <2>3, <2>4, VerdictStep
<1>21. ASSUME NEW j \in Jobs, LoopFail(j)
      PROVE  [Service!ServiceNext]_(Service!serviceVars)
  <2>1. \A i \in Jobs : Pending(i)' <=> Pending(i)
    BY <1>0, <1>21, SameStates DEF LoopFail
  <2>2. \A i \in Jobs : Phase(i)' = Phase(i)
    BY <1>0, <1>21, <2>1
       DEF LoopFail, Phase, SlotHolders, SlotPositions, ThreadsInv, ThreadInv, TypeOK
  <2>3. outcome[j] = "open" /\ Phase(j) = "served"
    BY <1>0, <1>21, PhaseIs, PendingUndispatched
       DEF LoopFail, IInv, SlotHolders, SlotPositions, ThreadsInv,
          ThreadInv, FateInv
  <2>4. outcome' = [outcome EXCEPT ![j] = "error"] /\ UNCHANGED <<cancelled, stopRequested>>
    BY <1>0, <1>21, <2>3 DEF LoopFail, Finish, TypeOK
  <2> QED
    BY <1>0, <2>2, <2>3, <2>4, VerdictStep
<1>22. ASSUME NEW j \in Jobs, WorkerComplete(j)
      PROVE  [Service!ServiceNext]_(Service!serviceVars)
  <2>1. \A i \in Jobs : Pending(i)' <=> Pending(i)
    BY <1>0, <1>22, SameStates DEF WorkerComplete
  <2>2. \A i \in Jobs : Phase(i)' = Phase(i)
    BY <1>0, <1>22, <2>1
       DEF WorkerComplete, Phase, SlotHolders, SlotPositions, ThreadsInv, ThreadInv, TypeOK
  <2>3. outcome[j] = "open" /\ Phase(j) = "served"
    BY <1>0, <1>22, PhaseIs, PendingUndispatched
       DEF WorkerComplete, IInv, SlotHolders, SlotPositions, ThreadsInv,
          ThreadInv, FateInv
  <2>4. outcome' = [outcome EXCEPT ![j] = "completed"] /\ UNCHANGED <<cancelled, stopRequested>>
    BY <1>0, <1>22, <2>3 DEF WorkerComplete, Finish, TypeOK
  <2> QED
    BY <1>0, <2>2, <2>3, <2>4, VerdictStep
<1>23. ASSUME NEW j \in Jobs, ShutdownFail(j)
      PROVE  [Service!ServiceNext]_(Service!serviceVars)
  <2>1. \A i \in Jobs : Pending(i)' <=> Pending(i)
    BY <1>0, <1>23, SameStates DEF ShutdownFail
  <2>2. \A i \in Jobs : Phase(i)' = Phase(i)
    BY <1>0, <1>23, <2>1
       DEF ShutdownFail, Phase, SlotHolders, SlotPositions, ThreadsInv, ThreadInv, TypeOK
  <2>3. outcome[j] = "open" /\ Phase(j) = "left" /\ stopRequested
    BY <1>0, <1>23, PhaseIs, PendingUndispatched
       DEF ShutdownFail, IInv, SlotHolders, SlotPositions, ThreadsInv,
          ThreadInv, FateInv
  <2>4. outcome' = [outcome EXCEPT ![j] = "unloading"] /\ UNCHANGED <<cancelled, stopRequested>>
    BY <1>0, <1>23, <2>3 DEF ShutdownFail, Finish, TypeOK
  <2> QED
    BY <1>0, <2>2, <2>3, <2>4, VerdictStep
<1>24. ASSUME NEW j \in Jobs, WorkerReport(j)
      PROVE  [Service!ServiceNext]_(Service!serviceVars)
  <2>1. \A i \in Jobs : Pending(i)' <=> Pending(i)
    BY <1>0, <1>24, SameStates DEF WorkerReport
  <2>2. \A i \in Jobs : Phase(i)' = Phase(i)
    BY <1>0, <1>24, <2>1
       DEF WorkerReport, Phase, SlotHolders, SlotPositions, ThreadsInv, ThreadInv, TypeOK
  <2>3. outcome[j] = "open" /\ Phase(j) = "served" /\ UNCHANGED <<cancelled, stopRequested>>
    BY <1>0, <1>24, PhaseIs, PendingUndispatched
       DEF WorkerReport, IInv, SlotHolders, SlotPositions, ThreadsInv,
          ThreadInv
  <2>4. CASE UNCHANGED outcome
    BY <2>2, <2>3, <2>4, StutterStep
  <2>5. CASE outcome' = [outcome EXCEPT ![j] = "error"]
    BY <1>0, <2>2, <2>3, <2>5, VerdictStep
  <2>6. CASE outcome' = [outcome EXCEPT ![j] = "cancelled"] /\ cancelled[j]
    BY <1>0, <2>2, <2>3, <2>6, VerdictStep
  <2> QED
    BY <1>0, <1>24, <2>3, <2>4, <2>5, <2>6 DEF WorkerReport, Finish, FateInv, TypeOK
<1>25. ASSUME NEW j \in Jobs, CancelRemove(j)
      PROVE  [Service!ServiceNext]_(Service!serviceVars)
  <2>1. UNCHANGED <<outcome, cancelled, stopRequested, submitted, worker>>
    BY <1>25 DEF CancelRemove
  <2>2. CASE RemovePending(j, clock)
    <3>1. Pending(j) /\ \A i \in Jobs : Pending(i)' <=> Pending(i) /\ i # j
      BY <1>0, <2>2, RemoveMoves
    <3>2. worker[j] = "none" /\ submitted[j] = "admitted"
      BY <1>0, <3>1, PendingUndispatched DEF IInv, ThreadsInv, ThreadInv
    <3>3. \A i \in Jobs : Phase(i)' = IF i = j THEN "left" ELSE Phase(i)
      BY <2>1, <3>1, <3>2 DEF Phase, SlotHolders, SlotPositions
    <3>4. Phase(j) = "waiting" /\ cancelled[j]
      BY <1>0, <1>25, <3>1, <3>2, PhaseIs DEF IInv, CancelRemove, ThreadsInv, ThreadInv
    <3> QED
      BY <1>0, <2>1, <3>3, <3>4, LeaveStep
  <2>3. CASE UNCHANGED queueVars
    <3>1. \A i \in Jobs : Pending(i)' <=> Pending(i)
      BY <2>3, SameStates
    <3>2. \A i \in Jobs : Phase(i)' = Phase(i)
      BY <2>1, <3>1 DEF Phase, SlotHolders, SlotPositions
    <3> QED
      BY <2>1, <3>2, StutterStep
  <2> QED
    BY <1>25, <2>2, <2>3 DEF CancelRemove
<1>26. CASE BeginShutdown
  <2>1. /\ \A i \in Jobs : ~Pending(i)'
        /\ stopRequested' = TRUE
        /\ UNCHANGED <<outcome, cancelled, submitted, worker>>
    BY <1>0, <1>26, DrainMoves DEF BeginShutdown
  <2>2. \A i \in Jobs : Pending(i) => worker[i] = "none"
    BY <1>0, PendingUndispatched DEF IInv
  <2>3. \A i \in Jobs : Phase(i)' = IF Phase(i) = "waiting" THEN "left" ELSE Phase(i)
    BY <2>1, <2>2 DEF Phase, SlotHolders, SlotPositions
  <2> QED
    BY <2>1, <2>3, CloseStep
<1>27. CASE UNCHANGED vars
  <2>1. \A i \in Jobs : Phase(i)' = Phase(i)
    BY <1>27, SameStates DEF vars, Phase, SlotHolders
  <2> QED
    BY <1>27, <2>1, StutterStep DEF vars
<1> QED
  BY <1>1, <1>2, <1>3, <1>4, <1>5, <1>6, <1>7, <1>8, <1>9, <1>10, <1>11,
     <1>12, <1>13, <1>14, <1>15, <1>16, <1>17, <1>18, <1>19, <1>20, <1>21,
     <1>22, <1>23, <1>24, <1>25, <1>26, <1>27
     DEF Next, LoopThread, Caller, CancelCallback, WorkerOwnStep, ShutdownThread
----------------------------------------------------------------------------
(* The theorems *)

LEMMA ServiceStart == Init => ServiceInv
<1> SUFFICES ASSUME Init PROVE ServiceInv
  OBVIOUS
<1>1. IInv
  BY InitInvariant
<1>2. OrderInv
  BY DEF Init, QueueInit, OrderInv
<1>3. \A j \in Jobs : FateInv(j)
  BY DEF Init, FateInv
<1>4. StopInv
  BY DEF Init, StopInv
<1> QED
  BY <1>1, <1>2, <1>3, <1>4 DEF ServiceInv

\* The invariant with the order of the buckets, the fate of each job and the
\* duties of a shutdown holds in every reachable state of the executor.
THEOREM ServiceInvariance == Spec => []ServiceInv
<1>1. Init => ServiceInv
  BY ServiceStart
<1>2. ServiceInv /\ [Next]_vars => ServiceInv'
  BY ServiceStep
<1> QED
  BY <1>1, <1>2, PTL DEF Spec

\* Whatever dispatches, failed starts, cancellations and shutdowns do at the
\* same time, an admitted job without an outcome is in the hands of exactly one
\* of them and a job with an outcome in nobody's: none is lost, none ends twice.
THEOREM OwnerSafety == Spec => []ExactlyOneOwner
<1>1. ServiceInv => ExactlyOneOwner
  <2> SUFFICES ASSUME ServiceInv, NEW j \in Jobs, submitted[j] = "admitted"
               PROVE  Cardinality(Owners(j)) = IF outcome[j] = "open" THEN 1 ELSE 0
    BY DEF ExactlyOneOwner
  <2>1. ThreadInv(j) /\ FateInv(j) /\ worker[j] \in Positions
    BY DEF ServiceInv, IInv, ThreadsInv, TypeOK
  <2>2. Pending(j) => worker[j] = "none" /\ canceller[j] # "failing" /\ j \notin toFail
    BY <2>1, PendingUndispatched DEF ServiceInv, IInv, ThreadInv
  <2>3. CASE outcome[j] # "open"
    <3>1. Owners(j) = {}
      BY <2>1, <2>3 DEF Owners, ThreadInv
    <3> QED
      BY <2>3, <3>1, FS_EmptySet
  <2>4. CASE outcome[j] = "open"
    <3>1. CASE Pending(j)
      <4>1. Owners(j) = {"queue"}
        BY <2>2, <3>1 DEF Owners
      <4> QED
        BY <2>4, <4>1, FS_Singleton
    <3>2. CASE worker[j] \notin {"none", "ended"}
      <4>1. Owners(j) = {"dispatch"}
        BY <2>1, <2>2, <3>2 DEF Owners, ThreadInv
      <4> QED
        BY <2>4, <4>1, FS_Singleton
    <3>3. CASE canceller[j] = "failing"
      <4>1. Owners(j) = {"canceller"}
        BY <2>1, <2>2, <3>3 DEF Owners, ThreadInv
      <4> QED
        BY <2>4, <4>1, FS_Singleton
    <3>4. CASE j \in toFail
      <4>1. Owners(j) = {"shutdown"}
        BY <2>1, <2>2, <3>4 DEF Owners, ThreadInv
      <4> QED
        BY <2>4, <4>1, FS_Singleton
    <3> QED
      BY <2>1, <2>4, <3>1, <3>2, <3>3, <3>4 DEF FateInv
  <2> QED
    BY <2>3, <2>4
<1> QED
  BY <1>1, ServiceInvariance, PTL

\* A stream ends as completed only if the runtime completed it, as cancelled
\* only if somebody cancelled it and the runtime did not fail, and as unloading
\* only if the executor was stopped before the job was dispatched.
THEOREM VerdictSafety == Spec => []VerdictTruthful
<1>1. ServiceInv => VerdictTruthful
  BY DEF ServiceInv, FateInv, VerdictTruthful
<1> QED
  BY <1>1, ServiceInvariance, PTL

\* _run_loop returns only from a stopped executor with no job waiting and none
\* in a slot, and no later step gives it one.
THEOREM ReturnSafety == Spec => []ReturnsEmpty
<1>1. ServiceInv => ReturnsEmpty
  <2> SUFFICES ASSUME ServiceInv, loop = "returned"
               PROVE  stopRequested /\ QueuedJobs = {} /\ SlotHolders = {}
    BY DEF ReturnsEmpty
  <2>1. stopRequested /\ pendingCount = 0 /\ runtimeInflight = 0
    BY DEF ServiceInv, StopInv
  <2>2. IsFiniteSet(QueuedJobs) /\ IsFiniteSet(SlotHolders)
    BY FairQueueAssumption, FS_Subset DEF QueuedJobs, SlotHolders
  <2>3. Cardinality(QueuedJobs) = 0 /\ Cardinality(SlotHolders) = 0
    BY <2>1 DEF ServiceInv, IInv, PendingAccounting, SlotAccounting
  <2> QED
    BY <2>1, <2>2, <2>3, FS_EmptySet
<1> QED
  BY <1>1, ServiceInvariance, PTL

\* Only the loop's dispatch takes a job out of the "none" position by popping it.
LEMMA DispatchedByLoop ==
    ASSUME ServiceInv, [Next]_vars, NEW j \in Jobs, Dispatched(j)
    PROVE  LoopDispatch(j)
<1> USE DEF Dispatched, queueVars, slotVars, workerVars, handleVars, shutdownVars
<1>1. worker \in [Jobs -> Positions]
  BY DEF ServiceInv, IInv, TypeOK
<1>2. worker' # worker
  OBVIOUS
<1>3. ASSUME NEW i \in Jobs, LoopDispatch(i)
      PROVE  i = j
  BY <1>1, <1>3 DEF LoopDispatch
<1>4. ASSUME NEW i \in Jobs,
             LoopSpawn(i) \/ LoopUnwind(i) \/ LoopFail(i) \/ WorkerOwnStep(i) \/ WorkerReturn(i)
      PROVE  FALSE
  BY <1>1, <1>4 DEF LoopSpawn, LoopUnwind, LoopFail, WorkerOwnStep, WorkerBegin,
                    WorkerCheckCancelled, WorkerRelease, WorkerReport, WorkerComplete, WorkerReturn
<1>5. ASSUME NEW i \in Jobs, Caller(i) \/ CancelCallback(i)
      PROVE  FALSE
  BY <1>2, <1>5 DEF Caller, CancelCallback, Submit, SubmitRejected, SubmitUnloading, Cancel,
                    CancelRemove, CancelFail
<1>6. ~(LoopStart \/ LoopReturn \/ LoopWait \/ BeginShutdown \/ Snapshot \/ Tick)
  BY <1>2 DEF LoopStart, LoopReturn, LoopWait, BeginShutdown, Snapshot, Tick
<1>7. ~ShutdownThread
  BY <1>2 DEF ShutdownThread, ShutdownReturn, ShutdownFail, ShutdownCancel, ShutdownCancelled
<1>8. vars' # vars
  BY <1>2 DEF vars
<1> QED
  BY <1>3, <1>4, <1>5, <1>6, <1>7, <1>8 DEF Next, LoopThread

\* Requests of one key are dispatched in the order of enqueue_stream, however
\* other keys overtake them and cancellations and expiry disturb the buckets.
THEOREM FifoSafety == Spec => FifoWithinKey
<1> DEFINE InTurn == \A j \in Jobs : Dispatched(j) =>
                        \A i \in QueuedJobs : KeyOf[i] = KeyOf[j] => jobId[j] <= jobId[i]
<1>1. ServiceInv /\ [Next]_vars => [InTurn]_vars
  <2> SUFFICES ASSUME ServiceInv, [Next]_vars, NEW j \in Jobs, Dispatched(j)
               PROVE  \A i \in QueuedJobs : KeyOf[i] = KeyOf[j] => jobId[j] <= jobId[i]
    OBVIOUS
  <2>1. LoopDispatch(j)
    BY DispatchedByLoop
  <2> QED
    BY <2>1, DispatchOrder DEF ServiceInv
<1> QED
  BY <1>1, ServiceInvariance, PTL DEF Spec, FifoWithinKey

\* The executor with its threads, locks, queue and clock is an implementation
\* of the abstract service: admission within the limit, at most Capacity served
\* at a time, one verdict per request, for a reason that is true.
THEOREM Refinement == Spec => ImplementsService
<1>1. Init => Service!ServiceInit
  <2> SUFFICES ASSUME Init PROVE Service!ServiceInit
    OBVIOUS
  <2>1. \A j \in Jobs : Phase(j) = "new" /\ ~cancelled[j]
    BY DEF Init, Phase
  <2> QED
    BY <2>1 DEF Init, Service!ServiceInit
<1>2. ServiceInv /\ [Next]_vars => [Service!ServiceNext]_(Service!serviceVars)
  BY ServiceSimulation
<1> QED
  BY <1>1, <1>2, ServiceInvariance, PTL DEF Spec, ImplementsService, Service!ServiceSpec
=============================================================================
