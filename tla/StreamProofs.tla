---------------------------- MODULE StreamProofs ----------------------------
(***************************************************************************)
(* One streamed synthesis: its buffer is accounted for, nobody who takes   *)
(* part sleeps for nothing, its callbacks run once, its RPC is counted     *)
(* once, and it implements StreamContract, for every size of the buffer    *)
(* and of the chunks.                                                      *)
(***************************************************************************)
EXTENDS StreamProperties, Sums, SequenceTheorems

----------------------------------------------------------------------------
(* The sizes in the buffer *)

\* The sum that BufferAccounting takes over the events of the buffer.
SizeOf(q, S) == MapThenSumSet(LAMBDA i : q[i].size, S)

LEMMA SizeIsTotal ==
    ASSUME NEW q, NEW S, IsFiniteSet(S), \A i \in S : q[i].size \in Int
    PROVE  IsTotal(SizeOf(q, S), [i \in S |-> q[i].size], S)
<1> DEFINE w == [i \in S |-> q[i].size]
           Body(g) == [s \in SUBSET S |-> IF s = {} THEN 0
                                          ELSE q[Pick(s)].size + g[s \ {Pick(s)}]]
           iter == CHOOSE g : g = Body(g)
<1>1. SizeOf(q, S) = iter[S]
  BY DEF SizeOf, MapThenSumSet, MapThenFoldSet, Pick
<1>2. PICK g \in [SUBSET S -> Int] : IsSum(g, w, S)
  BY SumExists
<1>3. \A s \in SUBSET S : s # {} => Pick(s) \in S
  BY DEF Pick
<1>4. g = Body(g)
  BY <1>2, <1>3 DEF IsSum, SumStep
<1>5. iter = Body(iter)
  <2> HIDE DEF Body
  <2> QED
    BY <1>4
<1>6. IsSum(iter, w, S)
  <2> SUFFICES ASSUME NEW s \in SUBSET S PROVE SumStep(iter, w, s)
    BY DEF IsSum
  <2>1. iter[s] = Body(iter)[s]
    BY <1>5
  <2> HIDE DEF iter
  <2> QED
    BY <1>3, <2>1 DEF SumStep
<1>7. \A s \in SUBSET S : iter[s] = g[s]
  <2> HIDE DEF iter, w
  <2> QED
    BY <1>2, <1>6, SumSame
<1> QED
  BY <1>1, <1>2, <1>7 DEF IsTotal

LEMMA SizeOfRest ==
    ASSUME NEW q, NEW S, IsFiniteSet(S), \A i \in S : q[i].size \in Int
    PROVE  /\ SizeOf(q, S) \in Int
           /\ SizeOf(q, {}) = 0
           /\ \A y \in S : SizeOf(q, S) = q[y].size + SizeOf(q, S \ {y})
<1> DEFINE W(T) == [i \in T |-> q[i].size]
<1>1. IsTotal(SizeOf(q, S), W(S), S)
  BY SizeIsTotal
<1>2. ASSUME NEW y \in S
      PROVE  SizeOf(q, S) = q[y].size + SizeOf(q, S \ {y})
  <2> DEFINE T == S \ {y}
  <2>1. IsFiniteSet(T) /\ Agree(W(S), W(T), T)
    BY FS_RemoveElement DEF Agree
  <2>2. IsTotal(SizeOf(q, T), W(T), T)
    BY <2>1, SizeIsTotal
  <2>3. W(S) \in [S -> Int] /\ W(S)[y] = q[y].size
    OBVIOUS
  <2> HIDE DEF W
  <2>4. SizeOf(q, S) = W(S)[y] + SizeOf(q, S \ {y})
    BY <1>1, <2>1, <2>2, <2>3, TotalRest
  <2> QED
    BY <2>3, <2>4
<1>3. SizeOf(q, {}) = 0
  <2>1. IsTotal(SizeOf(q, {}), W({}), {})
    BY FS_EmptySet, SizeIsTotal
  <2> QED
    BY <2>1, TotalEmpty
<1>4. SizeOf(q, S) \in Int
  BY <1>1, TotalType
<1> QED
  BY <1>2, <1>3, <1>4

\* The audio between the first event and the place that follows the last is
\* that of the audio events: for every buffer, by induction over its length.
LEMMA LinkedAudio ==
    ASSUME NEW q \in Seq(Events), q # <<>>, NEW c \in Nat, NEW s \in Nat, Linked(q, c, s)
    PROVE  /\ Cardinality(AudioAt(q)) = c - q[1].chunk
           /\ SizeOf(q, AudioAt(q)) = s - q[1].sample
<1> DEFINE A(n) == {i \in 1 .. n : IsAudio(q[i])}
           C(n) == IF n = Len(q) THEN c ELSE q[n + 1].chunk
           P(n) == IF n = Len(q) THEN s ELSE q[n + 1].sample
           S == {n \in Nat : n <= Len(q) => /\ Cardinality(A(n)) = C(n) - q[1].chunk
                                            /\ SizeOf(q, A(n)) = P(n) - q[1].sample}
<1>1. /\ Len(q) \in Nat \ {0} /\ DOMAIN q = 1 .. Len(q)
      /\ \A i \in 1 .. Len(q) : /\ q[i].size \in Nat /\ q[i].chunk \in Nat
                                /\ q[i].sample \in Nat
  <2>1. Len(q) \in Nat \ {0} /\ DOMAIN q = 1 .. Len(q)
    BY EmptySeq, LenProperties
  <2>2. \A i \in 1 .. Len(q) : q[i] \in Events
    OBVIOUS
  <2> QED
    BY <2>1, <2>2 DEF Events
<1>2. \A n \in Nat : n <= Len(q) => /\ IsFiniteSet(A(n)) /\ Cardinality(A(n)) \in Nat
                                    /\ \A i \in A(n) : q[i].size \in Int
  <2> SUFFICES ASSUME NEW n \in Nat, n <= Len(q)
               PROVE  /\ IsFiniteSet(A(n)) /\ Cardinality(A(n)) \in Nat
                      /\ \A i \in A(n) : q[i].size \in Int
    OBVIOUS
  <2>1. IsFiniteSet(A(n))
    <3>1. A(n) \in SUBSET (1 .. n) /\ IsFiniteSet(1 .. n)
      BY FS_Interval
    <3> HIDE DEF A
    <3> QED
      BY <3>1, FS_Subset
  <2> QED
    BY <1>1, <2>1, FS_CardinalityType
<1>3. 0 \in S
  <2>1. A(0) = {}
    OBVIOUS
  <2>2. Cardinality(A(0)) = 0 /\ SizeOf(q, A(0)) = 0
    BY <1>2, <2>1, FS_EmptySet, SizeOfRest
  <2> QED
    BY <1>1, <2>2
<1>4. ASSUME NEW n \in Nat, n \in S
      PROVE  n + 1 \in S
  <2> SUFFICES ASSUME n + 1 <= Len(q)
               PROVE  /\ Cardinality(A(n + 1)) = C(n + 1) - q[1].chunk
                      /\ SizeOf(q, A(n + 1)) = P(n + 1) - q[1].sample
    OBVIOUS
  <2> DEFINE e == q[n + 1]
  <2>1. /\ e.chunk + (IF IsAudio(e) THEN 1 ELSE 0) = C(n + 1)
        /\ e.sample + e.size = P(n + 1)
        /\ ~IsAudio(e) => e.size = 0
    <3>1. n + 1 \in 1 .. Len(q) /\ (n + 1) + 1 = n + 2
      BY <1>1
    <3> QED
      BY <3>1 DEF Linked
  <2>2. Cardinality(A(n)) = e.chunk - q[1].chunk /\ SizeOf(q, A(n)) = e.sample - q[1].sample
    <3>1. n <= Len(q) /\ n # Len(q)
      <4>1. n \in Nat /\ Len(q) \in Nat
        BY <1>1, <1>4
      <4>2. n + 1 <= Len(q)
        OBVIOUS
      <4> QED
        BY <4>1, <4>2
    <3>2. C(n) = e.chunk /\ P(n) = e.sample
      BY <3>1
    <3>3. Cardinality(A(n)) = C(n) - q[1].chunk /\ SizeOf(q, A(n)) = P(n) - q[1].sample
      <4> HIDE DEF A, C, P
      <4> QED
        BY <1>4, <3>1
    <3> HIDE DEF A, C, P, e
    <3> QED
      BY <3>2, <3>3
  <2>3. CASE IsAudio(e)
    <3>1. A(n + 1) = A(n) \union {n + 1} /\ n + 1 \notin A(n) /\ A(n) = A(n + 1) \ {n + 1}
      BY <2>3
    <3>2. Cardinality(A(n + 1)) = Cardinality(A(n)) + 1
      <4>1. IsFiniteSet(A(n))
        BY <1>2
      <4> HIDE DEF A
      <4> QED
        BY <3>1, <4>1, FS_AddElement
    <3>3. SizeOf(q, A(n + 1)) = e.size + SizeOf(q, A(n))
      <4>2. n + 1 \in A(n + 1) /\ n + 1 \in Nat
        BY <3>1
      <4> HIDE DEF A
      <4>1. IsFiniteSet(A(n + 1)) /\ \A i \in A(n + 1) : q[i].size \in Int
        BY <1>2, <4>2
      <4>3. SizeOf(q, A(n + 1)) = q[n + 1].size + SizeOf(q, A(n + 1) \ {n + 1})
        BY <4>1, <4>2, SizeOfRest
      <4> QED
        BY <3>1, <4>3
    <3> HIDE DEF A, C, P
    <3> QED
      BY <1>1, <2>1, <2>2, <2>3, <3>2, <3>3
  <2>4. CASE ~IsAudio(e)
    <3>1. A(n + 1) = A(n)
      BY <2>4
    <3> HIDE DEF A, C, P
    <3> QED
      BY <1>1, <2>1, <2>2, <2>4, <3>1
  <2> QED
    BY <2>3, <2>4
<1>5. Len(q) \in S
  <2> HIDE DEF S
  <2> QED
    BY <1>1, <1>3, <1>4, SetInduction
<1>6. A(Len(q)) = AudioAt(q)
  BY <1>1 DEF AudioAt
<1>7. C(Len(q)) = c /\ P(Len(q)) = s /\ Len(q) <= Len(q)
  BY <1>1
<1> HIDE DEF A, C, P
<1> QED
  BY <1>5, <1>6, <1>7

----------------------------------------------------------------------------
(* Events without a gap, and the buffer between the threads *)

LEMMA LinkedAppend ==
    ASSUME NEW q \in Seq(Events), NEW c, NEW s, Linked(q, c, s), NEW e \in Events,
           e.chunk = c, e.sample = s, ~IsAudio(e) => e.size = 0
    PROVE  Linked(Append(q, e), c + (IF IsAudio(e) THEN 1 ELSE 0), s + e.size)
<1>1. /\ Len(q) \in Nat /\ Len(Append(q, e)) = Len(q) + 1
      /\ \A i \in 1 .. Len(q) : Append(q, e)[i] = q[i]
      /\ Append(q, e)[Len(q) + 1] = e
  BY LenProperties, AppendProperties
<1> SUFFICES ASSUME NEW i \in 1 .. Len(q) + 1
             PROVE  /\ Append(q, e)[i].chunk + (IF IsAudio(Append(q, e)[i]) THEN 1 ELSE 0)
                          = IF i = Len(q) + 1 THEN c + (IF IsAudio(e) THEN 1 ELSE 0)
                            ELSE Append(q, e)[i + 1].chunk
                    /\ Append(q, e)[i].sample + Append(q, e)[i].size
                          = IF i = Len(q) + 1 THEN s + e.size ELSE Append(q, e)[i + 1].sample
                    /\ ~IsAudio(Append(q, e)[i]) => Append(q, e)[i].size = 0
  BY <1>1 DEF Linked
<1>2. CASE i = Len(q) + 1
  BY <1>1, <1>2
<1>3. CASE i = Len(q)
  <2>1. i \in 1 .. Len(q) /\ i # Len(q) + 1
    BY <1>1, <1>3
  <2> QED
    BY <1>1, <1>3, <2>1 DEF Linked
<1>4. CASE i # Len(q) + 1 /\ i # Len(q)
  <2>1. i \in 1 .. Len(q) /\ i + 1 \in 1 .. Len(q)
    BY <1>1, <1>4
  <2> QED
    BY <1>1, <1>4, <2>1 DEF Linked
<1> QED
  BY <1>2, <1>3, <1>4

LEMMA LinkedTail ==
    ASSUME NEW q \in Seq(Events), q # <<>>, NEW c, NEW s, Linked(q, c, s)
    PROVE  /\ Linked(Tail(q), c, s)
           /\ q[1].chunk + (IF IsAudio(q[1]) THEN 1 ELSE 0)
                 = IF Tail(q) = <<>> THEN c ELSE Tail(q)[1].chunk
           /\ q[1].sample + q[1].size = IF Tail(q) = <<>> THEN s ELSE Tail(q)[1].sample
           /\ ~IsAudio(q[1]) => q[1].size = 0
<1>1. /\ Len(q) \in Nat \ {0} /\ Tail(q) \in Seq(Events) /\ Len(Tail(q)) = Len(q) - 1
      /\ \A i \in 1 .. Len(q) - 1 : Tail(q)[i] = q[i + 1]
  BY EmptySeq, HeadTailProperties
<1>5. Len(q) \in Nat \ {0}
  BY <1>1
<1>6. Len(Tail(q)) = Len(q) - 1
  BY <1>1
<1>2. Linked(Tail(q), c, s)
  <2> SUFFICES ASSUME NEW i \in 1 .. Len(q) - 1
               PROVE  /\ Tail(q)[i].chunk + (IF IsAudio(Tail(q)[i]) THEN 1 ELSE 0)
                            = IF i = Len(q) - 1 THEN c ELSE Tail(q)[i + 1].chunk
                      /\ Tail(q)[i].sample + Tail(q)[i].size
                            = IF i = Len(q) - 1 THEN s ELSE Tail(q)[i + 1].sample
                      /\ ~IsAudio(Tail(q)[i]) => Tail(q)[i].size = 0
    BY <1>6 DEF Linked
  <2>1. i + 1 \in 1 .. Len(q)
    BY <1>1
  <2>2. Tail(q)[i] = q[i + 1]
    BY <1>1
  <2>4. ASSUME i # Len(q) - 1 PROVE Tail(q)[i + 1] = q[(i + 1) + 1]
    <3>1. i + 1 \in 1 .. Len(q) - 1
      BY <1>5, <2>4
    <3> QED
      BY <1>1, <3>1
  <2>3. i = Len(q) - 1 <=> i + 1 = Len(q)
    BY <1>5
  <2>5. /\ q[i + 1].chunk + (IF IsAudio(q[i + 1]) THEN 1 ELSE 0)
               = IF i + 1 = Len(q) THEN c ELSE q[(i + 1) + 1].chunk
        /\ q[i + 1].sample + q[i + 1].size
               = IF i + 1 = Len(q) THEN s ELSE q[(i + 1) + 1].sample
        /\ ~IsAudio(q[i + 1]) => q[i + 1].size = 0
    BY <2>1, Zenon DEF Linked
  <2>6. CASE i = Len(q) - 1
    BY <2>2, <2>3, <2>5, <2>6
  <2>7. CASE i # Len(q) - 1
    BY <2>2, <2>3, <2>4, <2>5, <2>7
  <2> QED
    BY <2>6, <2>7
<1>3. Tail(q) = <<>> <=> Len(q) = 1
  BY <1>1, EmptySeq
<1>4. 1 \in 1 .. Len(q) /\ (Len(q) # 1 => Tail(q)[1] = q[1 + 1])
  BY <1>1
<1> QED
  BY <1>2, <1>3, <1>4 DEF Linked

LEMMA HandleTypeStep == IInv /\ [Next]_vars => HandleTypeOK'
<1> SUFFICES ASSUME IInv, [Next]_vars PROVE HandleTypeOK'
  OBVIOUS
<1> USE DEF bufferVars, handleVars, jobVars, runtimeVars, cancelVars, callbackVars, rpcVars
<1>1. CASE WorkerBegins
  BY <1>1
     DEF WorkerBegins, MarkDispatched, IInv, TypeOK, HandleTypeOK, WorkTypeOK, Errors,
         EventAt, Started, Completed, Events
<1>2. CASE EmitStarted
  <2>1. UNCHANGED <<bufferedChunks, bufferedSamples, dispatched, terminal, cancelled,
                    error>>
    BY <1>2 DEF EmitStarted, Return, StopError, AppendControl, WakeWriter, WakeReader, Stopped
  <2>2. events' \in Seq(Events)
    <3>1. Started \in Events
      BY DEF Events, Started, EventAt
    <3>2. events' = Append(events, Started) \/ events' = events
      BY <1>2 DEF EmitStarted, AppendControl
    <3> QED
      BY <3>1, <3>2, AppendProperties DEF IInv, TypeOK, HandleTypeOK
  <2>3. writerWaits' \in BOOLEAN
    BY <1>2
       DEF EmitStarted, Return, StopError, AppendControl, WakeWriter, WakeReader, Stopped,
           IInv, TypeOK, HandleTypeOK, WorkTypeOK, Errors
  <2>4. waiter' \in {"none", "registered", "posted", "resolved"}
    BY <1>2
       DEF EmitStarted, Return, StopError, AppendControl, WakeWriter, WakeReader, Stopped,
           IInv, TypeOK, HandleTypeOK, WorkTypeOK, Errors
  <2> QED
    BY <2>1, <2>2, <2>3, <2>4 DEF IInv, TypeOK, HandleTypeOK
<1>3. CASE DeadlinePasses
  BY <1>3
     DEF DeadlinePasses, IInv, TypeOK, HandleTypeOK, WorkTypeOK, Errors, EventAt, Started,
         Completed, Events
<1>4. CASE EmitAudioLocked
  <2>1. UNCHANGED <<dispatched, terminal, cancelled, error>>
    BY <1>4
       DEF EmitAudioLocked, Return, StopError, AppendAudio, WaitForRoom, WakeWriter,
           WakeReader, Stopped
  <2>2. events' \in Seq(Events)
    <3>1. events' = Append(events, emitting) \/ events' = events
      BY <1>4 DEF EmitAudioLocked, AppendAudio, WaitForRoom
    <3> QED
      BY <3>1, AppendProperties DEF IInv, TypeOK, HandleTypeOK, WorkTypeOK
  <2>3. bufferedChunks' \in Int
    BY <1>4
       DEF EmitAudioLocked, Return, StopError, AppendAudio, WaitForRoom, WakeWriter,
           WakeReader, Stopped, IInv, TypeOK, HandleTypeOK, WorkTypeOK, Errors
  <2>4. bufferedSamples' \in Int
    <3>1. emitting.size \in Nat
      BY DEF IInv, TypeOK, WorkTypeOK, Events
    <3> QED
      BY <1>4, <3>1 DEF EmitAudioLocked, AppendAudio, WaitForRoom, IInv, TypeOK, HandleTypeOK
  <2>5. writerWaits' \in BOOLEAN
    BY <1>4
       DEF EmitAudioLocked, Return, StopError, AppendAudio, WaitForRoom, WakeWriter,
           WakeReader, Stopped, IInv, TypeOK, HandleTypeOK, WorkTypeOK, Errors
  <2>6. waiter' \in {"none", "registered", "posted", "resolved"}
    BY <1>4
       DEF EmitAudioLocked, Return, StopError, AppendAudio, WaitForRoom, WakeWriter,
           WakeReader, Stopped, IInv, TypeOK, HandleTypeOK, WorkTypeOK, Errors
  <2> QED
    BY <2>1, <2>2, <2>3, <2>4, <2>5, <2>6 DEF IInv, TypeOK, HandleTypeOK
<1>5. CASE Report
  <2>1. UNCHANGED <<bufferedChunks, bufferedSamples, dispatched, cancelled>>
    BY <1>5 DEF Report, FinishByWorker, Finish, WakeWriter, WakeReader
  <2>2. events' \in Seq(Events)
    <3>1. events' = events \o <<>> \/ events' = events
      BY <1>5 DEF Report, FinishByWorker, Finish
    <3> QED
      BY <3>1 DEF IInv, TypeOK, HandleTypeOK
  <2>3. terminal' \in BOOLEAN
    BY <1>5
       DEF Report, FinishByWorker, Finish, WakeWriter, WakeReader, IInv, TypeOK,
           HandleTypeOK, WorkTypeOK, Errors
  <2>4. error' \in Errors \union {"none"}
    BY <1>5 DEF Report, FinishByWorker, Finish, IInv, TypeOK, HandleTypeOK, WorkTypeOK,
           WorkerInv, Errors
  <2>5. writerWaits' \in BOOLEAN
    BY <1>5
       DEF Report, FinishByWorker, Finish, WakeWriter, WakeReader, IInv, TypeOK,
           HandleTypeOK, WorkTypeOK, Errors
  <2>6. waiter' \in {"none", "registered", "posted", "resolved"}
    BY <1>5
       DEF Report, FinishByWorker, Finish, WakeWriter, WakeReader, IInv, TypeOK,
           HandleTypeOK, WorkTypeOK, Errors
  <2> QED
    BY <2>1, <2>2, <2>3, <2>4, <2>5, <2>6 DEF IInv, TypeOK, HandleTypeOK
<1>6. CASE Complete
  <2>1. UNCHANGED <<bufferedChunks, bufferedSamples, dispatched, cancelled>>
    BY <1>6 DEF Complete, FinishByWorker, Finish, WakeWriter, WakeReader
  <2>2. events' \in Seq(Events)
    <3>1. Completed(chunk, sample) \in Events
      BY DEF IInv, TypeOK, WorkTypeOK, Events, Completed, EventAt
    <3>2. events' = events \o <<Completed(chunk, sample)>> \/ events' = events
      BY <1>6 DEF Complete, FinishByWorker, Finish
    <3> QED
      BY <3>1, <3>2, ConcatProperties DEF IInv, TypeOK, HandleTypeOK
  <2>3. terminal' \in BOOLEAN
    BY <1>6
       DEF Complete, FinishByWorker, Finish, WakeWriter, WakeReader, IInv, TypeOK,
           HandleTypeOK, WorkTypeOK, Errors
  <2>4. error' \in Errors \union {"none"}
    BY <1>6
       DEF Complete, FinishByWorker, Finish, WakeWriter, WakeReader, IInv, TypeOK,
           HandleTypeOK, WorkTypeOK, Errors
  <2>5. writerWaits' \in BOOLEAN
    BY <1>6
       DEF Complete, FinishByWorker, Finish, WakeWriter, WakeReader, IInv, TypeOK,
           HandleTypeOK, WorkTypeOK, Errors
  <2>6. waiter' \in {"none", "registered", "posted", "resolved"}
    BY <1>6
       DEF Complete, FinishByWorker, Finish, WakeWriter, WakeReader, IInv, TypeOK,
           HandleTypeOK, WorkTypeOK, Errors
  <2> QED
    BY <2>1, <2>2, <2>3, <2>4, <2>5, <2>6 DEF IInv, TypeOK, HandleTypeOK
<1>7. CASE UnloadCancelsHandle
  <2>1. UNCHANGED <<events, bufferedChunks, bufferedSamples, dispatched, terminal, error>>
    BY <1>7
       DEF UnloadCancelsHandle, CancelHandle, SetCancelled, WakeWriter, WakeReader, Stopped
  <2>2. cancelled' \in BOOLEAN
    BY <1>7
       DEF UnloadCancelsHandle, CancelHandle, SetCancelled, WakeWriter, WakeReader, Stopped,
           IInv, TypeOK, HandleTypeOK, WorkTypeOK, Errors
  <2>3. writerWaits' \in BOOLEAN
    BY <1>7
       DEF UnloadCancelsHandle, CancelHandle, SetCancelled, WakeWriter, WakeReader, Stopped,
           IInv, TypeOK, HandleTypeOK, WorkTypeOK, Errors
  <2>4. waiter' \in {"none", "registered", "posted", "resolved"}
    BY <1>7
       DEF UnloadCancelsHandle, CancelHandle, SetCancelled, WakeWriter, WakeReader, Stopped,
           IInv, TypeOK, HandleTypeOK, WorkTypeOK, Errors
  <2> QED
    BY <2>1, <2>2, <2>3, <2>4 DEF IInv, TypeOK, HandleTypeOK
<1>8. CASE CancelFails
  <2>1. UNCHANGED <<bufferedChunks, bufferedSamples, dispatched, cancelled>>
    BY <1>8 DEF CancelFails, Finish, WakeWriter, WakeReader
  <2>2. events' \in Seq(Events)
    <3>1. events' = events \o <<>> \/ events' = events
      BY <1>8 DEF CancelFails, Finish
    <3> QED
      BY <3>1 DEF IInv, TypeOK, HandleTypeOK
  <2>3. terminal' \in BOOLEAN
    BY <1>8
       DEF CancelFails, Finish, WakeWriter, WakeReader, IInv, TypeOK, HandleTypeOK,
           WorkTypeOK, Errors
  <2>4. error' \in Errors \union {"none"}
    BY <1>8
       DEF CancelFails, Finish, WakeWriter, WakeReader, IInv, TypeOK, HandleTypeOK,
           WorkTypeOK, Errors
  <2>5. writerWaits' \in BOOLEAN
    BY <1>8
       DEF CancelFails, Finish, WakeWriter, WakeReader, IInv, TypeOK, HandleTypeOK,
           WorkTypeOK, Errors
  <2>6. waiter' \in {"none", "registered", "posted", "resolved"}
    BY <1>8
       DEF CancelFails, Finish, WakeWriter, WakeReader, IInv, TypeOK, HandleTypeOK,
           WorkTypeOK, Errors
  <2> QED
    BY <2>1, <2>2, <2>3, <2>4, <2>5, <2>6 DEF IInv, TypeOK, HandleTypeOK
<1>9. CASE Read
  <2>1. UNCHANGED <<dispatched, terminal, cancelled, error>>
    BY <1>9 DEF Read, RegisterWaiter, PopEvent, WakeWriter, ReadError
  <2>2. events' \in Seq(Events)
    <3>1. events' = events \/ (events # <<>> /\ events' = Tail(events))
      BY <1>9 DEF Read, RegisterWaiter, PopEvent
    <3> QED
      BY <3>1, HeadTailProperties DEF IInv, TypeOK, HandleTypeOK
  <2>3. bufferedChunks' \in Int
    BY <1>9
       DEF Read, RegisterWaiter, PopEvent, WakeWriter, ReadError, IInv, TypeOK,
           HandleTypeOK, WorkTypeOK, Errors
  <2>4. bufferedSamples' \in Int
    <3>1. events # <<>> => Head(events) \in Events
      BY HeadTailProperties DEF IInv, TypeOK, HandleTypeOK
    <3>2. events # <<>> => Head(events).size \in Nat
      BY <3>1 DEF Events
    <3> QED
      BY <1>9, <3>2 DEF Read, RegisterWaiter, PopEvent, IInv, TypeOK, HandleTypeOK
  <2>5. writerWaits' \in BOOLEAN
    BY <1>9
       DEF Read, RegisterWaiter, PopEvent, WakeWriter, ReadError, IInv, TypeOK,
           HandleTypeOK, WorkTypeOK, Errors
  <2>6. waiter' \in {"none", "registered", "posted", "resolved"}
    BY <1>9
       DEF Read, RegisterWaiter, PopEvent, WakeWriter, ReadError, IInv, TypeOK,
           HandleTypeOK, WorkTypeOK, Errors
  <2> QED
    BY <2>1, <2>2, <2>3, <2>4, <2>5, <2>6 DEF IInv, TypeOK, HandleTypeOK
<1>10. CASE Resolve
  BY <1>10
     DEF Resolve, ResolveWaiter, IInv, TypeOK, HandleTypeOK, WorkTypeOK, Errors, EventAt,
         Started, Completed, Events
<1>11. CASE Resume
  BY <1>11
     DEF Resume, DiscardWaiter, IInv, TypeOK, HandleTypeOK, WorkTypeOK, Errors, EventAt,
         Started, Completed, Events
<1>12. CASE TaskCancelled
  BY <1>12
     DEF TaskCancelled, DiscardWaiter, IInv, TypeOK, HandleTypeOK, WorkTypeOK, Errors,
         EventAt, Started, Completed, Events
<1>13. CASE HandlerCancels
  BY <1>13
     DEF HandlerCancels, CancelHandle, SetCancelled, WakeWriter, WakeReader, Stopped, IInv,
         TypeOK, HandleTypeOK, WorkTypeOK, Errors, EventAt, Started, Completed, Events
<1>14. CASE DoneCallback
  BY <1>14
     DEF DoneCallback, CancelHandle, SetCancelled, WakeWriter, WakeReader, Stopped, IInv,
         TypeOK, HandleTypeOK, WorkTypeOK, Errors, EventAt, Started, Completed, Events
<1>15. CASE UNCHANGED <<events, bufferedChunks, bufferedSamples, dispatched, terminal,
                      cancelled, error, writerWaits, waiter>>
  BY <1>15
     DEF IInv, TypeOK, HandleTypeOK, WorkTypeOK, Errors, EventAt, Started, Completed, Events
<1>16. ASSUME Take \/ StartFails \/ WorkerChecks \/ EmitAudio \/ RuntimeReturns \/ Release
             \/ WorkerEnds \/ Unload \/ CancelRemoves \/ CancelEnds \/ Call \/ CallRefused
             \/ WriteCancelled \/ Written \/ HandlerCounts \/ HandlerLogs \/ ClientLeaves \/
             (\E d \in TerminalCallbacks : RunCallback(d)) \/ UNCHANGED vars
      PROVE  HandleTypeOK'
  <2>1. UNCHANGED <<events, bufferedChunks, bufferedSamples, dispatched, terminal,
                    cancelled, error, writerWaits, waiter>>
    BY <1>16
       DEF Take, StartFails, WorkerChecks, EmitAudio, RuntimeReturns, Release, WorkerEnds,
           Unload, CancelRemoves, CancelEnds, Call, CallRefused, WriteCancelled, Written,
           HandlerCounts, HandlerLogs, ClientLeaves, RunCallback, vars, Return, Audio,
           EventAt, AddTerminalCallback, Count, IsCancellation
  <2> QED
    BY <1>15, <2>1
<1> QED
  BY <1>1, <1>2, <1>3, <1>4, <1>5, <1>6, <1>7, <1>8, <1>9, <1>10, <1>11, <1>12, <1>13,
     <1>14, <1>15, <1>16
     DEF Next, Runtime, Threads, Cancellation, EventLoop

LEMMA WorkTypeStep == IInv /\ [Next]_vars => WorkTypeOK'
<1> SUFFICES ASSUME IInv, [Next]_vars PROVE WorkTypeOK'
  OBVIOUS
<1> USE DEF bufferVars, handleVars, jobVars, runtimeVars, cancelVars, callbackVars, rpcVars
<1> USE HandleAssumption, StreamAssumption DEF HandleAssumption, StreamAssumption
<1>1. CASE Take
  BY <1>1 DEF Take, IInv, TypeOK, WorkTypeOK, HandleTypeOK, Errors, Events
<1>2. CASE StartFails
  BY <1>2 DEF StartFails, IInv, TypeOK, WorkTypeOK, HandleTypeOK, Errors, Events
<1>3. CASE WorkerBegins
  BY <1>3
     DEF WorkerBegins, MarkDispatched, IInv, TypeOK, WorkTypeOK, HandleTypeOK, Errors,
         Events
<1>4. CASE WorkerChecks
  BY <1>4 DEF WorkerChecks, IInv, TypeOK, WorkTypeOK, HandleTypeOK, Errors, Events
<1>5. CASE EmitStarted
  <2>1. UNCHANGED <<job, unloading, unloadCancels, emitting, late, chunk, sample, canceller,
                    byLoop>>
    BY <1>5 DEF EmitStarted, Return, StopError, AppendControl, WakeWriter, WakeReader, Stopped
  <2>2. worker' \in {"none", "taken", "begun", "running", "emitting", "returned", "released",
                    "completing", "notifying", "ended"}
    BY <1>5
       DEF EmitStarted, Return, StopError, AppendControl, WakeWriter, WakeReader, Stopped,
           IInv, TypeOK, WorkTypeOK, HandleTypeOK, Errors
  <2>3. started' \in BOOLEAN
    BY <1>5
       DEF EmitStarted, Return, StopError, AppendControl, WakeWriter, WakeReader, Stopped,
           IInv, TypeOK, WorkTypeOK, HandleTypeOK, Errors
  <2>4. result' \in Errors \union {"none", "ok"}
    BY <1>5
       DEF EmitStarted, Return, StopError, AppendControl, WakeWriter, WakeReader, Stopped,
           IInv, TypeOK, WorkTypeOK, HandleTypeOK, Errors
  <2> QED
    BY <2>1, <2>2, <2>3, <2>4 DEF IInv, TypeOK, WorkTypeOK
<1>6. CASE EmitAudio
  <2>1. UNCHANGED <<job, unloading, unloadCancels, started, chunk, sample, canceller,
                    byLoop>>
    BY <1>6 DEF EmitAudio, Return, Audio, EventAt
  <2>2. worker' \in {"none", "taken", "begun", "running", "emitting", "returned", "released",
                    "completing", "notifying", "ended"}
    BY <1>6 DEF EmitAudio, Return, Audio, EventAt, IInv, TypeOK, WorkTypeOK, Errors
  <2>3. emitting' \in Events
    <3>1. ASSUME NEW size \in Sizes
          PROVE  Audio(chunk, sample, size) \in Events
      BY DEF Audio, EventAt, IInv, TypeOK, WorkTypeOK, Events
    <3> QED
      BY <1>6, <3>1 DEF EmitAudio, Return, IInv, TypeOK, WorkTypeOK
  <2>4. late' \in BOOLEAN
    BY <1>6 DEF EmitAudio, Return, Audio, EventAt, IInv, TypeOK, WorkTypeOK, Errors
  <2>5. result' \in Errors \union {"none", "ok"}
    BY <1>6 DEF EmitAudio, Return, Audio, EventAt, IInv, TypeOK, WorkTypeOK, Errors
  <2> QED
    BY <2>1, <2>2, <2>3, <2>4, <2>5 DEF IInv, TypeOK, WorkTypeOK
<1>7. CASE DeadlinePasses
  BY <1>7 DEF DeadlinePasses, IInv, TypeOK, WorkTypeOK, HandleTypeOK, Errors, Events
<1>8. CASE EmitAudioLocked
  <2>1. UNCHANGED <<job, unloading, unloadCancels, emitting, late, started, canceller,
                    byLoop>>
    BY <1>8
       DEF EmitAudioLocked, Return, StopError, AppendAudio, WaitForRoom, WakeWriter,
           WakeReader, Stopped
  <2>2. worker' \in {"none", "taken", "begun", "running", "emitting", "returned", "released",
                    "completing", "notifying", "ended"}
    BY <1>8
       DEF EmitAudioLocked, Return, StopError, AppendAudio, WaitForRoom, WakeWriter,
           WakeReader, Stopped, IInv, TypeOK, WorkTypeOK, HandleTypeOK, Errors
  <2>3. chunk' \in Nat
    BY <1>8
       DEF EmitAudioLocked, Return, StopError, AppendAudio, WaitForRoom, WakeWriter,
           WakeReader, Stopped, IInv, TypeOK, WorkTypeOK, HandleTypeOK, Errors
  <2>4. sample' \in Nat
    <3>1. emitting.size \in Nat
      BY DEF IInv, TypeOK, WorkTypeOK, Events
    <3> QED
      BY <1>8, <3>1 DEF EmitAudioLocked, Return, IInv, TypeOK, WorkTypeOK
  <2>5. result' \in Errors \union {"none", "ok"}
    BY <1>8
       DEF EmitAudioLocked, Return, StopError, AppendAudio, WaitForRoom, WakeWriter,
           WakeReader, Stopped, IInv, TypeOK, WorkTypeOK, HandleTypeOK, Errors
  <2> QED
    BY <2>1, <2>2, <2>3, <2>4, <2>5 DEF IInv, TypeOK, WorkTypeOK
<1>9. CASE RuntimeReturns
  BY <1>9 DEF RuntimeReturns, Return, IInv, TypeOK, WorkTypeOK, HandleTypeOK, Errors, Events
<1>10. CASE Release
  BY <1>10 DEF Release, IInv, TypeOK, WorkTypeOK, HandleTypeOK, Errors, Events
<1>11. CASE Report
  BY <1>11
     DEF Report, FinishByWorker, Finish, WakeWriter, WakeReader, IInv, TypeOK, WorkTypeOK,
         HandleTypeOK, Errors, Events
<1>12. CASE Complete
  BY <1>12
     DEF Complete, FinishByWorker, Finish, WakeWriter, WakeReader, IInv, TypeOK, WorkTypeOK,
         HandleTypeOK, Errors, Events
<1>13. CASE WorkerEnds
  BY <1>13 DEF WorkerEnds, IInv, TypeOK, WorkTypeOK, HandleTypeOK, Errors, Events
<1>14. CASE Unload
  BY <1>14 DEF Unload, IInv, TypeOK, WorkTypeOK, HandleTypeOK, Errors, Events
<1>15. CASE UnloadCancelsHandle
  <2>1. UNCHANGED <<job, unloading, worker, emitting, late, started, chunk, sample, result>>
    BY <1>15
       DEF UnloadCancelsHandle, CancelHandle, SetCancelled, WakeWriter, WakeReader, Stopped
  <2>2. unloadCancels' \in BOOLEAN
    BY <1>15
       DEF UnloadCancelsHandle, CancelHandle, SetCancelled, WakeWriter, WakeReader, Stopped,
           IInv, TypeOK, WorkTypeOK, HandleTypeOK, Errors
  <2>3. canceller' \in {"none", "callback", "failing", "notifying", "done"}
    BY <1>15
       DEF UnloadCancelsHandle, CancelHandle, SetCancelled, WakeWriter, WakeReader, Stopped,
           IInv, TypeOK, WorkTypeOK, HandleTypeOK, Errors
  <2>4. byLoop' \in BOOLEAN
    BY <1>15
       DEF UnloadCancelsHandle, CancelHandle, SetCancelled, WakeWriter, WakeReader, Stopped,
           IInv, TypeOK, WorkTypeOK, HandleTypeOK, Errors
  <2> QED
    BY <2>1, <2>2, <2>3, <2>4 DEF IInv, TypeOK, WorkTypeOK
<1>16. CASE CancelRemoves
  BY <1>16 DEF CancelRemoves, IInv, TypeOK, WorkTypeOK, HandleTypeOK, Errors, Events
<1>17. CASE CancelFails
  BY <1>17
     DEF CancelFails, Finish, WakeWriter, WakeReader, IInv, TypeOK, WorkTypeOK,
         HandleTypeOK, Errors, Events
<1>18. CASE CancelEnds
  BY <1>18 DEF CancelEnds, IInv, TypeOK, WorkTypeOK, HandleTypeOK, Errors, Events
<1>19. CASE Call
  BY <1>19
     DEF Call, AddTerminalCallback, Count, IInv, TypeOK, WorkTypeOK, HandleTypeOK, Errors,
         Events
<1>20. CASE HandlerCancels
  <2>1. UNCHANGED <<job, unloading, unloadCancels, worker, emitting, late, started, chunk,
                    sample, result>>
    BY <1>20 DEF HandlerCancels, CancelHandle, SetCancelled, WakeWriter, WakeReader, Stopped
  <2>2. canceller' \in {"none", "callback", "failing", "notifying", "done"}
    BY <1>20
       DEF HandlerCancels, CancelHandle, SetCancelled, WakeWriter, WakeReader, Stopped,
           IInv, TypeOK, WorkTypeOK, HandleTypeOK, Errors
  <2>3. byLoop' \in BOOLEAN
    BY <1>20
       DEF HandlerCancels, CancelHandle, SetCancelled, WakeWriter, WakeReader, Stopped,
           IInv, TypeOK, WorkTypeOK, HandleTypeOK, Errors
  <2> QED
    BY <2>1, <2>2, <2>3 DEF IInv, TypeOK, WorkTypeOK
<1>21. CASE DoneCallback
  <2>1. UNCHANGED <<job, unloading, unloadCancels, worker, emitting, late, started, chunk,
                    sample, result>>
    BY <1>21 DEF DoneCallback, CancelHandle, SetCancelled, WakeWriter, WakeReader, Stopped
  <2>2. canceller' \in {"none", "callback", "failing", "notifying", "done"}
    BY <1>21
       DEF DoneCallback, CancelHandle, SetCancelled, WakeWriter, WakeReader, Stopped, IInv,
           TypeOK, WorkTypeOK, HandleTypeOK, Errors
  <2>3. byLoop' \in BOOLEAN
    BY <1>21
       DEF DoneCallback, CancelHandle, SetCancelled, WakeWriter, WakeReader, Stopped, IInv,
           TypeOK, WorkTypeOK, HandleTypeOK, Errors
  <2> QED
    BY <2>1, <2>2, <2>3 DEF IInv, TypeOK, WorkTypeOK
<1>22. CASE UNCHANGED <<job, unloading, unloadCancels, worker, emitting, late, started,
                      chunk, sample, result, canceller, byLoop>>
  BY <1>22 DEF IInv, TypeOK, WorkTypeOK, HandleTypeOK, Errors, Events
<1>23. ASSUME CallRefused \/ Read \/ Resolve \/ Resume \/ TaskCancelled \/ WriteCancelled \/
             Written \/ HandlerCounts \/ HandlerLogs \/ ClientLeaves \/ (\E d \in
             TerminalCallbacks : RunCallback(d)) \/ UNCHANGED vars
      PROVE  WorkTypeOK'
  <2>1. UNCHANGED <<job, unloading, unloadCancels, worker, emitting, late, started, chunk,
                    sample, result, canceller, byLoop>>
    BY <1>23
       DEF CallRefused, Read, Resolve, Resume, TaskCancelled, WriteCancelled, Written,
           HandlerCounts, HandlerLogs, ClientLeaves, RunCallback, vars, Count,
           RegisterWaiter, PopEvent, WakeWriter, ReadError, ResolveWaiter, DiscardWaiter,
           IsCancellation, AddTerminalCallback
  <2> QED
    BY <1>22, <2>1
<1> QED
  BY <1>1, <1>2, <1>3, <1>4, <1>5, <1>6, <1>7, <1>8, <1>9, <1>10, <1>11, <1>12, <1>13,
     <1>14, <1>15, <1>16, <1>17, <1>18, <1>19, <1>20, <1>21, <1>22, <1>23
     DEF Next, Runtime, Threads, Cancellation, EventLoop

LEMMA HandlerTypeStep == IInv /\ [Next]_vars => HandlerTypeOK'
<1> SUFFICES ASSUME IInv, [Next]_vars PROVE HandlerTypeOK'
  OBVIOUS
<1> USE DEF bufferVars, handleVars, jobVars, runtimeVars, cancelVars, callbackVars, rpcVars
<1>1. CASE Report
  <2>1. \/ UNCHANGED <<callbacks, toRun, ran>>
        \/ callbacks' = {} /\ toRun' = callbacks /\ UNCHANGED ran
    BY <1>1 DEF Report, FinishByWorker, Finish
  <2>2. UNCHANGED rpcVars
    BY <1>1 DEF Report
  <2>3. callbacks' \subseteq callbacks /\ toRun' \in {toRun, callbacks} /\ ran' = ran
    BY <2>1
  <2> QED
    BY <2>2, <2>3 DEF IInv, TypeOK, HandlerTypeOK
<1>2. CASE Complete
  BY <1>2
     DEF Complete, FinishByWorker, Finish, WakeWriter, WakeReader, IInv, TypeOK,
         HandleTypeOK, HandlerTypeOK, Errors, TerminalCallbacks
<1>3. CASE CancelFails
  BY <1>3
     DEF CancelFails, Finish, WakeWriter, WakeReader, IInv, TypeOK, HandleTypeOK,
         HandlerTypeOK, Errors, TerminalCallbacks
<1>4. CASE Call
  BY <1>4
     DEF Call, AddTerminalCallback, Count, IInv, TypeOK, HandleTypeOK, HandlerTypeOK,
         Errors, TerminalCallbacks
<1>5. CASE CallRefused
  <2>1. UNCHANGED <<received, writing, doneCallback, callbacks, toRun, ran>>
    BY <1>5 DEF CallRefused, Count
  <2>2. handler' \in {"calling", "reading", "awaiting", "writing", "classifying",
                     "cancelling", "logging", "ended", "dropped"}
    BY <1>5
       DEF CallRefused, Count, IInv, TypeOK, HandleTypeOK, HandlerTypeOK, Errors,
           TerminalCallbacks
  <2>3. caught' \in Errors \union {"none", "refused", "CancelledError"}
    BY <1>5
       DEF CallRefused, Count, IInv, TypeOK, HandleTypeOK, HandlerTypeOK, Errors,
           TerminalCallbacks
  <2>4. rpc' \in {"open", "left", "done"}
    BY <1>5
       DEF CallRefused, Count, IInv, TypeOK, HandleTypeOK, HandlerTypeOK, Errors,
           TerminalCallbacks
  <2>5. counters' \in [CounterNames -> Nat]
    <3>1. \A n \in CounterNames : counters[n] \in Nat
      BY DEF IInv, TypeOK, HandlerTypeOK
    <3> QED
      BY <1>5, <3>1 DEF CallRefused, Count, IInv, TypeOK, HandlerTypeOK
  <2> QED
    BY <2>1, <2>2, <2>3, <2>4, <2>5 DEF IInv, TypeOK, HandlerTypeOK
<1>6. CASE Read
  <2>1. UNCHANGED <<received, rpc, doneCallback, counters, callbacks, toRun, ran>>
    BY <1>6 DEF Read, RegisterWaiter, PopEvent, WakeWriter, ReadError
  <2>2. handler' \in {"calling", "reading", "awaiting", "writing", "classifying",
                     "cancelling", "logging", "ended", "dropped"}
    BY <1>6
       DEF Read, RegisterWaiter, PopEvent, WakeWriter, ReadError, IInv, TypeOK,
           HandleTypeOK, HandlerTypeOK, Errors, TerminalCallbacks
  <2>3. caught' \in Errors \union {"none", "refused", "CancelledError"}
    BY <1>6
       DEF Read, RegisterWaiter, PopEvent, WakeWriter, ReadError, IInv, TypeOK,
           HandleTypeOK, HandlerTypeOK, Errors, TerminalCallbacks
  <2>4. writing' \in Seq(Events) /\ Len(writing') <= 1
    <3>1. writing' = writing \/ (events # <<>> /\ writing' = <<Head(events)>>)
      BY <1>6 DEF Read, PopEvent
    <3>2. events # <<>> => <<Head(events)>> \in Seq(Events) /\ Len(<<Head(events)>>) = 1
      BY HeadTailProperties DEF IInv, TypeOK, HandleTypeOK
    <3>3. CASE writing' = writing
      BY <3>3 DEF IInv, TypeOK, HandlerTypeOK
    <3>4. CASE events # <<>> /\ writing' = <<Head(events)>>
      <4>1. <<Head(events)>> \in Seq(Events) /\ Len(<<Head(events)>>) <= 1
        BY <3>2, <3>4
      <4> QED
        BY <3>4, <4>1, Zenon
    <3> QED
      BY <3>1, <3>3, <3>4, Zenon
  <2> QED
    BY <2>1, <2>2, <2>3, <2>4 DEF IInv, TypeOK, HandlerTypeOK
<1>7. CASE Resume
  BY <1>7
     DEF Resume, DiscardWaiter, IInv, TypeOK, HandleTypeOK, HandlerTypeOK, Errors,
         TerminalCallbacks
<1>8. CASE TaskCancelled
  BY <1>8
     DEF TaskCancelled, DiscardWaiter, IInv, TypeOK, HandleTypeOK, HandlerTypeOK, Errors,
         TerminalCallbacks
<1>9. CASE WriteCancelled
  <2>1. UNCHANGED <<received, writing, rpc, doneCallback, counters, callbacks, toRun, ran>>
    BY <1>9 DEF WriteCancelled
  <2>2. handler' \in {"calling", "reading", "awaiting", "writing", "classifying",
                     "cancelling", "logging", "ended", "dropped"}
    BY <1>9
       DEF WriteCancelled, IInv, TypeOK, HandleTypeOK, HandlerTypeOK, Errors,
           TerminalCallbacks
  <2>3. caught' \in Errors \union {"none", "refused", "CancelledError"}
    BY <1>9
       DEF WriteCancelled, IInv, TypeOK, HandleTypeOK, HandlerTypeOK, Errors,
           TerminalCallbacks
  <2> QED
    BY <2>1, <2>2, <2>3 DEF IInv, TypeOK, HandlerTypeOK
<1>10. CASE Written
  <2>1. UNCHANGED <<caught, doneCallback, callbacks, toRun, ran>>
    BY <1>10 DEF Written, Count
  <2>2. handler' \in {"calling", "reading", "awaiting", "writing", "classifying",
                     "cancelling", "logging", "ended", "dropped"}
    BY <1>10
       DEF Written, Count, IInv, TypeOK, HandleTypeOK, HandlerTypeOK, Errors,
           TerminalCallbacks
  <2>3. received' \in Seq(Events)
    BY <1>10, ConcatProperties DEF Written, IInv, TypeOK, HandlerTypeOK
  <2>4. writing' \in Seq(Events) /\ Len(writing') <= 1
    BY <1>10
       DEF Written, Count, IInv, TypeOK, HandleTypeOK, HandlerTypeOK, Errors,
           TerminalCallbacks
  <2>5. rpc' \in {"open", "left", "done"}
    BY <1>10
       DEF Written, Count, IInv, TypeOK, HandleTypeOK, HandlerTypeOK, Errors,
           TerminalCallbacks
  <2>6. counters' \in [CounterNames -> Nat]
    <3>1. \A n \in CounterNames : counters[n] \in Nat /\ counters[n] + 1 \in Nat
      BY DEF IInv, TypeOK, HandlerTypeOK
    <3>2. UNCHANGED counters \/ Count({"status_ok"})
      BY <1>10 DEF Written
    <3> QED
      BY <3>1, <3>2 DEF Count, IInv, TypeOK, HandlerTypeOK
  <2> QED
    BY <2>1, <2>2, <2>3, <2>4, <2>5, <2>6 DEF IInv, TypeOK, HandlerTypeOK
<1>11. CASE HandlerCancels
  BY <1>11
     DEF HandlerCancels, CancelHandle, SetCancelled, WakeWriter, WakeReader, Stopped, IInv,
         TypeOK, HandleTypeOK, HandlerTypeOK, Errors, TerminalCallbacks
<1>12. CASE HandlerCounts
  <2>1. UNCHANGED <<caught, received, writing, doneCallback, callbacks, toRun, ran>>
    BY <1>12 DEF HandlerCounts, Count, IsCancellation
  <2>2. handler' \in {"calling", "reading", "awaiting", "writing", "classifying",
                     "cancelling", "logging", "ended", "dropped"}
    BY <1>12
       DEF HandlerCounts, Count, IsCancellation, IInv, TypeOK, HandleTypeOK, HandlerTypeOK,
           Errors, TerminalCallbacks
  <2>3. rpc' \in {"open", "left", "done"}
    BY <1>12
       DEF HandlerCounts, Count, IsCancellation, IInv, TypeOK, HandleTypeOK, HandlerTypeOK,
           Errors, TerminalCallbacks
  <2>4. counters' \in [CounterNames -> Nat]
    <3>1. \A n \in CounterNames : counters[n] \in Nat
      BY DEF IInv, TypeOK, HandlerTypeOK
    <3> QED
      BY <1>12, <3>1 DEF HandlerCounts, Count, IInv, TypeOK, HandlerTypeOK
  <2> QED
    BY <2>1, <2>2, <2>3, <2>4 DEF IInv, TypeOK, HandlerTypeOK
<1>13. CASE HandlerLogs
  <2>1. UNCHANGED <<caught, received, writing, doneCallback, counters, toRun>>
    BY <1>13 DEF HandlerLogs, AddTerminalCallback
  <2>2. handler' \in {"calling", "reading", "awaiting", "writing", "classifying",
                     "cancelling", "logging", "ended", "dropped"}
    BY <1>13
       DEF HandlerLogs, AddTerminalCallback, IInv, TypeOK, HandleTypeOK, HandlerTypeOK,
           Errors, TerminalCallbacks
  <2>3. rpc' \in {"open", "left", "done"}
    BY <1>13
       DEF HandlerLogs, AddTerminalCallback, IInv, TypeOK, HandleTypeOK, HandlerTypeOK,
           Errors, TerminalCallbacks
  <2>4. callbacks' \subseteq TerminalCallbacks
    BY <1>13
       DEF HandlerLogs, AddTerminalCallback, IInv, TypeOK, HandleTypeOK, HandlerTypeOK,
           Errors, TerminalCallbacks
  <2>5. ran' \in [TerminalCallbacks -> Nat]
    BY <1>13
       DEF HandlerLogs, AddTerminalCallback, IInv, TypeOK, HandleTypeOK, HandlerTypeOK,
           Errors, TerminalCallbacks
  <2> QED
    BY <2>1, <2>2, <2>3, <2>4, <2>5 DEF IInv, TypeOK, HandlerTypeOK
<1>14. CASE DoneCallback
  BY <1>14
     DEF DoneCallback, CancelHandle, SetCancelled, WakeWriter, WakeReader, Stopped, IInv,
         TypeOK, HandleTypeOK, HandlerTypeOK, Errors, TerminalCallbacks
<1>15. CASE ClientLeaves
  BY <1>15
     DEF ClientLeaves, IInv, TypeOK, HandleTypeOK, HandlerTypeOK, Errors, TerminalCallbacks
<1>16. ASSUME NEW d \in TerminalCallbacks, RunCallback(d)
      PROVE  HandlerTypeOK'
  BY <1>16
     DEF RunCallback, IInv, TypeOK, HandleTypeOK, HandlerTypeOK, Errors, TerminalCallbacks
<1>17. CASE UNCHANGED <<handler, caught, received, writing, rpc, doneCallback, counters,
                      callbacks, toRun, ran>>
  BY <1>17 DEF IInv, TypeOK, HandleTypeOK, HandlerTypeOK, Errors, TerminalCallbacks
<1>18. ASSUME Take \/ StartFails \/ WorkerBegins \/ WorkerChecks \/ EmitStarted \/ EmitAudio
             \/ DeadlinePasses \/ EmitAudioLocked \/ RuntimeReturns \/ Release \/ WorkerEnds
             \/ Unload \/ UnloadCancelsHandle \/ CancelRemoves \/ CancelEnds \/ Resolve \/
             UNCHANGED vars
      PROVE  HandlerTypeOK'
  <2>1. UNCHANGED <<handler, caught, received, writing, rpc, doneCallback, counters,
                    callbacks, toRun, ran>>
    BY <1>18
       DEF Take, StartFails, WorkerBegins, WorkerChecks, EmitStarted, EmitAudio,
           DeadlinePasses, EmitAudioLocked, RuntimeReturns, Release, WorkerEnds, Unload,
           UnloadCancelsHandle, CancelRemoves, CancelEnds, Resolve, vars, MarkDispatched,
           Return, StopError, AppendControl, WakeWriter, WakeReader, Stopped, Audio,
           EventAt, AppendAudio, WaitForRoom, CancelHandle, SetCancelled, ResolveWaiter
  <2> QED
    BY <1>17, <2>1
<1> QED
  BY <1>1, <1>2, <1>3, <1>4, <1>5, <1>6, <1>7, <1>8, <1>9, <1>10, <1>11, <1>12, <1>13,
     <1>14, <1>15, <1>16, <1>17, <1>18
     DEF Next, Runtime, Threads, Cancellation, EventLoop


LEMMA Shift == \A a, b, d \in Nat : (a - b) + d = (a + d) - b
  OBVIOUS

LEMMA Shorten == \A a, b, d \in Nat : (a - b) - d = a - (b + d)
  OBVIOUS

\* What the counters of the buffer are after an event is appended.
LEMMA AppendBuffer ==
    ASSUME IInv, NEW e \in Events,
           events' = Append(events, e) \/ events' = events \o <<e>>,
           e.chunk = chunk, e.sample = sample, ~IsAudio(e) => e.size = 0,
           chunk' = chunk + (IF IsAudio(e) THEN 1 ELSE 0), sample' = sample + e.size,
           bufferedChunks' = bufferedChunks + (IF IsAudio(e) THEN 1 ELSE 0),
           bufferedSamples' = bufferedSamples + e.size
    PROVE  /\ Linked(events', chunk', sample')
           /\ bufferedChunks' = IF events' = <<>> THEN 0 ELSE chunk' - events'[1].chunk
           /\ bufferedSamples' = IF events' = <<>> THEN 0 ELSE sample' - events'[1].sample
<1>1. events \in Seq(Events) /\ Linked(events, chunk, sample)
  BY DEF IInv, TypeOK, HandleTypeOK, BufferInv
<1>2. events' = Append(events, e)
  BY <1>1, AppendIsConcat
<1>3. Linked(events', chunk', sample')
  BY <1>1, <1>2, LinkedAppend
<1>4. events' # <<>> /\ events'[1] = IF events = <<>> THEN e ELSE events[1]
  BY <1>1, <1>2
<1>5. e.size \in Nat /\ chunk \in Nat /\ sample \in Nat
  BY DEF Events, IInv, TypeOK, WorkTypeOK
<1>6. events # <<>> => events[1].chunk \in Nat /\ events[1].sample \in Nat
  <2>1. events # <<>> => events[1] \in Events
    BY <1>1, EmptySeq
  <2> QED
    BY <2>1 DEF Events
<1>7. /\ bufferedChunks = IF events = <<>> THEN 0 ELSE chunk - events[1].chunk
      /\ bufferedSamples = IF events = <<>> THEN 0 ELSE sample - events[1].sample
  BY DEF IInv, BufferInv
<1>8. PICK d \in {0, 1} :
          chunk' = chunk + d /\ bufferedChunks' = bufferedChunks + d
  BY <1>5
<1>9. CASE events = <<>>
  <2>1. events' # <<>> /\ events'[1].chunk = chunk /\ events'[1].sample = sample
    BY <1>4, <1>9
  <2>2. bufferedChunks = 0 /\ bufferedSamples = 0
    BY <1>7, <1>9
  <2> QED
    BY <1>3, <1>5, <1>8, <2>1, <2>2
<1>10. CASE events # <<>>
  <2>1. events' # <<>> /\ events'[1] = events[1]
    BY <1>4, <1>10
  <2>2. /\ bufferedChunks = chunk - events[1].chunk
        /\ bufferedSamples = sample - events[1].sample
    BY <1>7, <1>10
  <2>3. events[1].chunk \in Nat /\ events[1].sample \in Nat
    BY <1>6, <1>10
  <2> DEFINE a == events[1].chunk
             b == events[1].sample
  <2>4. /\ chunk' = chunk + d /\ bufferedChunks' = (chunk - a) + d
        /\ sample' = sample + e.size /\ bufferedSamples' = (sample - b) + e.size
    BY <1>8, <2>2
  <2>6. a \in Nat /\ b \in Nat
    BY <2>3
  <2> HIDE DEF a, b
  <2>5. bufferedChunks' = chunk' - a /\ bufferedSamples' = sample' - b
    <3>1. (chunk - a) + d = (chunk + d) - a
      BY <1>5, <2>6, Shift
    <3>2. (sample - b) + e.size = (sample + e.size) - b
      BY <1>5, <2>6, Shift
    <3> QED
      BY <2>4, <3>1, <3>2
  <2> USE DEF a, b
  <2> QED
    BY <1>3, <2>1, <2>5
<1> QED
  BY <1>9, <1>10

LEMMA BufferStep == IInv /\ [Next]_vars => BufferInv'
<1> SUFFICES ASSUME IInv, [Next]_vars PROVE BufferInv'
  OBVIOUS
<1> USE DEF bufferVars, handleVars, jobVars, runtimeVars, cancelVars, callbackVars, rpcVars
<1>1. CASE Take
  BY <1>1 DEF Take, IInv, BufferInv
<1>2. CASE StartFails
  BY <1>2 DEF StartFails, IInv, BufferInv
<1>3. CASE WorkerBegins
  BY <1>3 DEF WorkerBegins, MarkDispatched, IInv, BufferInv
<1>4. CASE WorkerChecks
  BY <1>4 DEF WorkerChecks, IInv, BufferInv
<1>5. CASE EmitStarted
  <2>1. CASE Stopped
    <3>1. UNCHANGED <<events, bufferedChunks, bufferedSamples, chunk, sample>>
          /\ worker' = "returned"
      BY <1>5, <2>1 DEF EmitStarted, Return
    <3> QED
      BY <3>1 DEF IInv, BufferInv
  <2>2. CASE ~Stopped
    <3>1. /\ events' = Append(events, Started) /\ worker' # "emitting"
          /\ UNCHANGED <<bufferedChunks, bufferedSamples, chunk, sample>>
      BY <1>5, <2>2 DEF EmitStarted, AppendControl
    <3>2. chunk = 0 /\ sample = 0
      BY <1>5 DEF EmitStarted, IInv, SentInv
    <3>3. /\ Started \in Events /\ Started.chunk = 0 /\ Started.sample = 0
          /\ Started.size = 0 /\ ~IsAudio(Started)
      BY DEF Started, EventAt, Events, IsAudio
    <3>4. /\ bufferedChunks \in Int /\ bufferedSamples \in Int /\ chunk \in Nat
          /\ sample \in Nat
      BY DEF IInv, TypeOK, HandleTypeOK, WorkTypeOK
    <3>5. /\ bufferedChunks' = bufferedChunks + 0 /\ bufferedSamples' = bufferedSamples + 0
          /\ chunk' = chunk + 0 /\ sample' = sample + 0
      BY <3>1, <3>4
    <3>6. /\ Linked(events', chunk', sample')
          /\ bufferedChunks' = IF events' = <<>> THEN 0 ELSE chunk' - events'[1].chunk
          /\ bufferedSamples' = IF events' = <<>> THEN 0 ELSE sample' - events'[1].sample
      BY <3>1, <3>2, <3>3, <3>5, AppendBuffer
    <3>7. bufferedChunks' <= MaxBufferChunks /\ bufferedSamples' <= MaxBufferSamples
      BY <3>1 DEF IInv, BufferInv
    <3> QED
      BY <3>1, <3>6, <3>7 DEF BufferInv
  <2> QED
    BY <2>1, <2>2
<1>6. CASE EmitAudio
  <2>1. /\ UNCHANGED <<events, bufferedChunks, bufferedSamples, chunk, sample>>
        /\ \/ worker' # "emitting"
           \/ \E size \in Sizes : emitting' = Audio(chunk, sample, size)
    BY <1>6 DEF EmitAudio, Return
  <2>2. worker' = "emitting" => emitting' = Audio(chunk, sample, emitting'.size)
    BY <2>1 DEF Audio, EventAt
  <2> QED
    BY <2>1, <2>2 DEF IInv, BufferInv
<1>7. CASE EmitAudioLocked
  <2>1. CASE Stopped \/ ~HasRoom(emitting.size)
    <3>1. /\ UNCHANGED <<events, bufferedChunks, bufferedSamples, chunk, sample, emitting>>
          /\ worker' \in {worker, "returned"}
      BY <1>7, <2>1 DEF EmitAudioLocked, Return, WaitForRoom
    <3> QED
      BY <3>1 DEF IInv, BufferInv
  <2>2. CASE ~Stopped /\ HasRoom(emitting.size)
    <3>1. /\ events' = Append(events, emitting) /\ worker' # "emitting"
          /\ chunk' = chunk + 1 /\ sample' = sample + emitting.size
          /\ bufferedChunks' = bufferedChunks + 1
          /\ bufferedSamples' = bufferedSamples + emitting.size
      BY <1>7, <2>2 DEF EmitAudioLocked, AppendAudio
    <3>2. emitting = Audio(chunk, sample, emitting.size) /\ emitting \in Events
      BY <1>7 DEF EmitAudioLocked, IInv, TypeOK, WorkTypeOK, BufferInv
    <3>3. IsAudio(emitting) /\ emitting.chunk = chunk /\ emitting.sample = sample
      BY <3>2 DEF IsAudio, Audio, EventAt
    <3>4. /\ Linked(events', chunk', sample')
          /\ bufferedChunks' = IF events' = <<>> THEN 0 ELSE chunk' - events'[1].chunk
          /\ bufferedSamples' = IF events' = <<>> THEN 0 ELSE sample' - events'[1].sample
      BY <3>1, <3>2, <3>3, AppendBuffer
    <3>5. bufferedChunks' <= MaxBufferChunks /\ bufferedSamples' <= MaxBufferSamples
      BY <2>2, <3>1, HandleAssumption
         DEF HandleAssumption, HasRoom, IInv, TypeOK, HandleTypeOK
    <3> QED
      BY <3>1, <3>4, <3>5 DEF BufferInv
  <2> QED
    BY <2>1, <2>2
<1>8. CASE RuntimeReturns
  BY <1>8 DEF RuntimeReturns, Return, IInv, BufferInv
<1>9. CASE Release
  BY <1>9 DEF Release, IInv, BufferInv
<1>10. CASE Report
  <2>1. /\ events' = events \o <<>> \/ events' = events
        /\ UNCHANGED <<bufferedChunks, bufferedSamples, chunk, sample>> /\ worker' # "emitting"
    BY <1>10 DEF Report, FinishByWorker, Finish
  <2>2. events' = events
    BY <2>1 DEF IInv, TypeOK, HandleTypeOK
  <2> QED
    BY <2>1, <2>2 DEF IInv, BufferInv
<1>11. CASE Complete
  <2>1. /\ UNCHANGED <<bufferedChunks, bufferedSamples, chunk, sample>>
        /\ worker' # "emitting"
        /\ UNCHANGED events \/ events' = events \o <<Completed(chunk, sample)>>
    BY <1>11 DEF Complete, FinishByWorker, Finish
  <2>2. CASE UNCHANGED events
    BY <2>1, <2>2 DEF IInv, BufferInv
  <2>3. CASE events' = events \o <<Completed(chunk, sample)>>
    <3> DEFINE e == Completed(chunk, sample)
    <3>1. /\ bufferedChunks \in Int /\ bufferedSamples \in Int /\ chunk \in Nat
          /\ sample \in Nat
      BY DEF IInv, TypeOK, HandleTypeOK, WorkTypeOK
    <3>2. /\ e \in Events /\ e.chunk = chunk /\ e.sample = sample
          /\ e.size = 0 /\ ~IsAudio(e)
      BY <3>1 DEF Completed, EventAt, Events, IsAudio
    <3>3. /\ bufferedChunks' = bufferedChunks + 0 /\ bufferedSamples' = bufferedSamples + 0
          /\ chunk' = chunk + 0 /\ sample' = sample + 0
      BY <2>1, <3>1
    <3> HIDE DEF e
    <3>6. events' = events \o <<e>>
      BY <2>3 DEF e
    <3>4. /\ Linked(events', chunk', sample')
          /\ bufferedChunks' = IF events' = <<>> THEN 0 ELSE chunk' - events'[1].chunk
          /\ bufferedSamples' = IF events' = <<>> THEN 0 ELSE sample' - events'[1].sample
      BY <3>2, <3>3, <3>6, AppendBuffer
    <3>5. bufferedChunks' <= MaxBufferChunks /\ bufferedSamples' <= MaxBufferSamples
      BY <2>1 DEF IInv, BufferInv
    <3> QED
      BY <2>1, <3>4, <3>5 DEF BufferInv
  <2> QED
    BY <2>1, <2>2, <2>3
<1>12. CASE WorkerEnds
  BY <1>12 DEF WorkerEnds, IInv, BufferInv
<1>13. CASE Unload
  <2>1. /\ UNCHANGED <<events, bufferedChunks, bufferedSamples, chunk, sample, emitting>>
        /\ worker' \in {worker, "released"}
    BY <1>13 DEF Unload
  <2> QED
    BY <2>1 DEF IInv, BufferInv
<1>14. CASE CancelFails
  <2>1. /\ events' = events \o <<>> \/ events' = events
        /\ UNCHANGED <<bufferedChunks, bufferedSamples, chunk, sample, worker, emitting>>
    BY <1>14 DEF CancelFails, Finish
  <2>2. events' = events
    BY <2>1 DEF IInv, TypeOK, HandleTypeOK
  <2> QED
    BY <2>1, <2>2 DEF IInv, BufferInv
<1>15. CASE Read
  <2>1. CASE UNCHANGED <<events, bufferedChunks, bufferedSamples>>
    <3>1. UNCHANGED <<chunk, sample, worker, emitting>>
      BY <1>15 DEF Read
    <3> QED
      BY <2>1, <3>1 DEF IInv, BufferInv
  <2>2. CASE PopEvent
    <3> DEFINE e == Head(events)
    <3>1. /\ events # <<>> /\ events' = Tail(events)
          /\ bufferedChunks' = IF IsAudio(e) THEN bufferedChunks - 1 ELSE bufferedChunks
          /\ bufferedSamples' = IF IsAudio(e) THEN bufferedSamples - e.size
                                ELSE bufferedSamples
          /\ UNCHANGED <<chunk, sample, worker, emitting>>
      BY <1>15, <2>2 DEF Read, PopEvent
    <3>2. /\ events \in Seq(Events) /\ Linked(events, chunk, sample)
          /\ bufferedChunks = chunk - events[1].chunk
          /\ bufferedSamples = sample - events[1].sample
          /\ chunk \in Nat /\ sample \in Nat
      BY <3>1 DEF IInv, TypeOK, HandleTypeOK, WorkTypeOK, BufferInv
    <3>3. e = events[1] /\ e \in Events /\ Tail(events) \in Seq(Events)
      BY <3>1, <3>2, HeadTailProperties, EmptySeq
    <3>4. e.chunk \in Nat /\ e.sample \in Nat /\ e.size \in Nat
      BY <3>3 DEF Events
    <3>5. events' # <<>> => events'[1].chunk \in Nat /\ events'[1].sample \in Nat
      <4>1. events' # <<>> => events'[1] \in Events
        BY <3>1, <3>3, EmptySeq
      <4> QED
        BY <4>1 DEF Events
    <3>6. /\ Linked(events', chunk, sample)
          /\ e.chunk + (IF IsAudio(e) THEN 1 ELSE 0)
                = IF events' = <<>> THEN chunk ELSE events'[1].chunk
          /\ e.sample + e.size = IF events' = <<>> THEN sample ELSE events'[1].sample
          /\ ~IsAudio(e) => e.size = 0
      BY <3>1, <3>2, <3>3, LinkedTail
    <3> HIDE DEF e
    <3>7. /\ bufferedChunks' = IF events' = <<>> THEN 0 ELSE chunk - events'[1].chunk
          /\ bufferedSamples' = IF events' = <<>> THEN 0 ELSE sample - events'[1].sample
      <4>1. PICK d \in {0, 1} :
                /\ bufferedChunks' = bufferedChunks - d
                /\ e.chunk + d = IF events' = <<>> THEN chunk ELSE events'[1].chunk
        <5>1. bufferedChunks \in Int
          BY DEF IInv, TypeOK, HandleTypeOK
        <5>2. CASE IsAudio(e)
          BY <3>1, <3>6, <5>2
        <5>3. CASE ~IsAudio(e)
          BY <3>1, <3>4, <3>6, <5>1, <5>3
        <5> QED
          BY <5>2, <5>3
      <4>2. bufferedSamples' = bufferedSamples - e.size
        <5>1. CASE IsAudio(e)
          BY <3>1, <5>1
        <5>2. CASE ~IsAudio(e)
          <6>1. bufferedSamples \in Int /\ e.size = 0
            BY <3>6, <5>2 DEF IInv, TypeOK, HandleTypeOK
          <6>2. bufferedSamples' = bufferedSamples
            BY <3>1, <5>2
          <6> QED
            BY <6>1, <6>2
        <5> QED
          BY <5>1, <5>2
      <4>3. /\ bufferedChunks = chunk - e.chunk /\ bufferedSamples = sample - e.sample
            /\ chunk \in Nat /\ sample \in Nat
        BY <3>2, <3>3
      <4>4. e.sample + e.size = IF events' = <<>> THEN sample ELSE events'[1].sample
        BY <3>6
      <4>7. bufferedChunks' = chunk - (e.chunk + d)
        BY <3>4, <4>1, <4>3, Shorten
      <4>8. bufferedSamples' = sample - (e.sample + e.size)
        BY <3>4, <4>2, <4>3, Shorten
      <4>5. CASE events' = <<>>
        <5>1. e.chunk + d = chunk /\ e.sample + e.size = sample
          BY <4>1, <4>4, <4>5
        <5> QED
          BY <4>3, <4>5, <4>7, <4>8, <5>1
      <4>6. CASE events' # <<>>
        <5>1. e.chunk + d = events'[1].chunk /\ e.sample + e.size = events'[1].sample
          BY <4>1, <4>4, <4>6
        <5> QED
          BY <4>6, <4>7, <4>8, <5>1
      <4> QED
        BY <4>5, <4>6
    <3>8. bufferedChunks' <= MaxBufferChunks /\ bufferedSamples' <= MaxBufferSamples
      <4>1. bufferedChunks <= MaxBufferChunks /\ bufferedSamples <= MaxBufferSamples
        BY DEF IInv, BufferInv
      <4>2. /\ bufferedChunks \in Int /\ bufferedSamples \in Int
            /\ MaxBufferChunks \in Nat /\ MaxBufferSamples \in Nat
        BY HandleAssumption DEF HandleAssumption, IInv, TypeOK, HandleTypeOK
      <4>3. /\ bufferedChunks' \in {bufferedChunks - 1, bufferedChunks}
            /\ bufferedSamples' \in {bufferedSamples - e.size, bufferedSamples}
        BY <3>1
      <4> QED
        BY <3>4, <4>1, <4>2, <4>3
    <3> QED
      BY <3>1, <3>6, <3>7, <3>8 DEF IInv, BufferInv
  <2> QED
    BY <1>15, <2>1, <2>2 DEF Read, RegisterWaiter
<1>16. CASE UNCHANGED <<events, bufferedChunks, bufferedSamples, chunk, sample, worker,
                      emitting>>
  BY <1>16 DEF IInv, BufferInv
<1>17. ASSUME DeadlinePasses \/ UnloadCancelsHandle \/ CancelRemoves \/ CancelEnds \/ Call
             \/ CallRefused \/ Resolve \/ Resume \/ TaskCancelled \/ WriteCancelled \/
             Written \/ HandlerCancels \/ HandlerCounts \/ HandlerLogs \/ DoneCallback \/
             ClientLeaves \/ (\E d \in TerminalCallbacks : RunCallback(d)) \/ UNCHANGED vars
      PROVE  BufferInv'
  <2>1. UNCHANGED <<events, bufferedChunks, bufferedSamples, chunk, sample, worker,
                    emitting>>
    BY <1>17
       DEF DeadlinePasses, UnloadCancelsHandle, CancelRemoves, CancelEnds, Call,
           CallRefused, Resolve, Resume, TaskCancelled, WriteCancelled, Written,
           HandlerCancels, HandlerCounts, HandlerLogs, DoneCallback, ClientLeaves,
           RunCallback, vars, CancelHandle, SetCancelled, WakeWriter, WakeReader, Stopped,
           AddTerminalCallback, Count, ResolveWaiter, DiscardWaiter, IsCancellation
  <2> QED
    BY <1>16, <2>1
<1> QED
  BY <1>1, <1>2, <1>3, <1>4, <1>5, <1>6, <1>7, <1>8, <1>9, <1>10, <1>11, <1>12, <1>13,
     <1>14, <1>15, <1>16, <1>17
     DEF Next, Runtime, Threads, Cancellation, EventLoop

LEMMA WriterStep == IInv /\ [Next]_vars => WriterNotForgotten'
<1> SUFFICES ASSUME IInv, [Next]_vars PROVE WriterNotForgotten'
  OBVIOUS
<1> USE DEF bufferVars, handleVars, jobVars, runtimeVars, cancelVars, callbackVars, rpcVars
<1>1. CASE Take
  BY <1>1 DEF Take, WorkerInv, IInv, WriterNotForgotten, HasRoom, Stopped
<1>2. CASE StartFails
  BY <1>2 DEF StartFails, IInv, WriterNotForgotten, HasRoom, Stopped
<1>3. CASE WorkerBegins
  BY <1>3 DEF WorkerBegins, MarkDispatched, IInv, WriterNotForgotten, HasRoom, Stopped
<1>4. CASE WorkerChecks
  BY <1>4 DEF WorkerChecks, IInv, WriterNotForgotten, HasRoom, Stopped
<1>5. CASE EmitStarted
  BY <1>5
     DEF EmitStarted, Return, StopError, AppendControl, WakeWriter, WakeReader, IInv,
         WriterNotForgotten, HasRoom, Stopped
<1>6. CASE EmitAudio
  BY <1>6 DEF EmitAudio, Return, Audio, EventAt, IInv, WriterNotForgotten, HasRoom, Stopped
<1>7. CASE DeadlinePasses
  BY <1>7 DEF DeadlinePasses, IInv, WriterNotForgotten, HasRoom, Stopped
<1>8. CASE EmitAudioLocked
  BY <1>8
     DEF EmitAudioLocked, Return, StopError, AppendAudio, WaitForRoom, WakeWriter,
         WakeReader, IInv, WriterNotForgotten, HasRoom, Stopped
<1>9. CASE RuntimeReturns
  BY <1>9 DEF RuntimeReturns, Return, IInv, WriterNotForgotten, HasRoom, Stopped
<1>10. CASE Release
  BY <1>10 DEF Release, IInv, WriterNotForgotten, HasRoom, Stopped
<1>11. CASE Report
  BY <1>11
     DEF Report, FinishByWorker, Finish, WakeWriter, WakeReader, IInv, WriterNotForgotten,
         HasRoom, Stopped
<1>12. CASE Complete
  BY <1>12
     DEF Complete, FinishByWorker, Finish, WakeWriter, WakeReader, IInv, WriterNotForgotten,
         HasRoom, Stopped
<1>13. CASE WorkerEnds
  BY <1>13 DEF WorkerEnds, IInv, WriterNotForgotten, HasRoom, Stopped
<1>14. CASE Unload
  BY <1>14 DEF Unload, WorkerInv, IInv, WriterNotForgotten, HasRoom, Stopped
<1>15. CASE UnloadCancelsHandle
  BY <1>15
     DEF UnloadCancelsHandle, CancelHandle, SetCancelled, WakeWriter, WakeReader, IInv,
         WriterNotForgotten, HasRoom, Stopped
<1>16. CASE CancelFails
  BY <1>16
     DEF CancelFails, Finish, WakeWriter, WakeReader, IInv, WriterNotForgotten, HasRoom,
         Stopped
<1>17. CASE Read
  BY <1>17
     DEF Read, RegisterWaiter, PopEvent, WakeWriter, ReadError, IInv, WriterNotForgotten,
         HasRoom, Stopped
<1>18. CASE HandlerCancels
  BY <1>18
     DEF HandlerCancels, CancelHandle, SetCancelled, WakeWriter, WakeReader, IInv,
         WriterNotForgotten, HasRoom, Stopped
<1>19. CASE DoneCallback
  BY <1>19
     DEF DoneCallback, CancelHandle, SetCancelled, WakeWriter, WakeReader, IInv,
         WriterNotForgotten, HasRoom, Stopped
<1>20. CASE UNCHANGED <<writerWaits, worker, late, cancelled, terminal, bufferedChunks,
                      bufferedSamples, emitting>>
  BY <1>20 DEF IInv, WriterNotForgotten, HasRoom, Stopped
<1>21. ASSUME CancelRemoves \/ CancelEnds \/ Call \/ CallRefused \/ Resolve \/ Resume \/
             TaskCancelled \/ WriteCancelled \/ Written \/ HandlerCounts \/ HandlerLogs \/
             ClientLeaves \/ (\E d \in TerminalCallbacks : RunCallback(d)) \/ UNCHANGED vars
      PROVE  WriterNotForgotten'
  <2>1. UNCHANGED <<writerWaits, worker, late, cancelled, terminal, bufferedChunks,
                    bufferedSamples, emitting>>
    BY <1>21
       DEF CancelRemoves, CancelEnds, Call, CallRefused, Resolve, Resume, TaskCancelled,
           WriteCancelled, Written, HandlerCounts, HandlerLogs, ClientLeaves, RunCallback,
           vars, AddTerminalCallback, Count, ResolveWaiter, DiscardWaiter, IsCancellation
  <2> QED
    BY <1>20, <2>1
<1> QED
  BY <1>1, <1>2, <1>3, <1>4, <1>5, <1>6, <1>7, <1>8, <1>9, <1>10, <1>11, <1>12, <1>13,
     <1>14, <1>15, <1>16, <1>17, <1>18, <1>19, <1>20, <1>21
     DEF Next, Runtime, Threads, Cancellation, EventLoop

LEMMA WorkerStep == IInv /\ [Next]_vars => WorkerInv'
<1> SUFFICES ASSUME IInv, [Next]_vars PROVE WorkerInv'
  OBVIOUS
<1> USE DEF bufferVars, handleVars, jobVars, runtimeVars, cancelVars, callbackVars, rpcVars
<1>1. CASE Take
  BY <1>1 DEF Take, IInv, WorkerInv, TypeOK, WorkTypeOK, HandleTypeOK, Errors
<1>2. CASE StartFails
  BY <1>2 DEF StartFails, IInv, WorkerInv, TypeOK, WorkTypeOK, HandleTypeOK, Errors
<1>3. CASE WorkerBegins
  BY <1>3
     DEF WorkerBegins, MarkDispatched, IInv, WorkerInv, TypeOK, WorkTypeOK, HandleTypeOK,
         Errors
<1>4. CASE WorkerChecks
  BY <1>4 DEF WorkerChecks, IInv, WorkerInv, TypeOK, WorkTypeOK, HandleTypeOK, Errors
<1>5. CASE EmitStarted
  BY <1>5
     DEF EmitStarted, Return, StopError, AppendControl, WakeWriter, WakeReader, Stopped,
         IInv, WorkerInv, TypeOK, WorkTypeOK, HandleTypeOK, Errors
<1>6. CASE EmitAudio
  BY <1>6
     DEF EmitAudio, Return, Audio, EventAt, IInv, WorkerInv, TypeOK, WorkTypeOK,
         HandleTypeOK, Errors
<1>7. CASE EmitAudioLocked
  BY <1>7
     DEF EmitAudioLocked, Return, StopError, AppendAudio, WaitForRoom, WakeWriter,
         WakeReader, Stopped, IInv, WorkerInv, TypeOK, WorkTypeOK, HandleTypeOK, Errors
<1>8. CASE RuntimeReturns
  BY <1>8
     DEF RuntimeReturns, Return, IInv, WorkerInv, TypeOK, WorkTypeOK, HandleTypeOK, Errors
<1>9. CASE Release
  BY <1>9 DEF Release, IInv, WorkerInv, TypeOK, WorkTypeOK, HandleTypeOK, Errors
<1>10. CASE Report
  BY <1>10
     DEF Report, FinishByWorker, Finish, WakeWriter, WakeReader, IInv, WorkerInv, TypeOK,
         WorkTypeOK, HandleTypeOK, Errors
<1>11. CASE Complete
  BY <1>11
     DEF Complete, FinishByWorker, Finish, WakeWriter, WakeReader, IInv, WorkerInv, TypeOK,
         WorkTypeOK, HandleTypeOK, Errors
<1>12. CASE WorkerEnds
  BY <1>12 DEF WorkerEnds, IInv, WorkerInv, TypeOK, WorkTypeOK, HandleTypeOK, Errors
<1>13. CASE Unload
  BY <1>13 DEF Unload, IInv, WorkerInv, TypeOK, WorkTypeOK, HandleTypeOK, Errors
<1>14. CASE UnloadCancelsHandle
  BY <1>14
     DEF UnloadCancelsHandle, CancelHandle, SetCancelled, WakeWriter, WakeReader, Stopped,
         IInv, WorkerInv, TypeOK, WorkTypeOK, HandleTypeOK, Errors
<1>15. CASE CancelRemoves
  BY <1>15 DEF CancelRemoves, IInv, WorkerInv, TypeOK, WorkTypeOK, HandleTypeOK, Errors
<1>16. CASE CancelFails
  BY <1>16
     DEF CancelFails, Finish, WakeWriter, WakeReader, IInv, WorkerInv, TypeOK, WorkTypeOK,
         HandleTypeOK, Errors
<1>17. CASE CancelEnds
  BY <1>17 DEF CancelEnds, IInv, WorkerInv, TypeOK, WorkTypeOK, HandleTypeOK, Errors
<1>18. CASE Call
  BY <1>18
     DEF Call, AddTerminalCallback, Count, IInv, WorkerInv, TypeOK, WorkTypeOK,
         HandleTypeOK, Errors
<1>19. CASE CallRefused
  BY <1>19 DEF CallRefused, Count, IInv, WorkerInv, TypeOK, WorkTypeOK, HandleTypeOK, Errors
<1>20. CASE Read
  BY <1>20
     DEF Read, RegisterWaiter, PopEvent, WakeWriter, ReadError, IInv, WorkerInv, TypeOK,
         WorkTypeOK, HandleTypeOK, Errors
<1>21. CASE Resume
  BY <1>21
     DEF Resume, DiscardWaiter, IInv, WorkerInv, TypeOK, WorkTypeOK, HandleTypeOK, Errors
<1>22. CASE TaskCancelled
  BY <1>22
     DEF TaskCancelled, DiscardWaiter, IInv, WorkerInv, TypeOK, WorkTypeOK, HandleTypeOK,
         Errors
<1>23. CASE WriteCancelled
  BY <1>23 DEF WriteCancelled, IInv, WorkerInv, TypeOK, WorkTypeOK, HandleTypeOK, Errors
<1>24. CASE Written
  BY <1>24 DEF Written, Count, IInv, WorkerInv, TypeOK, WorkTypeOK, HandleTypeOK, Errors
<1>25. CASE HandlerCancels
  BY <1>25
     DEF HandlerCancels, CancelHandle, SetCancelled, WakeWriter, WakeReader, Stopped,
         HandlerInv, CallbackInv, IInv, WorkerInv, TypeOK, WorkTypeOK, HandleTypeOK, Errors
<1>26. CASE HandlerCounts
  BY <1>26
     DEF HandlerCounts, Count, IsCancellation, IInv, WorkerInv, TypeOK, WorkTypeOK,
         HandleTypeOK, Errors
<1>27. CASE HandlerLogs
  BY <1>27
     DEF HandlerLogs, AddTerminalCallback, IInv, WorkerInv, TypeOK, WorkTypeOK,
         HandleTypeOK, Errors
<1>28. CASE DoneCallback
  BY <1>28
     DEF DoneCallback, CancelHandle, SetCancelled, WakeWriter, WakeReader, Stopped,
         HandlerInv, CallbackInv, IInv, WorkerInv, TypeOK, WorkTypeOK, HandleTypeOK, Errors
<1>29. CASE ClientLeaves
  BY <1>29 DEF ClientLeaves, IInv, WorkerInv, TypeOK, WorkTypeOK, HandleTypeOK, Errors
<1>30. CASE UNCHANGED <<handler, job, cancelled, rpc, callbacks, doneCallback, worker,
                      terminal, canceller, started, unloadCancels, result, error>>
  BY <1>30 DEF IInv, WorkerInv, TypeOK, WorkTypeOK, HandleTypeOK, Errors
<1>31. ASSUME DeadlinePasses \/ Resolve \/ (\E d \in TerminalCallbacks : RunCallback(d)) \/
             UNCHANGED vars
      PROVE  WorkerInv'
  <2>1. UNCHANGED <<handler, job, cancelled, rpc, callbacks, doneCallback, worker, terminal,
                    canceller, started, unloadCancels, result, error>>
    BY <1>31 DEF DeadlinePasses, Resolve, RunCallback, vars, ResolveWaiter
  <2> QED
    BY <1>30, <2>1
<1> QED
  BY <1>1, <1>2, <1>3, <1>4, <1>5, <1>6, <1>7, <1>8, <1>9, <1>10, <1>11, <1>12, <1>13,
     <1>14, <1>15, <1>16, <1>17, <1>18, <1>19, <1>20, <1>21, <1>22, <1>23, <1>24, <1>25,
     <1>26, <1>27, <1>28, <1>29, <1>30, <1>31
     DEF Next, Runtime, Threads, Cancellation, EventLoop

----------------------------------------------------------------------------
(* What has been sent *)

LEMMA SentTyped ==
    IInv => /\ Sent \in Seq(Events)
            /\ received \in Seq(Events) /\ writing \in Seq(Events) /\ events \in Seq(Events)
<1> SUFFICES ASSUME IInv
             PROVE  /\ Sent \in Seq(Events) /\ received \in Seq(Events)
                    /\ writing \in Seq(Events) /\ events \in Seq(Events)
  OBVIOUS
<1>1. received \in Seq(Events) /\ writing \in Seq(Events) /\ events \in Seq(Events)
  BY DEF IInv, TypeOK, HandleTypeOK, HandlerTypeOK
<1> QED
  BY <1>1, ConcatProperties DEF Sent

LEMMA CompletedAppend ==
    ASSUME NEW q \in Seq(Events), NEW e \in Events
    PROVE  HasCompleted(Append(q, e)) <=> HasCompleted(q) \/ e.kind = "completed"
<1>1. /\ Len(q) \in Nat /\ Len(Append(q, e)) = Len(q) + 1
      /\ \A i \in 1 .. Len(q) : Append(q, e)[i] = q[i]
      /\ Append(q, e)[Len(q) + 1] = e
  BY LenProperties, AppendProperties
<1>2. DOMAIN q = 1 .. Len(q) /\ DOMAIN Append(q, e) = 1 .. Len(q) + 1
  BY <1>1, LenProperties, AppendProperties
<1>3. \A i : i \in 1 .. Len(q) + 1 <=> i \in 1 .. Len(q) \/ i = Len(q) + 1
  BY <1>1
<1> QED
  BY <1>1, <1>2, <1>3 DEF HasCompleted

LEMMA Single ==
    ASSUME NEW w \in Seq(Events), Len(w) = 1
    PROVE  w[1] \in Events /\ w = <<w[1]>>
OBVIOUS

\* What an event that is appended to the buffer adds to the stream.
LEMMA SentAppend ==
    ASSUME IInv, NEW e \in Events, UNCHANGED <<received, writing>>,
           events' = Append(events, e) \/ events' = events \o <<e>>
    PROVE  /\ Sent' = Append(Sent, e) /\ Sent' # <<>>
           /\ HasCompleted(Sent') <=> HasCompleted(Sent) \/ e.kind = "completed"
<1>0. Append(events, e) = events \o <<e>>
  BY SentTyped, AppendIsConcat
<1>1. events' = events \o <<e>> /\ <<e>> \in Seq(Events)
  BY <1>0
<1>2. Sent' = (received \o writing) \o (events \o <<e>>)
  BY <1>1 DEF Sent
<1>3. received \o writing \in Seq(Events)
  BY SentTyped, ConcatProperties
<1>4. (received \o writing) \o (events \o <<e>>) = Sent \o <<e>>
  BY <1>1, <1>3, SentTyped, ConcatAssociative DEF Sent
<1>5. Sent' = Append(Sent, e)
  BY <1>2, <1>4, SentTyped, AppendIsConcat
<1>6. Append(Sent, e) # <<>>
  BY SentTyped, AppendProperties
<1> QED
  BY <1>5, <1>6, SentTyped, CompletedAppend

\* The next event goes from the buffer to the transport.
LEMMA SentPop ==
    ASSUME IInv, writing = <<>>, events # <<>>, UNCHANGED received,
           events' = Tail(events), writing' = <<Head(events)>>
    PROVE  Sent' = Sent
<1>1. Head(events) \in Events /\ Tail(events) \in Seq(Events)
  BY SentTyped, HeadTailProperties
<1>2. events = <<Head(events)>> \o Tail(events)
  BY SentTyped, HeadTailProperties
<1>3. <<Head(events)>> \in Seq(Events)
  BY <1>1
<1>4. (received \o <<Head(events)>>) \o Tail(events)
         = received \o (<<Head(events)>> \o Tail(events))
  BY <1>1, <1>3, SentTyped, ConcatAssociative
<1>5. received \o writing = received
  BY SentTyped, ConcatEmptySeq
<1>6. Sent' = (received \o <<Head(events)>>) \o Tail(events)
  BY DEF Sent
<1>7. Sent = received \o events
  BY <1>5 DEF Sent
<1> QED
  BY <1>2, <1>4, <1>6, <1>7

\* The transport hands it to the client.
LEMMA SentWritten ==
    ASSUME IInv, UNCHANGED events, received' = received \o writing, writing' = <<>>
    PROVE  Sent' = Sent
<1>1. received \o writing \in Seq(Events)
  BY SentTyped, ConcatProperties
<1>2. (received \o writing) \o <<>> = received \o writing
  BY <1>1, ConcatEmptySeq
<1> QED
  BY <1>2 DEF Sent

LEMMA SentStep == IInv /\ [Next]_vars => SentInv'
<1> SUFFICES ASSUME IInv, [Next]_vars PROVE SentInv'
  OBVIOUS
<1> USE DEF bufferVars, handleVars, jobVars, runtimeVars, cancelVars, callbackVars, rpcVars
<1>1. CASE EmitStarted
  <2>1. CASE Stopped
    <3>1. UNCHANGED <<received, writing, events, chunk, sample, started, terminal, error,
                      handler>>
      BY <1>1, <2>1 DEF EmitStarted, Return
    <3> QED
      BY <3>1 DEF IInv, SentInv, Sent
  <2>2. CASE ~Stopped
    <3>1. /\ events' = Append(events, Started) /\ started' = TRUE /\ ~started /\ ~terminal
          /\ UNCHANGED <<received, writing, chunk, sample, terminal, error, handler>>
      BY <1>1, <2>2 DEF EmitStarted, AppendControl, Stopped
    <3>2. Started \in Events /\ Started.kind = "started" /\ Started = EventAt("started", 0, 0, 0)
      BY DEF Started, EventAt, Events
    <3>3. /\ Sent' = Append(Sent, Started) /\ Sent' # <<>>
          /\ HasCompleted(Sent') <=> HasCompleted(Sent) \/ Started.kind = "completed"
      BY <3>1, <3>2, SentAppend
    <3>4. Linked(Sent, chunk, sample) /\ chunk = 0 /\ sample = 0 /\ ~HasCompleted(Sent)
      BY <3>1 DEF IInv, SentInv
    <3>5. /\ Started.chunk = 0 /\ Started.sample = 0 /\ Started.size = 0
          /\ ~IsAudio(Started)
      BY DEF Started, EventAt, IsAudio
    <3>6. Linked(Append(Sent, Started), chunk + 0, sample + 0)
      BY <3>2, <3>4, <3>5, SentTyped, LinkedAppend
    <3>7. Linked(Sent', chunk', sample')
      BY <3>1, <3>3, <3>4, <3>6
    <3> QED
      BY <3>1, <3>2, <3>3, <3>4, <3>7 DEF IInv, SentInv
  <2> QED
    BY <2>1, <2>2
<1>2. CASE EmitAudioLocked
  <2>1. CASE Stopped \/ ~HasRoom(emitting.size)
    <3>1. UNCHANGED <<received, writing, events, chunk, sample, started, terminal, error,
                      handler>>
      BY <1>2, <2>1 DEF EmitAudioLocked, Return, WaitForRoom
    <3> QED
      BY <3>1 DEF IInv, SentInv, Sent
  <2>2. CASE ~Stopped /\ HasRoom(emitting.size)
    <3>1. /\ events' = Append(events, emitting) /\ ~terminal
          /\ chunk' = chunk + 1 /\ sample' = sample + emitting.size
          /\ UNCHANGED <<received, writing, started, terminal, error, handler>>
      BY <1>2, <2>2 DEF EmitAudioLocked, AppendAudio, Stopped
    <3>2. emitting = Audio(chunk, sample, emitting.size) /\ emitting \in Events
      BY <1>2 DEF EmitAudioLocked, IInv, TypeOK, WorkTypeOK, BufferInv
    <3>3. /\ IsAudio(emitting) /\ emitting.chunk = chunk /\ emitting.sample = sample
          /\ emitting.kind = "audio"
      BY <3>2 DEF IsAudio, Audio, EventAt
    <3>4. /\ Sent' = Append(Sent, emitting) /\ Sent' # <<>>
          /\ HasCompleted(Sent') <=> HasCompleted(Sent) \/ emitting.kind = "completed"
      BY <3>1, <3>2, SentAppend
    <3>5. Linked(Sent, chunk, sample) /\ ~HasCompleted(Sent) /\ started
      BY <1>2, <3>1 DEF EmitAudioLocked, IInv, SentInv, WorkerInv
    <3>6. Linked(Append(Sent, emitting), chunk + 1, sample + emitting.size)
      BY <3>2, <3>3, <3>5, SentTyped, LinkedAppend
    <3>7. Linked(Sent', chunk', sample')
      BY <3>1, <3>4, <3>6
    <3> QED
      BY <3>1, <3>3, <3>4, <3>5, <3>7 DEF IInv, SentInv
  <2> QED
    BY <2>1, <2>2
<1>3. CASE Report
  <2>1. /\ events' = events \o <<>> \/ events' = events
        /\ UNCHANGED <<received, writing, chunk, sample, started, handler>>
        /\ \/ UNCHANGED <<terminal, error>>
           \/ ~terminal /\ terminal' = TRUE /\ error' # "none"
    BY <1>3 DEF Report, FinishByWorker, Finish, IInv, WorkerInv
  <2>2. Sent' = Sent /\ UNCHANGED received
    BY <2>1 DEF Sent, IInv, TypeOK, HandleTypeOK
  <2> QED
    BY <2>1, <2>2 DEF IInv, SentInv
<1>4. CASE Complete
  <2>1. CASE terminal
    <3>1. UNCHANGED <<received, writing, events, chunk, sample, started, terminal, error,
                      handler>>
      BY <1>4, <2>1 DEF Complete, FinishByWorker
    <3> QED
      BY <3>1 DEF IInv, SentInv, Sent
  <2>2. CASE ~terminal
    <3> DEFINE e == Completed(chunk, sample)
    <3>1. /\ events' = events \o <<e>> /\ terminal' = TRUE /\ error' = "none"
          /\ UNCHANGED <<received, writing, chunk, sample, started, handler>>
      BY <1>4, <2>2 DEF Complete, FinishByWorker, Finish
    <3>2. chunk \in Nat /\ sample \in Nat /\ started
      BY <1>4 DEF Complete, IInv, TypeOK, WorkTypeOK, WorkerInv
    <3>3. /\ e \in Events /\ e.chunk = chunk /\ e.sample = sample /\ e.size = 0
          /\ e.kind = "completed" /\ ~IsAudio(e)
      BY <3>2 DEF Completed, EventAt, Events, IsAudio
    <3> HIDE DEF e
    <3>4. /\ Sent' = Append(Sent, e) /\ Sent' # <<>>
          /\ HasCompleted(Sent') <=> HasCompleted(Sent) \/ e.kind = "completed"
      BY <3>1, <3>3, SentAppend
    <3>5. Linked(Sent, chunk, sample)
      BY DEF IInv, SentInv
    <3>6. Linked(Append(Sent, e), chunk + 0, sample + 0)
      BY <3>3, <3>5, SentTyped, LinkedAppend
    <3>7. Linked(Sent', chunk', sample')
      BY <3>1, <3>2, <3>4, <3>6
    <3> QED
      BY <3>1, <3>2, <3>3, <3>4, <3>7 DEF IInv, SentInv
  <2> QED
    BY <2>1, <2>2
<1>5. CASE CancelFails
  <2>1. /\ events' = events \o <<>> \/ events' = events
        /\ UNCHANGED <<received, writing, chunk, sample, started, handler>>
        /\ \/ UNCHANGED <<terminal, error>>
           \/ ~terminal /\ terminal' = TRUE /\ error' # "none"
    BY <1>5 DEF CancelFails, Finish
  <2>2. Sent' = Sent /\ UNCHANGED received
    BY <2>1 DEF Sent, IInv, TypeOK, HandleTypeOK
  <2> QED
    BY <2>1, <2>2 DEF IInv, SentInv
<1>6. CASE Call
  <2>1. UNCHANGED <<received, writing, events, chunk, sample, started, terminal, error>>
        /\ handler # "ended"
    BY <1>6 DEF Call, AddTerminalCallback, Count
  <2> QED
    BY <2>1 DEF IInv, SentInv, Sent
<1>7. CASE CallRefused
  <2>1. UNCHANGED <<received, writing, events, chunk, sample, started, terminal, error>>
        /\ handler # "ended"
    BY <1>7 DEF CallRefused, Count
  <2> QED
    BY <2>1 DEF IInv, SentInv, Sent
<1>8. CASE Read
  <2>1. UNCHANGED <<received, chunk, sample, started, terminal, error>> /\ handler = "reading"
    BY <1>8 DEF Read, RegisterWaiter, PopEvent
  <2>2. CASE UNCHANGED <<events, writing>>
    BY <2>1, <2>2 DEF IInv, SentInv, Sent
  <2>3. CASE PopEvent /\ writing' = <<Head(events)>>
    <3>1. writing = <<>> /\ events # <<>> /\ events' = Tail(events)
      BY <2>1, <2>3 DEF PopEvent, IInv, HandlerInv
    <3>2. Sent' = Sent
      BY <2>1, <2>3, <3>1, SentPop
    <3> QED
      BY <2>1, <3>2 DEF IInv, SentInv
  <2> QED
    BY <1>8, <2>2, <2>3 DEF Read, RegisterWaiter
<1>9. CASE Resume
  <2>1. UNCHANGED <<received, writing, events, chunk, sample, started, terminal, error>>
        /\ handler # "ended"
    BY <1>9 DEF Resume, DiscardWaiter
  <2> QED
    BY <2>1 DEF IInv, SentInv, Sent
<1>10. CASE TaskCancelled
  <2>1. UNCHANGED <<received, writing, events, chunk, sample, started, terminal, error>>
        /\ handler # "ended"
    BY <1>10 DEF TaskCancelled, DiscardWaiter
  <2> QED
    BY <2>1 DEF IInv, SentInv, Sent
<1>11. CASE WriteCancelled
  <2>1. UNCHANGED <<received, writing, events, chunk, sample, started, terminal, error>>
        /\ handler # "ended"
    BY <1>11 DEF WriteCancelled
  <2> QED
    BY <2>1 DEF IInv, SentInv, Sent
<1>12. CASE Written
  <2>1. /\ handler = "writing" /\ received' = received \o writing /\ writing' = <<>>
        /\ UNCHANGED <<events, chunk, sample, started, terminal, error>>
    BY <1>12 DEF Written
  <2>2. Sent' = Sent
    BY <2>1, SentWritten
  <2>3. ~HasCompleted(received) /\ writing # <<>>
    BY <2>1 DEF IInv, SentInv, HandlerInv
  <2>4. writing[1] \in Events /\ writing = <<writing[1]>>
    <3>1. Len(writing) = 1 /\ writing \in Seq(Events)
      <4>1. writing \in Seq(Events) /\ Len(writing) <= 1
        BY DEF IInv, TypeOK, HandlerTypeOK
      <4>2. Len(writing) \in Nat /\ Len(writing) # 0
        BY <2>3, <4>1, EmptySeq, LenProperties
      <4>3. \A n \in Nat : n <= 1 /\ n # 0 => n = 1
        OBVIOUS
      <4> QED
        BY <4>1, <4>2, <4>3, Zenon
    <3> QED
      BY <3>1, Single
  <2>5. received' = Append(received, writing[1])
    BY <2>1, <2>4, SentTyped, AppendIsConcat
  <2>6. HasCompleted(received') => writing[1].kind = "completed"
    BY <2>3, <2>4, <2>5, SentTyped, CompletedAppend
  <2>7. HasCompleted(received') => handler' = "ended"
    BY <1>12, <2>6 DEF Written
  <2> QED
    BY <2>1, <2>2, <2>7 DEF IInv, SentInv
<1>13. CASE HandlerCancels
  <2>1. UNCHANGED <<received, writing, events, chunk, sample, started, terminal, error>>
        /\ handler # "ended"
    BY <1>13 DEF HandlerCancels, CancelHandle, SetCancelled
  <2> QED
    BY <2>1 DEF IInv, SentInv, Sent
<1>14. CASE HandlerCounts
  <2>1. UNCHANGED <<received, writing, events, chunk, sample, started, terminal, error>>
        /\ handler # "ended"
    BY <1>14 DEF HandlerCounts, Count, IsCancellation
  <2> QED
    BY <2>1 DEF IInv, SentInv, Sent
<1>15. CASE HandlerLogs
  <2>1. UNCHANGED <<received, writing, events, chunk, sample, started, terminal, error>>
        /\ handler' = "ended"
    BY <1>15 DEF HandlerLogs, AddTerminalCallback
  <2> QED
    BY <2>1 DEF IInv, SentInv, Sent
<1>16. CASE UNCHANGED <<received, writing, events, chunk, sample, started, terminal, error,
                      handler>>
  BY <1>16 DEF IInv, SentInv, Sent
<1>17. ASSUME Take \/ StartFails \/ WorkerBegins \/ WorkerChecks \/ EmitAudio \/
             DeadlinePasses \/ RuntimeReturns \/ Release \/ WorkerEnds \/ Unload \/
             UnloadCancelsHandle \/ CancelRemoves \/ CancelEnds \/ Resolve \/ DoneCallback
             \/ ClientLeaves \/ (\E d \in TerminalCallbacks : RunCallback(d)) \/ UNCHANGED
             vars
      PROVE  SentInv'
  <2>1. UNCHANGED <<received, writing, events, chunk, sample, started, terminal, error,
                    handler>>
    BY <1>17
       DEF Take, StartFails, WorkerBegins, WorkerChecks, EmitAudio, DeadlinePasses,
           RuntimeReturns, Release, WorkerEnds, Unload, UnloadCancelsHandle, CancelRemoves,
           CancelEnds, Resolve, DoneCallback, ClientLeaves, RunCallback, vars,
           MarkDispatched, Return, Audio, EventAt, CancelHandle, SetCancelled, WakeWriter,
           WakeReader, Stopped, ResolveWaiter
  <2> QED
    BY <1>16, <2>1
<1> QED
  BY <1>1, <1>2, <1>3, <1>4, <1>5, <1>6, <1>7, <1>8, <1>9, <1>10, <1>11, <1>12, <1>13,
     <1>14, <1>15, <1>16, <1>17
     DEF Next, Runtime, Threads, Cancellation, EventLoop

LEMMA HandlerStep == IInv /\ [Next]_vars => HandlerInv'
<1> SUFFICES ASSUME IInv, [Next]_vars PROVE HandlerInv'
  OBVIOUS
<1> USE DEF bufferVars, handleVars, jobVars, runtimeVars, cancelVars, callbackVars, rpcVars
<1>1. CASE EmitStarted
  BY <1>1
     DEF EmitStarted, Return, StopError, AppendControl, WakeWriter, WakeReader, IInv,
         HandlerInv, Errors, Readable, Stopped, IsCancellation
<1>2. CASE EmitAudioLocked
  BY <1>2
     DEF EmitAudioLocked, Return, StopError, AppendAudio, WaitForRoom, WakeWriter,
         WakeReader, IInv, HandlerInv, Errors, Readable, Stopped, IsCancellation
<1>3. CASE Report
  BY <1>3
     DEF Report, FinishByWorker, Finish, WakeWriter, WakeReader, IInv, HandlerInv, Errors,
         Readable, Stopped, IsCancellation
<1>4. CASE Complete
  BY <1>4
     DEF Complete, FinishByWorker, Finish, WakeWriter, WakeReader, IInv, HandlerInv, Errors,
         Readable, Stopped, IsCancellation
<1>5. CASE UnloadCancelsHandle
  BY <1>5
     DEF UnloadCancelsHandle, CancelHandle, SetCancelled, WakeWriter, WakeReader, IInv,
         HandlerInv, Errors, Readable, Stopped, IsCancellation
<1>6. CASE CancelFails
  BY <1>6
     DEF CancelFails, Finish, WakeWriter, WakeReader, IInv, HandlerInv, Errors, Readable,
         Stopped, IsCancellation
<1>7. CASE Call
  BY <1>7
     DEF Call, AddTerminalCallback, Count, IInv, HandlerInv, Errors, Readable, Stopped,
         IsCancellation
<1>8. CASE CallRefused
  BY <1>8
     DEF CallRefused, Count, IInv, HandlerInv, Errors, Readable, Stopped, IsCancellation
<1>9. CASE Read
  <2>1. /\ handler = "reading" /\ caught = "none" /\ writing = <<>>
        /\ error \in Errors \union {"none"} /\ UNCHANGED <<rpc, cancelled, terminal>>
    BY <1>9 DEF Read, RegisterWaiter, PopEvent, IInv, HandlerInv, TypeOK, HandleTypeOK
  <2>2. CASE RegisterWaiter /\ handler' = "awaiting" /\ UNCHANGED <<caught, writing>>
    BY <2>1, <2>2 DEF RegisterWaiter, IInv, HandlerInv, Errors, Readable
  <2>3. CASE PopEvent /\ handler' = "writing" /\ writing' = <<Head(events)>> /\ UNCHANGED caught
    <3>1. writing' # <<>> /\ UNCHANGED waiter
      BY <2>3 DEF PopEvent
    <3> QED
      BY <2>1, <2>3, <3>1 DEF IInv, HandlerInv, Errors
  <2>4. CASE /\ Readable /\ ReadError # "none" /\ caught' = ReadError /\ handler' = "cancelling"
             /\ UNCHANGED <<handleVars, writing>>
    <3>1. /\ caught' \in Errors /\ UNCHANGED <<writing, events, waiter>>
          /\ caught' = "cancelled" => cancelled
          /\ caught' # "cancelled" => terminal /\ events = <<>>
      <4>1. CASE cancelled
        BY <2>4, <4>1 DEF ReadError, Errors
      <4>2. CASE ~cancelled
        <5>1. events = <<>> /\ caught' = error /\ error # "none"
          BY <2>4, <4>2 DEF ReadError
        <5>2. terminal /\ error # "cancelled"
          BY <4>2, <5>1 DEF IInv, WorkerInv
        <5> QED
          BY <2>1, <2>4, <5>1, <5>2
      <4>3. UNCHANGED <<writing, events, waiter>>
        BY <2>4
      <4> QED
        BY <4>1, <4>2, <4>3
    <3> QED
      BY <2>1, <2>4, <3>1 DEF IInv, HandlerInv, Errors, IsCancellation
  <2> QED
    BY <1>9, <2>2, <2>3, <2>4 DEF Read
<1>10. CASE Resolve
  BY <1>10
     DEF Resolve, ResolveWaiter, IInv, HandlerInv, Errors, Readable, Stopped, IsCancellation
<1>11. CASE Resume
  BY <1>11
     DEF Resume, DiscardWaiter, IInv, HandlerInv, Errors, Readable, Stopped, IsCancellation
<1>12. CASE TaskCancelled
  BY <1>12
     DEF TaskCancelled, DiscardWaiter, IInv, HandlerInv, Errors, Readable, Stopped,
         IsCancellation
<1>13. CASE WriteCancelled
  BY <1>13 DEF WriteCancelled, IInv, HandlerInv, Errors, Readable, Stopped, IsCancellation
<1>14. CASE Written
  BY <1>14 DEF Written, Count, IInv, HandlerInv, Errors, Readable, Stopped, IsCancellation
<1>15. CASE HandlerCancels
  BY <1>15
     DEF HandlerCancels, CancelHandle, SetCancelled, WakeWriter, WakeReader, IInv,
         HandlerInv, Errors, Readable, Stopped, IsCancellation
<1>16. CASE HandlerCounts
  BY <1>16
     DEF HandlerCounts, Count, IInv, HandlerInv, Errors, Readable, Stopped, IsCancellation
<1>17. CASE HandlerLogs
  BY <1>17
     DEF HandlerLogs, AddTerminalCallback, IInv, HandlerInv, Errors, Readable, Stopped,
         IsCancellation
<1>18. CASE DoneCallback
  BY <1>18
     DEF DoneCallback, CancelHandle, SetCancelled, WakeWriter, WakeReader, IInv, HandlerInv,
         Errors, Readable, Stopped, IsCancellation
<1>19. CASE ClientLeaves
  BY <1>19 DEF ClientLeaves, IInv, HandlerInv, Errors, Readable, Stopped, IsCancellation
<1>20. CASE UNCHANGED <<handler, caught, writing, rpc, cancelled, terminal, events, waiter>>
  BY <1>20 DEF IInv, HandlerInv, Errors, Readable, Stopped, IsCancellation
<1>21. ASSUME Take \/ StartFails \/ WorkerBegins \/ WorkerChecks \/ EmitAudio \/
             DeadlinePasses \/ RuntimeReturns \/ Release \/ WorkerEnds \/ Unload \/
             CancelRemoves \/ CancelEnds \/ (\E d \in TerminalCallbacks : RunCallback(d)) \/
             UNCHANGED vars
      PROVE  HandlerInv'
  <2>1. UNCHANGED <<handler, caught, writing, rpc, cancelled, terminal, events, waiter>>
    BY <1>21
       DEF Take, StartFails, WorkerBegins, WorkerChecks, EmitAudio, DeadlinePasses,
           RuntimeReturns, Release, WorkerEnds, Unload, CancelRemoves, CancelEnds,
           RunCallback, vars, MarkDispatched, Return, Audio, EventAt
  <2> QED
    BY <1>20, <2>1
<1> QED
  BY <1>1, <1>2, <1>3, <1>4, <1>5, <1>6, <1>7, <1>8, <1>9, <1>10, <1>11, <1>12, <1>13,
     <1>14, <1>15, <1>16, <1>17, <1>18, <1>19, <1>20, <1>21
     DEF Next, Runtime, Threads, Cancellation, EventLoop

LEMMA CallbackStep == IInv /\ [Next]_vars => CallbackInv'
<1> SUFFICES ASSUME IInv, [Next]_vars PROVE CallbackInv'
  OBVIOUS
<1> USE DEF bufferVars, handleVars, jobVars, runtimeVars, cancelVars, callbackVars, rpcVars
<1>1. CASE Report
  BY <1>1
     DEF Report, FinishByWorker, Finish, WakeWriter, WakeReader, IInv, CallbackInv,
         Registered, TerminalCallbacks, IsCancellation
<1>2. CASE Complete
  BY <1>2
     DEF Complete, FinishByWorker, Finish, WakeWriter, WakeReader, IInv, CallbackInv,
         Registered, TerminalCallbacks, IsCancellation
<1>3. CASE CancelFails
  BY <1>3
     DEF CancelFails, Finish, WakeWriter, WakeReader, IInv, CallbackInv, Registered,
         TerminalCallbacks, IsCancellation
<1>4. CASE Call
  BY <1>4
     DEF Call, AddTerminalCallback, Count, HandlerInv, TypeOK, HandlerTypeOK, WorkerInv,
         IInv, CallbackInv, Registered, TerminalCallbacks, IsCancellation
<1>5. CASE CallRefused
  BY <1>5
     DEF CallRefused, Count, IInv, CallbackInv, Registered, TerminalCallbacks,
         IsCancellation
<1>6. CASE Read
  <2>1. /\ handler = "reading" /\ caught = "none" /\ handler' \notin {"calling", "ended"}
        /\ UNCHANGED <<terminal, toRun, callbacks, doneCallback, ran>>
        /\ caught' \in Errors \union {"none"}
    BY <1>6 DEF Read, RegisterWaiter, PopEvent, ReadError, IInv, HandlerInv, TypeOK, HandleTypeOK,
           Errors
  <2> QED
    BY <2>1 DEF IInv, CallbackInv, Registered, Errors, IsCancellation
<1>7. CASE Resume
  BY <1>7
     DEF Resume, DiscardWaiter, IInv, CallbackInv, Registered, TerminalCallbacks,
         IsCancellation
<1>8. CASE TaskCancelled
  <2>1. /\ handler = "awaiting" /\ caught = "none" /\ handler' \notin {"calling", "ended"}
        /\ UNCHANGED <<terminal, toRun, callbacks, doneCallback, ran>>
        /\ caught' = "CancelledError"
    BY <1>8 DEF TaskCancelled, DiscardWaiter, IInv, HandlerInv
  <2> QED
    BY <2>1 DEF IInv, CallbackInv, Registered, Errors, IsCancellation
<1>9. CASE WriteCancelled
  <2>1. /\ handler = "writing" /\ caught = "none" /\ handler' \notin {"calling", "ended"}
        /\ UNCHANGED <<terminal, toRun, callbacks, doneCallback, ran>>
        /\ caught' \in {"CancelledError", "none"}
    BY <1>9 DEF WriteCancelled, IInv, HandlerInv
  <2> QED
    BY <2>1 DEF IInv, CallbackInv, Registered, Errors, IsCancellation
<1>10. CASE Written
  <2>1. /\ handler = "writing" /\ caught = "none" /\ handler' # "calling"
        /\ UNCHANGED <<terminal, toRun, callbacks, doneCallback, ran, caught>>
    BY <1>10 DEF Written, IInv, HandlerInv
  <2> QED
    BY <2>1 DEF IInv, CallbackInv, Registered, Errors, IsCancellation
<1>11. CASE HandlerCancels
  BY <1>11
     DEF HandlerCancels, CancelHandle, SetCancelled, WakeWriter, WakeReader, IInv,
         CallbackInv, Registered, TerminalCallbacks, IsCancellation
<1>12. CASE HandlerCounts
  BY <1>12
     DEF HandlerCounts, Count, IInv, CallbackInv, Registered, TerminalCallbacks,
         IsCancellation
<1>13. CASE HandlerLogs
  <2>1. /\ handler = "logging" /\ IsCancellation /\ handler' = "ended"
        /\ UNCHANGED <<terminal, toRun, doneCallback, caught>> /\ caught # "refused"
    BY <1>13 DEF HandlerLogs, AddTerminalCallback, IInv, HandlerInv
  <2>2. /\ ran \in [TerminalCallbacks -> Nat] /\ ran["log_release"] = 0
        /\ "log_release" \notin callbacks \union toRun
    BY <2>1 DEF IInv, CallbackInv, Registered, TypeOK, HandlerTypeOK, TerminalCallbacks
  <2>3. ~Registered("log_release") /\ Registered("log_release")'
        /\ Registered("stream_finished")' = Registered("stream_finished")
    BY <2>1 DEF Registered, IsCancellation
  <2>4. CASE AddTerminalCallback("log_release") /\ UNCHANGED ran
    BY <2>1, <2>2, <2>3, <2>4 DEF AddTerminalCallback, IInv, CallbackInv, TerminalCallbacks
  <2>5. CASE terminal /\ ran' = [ran EXCEPT !["log_release"] = @ + 1] /\ UNCHANGED handleVars
    <3>1. ran'["log_release"] = 1 /\ ran'["stream_finished"] = ran["stream_finished"]
      BY <2>2, <2>5 DEF TerminalCallbacks
    <3>2. UNCHANGED callbacks
      BY <2>5
    <3> QED
      BY <2>1, <2>2, <2>3, <2>5, <3>1, <3>2 DEF IInv, CallbackInv, TerminalCallbacks
  <2> QED
    BY <1>13, <2>4, <2>5 DEF HandlerLogs
<1>14. CASE DoneCallback
  BY <1>14
     DEF DoneCallback, CancelHandle, SetCancelled, WakeWriter, WakeReader, IInv,
         CallbackInv, Registered, TerminalCallbacks, IsCancellation
<1>15. ASSUME NEW d \in TerminalCallbacks, RunCallback(d)
      PROVE  CallbackInv'
  <2>1. /\ ran \in [TerminalCallbacks -> Nat] /\ ran[d] \in Nat /\ d \in toRun
        /\ toRun' = toRun \ {d} /\ ran' = [ran EXCEPT ![d] = ran[d] + 1]
        /\ UNCHANGED <<terminal, callbacks, doneCallback, handler, caught>>
    BY <1>15 DEF RunCallback, IInv, TypeOK, HandlerTypeOK
  <2>2. \A c \in TerminalCallbacks : Registered(c)' = Registered(c)
    BY <2>1 DEF Registered, IsCancellation
  <2>3. ran'[d] = ran[d] + 1 /\ \A c \in TerminalCallbacks \ {d} : ran'[c] = ran[c]
    BY <2>1
  <2> QED
    BY <2>1, <2>2, <2>3 DEF IInv, CallbackInv
<1>16. CASE UNCHANGED <<terminal, toRun, callbacks, doneCallback, handler, caught, ran>>
  BY <1>16 DEF IInv, CallbackInv, Registered, TerminalCallbacks, IsCancellation
<1>17. ASSUME Take \/ StartFails \/ WorkerBegins \/ WorkerChecks \/ EmitStarted \/ EmitAudio
             \/ DeadlinePasses \/ EmitAudioLocked \/ RuntimeReturns \/ Release \/ WorkerEnds
             \/ Unload \/ UnloadCancelsHandle \/ CancelRemoves \/ CancelEnds \/ Resolve \/
             ClientLeaves \/ UNCHANGED vars
      PROVE  CallbackInv'
  <2>1. UNCHANGED <<terminal, toRun, callbacks, doneCallback, handler, caught, ran>>
    BY <1>17
       DEF Take, StartFails, WorkerBegins, WorkerChecks, EmitStarted, EmitAudio,
           DeadlinePasses, EmitAudioLocked, RuntimeReturns, Release, WorkerEnds, Unload,
           UnloadCancelsHandle, CancelRemoves, CancelEnds, Resolve, ClientLeaves, vars,
           MarkDispatched, Return, StopError, AppendControl, WakeWriter, WakeReader,
           Stopped, Audio, EventAt, AppendAudio, WaitForRoom, CancelHandle, SetCancelled,
           ResolveWaiter
  <2> QED
    BY <1>16, <2>1
<1> QED
  BY <1>1, <1>2, <1>3, <1>4, <1>5, <1>6, <1>7, <1>8, <1>9, <1>10, <1>11, <1>12, <1>13,
     <1>14, <1>15, <1>16, <1>17
     DEF Next, Runtime, Threads, Cancellation, EventLoop

LEMMA CountStep == IInv /\ [Next]_vars => CountInv'
<1> SUFFICES ASSUME IInv, [Next]_vars PROVE CountInv'
  OBVIOUS
<1> USE DEF bufferVars, handleVars, jobVars, runtimeVars, cancelVars, callbackVars, rpcVars
<1>1. CASE Call
  BY <1>1
     DEF Call, AddTerminalCallback, Count, TypeOK, HandlerTypeOK, IInv, CountInv, Counted,
         Statuses, CounterNames, IsCancellation
<1>2. CASE CallRefused
  <2>1. /\ counters \in [CounterNames -> Nat] /\ handler = "calling" /\ handler' = "ended"
        /\ Count({"requests_total", "status_error"})
    BY <1>2 DEF CallRefused, IInv, TypeOK, HandlerTypeOK
  <2>2. Statuses' = Statuses + 1 /\ Statuses = 0
    BY <2>1 DEF Statuses, Count, CounterNames, IInv, CountInv, Counted
  <2>3. UNCHANGED <<counters["queued_cancellations"], counters["active_cancellations"],
                    counters["status_cancelled"]>>
    BY <2>1 DEF Count, CounterNames
  <2> QED
    BY <2>1, <2>2, <2>3 DEF IInv, CountInv, Counted
<1>3. CASE Read
  <2>1. /\ handler = "reading" /\ caught = "none" /\ UNCHANGED counters
        /\ caught' \in Errors \union {"none"}
        /\ handler' \in {"awaiting", "writing", "cancelling"}
    BY <1>3 DEF Read, RegisterWaiter, PopEvent, ReadError, IInv, HandlerInv, TypeOK, HandleTypeOK,
           Errors
  <2> QED
    BY <2>1 DEF IInv, CountInv, Counted, Statuses, Errors
<1>4. CASE Resume
  BY <1>4
     DEF Resume, DiscardWaiter, IInv, CountInv, Counted, Statuses, CounterNames,
         IsCancellation
<1>5. CASE TaskCancelled
  BY <1>5
     DEF TaskCancelled, DiscardWaiter, IInv, CountInv, Counted, Statuses, CounterNames,
         IsCancellation
<1>6. CASE WriteCancelled
  BY <1>6
     DEF WriteCancelled, IInv, CountInv, Counted, Statuses, CounterNames, IsCancellation
<1>7. CASE Written
  BY <1>7
     DEF Written, Count, TypeOK, HandlerTypeOK, HandlerInv, IInv, CountInv, Counted,
         Statuses, CounterNames, IsCancellation
<1>8. CASE HandlerCancels
  BY <1>8
     DEF HandlerCancels, CancelHandle, SetCancelled, WakeWriter, WakeReader, IInv, CountInv,
         Counted, Statuses, CounterNames, IsCancellation
<1>9. CASE HandlerCounts
  <2>1. /\ counters \in [CounterNames -> Nat] /\ handler = "classifying"
        /\ UNCHANGED caught
        /\ \/ handler' \in {"logging", "ended"}
           \/ handler' = "cancelling" /\ caught = "CancelledError"
    BY <1>9 DEF HandlerCounts, IInv, TypeOK, HandlerTypeOK
  <2>2. Statuses = 0 /\ Counted'
    BY <2>1 DEF IInv, CountInv, Counted
  <2>6. /\ counters["status_ok"] \in Nat /\ counters["status_cancelled"] \in Nat
        /\ counters["status_error"] \in Nat /\ counters["queued_cancellations"] \in Nat
        /\ counters["active_cancellations"] \in Nat
    BY <2>1 DEF CounterNames
  <2>3. CASE Count({"status_error"})
    <3>1. /\ counters'["status_ok"] = counters["status_ok"] + 0
          /\ counters'["status_cancelled"] = counters["status_cancelled"] + 0
          /\ counters'["status_error"] = counters["status_error"] + 1
          /\ counters'["queued_cancellations"] = counters["queued_cancellations"] + 0
          /\ counters'["active_cancellations"] = counters["active_cancellations"] + 0
      BY <2>3 DEF Count, CounterNames
    <3>2. Statuses' = Statuses + 1
      BY <2>6, <3>1 DEF Statuses
    <3>3. counters'["queued_cancellations"] + counters'["active_cancellations"] =
             counters'["status_cancelled"]
      <4>1. counters["queued_cancellations"] + counters["active_cancellations"] =
               counters["status_cancelled"]
        BY DEF IInv, CountInv
      <4> QED
        BY <2>6, <3>1, <4>1
    <3> QED
      BY <2>2, <3>2, <3>3 DEF CountInv
  <2>4. CASE Count({"status_cancelled", "active_cancellations"})
    <3>1. /\ counters'["status_ok"] = counters["status_ok"] + 0
          /\ counters'["status_cancelled"] = counters["status_cancelled"] + 1
          /\ counters'["status_error"] = counters["status_error"] + 0
          /\ counters'["queued_cancellations"] = counters["queued_cancellations"] + 0
          /\ counters'["active_cancellations"] = counters["active_cancellations"] + 1
      BY <2>4 DEF Count, CounterNames
    <3>2. Statuses' = Statuses + 1
      BY <2>6, <3>1 DEF Statuses
    <3>3. counters'["queued_cancellations"] + counters'["active_cancellations"] =
             counters'["status_cancelled"]
      <4>1. counters["queued_cancellations"] + counters["active_cancellations"] =
               counters["status_cancelled"]
        BY DEF IInv, CountInv
      <4> QED
        BY <2>6, <3>1, <4>1
    <3> QED
      BY <2>2, <3>2, <3>3 DEF CountInv
  <2>5. CASE Count({"status_cancelled", "queued_cancellations"})
    <3>1. /\ counters'["status_ok"] = counters["status_ok"] + 0
          /\ counters'["status_cancelled"] = counters["status_cancelled"] + 1
          /\ counters'["status_error"] = counters["status_error"] + 0
          /\ counters'["queued_cancellations"] = counters["queued_cancellations"] + 1
          /\ counters'["active_cancellations"] = counters["active_cancellations"] + 0
      BY <2>5 DEF Count, CounterNames
    <3>2. Statuses' = Statuses + 1
      BY <2>6, <3>1 DEF Statuses
    <3>3. counters'["queued_cancellations"] + counters'["active_cancellations"] =
             counters'["status_cancelled"]
      <4>1. counters["queued_cancellations"] + counters["active_cancellations"] =
               counters["status_cancelled"]
        BY DEF IInv, CountInv
      <4> QED
        BY <2>6, <3>1, <4>1
    <3> QED
      BY <2>2, <3>2, <3>3 DEF CountInv
  <2> QED
    BY <1>9, <2>3, <2>4, <2>5 DEF HandlerCounts
<1>10. CASE HandlerLogs
  BY <1>10
     DEF HandlerLogs, AddTerminalCallback, IInv, CountInv, Counted, Statuses, CounterNames,
         IsCancellation
<1>11. CASE UNCHANGED <<counters, handler, caught>>
  BY <1>11 DEF IInv, CountInv, Counted, Statuses, CounterNames, IsCancellation
<1>12. ASSUME Take \/ StartFails \/ WorkerBegins \/ WorkerChecks \/ EmitStarted \/ EmitAudio
             \/ DeadlinePasses \/ EmitAudioLocked \/ RuntimeReturns \/ Release \/ Report \/
             Complete \/ WorkerEnds \/ Unload \/ UnloadCancelsHandle \/ CancelRemoves \/
             CancelFails \/ CancelEnds \/ Resolve \/ DoneCallback \/ ClientLeaves \/ (\E d
             \in TerminalCallbacks : RunCallback(d)) \/ UNCHANGED vars
      PROVE  CountInv'
  <2>1. UNCHANGED <<counters, handler, caught>>
    BY <1>12
       DEF Take, StartFails, WorkerBegins, WorkerChecks, EmitStarted, EmitAudio,
           DeadlinePasses, EmitAudioLocked, RuntimeReturns, Release, Report, Complete,
           WorkerEnds, Unload, UnloadCancelsHandle, CancelRemoves, CancelFails, CancelEnds,
           Resolve, DoneCallback, ClientLeaves, RunCallback, vars, MarkDispatched, Return,
           StopError, AppendControl, WakeWriter, WakeReader, Stopped, Audio, EventAt,
           AppendAudio, WaitForRoom, FinishByWorker, Finish, CancelHandle, SetCancelled,
           ResolveWaiter
  <2> QED
    BY <1>11, <2>1
<1> QED
  BY <1>1, <1>2, <1>3, <1>4, <1>5, <1>6, <1>7, <1>8, <1>9, <1>10, <1>11, <1>12
     DEF Next, Runtime, Threads, Cancellation, EventLoop

----------------------------------------------------------------------------
(* The invariant *)

LEMMA InitIInv == Init => IInv
<1> SUFFICES ASSUME Init PROVE IInv
  OBVIOUS
<1>1. HandleTypeOK
  <2>1. /\ events = <<>> /\ bufferedChunks = 0 /\ bufferedSamples = 0 /\ dispatched = FALSE
        /\ terminal = FALSE /\ cancelled = FALSE /\ error = "none" /\ writerWaits = FALSE
        /\ waiter = "none"
    BY DEF Init, HandleInit
  <2>2. events \in Seq(Events)
    BY <2>1, EmptySeq
  <2>3. bufferedChunks \in Int /\ bufferedSamples \in Int
    BY <2>1
  <2>4. /\ dispatched \in BOOLEAN /\ terminal \in BOOLEAN /\ cancelled \in BOOLEAN
        /\ writerWaits \in BOOLEAN
    BY <2>1
  <2> QED
    BY <2>1, <2>2, <2>3, <2>4, Zenon DEF HandleTypeOK
<1>2. WorkTypeOK
  BY DEF Init, HandleInit, WorkTypeOK, Errors, Started, EventAt, Events
<1>3. HandlerTypeOK
  BY DEF Init, HandleInit, HandlerTypeOK, Errors
<1>4. Sent = <<>> /\ Linked(Sent, chunk, sample) /\ Linked(events, chunk, sample)
  BY DEF Init, HandleInit, Sent, Linked
<1>5. BufferInv
  BY <1>4, HandleAssumption DEF Init, HandleInit, BufferInv, HandleAssumption
<1>6. WorkerInv
  BY DEF Init, HandleInit, WorkerInv
<1>7. SentInv
  BY <1>4 DEF Init, HandleInit, SentInv, HasCompleted
<1>8. HandlerInv
  BY DEF Init, HandleInit, HandlerInv, IsCancellation, Errors, Readable
<1>9. CallbackInv
  BY DEF Init, HandleInit, CallbackInv, Registered, TerminalCallbacks, IsCancellation
<1>10. CountInv
  BY DEF Init, HandleInit, CountInv, Statuses, Counted, CounterNames
<1>11. WriterNotForgotten
  BY DEF Init, HandleInit, WriterNotForgotten
<1> QED
  BY <1>1, <1>2, <1>3, <1>5, <1>6, <1>7, <1>8, <1>9, <1>10, <1>11 DEF IInv, TypeOK

\* The inductive invariant of a stream: its buffer, its threads and its handler
\* agree on where it stands, whatever the sizes of the buffer and the chunks.
THEOREM StreamInvariance == Spec => []IInv
<1>1. Init => IInv
  BY InitIInv
<1>2. IInv /\ [Next]_vars => IInv'
  BY HandleTypeStep, WorkTypeStep, HandlerTypeStep, BufferStep, WorkerStep, SentStep,
     HandlerStep, CallbackStep, CountStep, WriterStep DEF IInv, TypeOK
<1> QED
  BY <1>1, <1>2, PTL DEF Spec

LEMMA Accounted == IInv => BufferAccounting
<1> SUFFICES ASSUME IInv PROVE BufferAccounting
  OBVIOUS
<1>1. /\ events \in Seq(Events) /\ Linked(events, chunk, sample)
      /\ chunk \in Nat /\ sample \in Nat
      /\ bufferedChunks = IF events = <<>> THEN 0 ELSE chunk - events[1].chunk
      /\ bufferedSamples = IF events = <<>> THEN 0 ELSE sample - events[1].sample
      /\ bufferedChunks <= MaxBufferChunks /\ bufferedSamples <= MaxBufferSamples
  BY DEF IInv, TypeOK, HandleTypeOK, WorkTypeOK, BufferInv
<1>2. CASE events = <<>>
  <2>1. AudioAt(events) = {}
    BY <1>2 DEF AudioAt
  <2>2. Cardinality(AudioAt(events)) = 0
    BY <2>1, FS_EmptySet
  <2>3. SizeOf(events, {}) = 0
    <3>1. IsFiniteSet({}) /\ \A i \in {} : events[i].size \in Int
      BY FS_EmptySet
    <3> QED
      BY <3>1, SizeOfRest
  <2>4. SizeOf(events, AudioAt(events)) = 0
    BY <2>1, <2>3
  <2> QED
    BY <1>1, <1>2, <2>2, <2>4 DEF BufferAccounting, SizeOf
<1>3. CASE events # <<>>
  <2>1. /\ Cardinality(AudioAt(events)) = chunk - events[1].chunk
        /\ SizeOf(events, AudioAt(events)) = sample - events[1].sample
    BY <1>1, <1>3, LinkedAudio
  <2> QED
    BY <1>1, <1>3, <2>1 DEF BufferAccounting, SizeOf
<1> QED
  BY <1>2, <1>3

\* The counters emit_audio waits on are those of the audio in the buffer, and
\* no limit is exceeded, for every capacity of the buffer and every chunk size.
THEOREM BufferSafety == Spec => []BufferAccounting
<1>1. IInv => BufferAccounting
  BY Accounted
<1> QED
  BY <1>1, StreamInvariance, PTL

\* Neither the runtime's thread nor the handler sleeps through what it waits
\* for, and a handler that reads is answered.
THEOREM WakeSafety == Spec => []NobodyForgotten
<1>1. IInv => NobodyForgotten
  <2> SUFFICES ASSUME IInv PROVE NobodyForgotten
    OBVIOUS
  <2>1. WriterNotForgotten
    BY DEF IInv
  <2>2. ReaderNotForgotten
    <3>1. waiter = "registered" => handler = "awaiting"
      BY DEF IInv, HandlerInv
    <3> QED
      BY <3>1 DEF IInv, HandlerInv, ReaderNotForgotten
  <2>3. ASSUME handler \in {"reading", "awaiting"}, Readable, events = <<>>, ReadError = "none"
        PROVE  FALSE
    <3>1. ~cancelled /\ terminal /\ error = "none" /\ writing = <<>>
      BY <2>3 DEF Readable, ReadError, IInv, HandlerInv
    <3>2. HasCompleted(Sent) /\ ~HasCompleted(received)
      BY <2>3, <3>1 DEF IInv, SentInv
    <3>3. Sent = received
      BY <2>3, <3>1, SentTyped, ConcatEmptySeq DEF Sent
    <3> QED
      BY <3>2, <3>3
  <2> QED
    BY <2>1, <2>2, <2>3 DEF NobodyForgotten, EveryReadIsAnswered
<1> QED
  BY <1>1, StreamInvariance, PTL

\* A terminal callback that was registered is registered, about to run or has
\* run, and only one of these.
THEOREM CallbackSafety == Spec => []CallbacksAccounted
<1>1. IInv => CallbacksAccounted
  <2> SUFFICES ASSUME IInv PROVE CallbacksAccounted
    OBVIOUS
  <2> DEFINE P(c) == {s \in {"registered", "due"} : \/ s = "registered" /\ c \in callbacks
                                                    \/ s = "due" /\ c \in toRun}
  <2>1. ASSUME NEW c \in TerminalCallbacks
        PROVE  ran[c] + Cardinality(P(c)) = IF Registered(c) THEN 1 ELSE 0
    <3>1. CASE c \notin callbacks /\ c \notin toRun
      <4>1. P(c) = {}
        BY <3>1
      <4>2. Cardinality(P(c)) = 0
        BY <4>1, FS_EmptySet
      <4> QED
        BY <2>1, <3>1, <4>2 DEF IInv, CallbackInv
    <3>2. CASE c \in callbacks /\ c \notin toRun
      <4>1. P(c) = {"registered"}
        BY <3>2
      <4>2. Cardinality(P(c)) = 1
        BY <4>1, FS_Singleton
      <4> QED
        BY <2>1, <3>2, <4>2 DEF IInv, CallbackInv
    <3>3. CASE c \notin callbacks /\ c \in toRun
      <4>1. P(c) = {"due"}
        BY <3>3
      <4>2. Cardinality(P(c)) = 1
        BY <4>1, FS_Singleton
      <4> QED
        BY <2>1, <3>3, <4>2 DEF IInv, CallbackInv
    <3> QED
      BY <2>1, <3>1, <3>2, <3>3 DEF IInv, CallbackInv
  <2> QED
    BY <2>1 DEF CallbacksAccounted, IInv, CallbackInv
<1> QED
  BY <1>1, StreamInvariance, PTL

\* Every RPC is counted under one status, and every cancelled one as queued or
\* active, whichever way its cancellation reaches the handler.
THEOREM CountSafety == Spec => []CountedOnce
<1>1. IInv => CountedOnce
  BY DEF IInv, CountInv, Counted, HandlerInv, CountedOnce
<1> QED
  BY <1>1, StreamInvariance, PTL

----------------------------------------------------------------------------
(* The stream implements its contract *)

Withdrawn == cancelled \/ rpc = "left"

\* A step of the contract, or of none of its variables.
Allowed == Contract!ContractNext \/ UNCHANGED Contract!contractVars

LEMMA Open == handler \notin {"ended", "dropped"} => Ending = "open"
BY DEF Ending

LEMMA Stutters ==
    ASSUME Sent' = Sent, UNCHANGED received, Ending' = Ending, Withdrawn' = Withdrawn
    PROVE  Allowed
BY DEF Allowed, Contract!contractVars, Sent, Withdrawn

LEMMA Withdraws ==
    ASSUME Sent' = Sent, UNCHANGED received, Ending' = Ending, Withdrawn'
    PROVE  Allowed
BY DEF Allowed, Contract!ContractNext, Contract!Withdraw, Sent, Withdrawn

LEMMA GivesUp ==
    ASSUME Sent' = Sent, UNCHANGED received, Ending = "open", Ending' = "cancelled",
           Withdrawn, Withdrawn'
    PROVE  Allowed
BY DEF Allowed, Contract!ContractNext, Contract!GiveUp, Sent, Withdrawn

LEMMA Fails ==
    ASSUME Sent' = Sent, UNCHANGED received, Ending = "open", Ending' = "failed",
           received = Sent, Withdrawn' = Withdrawn
    PROVE  Allowed
BY DEF Allowed, Contract!ContractNext, Contract!Fail, Sent, Withdrawn

\* What the contract calls the last event and the place of the next.
LEMMA LastOfAppend ==
    ASSUME NEW q \in Seq(Events), NEW e \in Events
    PROVE  Contract!Last(Append(q, e)) = e
<1>1. Len(Append(q, e)) = Len(q) + 1 /\ Append(q, e)[Len(q) + 1] = e /\ Len(q) \in Nat
  BY AppendProperties, LenProperties
<1> QED
  BY <1>1 DEF Contract!Last

LEMMA Place ==
    ASSUME NEW q \in Seq(Events), NEW c, NEW s, Linked(q, c, s), q # <<>>
    PROVE  LET e == Contract!Last(q)
           IN  /\ e \in Events
               /\ c = (IF e.kind = "audio" THEN e.chunk + 1 ELSE e.chunk)
               /\ s = (IF e.kind = "audio" THEN e.sample + e.size ELSE e.sample)
<1> DEFINE n == Len(q)
<1>1. n \in Nat \ {0} /\ n \in 1 .. n
  BY EmptySeq, LenProperties
<1>2. q[n] \in Events /\ Contract!Last(q) = q[n]
  BY <1>1 DEF Contract!Last
<1>3. /\ q[n].chunk + (IF IsAudio(q[n]) THEN 1 ELSE 0) = c
      /\ q[n].sample + q[n].size = s
      /\ ~IsAudio(q[n]) => q[n].size = 0
  BY <1>1 DEF Linked
<1>4. q[n].chunk \in Nat /\ q[n].sample \in Nat /\ q[n].size \in Nat
  BY <1>2 DEF Events
<1> HIDE DEF n
<1>5. CASE IsAudio(q[n])
  BY <1>2, <1>3, <1>4, <1>5 DEF IsAudio
<1>6. CASE ~IsAudio(q[n])
  BY <1>2, <1>3, <1>4, <1>6 DEF IsAudio
<1> QED
  BY <1>5, <1>6

LEMMA Sends ==
    ASSUME IInv, NEW e \in Events, Sent' = Append(Sent, e),
           e.chunk = chunk, e.sample = sample, started <=> e.kind # "started",
           ~HasCompleted(Sent),
           UNCHANGED received, Ending' = Ending, Withdrawn' = Withdrawn
    PROVE  Allowed
<1>1. /\ Sent \in Seq(Events) /\ Linked(Sent, chunk, sample)
      /\ started <=> Sent # <<>>
      /\ Sent = <<>> => chunk = 0 /\ sample = 0
  BY SentTyped DEF IInv, SentInv
<1>2. Contract!Last(Sent') = e /\ Sent' # Sent
  <2>1. Len(Sent') = Len(Sent) + 1 /\ Len(Sent) \in Nat
    BY <1>1, AppendProperties, LenProperties
  <2>2. Contract!Last(Append(Sent, e)) = e
    BY <1>1, LastOfAppend
  <2>3. Len(Sent') # Len(Sent)
    BY <2>1
  <2> QED
    BY <2>2, <2>3
<1>3. Sent # <<>> => Contract!Last(Sent).kind # "completed"
  <2> SUFFICES ASSUME Sent # <<>> PROVE Contract!Last(Sent).kind # "completed"
    OBVIOUS
  <2>1. Len(Sent) \in DOMAIN Sent
    BY <1>1, EmptySeq, LenProperties
  <2> QED
    BY <2>1 DEF HasCompleted, Contract!Last
<1>4. <<e.chunk, e.sample>> = Contract!NextPlace
  <2>1. CASE Sent = <<>>
    BY <1>1, <2>1 DEF Contract!NextPlace, Sent
  <2>2. CASE Sent # <<>>
    <3>1. /\ chunk = (IF Contract!Last(Sent).kind = "audio"
                      THEN Contract!Last(Sent).chunk + 1 ELSE Contract!Last(Sent).chunk)
          /\ sample = (IF Contract!Last(Sent).kind = "audio"
                       THEN Contract!Last(Sent).sample + Contract!Last(Sent).size
                       ELSE Contract!Last(Sent).sample)
      BY <1>1, <2>2, Place
    <3> QED
      BY <2>2, <3>1 DEF Contract!NextPlace, Sent
  <2> QED
    BY <2>1, <2>2
<1>5. Contract!Send(e)
  <2>1. Sent = <<>> <=> e.kind = "started"
    BY <1>1
  <2>2. UNCHANGED (cancelled \/ rpc = "left")
    BY DEF Withdrawn
  <2> QED
    BY <1>3, <1>4, <2>1, <2>2, Zenon DEF Contract!Send, Sent
<1> QED
  BY <1>2, <1>5 DEF Allowed, Contract!ContractNext, Sent

LEMMA NextReceived ==
    ASSUME NEW r \in Seq(Events), NEW w \in Seq(Events), NEW q \in Seq(Events), Len(w) = 1
    PROVE  Len(r) < Len(r \o w \o q) /\ (r \o w \o q)[Len(r) + 1] = w[1]
<1>1. Len(r) \in Nat /\ Len(q) \in Nat
  BY LenProperties
<1>2. /\ r \o w \in Seq(Events) /\ Len(r \o w) = Len(r) + Len(w)
      /\ \A i \in 1 .. Len(r) + Len(w) :
            (r \o w)[i] = IF i <= Len(r) THEN r[i] ELSE w[i - Len(r)]
  BY ConcatProperties
<1>3. /\ Len(r \o w \o q) = Len(r \o w) + Len(q)
      /\ \A i \in 1 .. Len(r \o w) + Len(q) :
            (r \o w \o q)[i] = IF i <= Len(r \o w) THEN (r \o w)[i] ELSE q[i - Len(r \o w)]
  BY <1>2, ConcatProperties
<1>4. /\ Len(r) + 1 \in 1 .. Len(r) + 1 /\ Len(r) + 1 \in 1 .. (Len(r) + 1) + Len(q)
      /\ (Len(r) + 1) - Len(r) = 1 /\ ~(Len(r) + 1 <= Len(r)) /\ Len(r) + 1 <= Len(r) + 1
      /\ Len(r) < (Len(r) + 1) + Len(q)
  BY <1>1
<1> QED
  BY <1>2, <1>3, <1>4

LEMMA Receives ==
    ASSUME IInv, handler = "writing", Sent' = Sent, received' = received \o writing,
           Ending' = IF writing[1].kind = "completed" THEN "ok" ELSE "open",
           Withdrawn' = Withdrawn
    PROVE  Allowed
<1>1. writing # <<>> /\ Ending = "open"
  BY Open DEF IInv, HandlerInv
<1>2. writing \in Seq(Events) /\ Len(writing) = 1
  <2>1. writing \in Seq(Events) /\ Len(writing) <= 1
    BY DEF IInv, TypeOK, HandlerTypeOK
  <2>2. Len(writing) \in Nat /\ Len(writing) # 0
    BY <1>1, <2>1, EmptySeq, LenProperties
  <2>3. \A n \in Nat : n <= 1 /\ n # 0 => n = 1
    OBVIOUS
  <2> QED
    BY <2>1, <2>2, <2>3, Zenon
<1>3. writing[1] \in Events /\ writing = <<writing[1]>>
  BY <1>2, Single
<1>4. received' = Append(received, writing[1])
  BY <1>3, SentTyped, AppendIsConcat
<1>5. Contract!Last(received') = writing[1]
  BY <1>3, <1>4, SentTyped, LastOfAppend
<1>6. Len(received) < Len(Sent) /\ Sent[Len(received) + 1] = writing[1]
  BY <1>2, SentTyped, NextReceived DEF Sent
<1>7. Contract!Receive
  BY <1>1, <1>4, <1>5, <1>6 DEF Contract!Receive, Sent, Withdrawn
<1> QED
  BY <1>7 DEF Allowed, Contract!ContractNext

\* Every step of the threads is one of the contract.
LEMMA ContractStep == IInv /\ [Next]_vars => Allowed
<1> SUFFICES ASSUME IInv, [Next]_vars PROVE Allowed
  OBVIOUS
<1> USE DEF bufferVars, handleVars, jobVars, runtimeVars, cancelVars, callbackVars, rpcVars
<1>1. CASE EmitStarted
  <2>1. CASE Stopped
    <3>1. UNCHANGED <<received, writing, events, handler, caught, rpc, cancelled>>
      BY <1>1, <2>1 DEF EmitStarted, Return
    <3> QED
      BY <3>1, Stutters DEF Sent, Withdrawn, Ending, IsCancellation
  <2>2. CASE ~Stopped
    <3>1. /\ events' = Append(events, Started)
          /\ UNCHANGED <<received, writing, handler, caught, rpc, cancelled>>
      BY <1>1, <2>2 DEF EmitStarted, AppendControl
    <3>2. /\ Started \in Events /\ Started.chunk = 0 /\ Started.sample = 0
          /\ Started.kind = "started"
      BY DEF Started, EventAt, Events
    <3>6. ~started /\ ~terminal
      BY <1>1, <2>2 DEF EmitStarted, Stopped
    <3>3. ~started /\ ~HasCompleted(Sent) /\ chunk = 0 /\ sample = 0
      BY <3>6 DEF IInv, SentInv
    <3>4. Sent' = Append(Sent, Started)
      BY <3>1, <3>2, SentAppend
    <3>5. Ending' = Ending /\ Withdrawn' = Withdrawn
      BY <3>1 DEF Ending, IsCancellation, Withdrawn
    <3> QED
      BY <3>1, <3>2, <3>3, <3>4, <3>5, Sends
  <2> QED
    BY <2>1, <2>2
<1>2. CASE EmitAudioLocked
  <2>1. CASE Stopped \/ ~HasRoom(emitting.size)
    <3>1. UNCHANGED <<received, writing, events, handler, caught, rpc, cancelled>>
      BY <1>2, <2>1 DEF EmitAudioLocked, Return, WaitForRoom
    <3> QED
      BY <3>1, Stutters DEF Sent, Withdrawn, Ending, IsCancellation
  <2>2. CASE ~Stopped /\ HasRoom(emitting.size)
    <3>1. /\ events' = Append(events, emitting)
          /\ UNCHANGED <<received, writing, handler, caught, rpc, cancelled>>
      BY <1>2, <2>2 DEF EmitAudioLocked, AppendAudio
    <3>6. emitting = Audio(chunk, sample, emitting.size) /\ emitting \in Events
      BY <1>2 DEF EmitAudioLocked, IInv, TypeOK, WorkTypeOK, BufferInv
    <3>2. /\ emitting \in Events /\ emitting.chunk = chunk /\ emitting.sample = sample
          /\ emitting.kind = "audio"
      BY <3>6 DEF Audio, EventAt
    <3>3. started /\ ~HasCompleted(Sent)
      BY <1>2, <2>2 DEF EmitAudioLocked, Stopped, IInv, SentInv, WorkerInv
    <3>4. Sent' = Append(Sent, emitting)
      BY <3>1, <3>2, SentAppend
    <3>5. Ending' = Ending /\ Withdrawn' = Withdrawn
      BY <3>1 DEF Ending, IsCancellation, Withdrawn
    <3> QED
      BY <3>1, <3>2, <3>3, <3>4, <3>5, Sends
  <2> QED
    BY <2>1, <2>2
<1>3. CASE Report
  <2>1. /\ events' = events \o <<>> \/ events' = events
        /\ UNCHANGED <<received, writing, handler, caught, rpc, cancelled>>
    BY <1>3 DEF Report, FinishByWorker, Finish
  <2>2. Sent' = Sent
    BY <2>1 DEF Sent, IInv, TypeOK, HandleTypeOK
  <2> QED
    BY <2>1, <2>2, Stutters DEF Withdrawn, Ending, IsCancellation
<1>4. CASE Complete
  <2>1. CASE terminal
    <3>1. UNCHANGED <<received, writing, events, handler, caught, rpc, cancelled>>
      BY <1>4, <2>1 DEF Complete, FinishByWorker
    <3> QED
      BY <3>1, Stutters DEF Sent, Withdrawn, Ending, IsCancellation
  <2>2. CASE ~terminal
    <3>1. /\ events' = events \o <<Completed(chunk, sample)>>
          /\ UNCHANGED <<received, writing, handler, caught, rpc, cancelled>>
      BY <1>4, <2>2 DEF Complete, FinishByWorker, Finish
    <3> DEFINE e == Completed(chunk, sample)
    <3>6. events' = events \o <<e>>
      BY <3>1
    <3>7. chunk \in Nat /\ sample \in Nat
      BY DEF IInv, TypeOK, WorkTypeOK
    <3>2. e \in Events /\ e.chunk = chunk /\ e.sample = sample /\ e.kind = "completed"
      BY <3>7 DEF Completed, EventAt, Events
    <3>3. started /\ ~HasCompleted(Sent)
      BY <1>4, <2>2 DEF Complete, IInv, SentInv, WorkerInv
    <3> HIDE DEF e
    <3>4. Sent' = Append(Sent, e)
      BY <3>1, <3>2, <3>6, SentAppend
    <3>5. Ending' = Ending /\ Withdrawn' = Withdrawn
      BY <3>1 DEF Ending, IsCancellation, Withdrawn
    <3> QED
      BY <3>1, <3>2, <3>3, <3>4, <3>5, Sends
  <2> QED
    BY <2>1, <2>2
<1>5. CASE UnloadCancelsHandle
  <2>1. /\ UNCHANGED <<received, writing, events, rpc, handler, caught>>
        /\ UNCHANGED cancelled \/ cancelled'
    BY <1>5 DEF UnloadCancelsHandle, CancelHandle, SetCancelled
  <2>2. Sent' = Sent /\ Ending' = Ending
    BY <2>1 DEF Sent, Ending, IsCancellation
  <2>3. CASE UNCHANGED cancelled
    BY <2>1, <2>2, <2>3, Stutters DEF Withdrawn
  <2>4. CASE cancelled'
    BY <2>1, <2>2, <2>4, Withdraws DEF Withdrawn
  <2> QED
    BY <2>1, <2>3, <2>4
<1>6. CASE CancelFails
  <2>1. /\ events' = events \o <<>> \/ events' = events
        /\ UNCHANGED <<received, writing, handler, caught, rpc, cancelled>>
    BY <1>6 DEF CancelFails, Finish
  <2>2. Sent' = Sent
    BY <2>1 DEF Sent, IInv, TypeOK, HandleTypeOK
  <2> QED
    BY <2>1, <2>2, Stutters DEF Withdrawn, Ending, IsCancellation
<1>7. CASE Call
  <2>1. /\ UNCHANGED <<received, writing, events, rpc, cancelled>>
        /\ handler \notin {"ended", "dropped"} /\ handler' \notin {"ended", "dropped"}
    BY <1>7 DEF Call, AddTerminalCallback
  <2>2. Sent' = Sent /\ Withdrawn' = Withdrawn
    BY <2>1 DEF Sent, Withdrawn
  <2>3. Ending = "open" /\ Ending' = "open"
    BY <2>1 DEF Ending
  <2> QED
    BY <2>1, <2>2, <2>3, Stutters
<1>8. CASE CallRefused
  <2>1. /\ handler = "calling" /\ handler' = "ended" /\ caught' = "refused"
        /\ UNCHANGED <<received, writing, events, cancelled>> /\ rpc' # "left"
    BY <1>8 DEF CallRefused
  <2>2. rpc = "open" /\ ~started
    BY <2>1 DEF IInv, WorkerInv
  <2>3. Sent = <<>>
    BY <2>2 DEF IInv, SentInv
  <2>4. received = Sent
    <3>1. Len(received \o writing \o events) = 0
      BY <2>3 DEF Sent
    <3>2. /\ Len(received) \in Nat /\ Len(writing) \in Nat /\ Len(events) \in Nat
          /\ received \o writing \in Seq(Events)
          /\ Len(received \o writing) = Len(received) + Len(writing)
      BY SentTyped, ConcatProperties, LenProperties
    <3>3. Len(received \o writing \o events) = (Len(received) + Len(writing)) + Len(events)
      BY <3>2, SentTyped, ConcatProperties
    <3>4. Len(received) = 0
      BY <3>1, <3>2, <3>3
    <3> QED
      BY <2>3, <3>4, SentTyped, EmptySeq
  <2>5. Sent' = Sent /\ Withdrawn' = Withdrawn /\ Ending = "open" /\ Ending' = "failed"
    BY <2>1, <2>2 DEF Sent, Withdrawn, Ending, IsCancellation
  <2> QED
    BY <2>1, <2>4, <2>5, Fails
<1>9. CASE Read
  <2>1. /\ UNCHANGED <<received, rpc, cancelled>> /\ handler = "reading"
        /\ handler' \notin {"ended", "dropped"}
    BY <1>9 DEF Read, RegisterWaiter, PopEvent
  <2>2. Withdrawn' = Withdrawn /\ Ending = "open" /\ Ending' = "open"
    BY <2>1 DEF Withdrawn, Ending
  <2>3. CASE UNCHANGED <<events, writing>>
    BY <2>1, <2>2, <2>3, Stutters DEF Sent
  <2>4. CASE PopEvent /\ writing' = <<Head(events)>>
    <3>1. writing = <<>> /\ events # <<>> /\ events' = Tail(events)
      BY <2>1, <2>4 DEF PopEvent, IInv, HandlerInv
    <3>2. Sent' = Sent
      BY <2>1, <2>4, <3>1, SentPop
    <3> QED
      BY <2>1, <2>2, <3>2, Stutters
  <2> QED
    BY <1>9, <2>3, <2>4 DEF Read, RegisterWaiter
<1>10. CASE Resume
  <2>1. /\ UNCHANGED <<received, writing, events, rpc, cancelled>>
        /\ handler \notin {"ended", "dropped"} /\ handler' \notin {"ended", "dropped"}
    BY <1>10 DEF Resume, DiscardWaiter
  <2>2. Sent' = Sent /\ Withdrawn' = Withdrawn
    BY <2>1 DEF Sent, Withdrawn
  <2>3. Ending = "open" /\ Ending' = "open"
    BY <2>1 DEF Ending
  <2> QED
    BY <2>1, <2>2, <2>3, Stutters
<1>11. CASE TaskCancelled
  <2>1. /\ UNCHANGED <<received, writing, events, rpc, cancelled>>
        /\ handler \notin {"ended", "dropped"} /\ handler' \notin {"ended", "dropped"}
    BY <1>11 DEF TaskCancelled, DiscardWaiter
  <2>2. Sent' = Sent /\ Withdrawn' = Withdrawn
    BY <2>1 DEF Sent, Withdrawn
  <2>3. Ending = "open" /\ Ending' = "open"
    BY <2>1 DEF Ending
  <2> QED
    BY <2>1, <2>2, <2>3, Stutters
<1>12. CASE WriteCancelled
  <2>1. /\ UNCHANGED <<received, writing, events, rpc, cancelled>>
        /\ handler = "writing" /\ rpc = "left"
    BY <1>12 DEF WriteCancelled
  <2>2. Sent' = Sent /\ Withdrawn /\ Withdrawn' /\ Ending = "open"
    BY <2>1, Open DEF Sent, Withdrawn
  <2>3. CASE handler' = "classifying"
    <3>1. Ending' = "open"
      BY <2>3 DEF Ending
    <3> QED
      BY <2>1, <2>2, <3>1, Stutters DEF Withdrawn
  <2>4. CASE handler' = "dropped"
    <3>1. Ending' = "cancelled"
      BY <2>4 DEF Ending
    <3> QED
      BY <2>1, <2>2, <3>1, GivesUp
  <2> QED
    BY <1>12, <2>3, <2>4 DEF WriteCancelled
<1>13. CASE Written
  <2>1. /\ handler = "writing" /\ received' = received \o writing /\ writing' = <<>>
        /\ UNCHANGED <<events, cancelled, caught>> /\ rpc = "open" /\ rpc' # "left"
        /\ handler' = IF writing[1].kind = "completed" THEN "ended" ELSE "reading"
    BY <1>13 DEF Written
  <2>2. Sent' = Sent /\ Withdrawn' = Withdrawn
    BY <2>1, SentWritten DEF Withdrawn
  <2>3. caught = "none"
    BY <2>1 DEF IInv, HandlerInv
  <2>4. Ending' = IF writing[1].kind = "completed" THEN "ok" ELSE "open"
    BY <2>1, <2>3 DEF Ending, IsCancellation
  <2> QED
    BY <2>1, <2>2, <2>4, Receives
<1>14. CASE HandlerCancels
  <2>1. /\ UNCHANGED <<received, writing, events, rpc>>
        /\ UNCHANGED cancelled \/ cancelled'
        /\ handler \notin {"ended", "dropped"} /\ handler' \notin {"ended", "dropped"}
    BY <1>14 DEF HandlerCancels, CancelHandle, SetCancelled
  <2>2. Sent' = Sent /\ Ending' = Ending
    BY <2>1 DEF Sent, Ending
  <2>3. CASE UNCHANGED cancelled
    BY <2>1, <2>2, <2>3, Stutters DEF Withdrawn
  <2>4. CASE cancelled'
    BY <2>1, <2>2, <2>4, Withdraws DEF Withdrawn
  <2> QED
    BY <2>1, <2>3, <2>4
<1>15. CASE HandlerCounts
  <2>1. /\ UNCHANGED <<received, writing, events, cancelled, caught>> /\ handler = "classifying"
        /\ rpc' = "left" <=> rpc = "left"
    BY <1>15 DEF HandlerCounts
  <2>2. Sent' = Sent /\ Withdrawn' = Withdrawn /\ Ending = "open"
    BY <2>1, Open DEF Sent, Withdrawn
  <2>3. CASE IsCancellation
    <3>1. handler' \in {"cancelling", "logging"}
      BY <1>15, <2>3 DEF HandlerCounts, IsCancellation
    <3>2. Ending' = "open"
      BY <3>1 DEF Ending
    <3> QED
      BY <2>1, <2>2, <3>2, Stutters
  <2>4. CASE ~IsCancellation
    <3>1. handler' = "ended" /\ caught \in Errors \ {"cancelled"}
      BY <1>15, <2>1, <2>4
         DEF HandlerCounts, IsCancellation, IInv, HandlerInv, TypeOK, HandlerTypeOK
    <3>2. events = <<>> /\ writing = <<>> /\ caught # "none"
      BY <3>1 DEF IInv, HandlerInv, Errors
    <3>3. received = Sent
      BY <3>2, SentTyped, ConcatEmptySeq DEF Sent
    <3>4. Ending' = "failed"
      BY <2>1, <2>4, <3>1, <3>2 DEF Ending, IsCancellation
    <3> QED
      BY <2>1, <2>2, <3>3, <3>4, Fails
  <2> QED
    BY <2>3, <2>4
<1>16. CASE HandlerLogs
  <2>1. /\ UNCHANGED <<received, writing, events, cancelled, caught>>
        /\ handler = "logging" /\ handler' = "ended"
        /\ rpc' = "left" <=> rpc = "left"
    BY <1>16 DEF HandlerLogs, AddTerminalCallback
  <2>2. IsCancellation /\ Withdrawn
    BY <2>1 DEF IInv, HandlerInv, IsCancellation, Withdrawn
  <2>3. Sent' = Sent /\ Withdrawn' /\ Ending = "open" /\ Ending' = "cancelled"
    BY <2>1, <2>2, Open DEF Sent, Withdrawn, Ending, IsCancellation
  <2> QED
    BY <2>1, <2>2, <2>3, GivesUp
<1>17. CASE DoneCallback
  <2>1. /\ UNCHANGED <<received, writing, events, rpc, handler, caught>>
        /\ UNCHANGED cancelled \/ cancelled'
    BY <1>17 DEF DoneCallback, CancelHandle, SetCancelled
  <2>2. Sent' = Sent /\ Ending' = Ending
    BY <2>1 DEF Sent, Ending, IsCancellation
  <2>3. CASE UNCHANGED cancelled
    BY <2>1, <2>2, <2>3, Stutters DEF Withdrawn
  <2>4. CASE cancelled'
    BY <2>1, <2>2, <2>4, Withdraws DEF Withdrawn
  <2> QED
    BY <2>1, <2>3, <2>4
<1>18. CASE ClientLeaves
  <2>1. /\ UNCHANGED <<received, writing, events, handler, caught, cancelled>> /\ rpc' = "left"
    BY <1>18 DEF ClientLeaves
  <2> QED
    BY <2>1, Withdraws DEF Sent, Withdrawn, Ending, IsCancellation
<1>19. CASE UNCHANGED <<received, writing, events, handler, caught, rpc, cancelled>>
  BY <1>19, Stutters DEF Sent, Withdrawn, Ending, IsCancellation
<1>20. ASSUME Take \/ StartFails \/ WorkerBegins \/ WorkerChecks \/ EmitAudio \/
             DeadlinePasses \/ RuntimeReturns \/ Release \/ WorkerEnds \/ Unload \/
             CancelRemoves \/ CancelEnds \/ Resolve \/ (\E d \in TerminalCallbacks :
             RunCallback(d)) \/ UNCHANGED vars
      PROVE  Allowed
  <2>1. UNCHANGED <<received, writing, events, handler, caught, rpc, cancelled>>
    BY <1>20
       DEF Take, StartFails, WorkerBegins, WorkerChecks, EmitAudio, DeadlinePasses,
           RuntimeReturns, Release, WorkerEnds, Unload, CancelRemoves, CancelEnds, Resolve,
           RunCallback, vars, MarkDispatched, Return, Audio, EventAt, ResolveWaiter
  <2> QED
    BY <1>19, <2>1
<1> QED
  BY <1>1, <1>2, <1>3, <1>4, <1>5, <1>6, <1>7, <1>8, <1>9, <1>10, <1>11, <1>12, <1>13,
     <1>14, <1>15, <1>16, <1>17, <1>18, <1>19, <1>20
     DEF Next, Runtime, Threads, Cancellation, EventLoop

\* Every stream implements the contract of Synthesize, whatever the order its
\* threads, its client and an unload act in.
THEOREM Refinement == Spec => ImplementsContract
<1>1. Init => Contract!ContractInit
  BY DEF Init, HandleInit, Contract!ContractInit, Ending
<1>2. IInv /\ [Next]_vars => [Contract!ContractNext]_(Contract!contractVars)
  BY ContractStep DEF Allowed
<1> QED
  BY <1>1, <1>2, StreamInvariance, PTL DEF Spec, ImplementsContract, Contract!ContractSpec
=============================================================================
