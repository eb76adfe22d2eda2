----------------------------- MODULE NanoProofs -----------------------------
(***************************************************************************)
(* IInv of NanoProperties is an inductive invariant of the NanoVLLM        *)
(* runtime; with it, its safety properties hold for any number of calls,   *)
(* chunks, threads of the pool and sequences of the engine.                *)
(***************************************************************************)
EXTENDS NanoProperties, FiniteSetTheorems, TLAPS

\* Sets of calls are finite.
LEMMA CallsFinite ==
    ASSUME NEW S, S \subseteq Calls
    PROVE  IsFiniteSet(S) /\ Cardinality(S) \in Nat
  BY NanoAssumption, FS_Subset, FS_CardinalityType

\* No more sequences are open than there are slots.
LEMMA InsideBoundsSequences == IInv => SequencesWithinCapability
<1> SUFFICES ASSUME IInv PROVE SequencesWithinCapability
  OBVIOUS
<1>1. Sequences \subseteq Inside
  BY DEF IInv, HeldInv, Sequences, Inside
<1>2. IsFiniteSet(Inside) /\ Cardinality(Inside) \in Nat /\ Cardinality(Sequences) \in Nat
  <2>1. Inside \subseteq Calls /\ Sequences \subseteq Calls
    BY DEF Inside, Sequences
  <2> QED
    BY <2>1, CallsFinite
<1>3. Cardinality(Sequences) <= Cardinality(Inside)
  BY <1>1, <1>2, FS_Subset
<1>4. Cardinality(Sequences) <= Capability
  BY <1>2, <1>3, NanoAssumption DEF IInv, HeldInv
<1> QED
  BY <1>4 DEF IInv, HeldInv, SequencesWithinCapability

\* No call has been made and nothing has been loaded.
LEMMA InitInvariant == Init => IInv
<1> SUFFICES ASSUME Init PROVE IInv
  OBVIOUS
<1>1. Inside = {}
  BY DEF Init, Inside
<1>2. Cardinality(Inside) = 0
  BY <1>1, FS_EmptySet
<1>3. TypeOK
  <2>1. 0 \in 0 .. MaxChunks
    BY NanoAssumption
  <2>2. <<>> \in Seq(Calls)
    OBVIOUS
  <2> QED
    BY <2>1, <2>2 DEF Init, TypeOK, Outcomes
<1> QED
  BY <1>1, <1>2, <1>3, NanoAssumption DEF Init, IInv, HeldInv, Sequences

\* The load and the close do not touch a call.
LEMMA OwnerKeeps ==
    ASSUME IInv, LoadStep \/ CloseBegins \/ CloseStep
    PROVE  IInv'
<1>1. Inside' = Inside /\ Sequences' = Sequences /\ UNCHANGED callVars
  BY DEF LoadStep, CloseBegins, CloseStep, StartLoop, MakeServer, LoadEnds, StopServer,
         StopLoop, RunLoopReturns, JoinReturns, callVars, Inside, Sequences
<1>2. TypeOK'
  BY <1>1
  DEF IInv, TypeOK, LoadStep, CloseBegins, CloseStep, StartLoop, MakeServer, LoadEnds,
      StopServer, StopLoop, RunLoopReturns, JoinReturns, callVars
<1>3. HeldInv'
  BY <1>1
  DEF IInv, HeldInv, TypeOK, LoadStep, CloseBegins, CloseStep, StartLoop, MakeServer,
      LoadEnds, StopServer, StopLoop, RunLoopReturns, JoinReturns, callVars
<1> QED
  BY <1>2, <1>3 DEF IInv

\* A call that is inside goes on, to another place inside or out of the runtime.
LEMMA InsideShrinks ==
    ASSUME IInv, NEW c \in Inside, NEW p, call' = [call EXCEPT ![c] = p], p # "out"
    PROVE  Inside' \subseteq Inside /\ Cardinality(Inside') <= Capability
<1>1. Inside' \subseteq Inside
  BY DEF Inside, IInv, TypeOK
<1>2. IsFiniteSet(Inside) /\ Cardinality(Inside) \in Nat /\ Cardinality(Inside') \in Nat
  <2>1. Inside \subseteq Calls /\ Inside' \subseteq Calls
    BY DEF Inside
  <2> QED
    BY <2>1, CallsFinite
<1>3. Cardinality(Inside') <= Cardinality(Inside)
  BY <1>1, <1>2, FS_Subset
<1> QED
  BY <1>1, <1>2, <1>3, NanoAssumption DEF IInv, HeldInv

\* A call enters one of the free slots.
LEMMA EnterKeeps == ASSUME IInv, NEW c \in Calls, Enter(c) PROVE IInv'
<1>1. Inside' = Inside \union {c} /\ c \notin Inside
  BY DEF Enter, Abort, Goto, Inside, IInv, TypeOK
<1>2. IsFiniteSet(Inside) /\ Cardinality(Inside) \in Nat
  BY CallsFinite DEF Inside
<1>3. Cardinality(Inside') = Cardinality(Inside) + 1
  BY <1>1, <1>2, FS_AddElement
<1>4. Cardinality(Inside') <= Capability
  BY <1>2, <1>3, NanoAssumption DEF Enter
<1>5. TypeOK'
  BY DEF IInv, TypeOK, Enter, Abort, Goto, ownerVars, Outcomes
<1>6. \A d \in Calls : d # c => call'[d] = call[d]
  BY DEF Enter, Abort, Goto, IInv, TypeOK
<1>7. \A d \in Calls : call'[d] \in {"queued", "emitting"} <=> call[d] \in {"queued", "emitting"}
  BY <1>6 DEF Enter, Abort, Goto, IInv, TypeOK
<1>8. \A d \in Sequences' : call'[d] \in {"generating", "queued", "emitting", "closing"}
  BY <1>6 DEF Enter, IInv, TypeOK, HeldInv, Sequences
<1>9. \A i \in 1 .. Len(queue') : call'[queue'[i]] = "queued"
  <2> SUFFICES ASSUME NEW i \in 1 .. Len(queue) PROVE call'[queue[i]] = "queued"
    BY DEF Enter
  <2>1. queue[i] \in Calls /\ call[queue[i]] = "queued"
    BY DEF IInv, TypeOK, HeldInv
  <2> QED
    BY <2>1, <1>6 DEF Enter
<1>10. HeldInv'
  BY <1>4, <1>7, <1>8, <1>9 DEF IInv, HeldInv, Enter, ownerVars
<1> QED
  BY <1>5, <1>10 DEF IInv

\* A call that is inside and not in the queue of the pool goes on to p.
LEMMA CallMoves ==
    ASSUME IInv, NEW c \in Inside, call[c] # "queued",
           NEW p \in {"submitted", "encoding", "generating", "closing", "done", "returned"},
           call' = [call EXCEPT ![c] = p],
           how' \in [Calls -> Outcomes],
           gen' \in [Calls -> {"none", "running", "closed"}],
           sent' \in [Calls -> 0 .. MaxChunks],
           \A d \in Calls \ {c} : gen'[d] = gen[d] /\ sent'[d] = sent[d],
           gen'[c] = "running" => p \in {"generating", "closing"},
           UNCHANGED <<ownerVars, cancelled, queue>>
    PROVE  IInv'
<1>1. Inside' \subseteq Inside /\ Cardinality(Inside') <= Capability
  BY InsideShrinks
<1>2. TypeOK'
  BY DEF IInv, TypeOK, ownerVars, Inside
<1>3. c \in Calls /\ call'[c] = p /\ \A d \in Calls \ {c} : call'[d] = call[d]
  BY DEF IInv, TypeOK, Inside
<1>4. \A d \in Sequences' : call'[d] \in {"generating", "queued", "emitting", "closing"}
  BY <1>3 DEF IInv, HeldInv, Sequences
<1>5. \A i \in 1 .. Len(queue') : call'[queue'[i]] = "queued"
  <2> SUFFICES ASSUME NEW i \in 1 .. Len(queue) PROVE call'[queue[i]] = "queued"
    OBVIOUS
  <2>1. queue[i] \in Calls /\ call[queue[i]] = "queued"
    BY DEF IInv, TypeOK, HeldInv
  <2> QED
    BY <2>1, <1>3
<1>6. \A d \in Calls : call'[d] \in {"queued", "emitting"} => sent'[d] < MaxChunks
  BY <1>3 DEF IInv, HeldInv
<1> QED
  BY <1>1, <1>2, <1>4, <1>5, <1>6 DEF IInv, HeldInv, ownerVars

\* The steps of a call on its own thread and on the loop, but for the hand-over
\* to the pool
LEMMA CallKeeps ==
    ASSUME IInv, NEW c \in Calls,
           \/ CallStep(c) \/ Generate(c) \/ GeneratorEnds(c)
           \/ EmitReturns(c) \/ EmitRaises(c)
    PROVE  IInv'
<1> USE DEF IInv, TypeOK, Inside, Outcomes, Abort, Goto
<1>1. CASE Submit(c)
  <2>1. PICK p \in {"submitted", "done"} : call' = [call EXCEPT ![c] = p]
    BY <1>1 DEF Submit
  <2>2. how' \in [Calls -> Outcomes] /\ c \in Inside /\ call[c] # "queued"
    BY <1>1 DEF Submit
  <2>3. /\ gen' \in [Calls -> {"none", "running", "closed"}]
        /\ \A d \in Calls \ {c} : gen'[d] = gen[d]
        /\ gen'[c] = "running" => p \in {"generating", "closing"}
    BY <1>1, <2>1 DEF Submit, HeldInv, Sequences
  <2> QED
    BY <1>1, <2>1, <2>2, <2>3, CallMoves DEF Submit
<1>2. CASE Begin(c)
  <2>1. PICK p \in {"encoding", "done"} : call' = [call EXCEPT ![c] = p]
    BY <1>2 DEF Begin
  <2>2. how' \in [Calls -> Outcomes] /\ c \in Inside /\ call[c] # "queued"
    BY <1>2 DEF Begin
  <2>3. /\ gen' \in [Calls -> {"none", "running", "closed"}]
        /\ \A d \in Calls \ {c} : gen'[d] = gen[d]
        /\ gen'[c] = "running" => p \in {"generating", "closing"}
    BY <1>2, <2>1 DEF Begin, HeldInv, Sequences
  <2> QED
    BY <1>2, <2>1, <2>2, <2>3, CallMoves DEF Begin
<1>3. CASE Generate(c)
  <2>1. PICK p \in {"generating", "done"} : call' = [call EXCEPT ![c] = p]
    BY <1>3 DEF Generate
  <2>2. how' \in [Calls -> Outcomes] /\ c \in Inside /\ call[c] # "queued"
    BY <1>3 DEF Generate
  <2>3. /\ gen' \in [Calls -> {"none", "running", "closed"}]
        /\ \A d \in Calls \ {c} : gen'[d] = gen[d]
        /\ gen'[c] = "running" => p \in {"generating", "closing"}
    BY <1>3, <2>1 DEF Generate, HeldInv, Sequences
  <2> QED
    BY <1>3, <2>1, <2>2, <2>3, CallMoves DEF Generate
<1>4. CASE GeneratorEnds(c)
  BY <1>4, CallMoves DEF GeneratorEnds
<1>5. CASE EmitReturns(c)
  <2>1. sent[c] < MaxChunks /\ sent[c] \in 0 .. MaxChunks
    BY <1>5 DEF EmitReturns, HeldInv
  <2>2. sent' \in [Calls -> 0 .. MaxChunks]
    BY <1>5, <2>1, NanoAssumption DEF EmitReturns
  <2> QED
    BY <1>5, <2>2, CallMoves DEF EmitReturns
<1>6. CASE EmitRaises(c)
  BY <1>6, CallMoves DEF EmitRaises
<1>7. CASE CloseGenerator(c)
  BY <1>7, CallMoves DEF CloseGenerator
<1>8. CASE Return(c)
  BY <1>8, CallMoves DEF Return, HeldInv, Sequences
<1> QED
  BY <1>1, <1>2, <1>3, <1>4, <1>5, <1>6, <1>7, <1>8 DEF CallStep

\* The next chunk goes to the queue of the pool, unless the call is cancelled.
LEMMA ChunkKeeps == ASSUME IInv, NEW c \in Calls, NextChunk(c) PROVE IInv'
<1>1. CASE cancelled[c]
  <2>1. /\ call' = [call EXCEPT ![c] = "closing"]
        /\ how' = [how EXCEPT ![c] = "cancelled"]
        /\ c \in Inside /\ call[c] # "queued"
        /\ UNCHANGED <<ownerVars, gen, sent, cancelled, queue>>
    BY <1>1 DEF NextChunk, Abort, Goto, Inside
  <2>2. /\ how' \in [Calls -> Outcomes]
        /\ gen' \in [Calls -> {"none", "running", "closed"}]
        /\ sent' \in [Calls -> 0 .. MaxChunks]
    BY <2>1 DEF IInv, TypeOK, Outcomes
  <2> QED
    BY <2>1, <2>2, CallMoves
<1>2. CASE ~cancelled[c]
  <2>1. /\ sent[c] < MaxChunks
        /\ call' = [call EXCEPT ![c] = "queued"]
        /\ queue' = Append(queue, c)
        /\ UNCHANGED <<how, ownerVars, gen, sent, cancelled>>
        /\ c \in Inside
    BY <1>2 DEF NextChunk, Goto, Inside
  <2>2. TypeOK'
    BY <2>1 DEF IInv, TypeOK, ownerVars
  <2>3. Inside' \subseteq Inside /\ Cardinality(Inside') <= Capability
    BY <2>1, InsideShrinks
  <2>4. /\ Len(queue') = Len(queue) + 1
        /\ queue'[Len(queue) + 1] = c
        /\ \A i \in 1 .. Len(queue) :
              queue'[i] = queue[i] /\ queue[i] \in Calls /\ queue[i] # c
    BY <2>1, <1>2 DEF IInv, TypeOK, HeldInv, NextChunk
  <2>5. call'[c] = "queued" /\ \A d \in Calls \ {c} : call'[d] = call[d]
    BY <2>1 DEF IInv, TypeOK
  <2>6. Len(queue) \in Nat
    BY DEF IInv, TypeOK
  <2>9. \A i \in 1 .. Len(queue') : i = Len(queue) + 1 \/ i \in 1 .. Len(queue)
    BY <2>4, <2>6
  <2>10. \A i \in 1 .. Len(queue') : call'[queue'[i]] = "queued"
    BY <2>4, <2>5, <2>9 DEF IInv, HeldInv
  <2>11. \A i, k \in 1 .. Len(queue') : queue'[i] = queue'[k] => i = k
    BY <2>4, <2>9 DEF IInv, HeldInv
  <2>7. \A d \in Calls : call'[d] \in {"queued", "emitting"} => sent'[d] < MaxChunks
    BY <2>1, <2>5 DEF IInv, HeldInv
  <2>8. \A d \in Sequences' : call'[d] \in {"generating", "queued", "emitting", "closing"}
    BY <2>1, <2>5 DEF IInv, HeldInv, Sequences
  <2> QED
    BY <2>1, <2>2, <2>3, <2>7, <2>8, <2>10, <2>11 DEF IInv, HeldInv, ownerVars
<1> QED
  BY <1>1, <1>2

\* The first of the queue gets a thread of the pool.
LEMMA PoolKeeps == ASSUME IInv, PoolTakes PROVE IInv'
<1> DEFINE c == Head(queue)
<1>1. /\ c \in Calls
      /\ call[c] = "queued"
      /\ c = queue[1]
      /\ queue' = Tail(queue)
      /\ call' = [call EXCEPT ![c] = "emitting"]
      /\ UNCHANGED <<ownerVars, how, gen, sent, cancelled>>
  BY DEF PoolTakes, Goto, IInv, TypeOK, HeldInv
<1> HIDE DEF c
<1>2. c \in Inside
  BY <1>1 DEF Inside
<1>3. Inside' \subseteq Inside /\ Cardinality(Inside') <= Capability
  BY <1>1, <1>2, InsideShrinks
<1>4. TypeOK'
  BY <1>1 DEF IInv, TypeOK, ownerVars, PoolTakes
<1>5. call'[c] = "emitting" /\ \A d \in Calls \ {c} : call'[d] = call[d]
  BY <1>1 DEF IInv, TypeOK
<1>6. /\ Len(queue') = Len(queue) - 1
      /\ \A i \in 1 .. Len(queue') :
            queue'[i] = queue[i + 1] /\ queue[i + 1] \in Calls /\ queue[i + 1] # c
  BY <1>1 DEF IInv, TypeOK, HeldInv, PoolTakes
<1>7. /\ Len(queue) \in Nat
      /\ \A i \in 1 .. Len(queue') : i + 1 \in 1 .. Len(queue)
  BY <1>6 DEF IInv, TypeOK
<1>10. \A i \in 1 .. Len(queue') : call'[queue'[i]] = "queued"
  BY <1>5, <1>6, <1>7 DEF IInv, HeldInv
<1>11. \A i, k \in 1 .. Len(queue') : queue'[i] = queue'[k] => i = k
  <2> SUFFICES ASSUME NEW i \in 1 .. Len(queue'), NEW k \in 1 .. Len(queue'),
                      queue'[i] = queue'[k]
               PROVE  i = k
    OBVIOUS
  <2>1. queue[i + 1] = queue[k + 1] /\ i + 1 \in 1 .. Len(queue) /\ k + 1 \in 1 .. Len(queue)
    BY <1>6, <1>7
  <2>2. i + 1 = k + 1
    BY <2>1 DEF IInv, HeldInv
  <2> QED
    BY <2>2, <1>6, <1>7
<1>8. \A d \in Calls : call'[d] \in {"queued", "emitting"} => sent'[d] < MaxChunks
  BY <1>1, <1>5 DEF IInv, HeldInv
<1>9. \A d \in Sequences' : call'[d] \in {"generating", "queued", "emitting", "closing"}
  BY <1>1, <1>5 DEF IInv, HeldInv, Sequences
<1> QED
  BY <1>1, <1>3, <1>4, <1>8, <1>9, <1>10, <1>11 DEF IInv, HeldInv, ownerVars

\* Whoever cancels a call touches nothing else.
LEMMA CancelKeeps == ASSUME IInv, NEW c \in Calls, Cancel(c) PROVE IInv'
<1>1. Inside' = Inside /\ Sequences' = Sequences
  BY DEF Cancel, Inside, Sequences
<1> QED
  BY <1>1 DEF Cancel, IInv, TypeOK, HeldInv, ownerVars

----------------------------------------------------------------------------
\* Every step of the runtime keeps the inductive invariant.
THEOREM NextInvariant == IInv /\ [Next]_vars => IInv'
<1> SUFFICES ASSUME IInv, [Next]_vars PROVE IInv'
  OBVIOUS
<1>1. CASE UNCHANGED vars
  BY <1>1 DEF vars, ownerVars, callVars, IInv, TypeOK, HeldInv, Inside, Sequences
<1>2. CASE LoadStep \/ CloseBegins \/ CloseStep
  BY <1>2, OwnerKeeps
<1>3. CASE PoolTakes
  BY <1>3, PoolKeeps
<1>4. ASSUME NEW c \in Calls,
             \/ Enter(c) \/ CallStep(c) \/ EngineStep(c)
             \/ EmitReturns(c) \/ EmitRaises(c) \/ Cancel(c)
      PROVE  IInv'
  BY <1>4, EnterKeeps, CallKeeps, ChunkKeeps, CancelKeeps DEF EngineStep
<1> QED
  BY <1>1, <1>2, <1>3, <1>4 DEF Next

\* The inductive invariant holds always.
LEMMA Invariance == Spec => []IInv
<1>1. Init => IInv
  BY InitInvariant
<1>2. IInv /\ [Next]_vars => IInv'
  BY NextInvariant
<1> QED
  BY <1>1, <1>2, PTL DEF Spec

\* The engine is never given more sequences than it was configured for.
THEOREM SequenceSafety == Spec => []SequencesWithinCapability
<1>1. IInv => SequencesWithinCapability
  BY InsideBoundsSequences
<1> QED
  BY <1>1, Invariance, PTL

\* No thread waits for a coroutine of a loop that has stopped.
THEOREM StrandedSafety == Spec => []NobodyStranded
<1>1. IInv => NobodyStranded
  BY DEF IInv, HeldInv, NobodyStranded
<1> QED
  BY <1>1, Invariance, PTL

\* A closed runtime leaves nothing behind, wherever its load failed.
THEOREM CloseSafety == Spec => []NothingLeftBehind
<1>1. IInv => NothingLeftBehind
  BY DEF IInv, HeldInv, NothingLeftBehind
<1> QED
  BY <1>1, Invariance, PTL
=============================================================================
