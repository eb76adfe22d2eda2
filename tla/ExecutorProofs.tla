--------------------------- MODULE ExecutorProofs ---------------------------
(***************************************************************************)
(* IInv of ExecutorProperties is an inductive invariant of the executor,   *)
(* and with it its safety properties hold for every number of requests and *)
(* keys and every configuration.  The first half says what each operation  *)
(* of FairQueue does to the states of the keys and to the set of waiting   *)
(* jobs: it keeps KeyInv of ExecutorProperties, first for the state of one *)
(* key, then for all of them.                                              *)
(***************************************************************************)
EXTENDS ExecutorProperties, FiniteSetTheorems, SequenceTheorems, TLAPS

----------------------------------------------------------------------------
(* Sequences *)

LEMMA RemoveAtProperties ==
    ASSUME NEW S, NEW q \in Seq(S), NEW i \in DOMAIN q
    PROVE  /\ RemoveAt(q, i) \in Seq(S)
           /\ Len(RemoveAt(q, i)) = Len(q) - 1
           /\ \A h \in 1 .. Len(q) - 1 :
                 RemoveAt(q, i)[h] = IF h < i THEN q[h] ELSE q[h + 1]
<1>1. i \in 1 .. Len(q) /\ Len(q) \in Nat
  OBVIOUS
<1> DEFINE a == SubSeq(q, 1, i - 1)
           b == SubSeq(q, i + 1, Len(q))
<1>2. a \in Seq(S) /\ Len(a) = i - 1 /\ \A h \in 1 .. i - 1 : a[h] = q[h]
  BY <1>1
<1>3. b \in Seq(S) /\ Len(b) = Len(q) - i /\ \A h \in 1 .. Len(q) - i : b[h] = q[h + i]
  BY <1>1
<1> HIDE DEF a, b
<1>4. a \o b \in Seq(S) /\ Len(a \o b) = Len(q) - 1
  BY <1>1, <1>2, <1>3
<1>5. ASSUME NEW h \in 1 .. Len(q) - 1
      PROVE  (a \o b)[h] = IF h < i THEN q[h] ELSE q[h + 1]
  <2>1. CASE h < i
    BY <1>1, <1>2, <1>3, <2>1
  <2>2. CASE ~(h < i)
    <3>1. (a \o b)[h] = b[h - (i - 1)]
      BY <1>1, <1>2, <1>3, <2>2
    <3>2. h - (i - 1) \in 1 .. Len(q) - i
      BY <1>1, <2>2
    <3>3. b[h - (i - 1)] = q[(h - (i - 1)) + i] /\ (h - (i - 1)) + i = h + 1
      BY <1>1, <1>3, <3>2
    <3> QED
      BY <1>1, <2>2, <3>1, <3>3
  <2> QED
    BY <2>1, <2>2
<1> QED
  BY <1>4, <1>5 DEF RemoveAt, a, b

LEMMA TailProperties ==
    ASSUME NEW S, NEW q \in Seq(S), q # <<>>
    PROVE  /\ Head(q) = q[1] /\ 1 \in DOMAIN q
           /\ Tail(q) \in Seq(S)
           /\ Len(Tail(q)) = Len(q) - 1
           /\ \A h \in 1 .. Len(q) - 1 : Tail(q)[h] = q[h + 1]
  OBVIOUS

LEMMA AppendFacts ==
    ASSUME NEW S, NEW q \in Seq(S), NEW x \in S
    PROVE  /\ Append(q, x) \in Seq(S)
           /\ Len(Append(q, x)) = Len(q) + 1
           /\ \A h \in 1 .. Len(q) : Append(q, x)[h] = q[h]
           /\ Append(q, x)[Len(q) + 1] = x
  OBVIOUS

----------------------------------------------------------------------------
(* One key's state *)

\* A job of another key can move without the key noticing.
LEMMA OtherKey ==
    ASSUME NEW st, NEW k, NEW w, NEW j \in Jobs, NEW x,
           w \in [Jobs -> Positions], KeyInv(st, k, w), KeyOf[j] # k
    PROVE  KeyInv(st, k, [w EXCEPT ![j] = x])
  BY DEF KeyInv, KeyCore, KeyStateOK

\* So can a job that neither waits nor starts or stops holding a slot.
LEMMA OtherMove ==
    ASSUME NEW st, NEW k, NEW w, NEW j \in Jobs, NEW x,
           w \in [Jobs -> Positions], KeyInv(st, k, w),
           w[j] # "none", w[j] \in SlotPositions <=> x \in SlotPositions
    PROVE  KeyInv(st, k, [w EXCEPT ![j] = x])
  BY DEF KeyInv, KeyCore, KeyStateOK

\* Marking a key idle settles its idle timestamp and nothing else.
LEMMA MarkIdle ==
    ASSUME NEW st, NEW k, NEW w, NEW now \in Nat,
           KeyCore(st, k, w), st.idleSince = NoTime \/ ~Busy(st)
    PROVE  /\ KeyInv(MarkIdleIfNeeded(st, now), k, w)
           /\ MarkIdleIfNeeded(st, now).pending = st.pending
           /\ MarkIdleIfNeeded(st, now).active = st.active
<1>1. CASE Busy(st)
  BY <1>1 DEF MarkIdleIfNeeded, KeyInv
<1>2. CASE ~Busy(st)
  <2> DEFINE t == [st EXCEPT !.idleSince = now]
  <2>1. t.pending = st.pending /\ t.active = st.active /\ t.virtual = st.virtual
        /\ t.idleSince = now
    BY DEF KeyCore, KeyStateOK
  <2>2. t \in [pending : Seq(Jobs), active : {st.active}, virtual : {st.virtual},
               activation : Nat, lastSelected : Nat, idleSince : Nat \union {NoTime}]
    BY DEF KeyCore, KeyStateOK
  <2> HIDE DEF t
  <2>3. KeyCore(t, k, w)
    BY <2>1, <2>2 DEF KeyCore, KeyStateOK
  <2>4. t.idleSince # NoTime /\ ~Busy(t)
    BY <1>2, <2>1 DEF Busy, NoTime
  <2> QED
    BY <1>2, <2>1, <2>3, <2>4 DEF MarkIdleIfNeeded, KeyInv, t
<1> QED
  BY <1>1, <1>2

LEMMA AppendKeepsKey ==
    ASSUME NEW st, NEW k, NEW w, NEW j \in Jobs,
           KeyCore(st, k, w), KeyOf[j] = k, w[j] = "none",
           ~Contains(st.pending, j), Len(st.pending) < MaxPendingPerKey
    PROVE  LET t == [st EXCEPT !.pending = Append(@, j), !.idleSince = NoTime]
           IN  /\ KeyInv(t, k, w)
               /\ \A i : Contains(t.pending, i) <=> Contains(st.pending, i) \/ i = j
<1> DEFINE t == [st EXCEPT !.pending = Append(@, j), !.idleSince = NoTime]
<1>1. /\ t.pending = Append(st.pending, j) /\ t.idleSince = NoTime
      /\ t.active = st.active /\ t.virtual = st.virtual
  BY DEF KeyCore, KeyStateOK
<1>2. t \in [pending : Seq(Jobs), active : {st.active}, virtual : {st.virtual},
             activation : Nat, lastSelected : Nat, idleSince : Nat \union {NoTime}]
  BY AppendFacts DEF KeyCore, KeyStateOK
<1>3. /\ t.pending \in Seq(Jobs) /\ Len(t.pending) = Len(st.pending) + 1
      /\ st.pending \in Seq(Jobs)
      /\ \A h \in 1 .. Len(st.pending) : t.pending[h] = st.pending[h]
      /\ t.pending[Len(st.pending) + 1] = j
  BY <1>1, AppendFacts DEF KeyCore, KeyStateOK
<1> HIDE DEF t
<1>4. KeyStateOK(t) /\ (t.idleSince = NoTime <=> Busy(t))
  BY <1>1, <1>2, <1>3 DEF KeyCore, KeyStateOK, Busy
<1>5. \A i \in DOMAIN t.pending : KeyOf[t.pending[i]] = k /\ w[t.pending[i]] = "none"
  BY <1>3 DEF KeyCore
<1>6. \A i, h \in DOMAIN t.pending : t.pending[i] = t.pending[h] => i = h
  <2> DEFINE n == Len(st.pending)
  <2>1. DOMAIN t.pending = 1 .. n + 1 /\ n \in Nat
    BY <1>3
  <2>2. \A h \in 1 .. n : t.pending[h] # j
    BY <1>3 DEF Contains
  <2>3. \A i, h \in 1 .. n : t.pending[i] = t.pending[h] => i = h
    BY <1>3 DEF KeyCore
  <2>4. \A i \in 1 .. n + 1 : i \in 1 .. n \/ i = n + 1
    BY <2>1
  <2> HIDE DEF n
  <2> QED
    BY <1>3, <2>1, <2>2, <2>3, <2>4 DEF n
<1>7. Len(t.pending) <= MaxPendingPerKey
  BY <1>3, FairQueueAssumption
<1>8. \A i : Contains(t.pending, i) <=> Contains(st.pending, i) \/ i = j
  BY <1>3 DEF Contains
<1> QED
  BY <1>1, <1>4, <1>5, <1>6, <1>7, <1>8 DEF KeyInv, KeyCore, t

LEMMA PopKeepsKey ==
    ASSUME NEW st, NEW k, NEW w, NEW j \in Jobs, NEW now \in Nat,
           nextSelection \in Nat, w \in [Jobs -> Positions], KeyInv(st, k, w),
           st.pending # <<>>, j = Head(st.pending),
           NEW w2, w2 = [w EXCEPT ![j] = "popped"]
    PROVE  KeyInv(Dispatch(st, j, now), k, w2)
<1> DEFINE t  == Dispatch(st, j, now)
           a2 == With(st.active, j, now)
<1>1. /\ t.pending = Tail(st.pending) /\ t.active = a2 /\ t.virtual = st.virtual
      /\ t.idleSince = NoTime
  BY DEF Dispatch, KeyInv, KeyCore, KeyStateOK
<1>2. st.pending \in Seq(Jobs) /\ j = st.pending[1] /\ 1 \in DOMAIN st.pending
      /\ Tail(st.pending) \in Seq(Jobs) /\ Len(Tail(st.pending)) = Len(st.pending) - 1
      /\ \A h \in 1 .. Len(st.pending) - 1 : Tail(st.pending)[h] = st.pending[h + 1]
  BY TailProperties DEF KeyInv, KeyCore, KeyStateOK
<1>3. t \in [pending : Seq(Jobs), active : {a2}, virtual : {st.virtual},
             activation : Nat, lastSelected : Nat, idleSince : Nat \union {NoTime}]
  BY <1>2 DEF Dispatch, KeyInv, KeyCore, KeyStateOK
<1>4. a2 \in [DOMAIN st.active \union {j} -> Nat]
  BY DEF With, KeyInv, KeyCore, KeyStateOK
<1> HIDE DEF t, a2
<1>5. KeyOf[j] = k /\ w[j] = "none" /\ Contains(st.pending, j)
  BY <1>2 DEF KeyInv, KeyCore, Contains
<1>6. KeyStateOK(t)
  BY <1>1, <1>3, <1>4 DEF KeyInv, KeyCore, KeyStateOK
<1>7. \A i \in Jobs : i \in DOMAIN t.active <=>
                         KeyOf[i] = k /\ w2[i] \in SlotPositions
  BY <1>1, <1>4, <1>5 DEF KeyInv, KeyCore, SlotPositions
<1>8. \A i \in DOMAIN t.pending : KeyOf[t.pending[i]] = k /\ w2[t.pending[i]] = "none"
  BY <1>1, <1>2, <1>5 DEF KeyInv, KeyCore
<1>9. \A i, h \in DOMAIN t.pending : t.pending[i] = t.pending[h] => i = h
  <2> SUFFICES ASSUME NEW i \in 1 .. Len(st.pending) - 1,
                      NEW h \in 1 .. Len(st.pending) - 1,
                      st.pending[i + 1] = st.pending[h + 1]
               PROVE  i = h
    BY <1>1, <1>2
  <2>1. i + 1 \in DOMAIN st.pending /\ h + 1 \in DOMAIN st.pending
    BY <1>2
  <2>2. i + 1 = h + 1
    BY <2>1 DEF KeyInv, KeyCore
  <2> QED
    BY <1>2, <2>2
<1>10. Len(t.pending) <= MaxPendingPerKey
  BY <1>1, <1>2, FairQueueAssumption DEF KeyInv, KeyCore
<1>12. Busy(t)
  BY <1>1, <1>4 DEF Busy
<1> QED
  BY <1>1, <1>5, <1>6, <1>7, <1>8, <1>9, <1>10, <1>12 DEF KeyInv, KeyCore, t

LEMMA PopKeepsPending ==
    ASSUME NEW st, NEW k, NEW w, NEW j \in Jobs, NEW now \in Nat,
           KeyInv(st, k, w), st.pending # <<>>, j = Head(st.pending)
    PROVE  \A i : Contains(Dispatch(st, j, now).pending, i) <=>
                     Contains(st.pending, i) /\ i # j
<1> DEFINE t == Dispatch(st, j, now)
<1>1. t.pending = Tail(st.pending)
  BY DEF Dispatch, KeyInv, KeyCore, KeyStateOK
<1>2. st.pending \in Seq(Jobs) /\ j = st.pending[1] /\ 1 \in DOMAIN st.pending
      /\ Tail(st.pending) \in Seq(Jobs) /\ Len(Tail(st.pending)) = Len(st.pending) - 1
      /\ \A h \in 1 .. Len(st.pending) - 1 : Tail(st.pending)[h] = st.pending[h + 1]
  BY TailProperties DEF KeyInv, KeyCore, KeyStateOK
<1> HIDE DEF t
<1>3. ASSUME NEW h \in 1 .. Len(t.pending)
      PROVE  h + 1 \in 1 .. Len(st.pending) /\ t.pending[h] = st.pending[h + 1]
             /\ t.pending[h] # j
  BY <1>1, <1>2 DEF KeyInv, KeyCore
<1>4. ASSUME NEW h \in 1 .. Len(st.pending), st.pending[h] # j
      PROVE  h - 1 \in 1 .. Len(t.pending) /\ t.pending[h - 1] = st.pending[h]
  BY <1>1, <1>2, <1>4
<1>5. \A i : Contains(t.pending, i) <=> Contains(st.pending, i) /\ i # j
  BY <1>3, <1>4 DEF Contains
<1> QED
  BY <1>5 DEF t

LEMMA RemoveKeepsKey ==
    ASSUME NEW st, NEW k, NEW w, NEW j \in Jobs, NEW now \in Nat,
           KeyInv(st, k, w), Contains(st.pending, j)
    PROVE  LET t == MarkIdleIfNeeded(
                        [st EXCEPT !.pending = RemoveAt(@, Position(@, j))], now)
           IN  /\ KeyInv(t, k, w)
               /\ \A i : Contains(t.pending, i) <=> Contains(st.pending, i) /\ i # j
<1> DEFINE p == Position(st.pending, j)
           q == RemoveAt(st.pending, p)
           t == [st EXCEPT !.pending = q]
<1>1. st.pending \in Seq(Jobs) /\ p \in 1 .. Len(st.pending) /\ st.pending[p] = j
      /\ DOMAIN st.pending = 1 .. Len(st.pending) /\ Len(st.pending) \in Nat
  BY DEF KeyInv, KeyCore, KeyStateOK, Contains, Position
<1>2. q \in Seq(Jobs) /\ Len(q) = Len(st.pending) - 1
      /\ \A h \in 1 .. Len(st.pending) - 1 :
            q[h] = IF h < p THEN st.pending[h] ELSE st.pending[h + 1]
  BY <1>1, RemoveAtProperties
<1>3. t.pending = q /\ t.active = st.active /\ t.virtual = st.virtual
      /\ t.idleSince = st.idleSince
  BY DEF KeyInv, KeyCore, KeyStateOK
<1>4. t \in [pending : Seq(Jobs), active : {st.active}, virtual : {st.virtual},
             activation : Nat, lastSelected : Nat, idleSince : Nat \union {NoTime}]
  BY <1>2 DEF KeyInv, KeyCore, KeyStateOK
<1> HIDE DEF p, q, t
<1>5. ASSUME NEW h \in 1 .. Len(q)
      PROVE  \E g \in 1 .. Len(st.pending) :
                g # p /\ q[h] = st.pending[g] /\ g = (IF h < p THEN h ELSE h + 1)
  BY <1>1, <1>2
<1>6. ASSUME NEW g \in 1 .. Len(st.pending), g # p
      PROVE  \E h \in 1 .. Len(q) : q[h] = st.pending[g]
  <2>1. CASE g < p
    BY <1>1, <1>2, <2>1
  <2>2. CASE ~(g < p)
    <3>1. g - 1 \in 1 .. Len(q) /\ ~(g - 1 < p) /\ (g - 1) + 1 = g
      BY <1>1, <1>2, <1>6, <2>2
    <3> QED
      BY <1>1, <1>2, <3>1
  <2> QED
    BY <2>1, <2>2
<1>7. \A i : Contains(q, i) <=> Contains(st.pending, i) /\ i # j
  <2>1. \A g \in 1 .. Len(st.pending) : st.pending[g] = j <=> g = p
    BY <1>1 DEF KeyInv, KeyCore
  <2>2. \A h \in 1 .. Len(q) : q[h] # j /\ \E g \in 1 .. Len(st.pending) : q[h] = st.pending[g]
    BY <1>5, <2>1
  <2>3. \A g \in 1 .. Len(st.pending) :
           st.pending[g] # j => \E h \in 1 .. Len(q) : q[h] = st.pending[g]
    BY <1>6, <2>1
  <2> QED
    BY <2>2, <2>3 DEF Contains
<1>2a. DOMAIN q = 1 .. Len(q)
  BY <1>2
<1>8. \A i \in DOMAIN q : KeyOf[q[i]] = k /\ w[q[i]] = "none"
  BY <1>1, <1>2a, <1>5 DEF KeyInv, KeyCore
<1>9. \A i, h \in DOMAIN q : q[i] = q[h] => i = h
  <2> SUFFICES ASSUME NEW i \in 1 .. Len(q), NEW h \in 1 .. Len(q), q[i] = q[h]
               PROVE  i = h
    BY <1>2a
  <2>1. PICK a \in 1 .. Len(st.pending) :
           q[i] = st.pending[a] /\ a = (IF i < p THEN i ELSE i + 1)
    BY <1>5
  <2>2. PICK b \in 1 .. Len(st.pending) :
           q[h] = st.pending[b] /\ b = (IF h < p THEN h ELSE h + 1)
    BY <1>5
  <2>3. a = b
    BY <1>1, <2>1, <2>2 DEF KeyInv, KeyCore
  <2> QED
    BY <1>1, <1>2, <2>1, <2>2, <2>3
<1>10. KeyCore(t, k, w)
  BY <1>1, <1>2, <1>3, <1>4, <1>8, <1>9, FairQueueAssumption DEF KeyInv, KeyCore, KeyStateOK
<1>11. st.idleSince = NoTime
  BY <1>1 DEF KeyInv, Busy
<1> QED
  BY <1>3, <1>7, <1>10, <1>11, MarkIdle DEF t, q, p

\* Giving the slot back, with any change of the charge.
LEMMA ReleaseKeepsKey ==
    ASSUME NEW st, NEW k, NEW w, NEW j \in Jobs, NEW now \in Nat, NEW x, NEW v,
           w \in [Jobs -> Positions], KeyInv(st, k, w), j \in DOMAIN st.active,
           x \notin SlotPositions,
           NEW w2, w2 = [w EXCEPT ![j] = x]
    PROVE  LET u == MarkIdleIfNeeded(GiveBack(st, j, v), now)
           IN  KeyInv(u, k, w2)
<1> DEFINE a2 == Without(st.active, j)
           t == GiveBack(st, j, v)
<1>1. t.pending = st.pending /\ t.active = a2 /\ t.virtual = st.virtual + v
      /\ t.idleSince = st.idleSince
  BY DEF GiveBack, KeyInv, KeyCore, KeyStateOK
<1>2. t \in [pending : Seq(Jobs), active : {a2}, virtual : {st.virtual + v},
             activation : Nat, lastSelected : Nat, idleSince : Nat \union {NoTime}]
  BY DEF GiveBack, KeyInv, KeyCore, KeyStateOK
<1>3. a2 \in [DOMAIN st.active \ {j} -> Nat]
  BY DEF Without, Restrict, KeyInv, KeyCore, KeyStateOK
<1> HIDE DEF t, a2
<1>4. KeyOf[j] = k /\ w[j] \in SlotPositions
  BY DEF KeyInv, KeyCore
<1>5. KeyStateOK(t)
  BY <1>1, <1>2, <1>3 DEF KeyInv, KeyCore, KeyStateOK
<1>6. \A i \in Jobs : i \in DOMAIN t.active <=>
                         KeyOf[i] = k /\ w2[i] \in SlotPositions
  BY <1>1, <1>3, <1>4 DEF KeyInv, KeyCore
<1>7. \A i \in DOMAIN t.pending : KeyOf[t.pending[i]] = k /\ w2[t.pending[i]] = "none"
  BY <1>1, <1>4 DEF KeyInv, KeyCore, KeyStateOK, SlotPositions
<1>8. KeyCore(t, k, w2)
  BY <1>1, <1>5, <1>6, <1>7 DEF KeyInv, KeyCore
<1>9. st.idleSince = NoTime
  BY DEF KeyInv, Busy
<1>10. KeyInv(MarkIdleIfNeeded(t, now), k, w2)
       /\ MarkIdleIfNeeded(t, now).pending = st.pending
  BY <1>1, <1>8, <1>9, MarkIdle
<1> QED
  BY <1>10 DEF t, a2

LEMMA DrainKeepsKey ==
    ASSUME NEW st, NEW k, NEW w, NEW now \in Nat, KeyInv(st, k, w)
    PROVE  LET t == MarkIdleIfNeeded([st EXCEPT !.pending = <<>>], now)
           IN  KeyInv(t, k, w) /\ t.pending = <<>>
<1> DEFINE e == <<>>
           t == [st EXCEPT !.pending = e]
<1>0. e \in Seq(Jobs) /\ e = <<>>
  OBVIOUS
<1> HIDE DEF e
<1>1. t.pending = e /\ t.active = st.active /\ t.virtual = st.virtual
      /\ t.idleSince = st.idleSince
  BY DEF KeyInv, KeyCore, KeyStateOK
<1>2. t \in [pending : Seq(Jobs), active : {st.active}, virtual : {st.virtual},
             activation : Nat, lastSelected : Nat, idleSince : Nat \union {NoTime}]
  BY <1>0 DEF KeyInv, KeyCore, KeyStateOK
<1> HIDE DEF t
<1>3. KeyCore(t, k, w)
  BY <1>0, <1>1, <1>2, FairQueueAssumption DEF KeyInv, KeyCore, KeyStateOK
<1>4. t.idleSince = NoTime \/ ~Busy(t)
  BY <1>0, <1>1 DEF KeyInv, Busy
<1> QED
  BY <1>0, <1>1, <1>3, <1>4, MarkIdle DEF t, e

----------------------------------------------------------------------------
(* All keys: the operations of the queue *)

PendingIn(ss, j) == KeyOf[j] \in DOMAIN ss /\ Contains(ss[KeyOf[j]].pending, j)

\* Only states of keys without work expire.
LEMMA LiveInv ==
    ASSUME QueueInv, NEW now \in Nat
    PROVE  /\ StatesInv(Live(now), worker)
           /\ \A j \in Jobs : PendingIn(Live(now), j) <=> Pending(j)
           /\ \A k \in DOMAIN Live(now) : k \in DOMAIN states /\ Live(now)[k] = states[k]
<1> DEFINE ss == Live(now)
<1>1. /\ DOMAIN ss = {k \in DOMAIN states : ~Expired(states[k], now)}
      /\ \A k \in DOMAIN ss : k \in DOMAIN states /\ ss[k] = states[k]
  BY DEF Live, Restrict
<1>2. ss = [k \in DOMAIN ss |-> ss[k]]
  BY DEF Live, Restrict
<1> HIDE DEF ss
<1>3. \A k \in DOMAIN states : Busy(states[k]) => k \in DOMAIN ss
  BY <1>1 DEF QueueInv, StatesInv, KeyInv, Expired
<1>4. \A j \in Jobs : worker[j] \in SlotPositions => KeyOf[j] \in DOMAIN ss
  BY <1>3 DEF QueueInv, StatesInv, KeyInv, KeyCore, Busy
<1>5. ASSUME NEW j \in Jobs, Pending(j)
      PROVE  KeyOf[j] \in DOMAIN ss
  <2>1. states[KeyOf[j]].pending \in Seq(Jobs)
    BY <1>5 DEF QueueInv, StatesInv, KeyInv, KeyCore, KeyStateOK, Pending
  <2>2. states[KeyOf[j]].pending # <<>>
    BY <1>5, <2>1 DEF Pending, Contains
  <2> QED
    BY <1>3, <1>5, <2>2 DEF Pending, Busy
<1>6. DOMAIN ss \subseteq Keys /\ \A k \in DOMAIN ss : KeyInv(ss[k], k, worker)
  BY <1>1 DEF QueueInv, StatesInv
<1>7. StatesInv(ss, worker)
  BY <1>2, <1>4, <1>6 DEF StatesInv
<1>8. \A j \in Jobs : PendingIn(ss, j) <=> Pending(j)
  BY <1>1, <1>5 DEF Pending, PendingIn
<1> QED
  BY <1>1, <1>7, <1>8 DEF ss

\* Changing one key's state.
LEMMA UpdateKey ==
    ASSUME NEW ss, NEW w, NEW w2, NEW k \in Keys, NEW st,
           StatesInv(ss, w), KeyInv(st, k, w2),
           \A q \in DOMAIN ss \ {k} : KeyInv(ss[q], q, w2),
           \A j \in Jobs : w2[j] \in SlotPositions => KeyOf[j] \in DOMAIN ss \union {k}
    PROVE  /\ StatesInv(With(ss, k, st), w2)
           /\ With(ss, k, st)[k] = st
           /\ k \in DOMAIN With(ss, k, st)
           /\ \A j \in Jobs : KeyOf[j] # k =>
                 (PendingIn(With(ss, k, st), j) <=> PendingIn(ss, j))
<1> DEFINE u == With(ss, k, st)
<1>1. /\ DOMAIN u = DOMAIN ss \union {k}
      /\ u = [q \in DOMAIN u |-> u[q]]
      /\ u[k] = st
      /\ \A q \in DOMAIN ss \ {k} : u[q] = ss[q]
  BY DEF With
<1> HIDE DEF u
<1>2. StatesInv(u, w2)
  BY <1>1 DEF StatesInv
<1>3. \A j \in Jobs : KeyOf[j] # k => (PendingIn(u, j) <=> PendingIn(ss, j))
  BY <1>1 DEF PendingIn
<1> QED
  BY <1>1, <1>2, <1>3 DEF u

LEMMA NewStateKey ==
    ASSUME NEW ss, NEW w, NEW k \in Keys, NEW now, nextActivation \in Nat,
           StatesInv(ss, w), k \notin DOMAIN ss
    PROVE  KeyCore(NewState(ss, k, now), k, w) /\ NewState(ss, k, now).pending = <<>>
<1> DEFINE st == NewState(ss, k, now)
           e == <<>>
<1>1. e \in Seq(Jobs) /\ e = <<>> /\ DOMAIN e = {} /\ Len(e) = 0 /\ e \in [DOMAIN e -> Nat]
  OBVIOUS
<1> HIDE DEF e
<1>2. /\ st.pending = e /\ st.active = e
      /\ st \in [pending : Seq(Jobs), active : {st.active}, virtual : {st.virtual},
                 activation : Nat, lastSelected : Nat, idleSince : Nat \union {NoTime}]
  BY <1>1 DEF NewState, NoTime
<1> HIDE DEF st
<1>3. \A j \in Jobs : ~(KeyOf[j] = k /\ w[j] \in SlotPositions)
  BY DEF StatesInv
<1>4. KeyCore(st, k, w)
  BY <1>1, <1>2, <1>3, FairQueueAssumption DEF KeyCore, KeyStateOK
<1> QED
  BY <1>1, <1>2, <1>4 DEF st

LEMMA EnqueueStep ==
    ASSUME QueueInv, NEW j \in Jobs, NEW now \in Nat, nextActivation \in Nat,
           Enqueue(j, now), worker[j] = "none", ~Pending(j)
    PROVE  /\ StatesInv(states', worker)
           /\ \A i \in Jobs : PendingIn(states', i) <=> Pending(i) \/ i = j
<1> DEFINE k == KeyOf[j]
           ss == Live(now)
           st == IF k \in DOMAIN ss THEN ss[k] ELSE NewState(ss, k, now)
           t == [st EXCEPT !.pending = Append(@, j), !.idleSince = NoTime]
<1>1. k \in Keys
  BY FairQueueAssumption
<1>2. StatesInv(ss, worker) /\ \A i \in Jobs : PendingIn(ss, i) <=> Pending(i)
  BY LiveInv
<1>3. HasRoom(ss, k) /\ states' = With(ss, k, t)
  BY DEF Enqueue
<1> HIDE DEF ss
<1>4. KeyCore(st, k, worker) /\ Len(st.pending) < MaxPendingPerKey
      /\ \A i \in Jobs : KeyOf[i] = k => (Contains(st.pending, i) <=> PendingIn(ss, i))
  <2>1. CASE k \in DOMAIN ss
    BY <1>2, <1>3, <2>1 DEF StatesInv, KeyInv, HasRoom, PendingIn
  <2>2. CASE k \notin DOMAIN ss
    BY <1>1, <1>2, <2>2, NewStateKey, FairQueueAssumption DEF PendingIn, Contains
  <2> QED
    BY <2>1, <2>2
<1> HIDE DEF st
<1>5. KeyInv(t, k, worker)
      /\ \A i : Contains(t.pending, i) <=> Contains(st.pending, i) \/ i = j
  BY <1>2, <1>4, AppendKeepsKey
<1> HIDE DEF t, k
<1>6. \A q \in DOMAIN ss \ {k} : KeyInv(ss[q], q, worker)
  BY <1>2 DEF StatesInv
<1>7. \A i \in Jobs : worker[i] \in SlotPositions => KeyOf[i] \in DOMAIN ss \union {k}
  BY <1>2 DEF StatesInv
<1>8. /\ StatesInv(With(ss, k, t), worker)
      /\ With(ss, k, t)[k] = t
      /\ k \in DOMAIN With(ss, k, t)
      /\ \A i \in Jobs : KeyOf[i] # k =>
                (PendingIn(With(ss, k, t), i) <=> PendingIn(ss, i))
  BY <1>1, <1>2, <1>5, <1>6, <1>7, UpdateKey
<1>9. \A i \in Jobs : KeyOf[i] = k => (PendingIn(With(ss, k, t), i) <=> PendingIn(ss, i) \/ i = j)
  BY <1>4, <1>5, <1>8 DEF PendingIn
<1>10. KeyOf[j] = k
  BY DEF k
<1> QED
  BY <1>2, <1>3, <1>8, <1>9, <1>10

LEMMA ExpireStep ==
    ASSUME QueueInv, NEW now \in Nat, states' = Live(now)
    PROVE  /\ StatesInv(states', worker)
           /\ \A i \in Jobs : PendingIn(states', i) <=> Pending(i)
  BY LiveInv

LEMMA PopStep ==
    ASSUME QueueInv, NEW j \in Jobs, NEW now \in Nat, nextSelection \in Nat,
           worker \in [Jobs -> Positions], PopNext(j, now)
    PROVE  /\ StatesInv(states', [worker EXCEPT ![j] = "popped"])
           /\ Pending(j) /\ worker[j] = "none"
           /\ \A i \in Jobs : PendingIn(states', i) <=> Pending(i) /\ i # j
<1> DEFINE k == KeyOf[j]
           ss == Live(now)
           st == ss[k]
           t == Dispatch(st, j, now)
           w2 == [worker EXCEPT ![j] = "popped"]
<1>1. k \in Keys
  BY FairQueueAssumption
<1>2. StatesInv(ss, worker) /\ \A i \in Jobs : PendingIn(ss, i) <=> Pending(i)
  BY LiveInv
<1>3. k \in DOMAIN ss /\ st.pending # <<>> /\ j = Head(st.pending) /\ states' = With(ss, k, t)
  BY DEF PopNext
<1> HIDE DEF ss
<1>4. KeyInv(st, k, worker)
  BY <1>2, <1>3 DEF StatesInv
<1>6. \A i \in Jobs : KeyOf[i] = k => (Contains(st.pending, i) <=> PendingIn(ss, i))
  BY <1>3 DEF PendingIn
<1>7. \A q \in DOMAIN ss \ {k} : KeyInv(ss[q], q, w2)
  BY <1>2, OtherKey DEF StatesInv
<1>8. \A i \in Jobs : w2[i] \in SlotPositions => KeyOf[i] \in DOMAIN ss \union {k}
  BY <1>2 DEF StatesInv
<1>9. /\ KeyOf[j] = k
      /\ t = Dispatch(st, j, now)
      /\ w2 = [worker EXCEPT ![j] = "popped"]
  OBVIOUS
<1> HIDE DEF t, st, k, w2
<1>5. KeyInv(t, k, w2)
  BY <1>3, <1>4, <1>9, PopKeepsKey
<1>5a. Contains(st.pending, j) /\ worker[j] = "none"
  <2>1. st.pending \in Seq(Jobs) /\ 1 \in DOMAIN st.pending /\ j = st.pending[1]
    BY <1>3, <1>4, TailProperties DEF KeyInv, KeyCore, KeyStateOK
  <2> QED
    BY <1>4, <2>1 DEF KeyInv, KeyCore, Contains
<1>5b. \A i : Contains(t.pending, i) <=> Contains(st.pending, i) /\ i # j
  BY <1>3, <1>4, <1>9, PopKeepsPending
<1>10. /\ StatesInv(With(ss, k, t), w2)
       /\ With(ss, k, t)[k] = t
       /\ k \in DOMAIN With(ss, k, t)
       /\ \A i \in Jobs : KeyOf[i] # k =>
                 (PendingIn(With(ss, k, t), i) <=> PendingIn(ss, i))
  BY <1>1, <1>2, <1>5, <1>7, <1>8, UpdateKey
<1>11. \A i \in Jobs : KeyOf[i] = k =>
            (PendingIn(With(ss, k, t), i) <=> PendingIn(ss, i) /\ i # j)
  BY <1>5b, <1>6, <1>10 DEF PendingIn
<1>12. Pending(j)
  BY <1>2, <1>5a, <1>6, <1>9
<1> QED
  BY <1>2, <1>3, <1>5a, <1>9, <1>10, <1>11, <1>12 DEF w2

LEMMA RemoveStep ==
    ASSUME QueueInv, NEW j \in Jobs, NEW now \in Nat, RemovePending(j, now)
    PROVE  /\ StatesInv(states', worker)
           /\ Pending(j) /\ worker[j] = "none"
           /\ \A i \in Jobs : PendingIn(states', i) <=> Pending(i) /\ i # j
<1> DEFINE k == KeyOf[j]
           st == states[k]
           t == MarkIdleIfNeeded([st EXCEPT !.pending = RemoveAt(@, Position(@, j))], now)
<1>1. k \in Keys /\ k \in DOMAIN states /\ Contains(st.pending, j)
  BY FairQueueAssumption DEF RemovePending, Pending
<1>2. states = [q \in DOMAIN states |-> states[q]] /\ KeyInv(st, k, worker)
  BY <1>1 DEF QueueInv, StatesInv
<1>4. states' = With(states, k, t)
  BY DEF RemovePending
<1>5. KeyInv(t, k, worker)
      /\ \A i : Contains(t.pending, i) <=> Contains(st.pending, i) /\ i # j
  BY <1>1, <1>2, RemoveKeepsKey
<1>6. worker[j] = "none"
  BY <1>1, <1>2 DEF KeyInv, KeyCore, KeyStateOK, Contains
<1>7. \A i \in Jobs : KeyOf[i] = k => (Contains(st.pending, i) <=> Pending(i))
  BY <1>1 DEF Pending
<1> HIDE DEF t, st
<1>8. KeyOf[j] = k
  OBVIOUS
<1> HIDE DEF k
<1>9. /\ StatesInv(With(states, k, t), worker)
      /\ With(states, k, t)[k] = t
      /\ k \in DOMAIN With(states, k, t)
      /\ \A i \in Jobs : KeyOf[i] # k =>
                (PendingIn(With(states, k, t), i) <=> PendingIn(states, i))
  BY <1>1, <1>5, UpdateKey DEF QueueInv, StatesInv
<1>10. \A i \in Jobs : KeyOf[i] = k =>
            (PendingIn(With(states, k, t), i) <=> Pending(i) /\ i # j)
  BY <1>5, <1>7, <1>9 DEF PendingIn
<1>11. \A i : PendingIn(states, i) <=> Pending(i)
  BY DEF PendingIn, Pending
<1> QED
  BY <1>1, <1>4, <1>6, <1>7, <1>8, <1>9, <1>10, <1>11

\* What Complete and Abandon share: an active job gives its slot back.
LEMMA ReleaseStep ==
    ASSUME QueueInv, NEW j \in Jobs, NEW now \in Nat, NEW x, NEW v,
           worker \in [Jobs -> Positions], worker[j] \in SlotPositions,
           x \notin SlotPositions,
           states' = With(states, KeyOf[j], MarkIdleIfNeeded(
                        GiveBack(states[KeyOf[j]], j, v), now))
    PROVE  /\ StatesInv(states', [worker EXCEPT ![j] = x])
           /\ \A i \in Jobs : PendingIn(states', i) <=> Pending(i)
<1> DEFINE k == KeyOf[j]
           st == states[k]
           t == MarkIdleIfNeeded(GiveBack(st, j, v), now)
           w2 == [worker EXCEPT ![j] = x]
<1>1. k \in Keys /\ k \in DOMAIN states
  BY FairQueueAssumption DEF QueueInv, StatesInv
<1>2. KeyInv(st, k, worker) /\ j \in DOMAIN st.active
  BY <1>1 DEF QueueInv, StatesInv, KeyInv, KeyCore
<1>3. \A i \in Jobs : KeyOf[i] = k => (Contains(st.pending, i) <=> Pending(i))
  BY <1>1 DEF Pending
<1>4. states' = With(states, k, t)
  OBVIOUS
<1>4a. t.pending = st.pending
  BY <1>2 DEF MarkIdleIfNeeded, GiveBack, KeyInv, KeyCore, KeyStateOK
<1>6. \A q \in DOMAIN states \ {k} : KeyInv(states[q], q, w2)
  BY OtherKey DEF QueueInv, StatesInv
<1>7. \A i \in Jobs : w2[i] \in SlotPositions => KeyOf[i] \in DOMAIN states \union {k}
  BY DEF QueueInv, StatesInv
<1>8a. /\ t = MarkIdleIfNeeded(GiveBack(st, j, v), now)
       /\ w2 = [worker EXCEPT ![j] = x]
  OBVIOUS
<1> HIDE DEF t, st, k, w2
<1>5. KeyInv(t, k, w2)
  BY <1>2, <1>8a, ReleaseKeepsKey
<1>8. /\ StatesInv(With(states, k, t), w2)
      /\ With(states, k, t)[k] = t
      /\ k \in DOMAIN With(states, k, t)
      /\ \A i \in Jobs : KeyOf[i] # k =>
                (PendingIn(With(states, k, t), i) <=> PendingIn(states, i))
  BY <1>1, <1>5, <1>6, <1>7, UpdateKey DEF QueueInv
<1>9. \A i \in Jobs : KeyOf[i] = k => (PendingIn(With(states, k, t), i) <=> Pending(i))
  BY <1>3, <1>4a, <1>8 DEF PendingIn
<1>10. \A i : PendingIn(states, i) <=> Pending(i)
  BY DEF PendingIn, Pending
<1> QED
  BY <1>4, <1>8, <1>9, <1>10 DEF w2

LEMMA DrainStep ==
    ASSUME QueueInv, NEW now \in Nat, Drain(now)
    PROVE  /\ StatesInv(states', worker)
           /\ \A i \in Jobs : ~PendingIn(states', i)
<1> DEFINE t(q) == MarkIdleIfNeeded([states[q] EXCEPT !.pending = <<>>], now)
<1>1. states' = [k \in DOMAIN states |-> t(k)]
  BY DEF Drain
<1>2. \A k \in DOMAIN states : KeyInv(t(k), k, worker) /\ t(k).pending = <<>>
  BY DrainKeepsKey DEF QueueInv, StatesInv
<1> HIDE DEF t
<1>3. /\ DOMAIN states' = DOMAIN states
      /\ \A k \in DOMAIN states : states'[k] = t(k)
      /\ states' = [k \in DOMAIN states' |-> states'[k]]
  BY <1>1
<1>4. StatesInv(states', worker)
  BY <1>2, <1>3 DEF QueueInv, StatesInv
<1>5. \A i \in Jobs : ~PendingIn(states', i)
  BY <1>2, <1>3 DEF PendingIn, Contains
<1> QED
  BY <1>4, <1>5

----------------------------------------------------------------------------
(* Slots and sets of jobs *)

LEMMA Capacity == EffectiveTargetInflight \in Nat \ {0}
  BY ExecutorAssumption DEF EffectiveTargetInflight, AtLeastOne

LEMMA FiniteSetsOfJobs ==
    ASSUME NEW S, S \subseteq Jobs
    PROVE  IsFiniteSet(S) /\ Cardinality(S) \in Nat
  BY FairQueueAssumption, FS_Subset, FS_CardinalityType

----------------------------------------------------------------------------
(* The initial states *)

LEMMA InitInvariant == Init => IInv
<1> SUFFICES ASSUME Init PROVE IInv
  OBVIOUS
<1> DEFINE e == <<>>
<1>1. e \in Seq(Jobs) /\ e = <<>> /\ DOMAIN e = {} /\ e = [k \in DOMAIN e |-> e[k]]
  OBVIOUS
<1>2. states = e
  BY DEF Init, QueueInit
<1> HIDE DEF e
<1>3. \A j \in Jobs : ~Pending(j)
  BY <1>1, <1>2 DEF Pending
<1>4. QueuedJobs = {} /\ SlotHolders = {}
  BY <1>3 DEF QueuedJobs, SlotHolders, Init, SlotPositions
<1>5. TypeOK
  BY <1>1, <1>2 DEF Init, QueueInit, TypeOK, Positions
<1>6. QueueInv
  BY <1>1, <1>2 DEF Init, QueueInv, StatesInv, SlotPositions
<1>7. ThreadsInv
  BY <1>3 DEF Init, ThreadsInv, ThreadInv
<1>8. SlotAccounting
  <2>1. UNION {DOMAIN states[k].active : k \in DOMAIN states} = {}
    BY <1>1, <1>2
  <2> QED
    BY <1>4, <2>1, Capacity, FS_EmptySet DEF SlotAccounting, Init
<1>9. PendingAccounting
  BY <1>1, <1>2, <1>4, FS_EmptySet, FairQueueAssumption DEF PendingAccounting, Init, QueueInit
<1>10. NoLostWakeup
  BY DEF Init, NoLostWakeup
<1>11. OneStart
  BY DEF Init, OneStart
<1> QED
  BY <1>5, <1>6, <1>7, <1>8, <1>9, <1>10, <1>11 DEF IInv

----------------------------------------------------------------------------
(* What a step does to the queue *)

\* A step that leaves the queue alone and moves no job into or out of a slot.
LEMMA QuietStep ==
    ASSUME QueueInv, TypeOK, states' = states,
           \/ worker' = worker
           \/ \E j \in Jobs : \E x \in Positions :
                 /\ worker' = [worker EXCEPT ![j] = x]
                 /\ worker[j] # "none"
                 /\ worker[j] \in SlotPositions <=> x \in SlotPositions
    PROVE  QueueInv' /\ \A i \in Jobs : Pending(i)' <=> Pending(i)
<1>1. \A i \in Jobs : Pending(i)' <=> Pending(i)
  BY DEF Pending
<1>2. CASE worker' = worker
  BY <1>1, <1>2 DEF QueueInv
<1>3. ASSUME NEW j \in Jobs, NEW x \in Positions,
             worker' = [worker EXCEPT ![j] = x], worker[j] # "none",
             worker[j] \in SlotPositions <=> x \in SlotPositions
      PROVE  QueueInv'
  <2>1. worker \in [Jobs -> Positions]
    BY DEF TypeOK
  <2>2. \A k \in DOMAIN states : KeyInv(states[k], k, worker')
    BY <1>3, <2>1, OtherMove DEF QueueInv, StatesInv
  <2>3. \A i \in Jobs : worker'[i] \in SlotPositions => KeyOf[i] \in DOMAIN states
    BY <1>3, <2>1 DEF QueueInv, StatesInv
  <2> QED
    BY <2>2, <2>3 DEF QueueInv, StatesInv
<1> QED
  BY <1>1, <1>2, <1>3

----------------------------------------------------------------------------
(* Parts of the invariant that a step keeps *)

LEMMA StatesType ==
    ASSUME NEW ss, NEW w, StatesInv(ss, w)
    PROVE  /\ DOMAIN ss \subseteq Keys
           /\ ss = [k \in DOMAIN ss |-> ss[k]]
           /\ \A k \in DOMAIN ss : KeyStateOK(ss[k])
  BY DEF StatesInv, KeyInv, KeyCore

LEMMA PendingUndispatched ==
    ASSUME QueueInv
    PROVE  \A j \in Jobs : Pending(j) => worker[j] = "none"
  BY DEF QueueInv, StatesInv, KeyInv, KeyCore, KeyStateOK, Pending, Contains

\* The jobs whose time runs in the scores are the slot holders.
LEMMA ActiveAreHolders ==
    ASSUME NEW ss, NEW w, StatesInv(ss, w)
    PROVE  UNION {DOMAIN ss[k].active : k \in DOMAIN ss} = {j \in Jobs : w[j] \in SlotPositions}
<1>1. ASSUME NEW j, NEW k \in DOMAIN ss, j \in DOMAIN ss[k].active
      PROVE  j \in Jobs /\ w[j] \in SlotPositions
  BY <1>1 DEF StatesInv, KeyInv, KeyCore, KeyStateOK
<1>2. ASSUME NEW j \in Jobs, w[j] \in SlotPositions
      PROVE  KeyOf[j] \in DOMAIN ss /\ j \in DOMAIN ss[KeyOf[j]].active
  BY <1>2 DEF StatesInv, KeyInv, KeyCore
<1> QED
  BY <1>1, <1>2

\* Slots and their bookkeeping, after a step that moves at most one job.
LEMMA SlotsKept ==
    ASSUME IInv, QueueInv',
           \/ SlotHolders' = SlotHolders /\ UNCHANGED slotVars
           \/ \E j \in Jobs \ SlotHolders :
                 /\ SlotHolders' = SlotHolders \union {j}
                 /\ activeHandles' = activeHandles \union {j}
                 /\ runtimeInflight' = runtimeInflight + 1
                 /\ runtimeInflight < EffectiveTargetInflight
           \/ \E j \in SlotHolders : SlotHolders' = SlotHolders \ {j} /\ ReleaseSlot(j)
    PROVE  SlotAccounting' /\ runtimeInflight' \in Nat
<1> DEFINE H == SlotHolders
<1>0. IsFiniteSet(H) /\ Cardinality(H) \in Nat
  BY FiniteSetsOfJobs DEF SlotHolders
<1>1. /\ runtimeInflight = Cardinality(H) /\ runtimeInflight <= EffectiveTargetInflight
      /\ activeHandles = H /\ runtimeInflight \in Nat
  BY DEF IInv, SlotAccounting, TypeOK
<1>2. UNION {DOMAIN states'[k].active : k \in DOMAIN states'} = SlotHolders'
  BY ActiveAreHolders DEF QueueInv, SlotHolders
<1>3. CASE SlotHolders' = SlotHolders /\ UNCHANGED slotVars
  BY <1>1, <1>2, <1>3 DEF SlotAccounting, slotVars, EffectiveTargetInflight
<1>4. ASSUME NEW j \in Jobs \ SlotHolders,
             SlotHolders' = SlotHolders \union {j},
             activeHandles' = activeHandles \union {j},
             runtimeInflight' = runtimeInflight + 1,
             runtimeInflight < EffectiveTargetInflight
      PROVE  SlotAccounting' /\ runtimeInflight' \in Nat
  <2>1. Cardinality(H \union {j}) = Cardinality(H) + 1
    BY <1>0, FS_AddElement
  <2> QED
    BY <1>1, <1>2, <1>4, <2>1, Capacity DEF SlotAccounting, EffectiveTargetInflight
<1>5. ASSUME NEW j \in SlotHolders,
             SlotHolders' = SlotHolders \ {j}, ReleaseSlot(j)
      PROVE  SlotAccounting' /\ runtimeInflight' \in Nat
  <2>1. Cardinality(H \ {j}) = Cardinality(H) - 1 /\ Cardinality(H \ {j}) \in Nat
    BY <1>0, FS_RemoveElement, FS_CardinalityType
  <2> QED
    BY <1>0, <1>1, <1>2, <1>5, <2>1, Capacity
       DEF SlotAccounting, ReleaseSlot, EffectiveTargetInflight
<1> QED
  BY <1>3, <1>4, <1>5

\* The pending count, after a step that queues or unqueues at most one job or
\* empties the queue.
LEMMA PendingKept ==
    ASSUME IInv, QueueInv',
           \/ (\A i \in Jobs : Pending(i)' <=> Pending(i)) /\ pendingCount' = pendingCount
           \/ \E j \in Jobs :
                 /\ ~Pending(j) /\ \A i \in Jobs : Pending(i)' <=> Pending(i) \/ i = j
                 /\ pendingCount' = pendingCount + 1
                 /\ pendingCount < MaxPendingPerExecutor
           \/ \E j \in Jobs :
                 /\ Pending(j) /\ \A i \in Jobs : Pending(i)' <=> Pending(i) /\ i # j
                 /\ pendingCount' = pendingCount - 1
           \/ (\A i \in Jobs : ~Pending(i)') /\ pendingCount' = 0
    PROVE  PendingAccounting' /\ pendingCount' \in Nat
<1> DEFINE Q == QueuedJobs
<1>0. IsFiniteSet(Q) /\ Cardinality(Q) \in Nat
  BY FiniteSetsOfJobs DEF QueuedJobs
<1>1. /\ pendingCount = Cardinality(Q) /\ pendingCount <= MaxPendingPerExecutor
      /\ pendingCount \in Nat /\ MaxPendingPerExecutor \in Nat
  BY FairQueueAssumption DEF IInv, PendingAccounting, TypeOK
<1>2. \A k \in DOMAIN states' : Len(states'[k].pending) <= MaxPendingPerKey
  BY DEF QueueInv, StatesInv, KeyInv, KeyCore
<1>3. CASE (\A i \in Jobs : Pending(i)' <=> Pending(i)) /\ pendingCount' = pendingCount
  <2>1. QueuedJobs' = Q
    BY <1>3 DEF QueuedJobs
  <2> QED
    BY <1>1, <1>2, <1>3, <2>1 DEF PendingAccounting
<1>4. ASSUME NEW j \in Jobs, ~Pending(j),
             \A i \in Jobs : Pending(i)' <=> Pending(i) \/ i = j,
             pendingCount' = pendingCount + 1, pendingCount < MaxPendingPerExecutor
      PROVE  PendingAccounting' /\ pendingCount' \in Nat
  <2>1. QueuedJobs' = Q \union {j} /\ j \notin Q
    BY <1>4 DEF QueuedJobs
  <2>2. Cardinality(Q \union {j}) = Cardinality(Q) + 1
    BY <1>0, <2>1, FS_AddElement
  <2> QED
    BY <1>1, <1>2, <1>4, <2>1, <2>2 DEF PendingAccounting
<1>5. ASSUME NEW j \in Jobs, Pending(j),
             \A i \in Jobs : Pending(i)' <=> Pending(i) /\ i # j,
             pendingCount' = pendingCount - 1
      PROVE  PendingAccounting' /\ pendingCount' \in Nat
  <2>1. QueuedJobs' = Q \ {j} /\ j \in Q
    BY <1>5 DEF QueuedJobs
  <2>2. Cardinality(Q \ {j}) = Cardinality(Q) - 1 /\ Cardinality(Q \ {j}) \in Nat
    BY <1>0, <2>1, FS_RemoveElement, FS_CardinalityType
  <2> QED
    BY <1>0, <1>1, <1>2, <1>5, <2>1, <2>2 DEF PendingAccounting
<1>6. CASE (\A i \in Jobs : ~Pending(i)') /\ pendingCount' = 0
  <2>1. QueuedJobs' = {}
    BY <1>6 DEF QueuedJobs
  <2> QED
    BY <1>1, <1>2, <1>6, <2>1, FS_EmptySet DEF PendingAccounting
<1> QED
  BY <1>3, <1>4, <1>5, <1>6

\* All of it, for a step that leaves the queue alone and moves no job into or
\* out of a slot.
LEMMA QuietKeeps ==
    ASSUME IInv, UNCHANGED <<states, pendingCount, slotVars>>,
           \/ worker' = worker
           \/ \E j \in Jobs : \E x \in Positions :
                 /\ worker' = [worker EXCEPT ![j] = x]
                 /\ worker[j] # "none"
                 /\ worker[j] \in SlotPositions <=> x \in SlotPositions
    PROVE  /\ QueueInv' /\ SlotAccounting' /\ PendingAccounting'
           /\ \A i \in Jobs : Pending(i)' <=> Pending(i)
<1>1. QueueInv' /\ \A i \in Jobs : Pending(i)' <=> Pending(i)
  BY QuietStep DEF IInv
<1>2. SlotHolders' = SlotHolders
  BY DEF SlotHolders, IInv, TypeOK
<1>3. SlotAccounting'
  BY <1>1, <1>2, SlotsKept
<1>4. PendingAccounting'
  BY <1>1, PendingKept
<1> QED
  BY <1>1, <1>3, <1>4

----------------------------------------------------------------------------
(* The inductive step *)

\* Every step of every thread keeps the inductive invariant: it holds through
\* each critical section of scheduler.py whatever the others are doing.
THEOREM NextInvariant == IInv /\ [Next]_vars => IInv'
<1> SUFFICES ASSUME IInv, [Next]_vars PROVE IInv'
  OBVIOUS
<1> USE DEF IInv, queueVars, slotVars, workerVars, handleVars, shutdownVars
<1>1. ASSUME NEW j \in Jobs, SubmitUnloading(j)
      PROVE  IInv'
  <2>1. /\ QueueInv' /\ SlotAccounting' /\ PendingAccounting'
        /\ \A i \in Jobs : Pending(i)' <=> Pending(i)
    BY <1>1, QuietKeeps DEF SubmitUnloading, Positions, SlotPositions
  <2>2. TypeOK'
    BY <1>1, <2>1, StatesType DEF SubmitUnloading, TypeOK, QueueInv, Positions, SlotPositions
  <2>3. ThreadsInv'
    BY <1>1, <2>1 DEF SubmitUnloading, ThreadsInv, ThreadInv, TypeOK
  <2>4. NoLostWakeup'
    BY <1>1 DEF SubmitUnloading, NoLostWakeup, MayReturn, MayDispatch
  <2>5. OneStart'
    BY <1>1 DEF SubmitUnloading, OneStart, TypeOK
  <2> QED
    BY <2>1, <2>2, <2>3, <2>4, <2>5
<1>2. ASSUME NEW j \in Jobs, Cancel(j)
      PROVE  IInv'
  <2>1. /\ QueueInv' /\ SlotAccounting' /\ PendingAccounting'
        /\ \A i \in Jobs : Pending(i)' <=> Pending(i)
    BY <1>2, QuietKeeps DEF Cancel, Positions, SlotPositions
  <2>2. TypeOK'
    BY <1>2, <2>1, StatesType DEF Cancel, TypeOK, QueueInv, Positions, SlotPositions
  <2>3. ThreadsInv'
    BY <1>2, <2>1 DEF Cancel, ThreadsInv, ThreadInv, TypeOK
  <2>4. NoLostWakeup'
    BY <1>2 DEF Cancel, NoLostWakeup, MayReturn, MayDispatch
  <2>5. OneStart'
    BY <1>2 DEF Cancel, OneStart, TypeOK
  <2> QED
    BY <2>1, <2>2, <2>3, <2>4, <2>5
<1>3. ASSUME NEW j \in Jobs, CancelFail(j)
      PROVE  IInv'
  <2>1. /\ QueueInv' /\ SlotAccounting' /\ PendingAccounting'
        /\ \A i \in Jobs : Pending(i)' <=> Pending(i)
    BY <1>3, QuietKeeps DEF CancelFail, Positions, SlotPositions
  <2>2. TypeOK'
    BY <1>3, <2>1, StatesType DEF CancelFail, Finish, TypeOK, QueueInv, Positions, SlotPositions
  <2>3. ThreadsInv'
    BY <1>3, <2>1 DEF CancelFail, Finish, ThreadsInv, ThreadInv, TypeOK
  <2>4. NoLostWakeup'
    BY <1>3 DEF CancelFail, NoLostWakeup, MayReturn, MayDispatch
  <2>5. OneStart'
    BY <1>3 DEF CancelFail, OneStart, TypeOK
  <2> QED
    BY <2>1, <2>2, <2>3, <2>4, <2>5
<1>4. CASE LoopStart
  <2>1. /\ QueueInv' /\ SlotAccounting' /\ PendingAccounting'
        /\ \A i \in Jobs : Pending(i)' <=> Pending(i)
    BY <1>4, QuietKeeps DEF LoopStart, Positions, SlotPositions
  <2>2. TypeOK'
    BY <1>4, <2>1, StatesType DEF LoopStart, TypeOK, QueueInv, Positions, SlotPositions
  <2>3. ThreadsInv'
    BY <1>4, <2>1 DEF LoopStart, ThreadsInv, ThreadInv, TypeOK
  <2>4. NoLostWakeup'
    BY <1>4 DEF LoopStart, NoLostWakeup, MayReturn, MayDispatch
  <2>5. OneStart'
    BY <1>4 DEF LoopStart, OneStart, TypeOK
  <2> QED
    BY <2>1, <2>2, <2>3, <2>4, <2>5
<1>5. CASE LoopReturn
  <2>1. /\ QueueInv' /\ SlotAccounting' /\ PendingAccounting'
        /\ \A i \in Jobs : Pending(i)' <=> Pending(i)
    BY <1>5, QuietKeeps DEF LoopReturn, Positions, SlotPositions
  <2>2. TypeOK'
    BY <1>5, <2>1, StatesType DEF LoopReturn, TypeOK, QueueInv, Positions, SlotPositions
  <2>3. ThreadsInv'
    BY <1>5, <2>1 DEF LoopReturn, ThreadsInv, ThreadInv, TypeOK
  <2>4. NoLostWakeup'
    BY <1>5 DEF LoopReturn, NoLostWakeup, MayReturn, MayDispatch
  <2>5. OneStart'
    BY <1>5 DEF LoopReturn, OneStart, TypeOK
  <2> QED
    BY <2>1, <2>2, <2>3, <2>4, <2>5
<1>6. CASE LoopWait
  <2>1. /\ QueueInv' /\ SlotAccounting' /\ PendingAccounting'
        /\ \A i \in Jobs : Pending(i)' <=> Pending(i)
    BY <1>6, QuietKeeps DEF LoopWait, Positions, SlotPositions
  <2>2. TypeOK'
    BY <1>6, <2>1, StatesType DEF LoopWait, TypeOK, QueueInv, Positions, SlotPositions
  <2>3. ThreadsInv'
    BY <1>6, <2>1 DEF LoopWait, ThreadsInv, ThreadInv, TypeOK
  <2>4. NoLostWakeup'
    BY <1>6 DEF LoopWait, NoLostWakeup, MayReturn, MayDispatch
  <2>5. OneStart'
    BY <1>6 DEF LoopWait, OneStart, TypeOK
  <2> QED
    BY <2>1, <2>2, <2>3, <2>4, <2>5
<1>7. ASSUME NEW j \in Jobs, LoopSpawn(j)
      PROVE  IInv'
  <2>1. /\ QueueInv' /\ SlotAccounting' /\ PendingAccounting'
        /\ \A i \in Jobs : Pending(i)' <=> Pending(i)
    BY <1>7, QuietKeeps DEF LoopSpawn, Positions, SlotPositions
  <2>2. TypeOK'
    BY <1>7, <2>1, StatesType DEF LoopSpawn, TypeOK, QueueInv, Positions, SlotPositions
  <2>3. ThreadsInv'
    <3>1. ThreadInv(j)'
      BY <1>7, <2>1, PendingUndispatched DEF LoopSpawn, ThreadsInv, ThreadInv, TypeOK
    <3>2. ASSUME NEW i \in Jobs \ {j} PROVE ThreadInv(i)'
      BY <1>7, <2>1 DEF LoopSpawn, ThreadsInv, ThreadInv, OneStart, TypeOK
    <3> QED
      BY <3>1, <3>2 DEF ThreadsInv
  <2>4. NoLostWakeup'
    BY <1>7 DEF LoopSpawn, NoLostWakeup, MayReturn, MayDispatch
  <2>5. OneStart'
    BY <1>7 DEF LoopSpawn, OneStart, TypeOK
  <2> QED
    BY <2>1, <2>2, <2>3, <2>4, <2>5
<1>8. ASSUME NEW j \in Jobs, LoopFail(j)
      PROVE  IInv'
  <2>1. /\ QueueInv' /\ SlotAccounting' /\ PendingAccounting'
        /\ \A i \in Jobs : Pending(i)' <=> Pending(i)
    <3>1. /\ worker' = [worker EXCEPT ![j] = "ended"] /\ worker[j] # "none"
          /\ worker[j] \notin SlotPositions /\ "ended" \notin SlotPositions
          /\ "ended" \in Positions /\ UNCHANGED <<states, pendingCount, slotVars>>
      BY <1>8 DEF LoopFail, Positions, SlotPositions
    <3> QED
      BY <3>1, QuietKeeps
  <2>2. TypeOK'
    BY <1>8, <2>1, StatesType DEF LoopFail, Finish, TypeOK, QueueInv, Positions, SlotPositions
  <2>3. ThreadsInv'
    <3>1. ThreadInv(j)'
      BY <1>8, <2>1, PendingUndispatched DEF LoopFail, Finish, ThreadsInv, ThreadInv, TypeOK
    <3>2. ASSUME NEW i \in Jobs \ {j} PROVE ThreadInv(i)'
      BY <1>8, <2>1 DEF LoopFail, Finish, ThreadsInv, ThreadInv, OneStart, TypeOK
    <3> QED
      BY <3>1, <3>2 DEF ThreadsInv
  <2>4. NoLostWakeup'
    BY <1>8 DEF LoopFail, NoLostWakeup, MayReturn, MayDispatch
  <2>5. OneStart'
    BY <1>8 DEF LoopFail, OneStart, TypeOK
  <2> QED
    BY <2>1, <2>2, <2>3, <2>4, <2>5
<1>9. ASSUME NEW j \in Jobs, WorkerBegin(j)
      PROVE  IInv'
  <2>1. /\ QueueInv' /\ SlotAccounting' /\ PendingAccounting'
        /\ \A i \in Jobs : Pending(i)' <=> Pending(i)
    BY <1>9, QuietKeeps DEF WorkerBegin, Positions, SlotPositions
  <2>2. TypeOK'
    BY <1>9, <2>1, StatesType DEF WorkerBegin, TypeOK, QueueInv, Positions, SlotPositions
  <2>3. ThreadsInv'
    BY <1>9, <2>1 DEF WorkerBegin, ThreadsInv, ThreadInv, TypeOK
  <2>4. NoLostWakeup'
    BY <1>9 DEF WorkerBegin, NoLostWakeup, MayReturn, MayDispatch
  <2>5. OneStart'
    BY <1>9 DEF WorkerBegin, OneStart, TypeOK
  <2> QED
    BY <2>1, <2>2, <2>3, <2>4, <2>5
<1>10. ASSUME NEW j \in Jobs, WorkerCheckCancelled(j)
      PROVE  IInv'
  <2>1. /\ QueueInv' /\ SlotAccounting' /\ PendingAccounting'
        /\ \A i \in Jobs : Pending(i)' <=> Pending(i)
    BY <1>10, QuietKeeps DEF WorkerCheckCancelled, Positions, SlotPositions
  <2>2. TypeOK'
    BY <1>10, <2>1, StatesType DEF WorkerCheckCancelled, TypeOK, QueueInv, Positions, SlotPositions
  <2>3. ThreadsInv'
    BY <1>10, <2>1 DEF WorkerCheckCancelled, ThreadsInv, ThreadInv, TypeOK
  <2>4. NoLostWakeup'
    BY <1>10 DEF WorkerCheckCancelled, NoLostWakeup, MayReturn, MayDispatch
  <2>5. OneStart'
    BY <1>10 DEF WorkerCheckCancelled, OneStart, TypeOK
  <2> QED
    BY <2>1, <2>2, <2>3, <2>4, <2>5
<1>11. ASSUME NEW j \in Jobs, WorkerReturn(j)
      PROVE  IInv'
  <2>1. /\ QueueInv' /\ SlotAccounting' /\ PendingAccounting'
        /\ \A i \in Jobs : Pending(i)' <=> Pending(i)
    BY <1>11, QuietKeeps DEF WorkerReturn, Positions, SlotPositions
  <2>2. TypeOK'
    BY <1>11, <2>1, StatesType DEF WorkerReturn, TypeOK, QueueInv, Positions, SlotPositions
  <2>3. ThreadsInv'
    BY <1>11, <2>1 DEF WorkerReturn, ThreadsInv, ThreadInv, TypeOK
  <2>4. NoLostWakeup'
    BY <1>11 DEF WorkerReturn, NoLostWakeup, MayReturn, MayDispatch
  <2>5. OneStart'
    BY <1>11 DEF WorkerReturn, OneStart, TypeOK
  <2> QED
    BY <2>1, <2>2, <2>3, <2>4, <2>5
<1>12. ASSUME NEW j \in Jobs, WorkerReport(j)
      PROVE  IInv'
  <2>1. /\ QueueInv' /\ SlotAccounting' /\ PendingAccounting'
        /\ \A i \in Jobs : Pending(i)' <=> Pending(i)
    BY <1>12, QuietKeeps DEF WorkerReport, Positions, SlotPositions
  <2>2. TypeOK'
    BY <1>12, <2>1, StatesType DEF WorkerReport, Finish, TypeOK, QueueInv, Positions, SlotPositions
  <2>3. ThreadsInv'
    <3>1. ThreadInv(j)'
      BY <1>12, <2>1, PendingUndispatched DEF WorkerReport, Finish, ThreadsInv, ThreadInv, TypeOK
    <3>2. ASSUME NEW i \in Jobs \ {j} PROVE ThreadInv(i)'
      BY <1>12, <2>1 DEF WorkerReport, Finish, ThreadsInv, ThreadInv, OneStart, TypeOK
    <3> QED
      BY <3>1, <3>2 DEF ThreadsInv
  <2>4. NoLostWakeup'
    BY <1>12 DEF WorkerReport, NoLostWakeup, MayReturn, MayDispatch
  <2>5. OneStart'
    BY <1>12 DEF WorkerReport, OneStart, TypeOK
  <2> QED
    BY <2>1, <2>2, <2>3, <2>4, <2>5
<1>13. ASSUME NEW j \in Jobs, WorkerComplete(j)
      PROVE  IInv'
  <2>1. /\ QueueInv' /\ SlotAccounting' /\ PendingAccounting'
        /\ \A i \in Jobs : Pending(i)' <=> Pending(i)
    <3>1. /\ worker' = [worker EXCEPT ![j] = "ended"] /\ worker[j] # "none"
          /\ worker[j] \notin SlotPositions /\ "ended" \notin SlotPositions
          /\ "ended" \in Positions /\ UNCHANGED <<states, pendingCount, slotVars>>
      BY <1>13 DEF WorkerComplete, Positions, SlotPositions
    <3> QED
      BY <3>1, QuietKeeps
  <2>2. TypeOK'
    BY <1>13, <2>1, StatesType DEF WorkerComplete, Finish, TypeOK, QueueInv, Positions, SlotPositions
  <2>3. ThreadsInv'
    <3>1. ThreadInv(j)'
      BY <1>13, <2>1, PendingUndispatched DEF WorkerComplete, Finish, ThreadsInv, ThreadInv, TypeOK
    <3>2. ASSUME NEW i \in Jobs \ {j} PROVE ThreadInv(i)'
      BY <1>13, <2>1 DEF WorkerComplete, Finish, ThreadsInv, ThreadInv, OneStart, TypeOK
    <3> QED
      BY <3>1, <3>2 DEF ThreadsInv
  <2>4. NoLostWakeup'
    BY <1>13 DEF WorkerComplete, NoLostWakeup, MayReturn, MayDispatch
  <2>5. OneStart'
    BY <1>13 DEF WorkerComplete, OneStart, TypeOK
  <2> QED
    BY <2>1, <2>2, <2>3, <2>4, <2>5
<1>14. ASSUME NEW j \in Jobs, ShutdownFail(j)
      PROVE  IInv'
  <2>1. /\ QueueInv' /\ SlotAccounting' /\ PendingAccounting'
        /\ \A i \in Jobs : Pending(i)' <=> Pending(i)
    BY <1>14, QuietKeeps DEF ShutdownFail, Positions, SlotPositions
  <2>2. TypeOK'
    BY <1>14, <2>1, StatesType DEF ShutdownFail, Finish, TypeOK, QueueInv, Positions, SlotPositions
  <2>3. ThreadsInv'
    BY <1>14, <2>1 DEF ShutdownFail, Finish, ThreadsInv, ThreadInv, TypeOK
  <2>4. NoLostWakeup'
    BY <1>14 DEF ShutdownFail, NoLostWakeup, MayReturn, MayDispatch
  <2>5. OneStart'
    BY <1>14 DEF ShutdownFail, OneStart, TypeOK
  <2> QED
    BY <2>1, <2>2, <2>3, <2>4, <2>5
<1>15. ASSUME NEW j \in Jobs, ShutdownCancel(j)
      PROVE  IInv'
  <2>1. /\ QueueInv' /\ SlotAccounting' /\ PendingAccounting'
        /\ \A i \in Jobs : Pending(i)' <=> Pending(i)
    BY <1>15, QuietKeeps DEF ShutdownCancel, Positions, SlotPositions
  <2>2. TypeOK'
    <3>1. CASE outcome[j] = "open" /\ ~cancelled[j]
      <4>1. /\ cancelled' \in [Jobs -> BOOLEAN] /\ calling' \subseteq Jobs
            /\ toCancel' \subseteq Jobs
        <5>1. /\ cancelled' = [cancelled EXCEPT ![j] = TRUE] /\ calling' = {j}
              /\ toCancel' = toCancel \ {j}
          BY <1>15, <3>1 DEF ShutdownCancel
        <5>2. cancelled' \in [Jobs -> BOOLEAN]
          BY <5>1 DEF TypeOK
        <5> QED
          BY <5>1, <5>2 DEF TypeOK
      <4>2. canceller' \in [Jobs -> {"idle", "callback", "failing", "done"}]
        BY <1>15, <3>1 DEF ShutdownCancel, TypeOK
      <4>3. UNCHANGED <<queueVars, clock, stopRequested, slotVars, loop, workerVars,
                        submitted, outcome, shutdown, toFail>>
        BY <1>15 DEF ShutdownCancel
      <4> QED
        BY <2>1, <4>1, <4>2, <4>3, StatesType DEF TypeOK, QueueInv
    <3>2. CASE ~(outcome[j] = "open" /\ ~cancelled[j])
      BY <1>15, <2>1, <3>2, StatesType DEF ShutdownCancel, TypeOK, QueueInv
    <3> QED
      BY <3>1, <3>2
  <2>3. ThreadsInv'
    BY <1>15, <2>1 DEF ShutdownCancel, ThreadsInv, ThreadInv, TypeOK
  <2>4. NoLostWakeup'
    BY <1>15 DEF ShutdownCancel, NoLostWakeup, MayReturn, MayDispatch
  <2>5. OneStart'
    BY <1>15 DEF ShutdownCancel, OneStart, TypeOK
  <2> QED
    BY <2>1, <2>2, <2>3, <2>4, <2>5
<1>16. ASSUME NEW j \in Jobs, ShutdownCancelled(j)
      PROVE  IInv'
  <2>1. /\ QueueInv' /\ SlotAccounting' /\ PendingAccounting'
        /\ \A i \in Jobs : Pending(i)' <=> Pending(i)
    BY <1>16, QuietKeeps DEF ShutdownCancelled, Positions, SlotPositions
  <2>2. TypeOK'
    BY <1>16, <2>1, StatesType DEF ShutdownCancelled, TypeOK, QueueInv, Positions, SlotPositions
  <2>3. ThreadsInv'
    BY <1>16, <2>1 DEF ShutdownCancelled, ThreadsInv, ThreadInv, TypeOK
  <2>4. NoLostWakeup'
    BY <1>16 DEF ShutdownCancelled, NoLostWakeup, MayReturn, MayDispatch
  <2>5. OneStart'
    BY <1>16 DEF ShutdownCancelled, OneStart, TypeOK
  <2> QED
    BY <2>1, <2>2, <2>3, <2>4, <2>5
<1>17. CASE ShutdownReturn
  <2>1. /\ QueueInv' /\ SlotAccounting' /\ PendingAccounting'
        /\ \A i \in Jobs : Pending(i)' <=> Pending(i)
    BY <1>17, QuietKeeps DEF ShutdownReturn, Positions, SlotPositions
  <2>2. TypeOK'
    BY <1>17, <2>1, StatesType DEF ShutdownReturn, TypeOK, QueueInv, Positions, SlotPositions
  <2>3. ThreadsInv'
    BY <1>17, <2>1 DEF ShutdownReturn, ThreadsInv, ThreadInv, TypeOK
  <2>4. NoLostWakeup'
    BY <1>17 DEF ShutdownReturn, NoLostWakeup, MayReturn, MayDispatch
  <2>5. OneStart'
    BY <1>17 DEF ShutdownReturn, OneStart, TypeOK
  <2> QED
    BY <2>1, <2>2, <2>3, <2>4, <2>5
<1>18. CASE Tick
  <2>1. /\ QueueInv' /\ SlotAccounting' /\ PendingAccounting'
        /\ \A i \in Jobs : Pending(i)' <=> Pending(i)
    BY <1>18, QuietKeeps DEF Tick, Positions, SlotPositions
  <2>2. TypeOK'
    BY <1>18, <2>1, StatesType DEF Tick, TypeOK, QueueInv, Positions, SlotPositions
  <2>3. ThreadsInv'
    BY <1>18, <2>1 DEF Tick, ThreadsInv, ThreadInv, TypeOK
  <2>4. NoLostWakeup'
    BY <1>18 DEF Tick, NoLostWakeup, MayReturn, MayDispatch
  <2>5. OneStart'
    BY <1>18 DEF Tick, OneStart, TypeOK
  <2> QED
    BY <2>1, <2>2, <2>3, <2>4, <2>5
<1>19. ASSUME NEW j \in Jobs, Submit(j)
      PROVE  IInv'
  <2>1. /\ worker' = worker /\ worker[j] = "none" /\ ~Pending(j)
        /\ clock \in Nat /\ nextActivation \in Nat /\ Enqueue(j, clock)
    BY <1>19 DEF Submit, ThreadsInv, ThreadInv, TypeOK
  <2>2. StatesInv(states', worker) /\ \A i \in Jobs : PendingIn(states', i) <=> Pending(i) \/ i = j
    BY <2>1, EnqueueStep
  <2>3. QueueInv' /\ \A i \in Jobs : Pending(i)' <=> Pending(i) \/ i = j
    BY <2>1, <2>2 DEF QueueInv, Pending, PendingIn
  <2>4. PendingAccounting' /\ pendingCount' \in Nat
    BY <2>1, <2>3, PendingKept DEF Enqueue, HasRoom
  <2>5. SlotAccounting'
    BY <1>19, <2>1, <2>3, SlotsKept DEF Submit, SlotHolders
  <2>6. TypeOK'
    BY <1>19, <2>1, <2>3, <2>4, StatesType
       DEF Submit, Enqueue, NotifyAll, TypeOK, QueueInv
  <2>7. ThreadsInv'
    BY <1>19, <2>1, <2>3 DEF Submit, NotifyAll, ThreadsInv, ThreadInv, TypeOK
  <2>8. NoLostWakeup'
    BY <1>19 DEF Submit, NotifyAll, NoLostWakeup
  <2>9. OneStart'
    BY <1>19, <2>1 DEF OneStart
  <2> QED
    BY <2>3, <2>4, <2>5, <2>6, <2>7, <2>8, <2>9
<1>20. ASSUME NEW j \in Jobs, SubmitRejected(j)
      PROVE  IInv'
  <2>1. /\ worker' = worker /\ clock \in Nat /\ states' = Live(clock)
        /\ pendingCount' = pendingCount /\ UNCHANGED slotVars
    BY <1>20 DEF SubmitRejected, RejectEnqueue, TypeOK
  <2>2. StatesInv(states', worker) /\ \A i \in Jobs : PendingIn(states', i) <=> Pending(i)
    BY <2>1, ExpireStep
  <2>3. QueueInv' /\ \A i \in Jobs : Pending(i)' <=> Pending(i)
    BY <2>1, <2>2 DEF QueueInv, Pending, PendingIn
  <2>4. PendingAccounting'
    BY <2>1, <2>3, PendingKept
  <2>5. SlotAccounting'
    BY <2>1, <2>3, SlotsKept DEF SlotHolders
  <2>6. TypeOK'
    BY <1>20, <2>1, <2>3, StatesType DEF SubmitRejected, RejectEnqueue, TypeOK, QueueInv
  <2>7. ThreadsInv'
    BY <1>20, <2>1, <2>3 DEF SubmitRejected, ThreadsInv, ThreadInv, TypeOK
  <2>8. NoLostWakeup'
    BY <1>20, <2>1 DEF SubmitRejected, NoLostWakeup, MayReturn, MayDispatch, EffectiveTargetInflight
  <2>9. OneStart'
    BY <2>1 DEF OneStart
  <2> QED
    BY <2>3, <2>4, <2>5, <2>6, <2>7, <2>8, <2>9
<1>21. CASE Snapshot
  <2>1. /\ worker' = worker /\ clock \in Nat /\ states' = Live(clock)
        /\ pendingCount' = pendingCount /\ UNCHANGED slotVars
    BY <1>21 DEF Snapshot, Snapshots, TypeOK
  <2>2. StatesInv(states', worker) /\ \A i \in Jobs : PendingIn(states', i) <=> Pending(i)
    BY <2>1, ExpireStep
  <2>3. QueueInv' /\ \A i \in Jobs : Pending(i)' <=> Pending(i)
    BY <2>1, <2>2 DEF QueueInv, Pending, PendingIn
  <2>4. PendingAccounting'
    BY <2>1, <2>3, PendingKept
  <2>5. SlotAccounting'
    BY <2>1, <2>3, SlotsKept DEF SlotHolders
  <2>6. TypeOK'
    BY <1>21, <2>1, <2>3, StatesType DEF Snapshot, Snapshots, TypeOK, QueueInv
  <2>7. ThreadsInv'
    BY <1>21, <2>1, <2>3 DEF Snapshot, ThreadsInv, ThreadInv, TypeOK
  <2>8. NoLostWakeup'
    BY <1>21, <2>1 DEF Snapshot, NoLostWakeup, MayReturn, MayDispatch, EffectiveTargetInflight
  <2>9. OneStart'
    BY <2>1 DEF OneStart
  <2> QED
    BY <2>3, <2>4, <2>5, <2>6, <2>7, <2>8, <2>9
<1>22. ASSUME NEW j \in Jobs, CancelRemove(j)
      PROVE  IInv'
  <2>0. canceller[j] = "callback" /\ worker' = worker /\ UNCHANGED slotVars /\ clock \in Nat
    BY <1>22 DEF CancelRemove, TypeOK
  <2>a. CASE ~Pending(j) /\ canceller' = [canceller EXCEPT ![j] = "done"]
             /\ UNCHANGED <<queueVars, loop>>
    <3>1. /\ QueueInv' /\ SlotAccounting' /\ PendingAccounting'
          /\ \A i \in Jobs : Pending(i)' <=> Pending(i)
      BY <2>0, <2>a, QuietKeeps DEF queueVars
    <3>2. TypeOK'
      BY <1>22, <2>a, <3>1, StatesType DEF CancelRemove, TypeOK, QueueInv
    <3>3. ThreadsInv'
      BY <1>22, <2>a, <3>1 DEF CancelRemove, ThreadsInv, ThreadInv, TypeOK
    <3>4. NoLostWakeup'
      BY <1>22, <2>a DEF CancelRemove, NoLostWakeup, MayReturn, MayDispatch
    <3>5. OneStart'
      BY <2>0 DEF OneStart
    <3> QED
      BY <3>1, <3>2, <3>3, <3>4, <3>5
  <2>b. CASE RemovePending(j, clock) /\ canceller' = [canceller EXCEPT ![j] = "failing"]
             /\ NotifyAll
    <3>1. /\ StatesInv(states', worker) /\ Pending(j) /\ worker[j] = "none"
          /\ \A i \in Jobs : PendingIn(states', i) <=> Pending(i) /\ i # j
      BY <2>0, <2>b, RemoveStep
    <3>2. QueueInv' /\ \A i \in Jobs : Pending(i)' <=> Pending(i) /\ i # j
      BY <2>0, <3>1 DEF QueueInv, Pending, PendingIn
    <3>3. PendingAccounting' /\ pendingCount' \in Nat
      BY <2>b, <3>1, <3>2, PendingKept DEF RemovePending
    <3>4. SlotAccounting'
      BY <2>0, <3>2, SlotsKept DEF SlotHolders
    <3>5. TypeOK'
      BY <1>22, <2>b, <3>2, <3>3, StatesType
         DEF CancelRemove, RemovePending, NotifyAll, TypeOK, QueueInv
    <3>6. ThreadsInv'
      BY <1>22, <2>b, <3>1, <3>2 DEF CancelRemove, NotifyAll, ThreadsInv, ThreadInv, TypeOK
    <3>7. NoLostWakeup'
      BY <2>b DEF NotifyAll, NoLostWakeup
    <3>8. OneStart'
      BY <2>0 DEF OneStart
    <3> QED
      BY <3>2, <3>3, <3>4, <3>5, <3>6, <3>7, <3>8
  <2> QED
    BY <1>22, <2>a, <2>b DEF CancelRemove
<1>23. ASSUME NEW j \in Jobs, LoopDispatch(j)
      PROVE  IInv'
  <2>1. /\ PopNext(j, clock) /\ worker' = [worker EXCEPT ![j] = "popped"]
        /\ clock \in Nat /\ nextSelection \in Nat /\ worker \in [Jobs -> Positions]
        /\ runtimeInflight < EffectiveTargetInflight
    BY <1>23 DEF LoopDispatch, MayDispatch, TypeOK
  <2>2. /\ StatesInv(states', worker') /\ Pending(j) /\ worker[j] = "none"
        /\ \A i \in Jobs : PendingIn(states', i) <=> Pending(i) /\ i # j
    BY <2>1, PopStep
  <2>3. QueueInv' /\ \A i \in Jobs : Pending(i)' <=> Pending(i) /\ i # j
    BY <2>2 DEF QueueInv, Pending, PendingIn
  <2>4. PendingAccounting' /\ pendingCount' \in Nat
    BY <2>1, <2>2, <2>3, PendingKept DEF PopNext
  <2>5. SlotHolders' = SlotHolders \union {j} /\ j \in Jobs \ SlotHolders
    BY <2>1, <2>2 DEF SlotHolders, SlotPositions
  <2>6. SlotAccounting' /\ runtimeInflight' \in Nat
    BY <1>23, <2>1, <2>3, <2>5, SlotsKept DEF LoopDispatch
  <2>7. TypeOK'
    BY <1>23, <2>1, <2>3, <2>4, <2>6, StatesType
       DEF LoopDispatch, PopNext, TypeOK, QueueInv, Positions, SlotPositions
  <2>8. ThreadsInv'
    BY <1>23, <2>1, <2>2, <2>3 DEF LoopDispatch, ThreadsInv, ThreadInv, TypeOK
  <2>9. NoLostWakeup'
    BY <1>23 DEF LoopDispatch, NoLostWakeup
  <2>10. OneStart'
    BY <1>23, <2>1 DEF LoopDispatch, OneStart, ThreadsInv, ThreadInv
  <2> QED
    BY <2>3, <2>4, <2>6, <2>7, <2>8, <2>9, <2>10
<1>24. ASSUME NEW j \in Jobs, LoopUnwind(j)
      PROVE  IInv'
  <2>1. /\ worker' = [worker EXCEPT ![j] = "unstarted"] /\ ReleaseSlot(j)
        /\ worker[j] = "popped" /\ pendingCount' = pendingCount
        /\ clock \in Nat /\ finishedAt[j] \in Nat /\ worker \in [Jobs -> Positions]
    BY <1>24 DEF LoopUnwind, Abandon, TypeOK
  <2>2. KeyOf[j] \in DOMAIN states /\ j \in DOMAIN states[KeyOf[j]].active
    BY <2>1 DEF QueueInv, StatesInv, KeyInv, KeyCore, SlotPositions
  <2>3. states' = With(states, KeyOf[j], MarkIdleIfNeeded(
                     GiveBack(states[KeyOf[j]], j, 0), clock))
    BY <1>24, <2>2 DEF LoopUnwind, Abandon
  <2>4. /\ StatesInv(states', worker')
        /\ \A i \in Jobs : PendingIn(states', i) <=> Pending(i)
    <3>1. worker[j] \in SlotPositions /\ "unstarted" \notin SlotPositions
      BY <2>1 DEF SlotPositions
    <3> QED
      BY <2>1, <2>3, <3>1, ReleaseStep
  <2>5. QueueInv' /\ \A i \in Jobs : Pending(i)' <=> Pending(i)
    BY <2>4 DEF QueueInv, Pending, PendingIn
  <2>6. PendingAccounting'
    BY <2>1, <2>5, PendingKept
  <2>7. SlotHolders' = SlotHolders \ {j} /\ j \in SlotHolders
    BY <2>1 DEF SlotHolders, SlotPositions
  <2>8. SlotAccounting' /\ runtimeInflight' \in Nat
    BY <2>1, <2>5, <2>7, SlotsKept
  <2>9. TypeOK'
    BY <1>24, <2>1, <2>5, <2>8, StatesType
       DEF LoopUnwind, Abandon, ReleaseSlot, NotifyAll, TypeOK, QueueInv, Positions, SlotPositions
  <2>10. ThreadsInv'
    <3>1. ThreadInv(j)'
      BY <1>24, <2>1, <2>5 DEF LoopUnwind, NotifyAll, ThreadsInv, ThreadInv, TypeOK
    <3>2. ASSUME NEW i \in Jobs \ {j} PROVE ThreadInv(i)'
      BY <1>24, <2>1, <2>5 DEF LoopUnwind, NotifyAll, ThreadsInv, ThreadInv, OneStart, TypeOK
    <3> QED
      BY <3>1, <3>2 DEF ThreadsInv
  <2>11. NoLostWakeup'
    BY <1>24 DEF LoopUnwind, NotifyAll, NoLostWakeup
  <2>12. OneStart'
    BY <2>1 DEF OneStart
  <2> QED
    BY <2>5, <2>6, <2>8, <2>9, <2>10, <2>11, <2>12
<1>25. ASSUME NEW j \in Jobs, WorkerRelease(j)
      PROVE  IInv'
  <2>1. /\ worker' = [worker EXCEPT ![j] = "released"] /\ ReleaseSlot(j)
        /\ worker[j] = "returned" /\ pendingCount' = pendingCount
        /\ clock \in Nat /\ finishedAt[j] \in Nat /\ worker \in [Jobs -> Positions]
    BY <1>25 DEF WorkerRelease, Complete, TypeOK
  <2>2. KeyOf[j] \in DOMAIN states /\ j \in DOMAIN states[KeyOf[j]].active
    BY <2>1 DEF QueueInv, StatesInv, KeyInv, KeyCore, SlotPositions
  <2>3. states' = With(states, KeyOf[j], MarkIdleIfNeeded(
                     GiveBack(states[KeyOf[j]], j, (finishedAt[j] - startedAt[j]) * Cost[KeyOf[j]]),
                     finishedAt[j]))
    BY <1>25, <2>2 DEF WorkerRelease, Complete
  <2>4. /\ StatesInv(states', worker')
        /\ \A i \in Jobs : PendingIn(states', i) <=> Pending(i)
    <3>1. worker[j] \in SlotPositions /\ "released" \notin SlotPositions
      BY <2>1 DEF SlotPositions
    <3> QED
      BY <2>1, <2>3, <3>1, ReleaseStep
  <2>5. QueueInv' /\ \A i \in Jobs : Pending(i)' <=> Pending(i)
    BY <2>4 DEF QueueInv, Pending, PendingIn
  <2>6. PendingAccounting'
    BY <2>1, <2>5, PendingKept
  <2>7. SlotHolders' = SlotHolders \ {j} /\ j \in SlotHolders
    BY <2>1 DEF SlotHolders, SlotPositions
  <2>8. SlotAccounting' /\ runtimeInflight' \in Nat
    BY <2>1, <2>5, <2>7, SlotsKept
  <2>9. TypeOK'
    BY <1>25, <2>1, <2>5, <2>8, StatesType
       DEF WorkerRelease, Complete, ReleaseSlot, NotifyAll, TypeOK, QueueInv, Positions, SlotPositions
  <2>10. ThreadsInv'
    <3>1. ThreadInv(j)'
      BY <1>25, <2>1, <2>5 DEF WorkerRelease, NotifyAll, ThreadsInv, ThreadInv, TypeOK
    <3>2. ASSUME NEW i \in Jobs \ {j} PROVE ThreadInv(i)'
      BY <1>25, <2>1, <2>5 DEF WorkerRelease, NotifyAll, ThreadsInv, ThreadInv, OneStart, TypeOK
    <3> QED
      BY <3>1, <3>2 DEF ThreadsInv
  <2>11. NoLostWakeup'
    BY <1>25 DEF WorkerRelease, NotifyAll, NoLostWakeup
  <2>12. OneStart'
    BY <2>1 DEF OneStart
  <2> QED
    BY <2>5, <2>6, <2>8, <2>9, <2>10, <2>11, <2>12
<1>26. CASE BeginShutdown
  <2>1. /\ worker' = worker /\ clock \in Nat /\ Drain(clock) /\ UNCHANGED slotVars
        /\ pendingCount' = 0 /\ UNCHANGED <<jobId, nextJobId, nextActivation, nextSelection>>
    BY <1>26 DEF BeginShutdown, Drain, TypeOK
  <2>2. StatesInv(states', worker) /\ \A i \in Jobs : ~PendingIn(states', i)
    BY <2>1, DrainStep
  <2>3. QueueInv' /\ \A i \in Jobs : ~Pending(i)'
    BY <2>1, <2>2 DEF QueueInv, Pending, PendingIn
  <2>4. PendingAccounting'
    BY <2>1, <2>3, PendingKept DEF Drain
  <2>5. SlotAccounting'
    BY <2>1, <2>3, SlotsKept DEF SlotHolders
  <2>6. TypeOK'
    BY <1>26, <2>1, <2>3, StatesType DEF BeginShutdown, NotifyAll, TypeOK, QueueInv
  <2>7. ThreadsInv'
    <3>1. \A i \in activeHandles : worker[i] # "none"
      BY DEF SlotAccounting, SlotHolders, SlotPositions
    <3>2. \A i \in Jobs : Pending(i) => worker[i] = "none"
      BY DEF QueueInv, StatesInv, KeyInv, KeyCore, KeyStateOK, Pending, Contains
    <3> QED
      BY <1>26, <2>1, <2>3, <3>1, <3>2 DEF BeginShutdown, NotifyAll, ThreadsInv, ThreadInv, TypeOK
  <2>8. NoLostWakeup'
    BY <1>26 DEF BeginShutdown, NotifyAll, NoLostWakeup
  <2>9. OneStart'
    BY <2>1 DEF OneStart
  <2> QED
    BY <2>3, <2>4, <2>5, <2>6, <2>7, <2>8, <2>9
<1>27. CASE UNCHANGED vars
  <2>1. /\ QueueInv' /\ SlotAccounting' /\ PendingAccounting'
        /\ \A i \in Jobs : Pending(i)' <=> Pending(i)
    BY <1>27, QuietKeeps DEF vars
  <2>2. TypeOK'
    BY <1>27, <2>1, StatesType DEF vars, TypeOK, QueueInv
  <2>3. ThreadsInv'
    BY <1>27, <2>1 DEF vars, ThreadsInv, ThreadInv
  <2>4. NoLostWakeup'
    BY <1>27 DEF vars, NoLostWakeup, MayReturn, MayDispatch
  <2>5. OneStart'
    BY <1>27 DEF vars, OneStart
  <2> QED
    BY <2>1, <2>2, <2>3, <2>4, <2>5
<1> QED
  BY <1>1, <1>2, <1>3, <1>4, <1>5, <1>6, <1>7, <1>8, <1>9, <1>10, <1>11, <1>12, <1>13, <1>14,
     <1>15, <1>16, <1>17, <1>18, <1>19, <1>20, <1>21, <1>22, <1>23, <1>24, <1>25, <1>26,
     <1>27
     DEF Next, LoopThread, Caller, CancelCallback, WorkerOwnStep, ShutdownThread

----------------------------------------------------------------------------
(* The theorems *)

\* The inductive invariant holds in every reachable state of the executor.
THEOREM Invariance == Spec => []IInv
<1>1. Init => IInv
  BY InitInvariant
<1>2. IInv /\ [Next]_vars => IInv'
  BY NextInvariant
<1> QED
  BY <1>1, <1>2, PTL DEF Spec

\* The variables of the executor and its queue always have their types.
THEOREM TypeCorrect == Spec => []TypeOK
<1>1. IInv => TypeOK
  BY DEF IInv
<1> QED
  BY <1>1, Invariance, PTL

\* No interleaving of dispatches, failed starts, releases, cancellations and
\* shutdowns leaks a slot, exceeds the runtime's capacity or leaves a job
\* charged that no longer runs.
THEOREM SlotSafety == Spec => []SlotAccounting
<1>1. IInv => SlotAccounting
  BY DEF IInv
<1> QED
  BY <1>1, Invariance, PTL

\* _pending_count is the number of waiting jobs and both limits of the queue
\* hold, whoever enqueues, dispatches, cancels and drains.
THEOREM PendingSafety == Spec => []PendingAccounting
<1>1. IInv => PendingAccounting
  BY DEF IInv
<1> QED
  BY <1>1, Invariance, PTL

\* The loop thread never sleeps through a change it has to act on.
THEOREM WakeupSafety == Spec => []NoLostWakeup
<1>1. IInv => NoLostWakeup
  BY DEF IInv
<1> QED
  BY <1>1, Invariance, PTL

\* A terminal event is never seen before the job's slot and its place in the
\* queue are given up.
THEOREM ReleaseBeforeEnd == Spec => []EndedMeansReleased
<1>1. IInv => EndedMeansReleased
  <2> SUFFICES ASSUME IInv, NEW j \in Jobs, outcome[j] # "open"
               PROVE  j \notin SlotHolders /\ j \notin activeHandles /\ ~Pending(j)
    BY DEF EndedMeansReleased
  <2>1. ~Pending(j) /\ (worker[j] # "none" => worker[j] = "ended")
    BY DEF IInv, ThreadsInv, ThreadInv
  <2>2. j \notin SlotHolders
    BY <2>1 DEF SlotHolders, SlotPositions
  <2> QED
    BY <2>1, <2>2 DEF IInv, SlotAccounting
<1> QED
  BY <1>1, Invariance, PTL

\* Expiry never forgets a key with work and never spares one without.
THEOREM ExpirySafety == Spec => []IdleMeansUnused
<1>1. IInv => IdleMeansUnused
  BY DEF IInv, QueueInv, StatesInv, KeyInv, IdleMeansUnused
<1> QED
  BY <1>1, Invariance, PTL
=============================================================================
