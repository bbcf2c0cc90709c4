-------------------------- MODULE SynchronizeProofs --------------------------
(***************************************************************************)
(* Proofs about Synchronize and SyncClient for any number of threads, any  *)
(* intervals, any timer resolution and any inaccuracy of Sleep.            *)
(***************************************************************************)
EXTENDS SyncClient, FiniteSetTheorems, WellFoundedInduction, TLAPS

(* The thread between WaitForSingleObject and ReleaseMutex is the owner.   *)
Owned == \A t \in Thread : pc[t] \in Critical <=> holder = t

(* What the owner knows about the shared time at each place.  It holds     *)
(* because no other thread can move syncTime meanwhile.                    *)
Known(t) ==
    /\ pc[t] \in {"read", "asleep", "stamped"} => tickTime[t] <= tick
    /\ pc[t] \in {"read", "stamped"} => syncTime <= tickTime[t]
    /\ pc[t] = "asleep" => due[t] >= syncTime + u[t]
    /\ pc[t] = "awake" => tick + EarlyWake >= syncTime + u[t]
    /\ pc[t] = "stamped" => tickTime[t] + EarlyWake >= syncTime + u[t]

SyncInv ==
    /\ TypeOK
    /\ Owned
    /\ syncTime <= tick /\ tick <= now
    /\ \A t \in Thread : Known(t)

LEMMA InitInv == Init => SyncInv
<1> SUFFICES ASSUME Init PROVE SyncInv
  OBVIOUS
<1> USE SyncAssumption
<1>1. /\ u \in [Thread -> Nat] /\ tickTime \in [Thread -> Nat]
      /\ due \in [Thread -> Nat]
  BY DEF Init
<1>2. TypeOK
  BY <1>1 DEF Init, TypeOK, NoEvents, Ages, Place
<1>3. Owned /\ \A t \in Thread : Known(t)
  BY DEF Init, Owned, Known, Critical
<1> QED
  BY <1>2, <1>3 DEF SyncInv, Init

-------------------------------------------------------------------------------
(* A step of thread t that leaves the locals and the place of every other  *)
(* thread alone keeps what they know, unless it moves the shared time.     *)
LEMMA OthersKnow ==
    ASSUME SyncInv, NEW t \in Thread,
           syncTime' = syncTime, tick' = tick,
           \A s \in Thread \ {t} : /\ pc'[s] = pc[s] /\ u'[s] = u[s]
                                   /\ tickTime'[s] = tickTime[s] /\ due'[s] = due[s]
    PROVE  \A s \in Thread \ {t} : Known(s)'
BY DEF SyncInv, Known

(* Entering and leaving: no thread is inside. *)
LEMMA OutsideInv ==
    ASSUME SyncInv, NEW t \in Thread,
           CallUnopened(t) \/ (\E ms \in Interval : Call(t, ms)) \/ Proceed(t)
    PROVE  SyncInv'
<1> USE SyncAssumption DEF Goto
<1>1. /\ UNCHANGED <<now, tick, holder, syncTime, tickTime, due, grants>>
      /\ u' \in [Thread -> Nat]
      /\ pc' \in [Thread -> Place]
      /\ \A s \in Thread \ {t} : pc'[s] = pc[s] /\ u'[s] = u[s]
      /\ pc[t] \notin Critical /\ pc'[t] \notin Critical
  BY DEF SyncInv, TypeOK, CallUnopened, Call, Proceed, Critical, Place
<1>2. TypeOK'
  BY <1>1 DEF SyncInv, TypeOK
<1>3. Owned'
  BY <1>1 DEF SyncInv, Owned
<1>4. Known(t)'
  BY <1>1 DEF Known, Critical
<1> QED
  BY <1>1, <1>2, <1>3, <1>4, OthersKnow DEF SyncInv

LEMMA AcquireInv ==
    ASSUME SyncInv, NEW t \in Thread, Acquire(t)
    PROVE  SyncInv'
<1> USE SyncAssumption DEF Goto
<1>1. TypeOK'
  BY DEF SyncInv, TypeOK, Acquire, Place, Critical
<1>2. Owned'
  BY DEF SyncInv, TypeOK, Owned, Acquire, Critical
<1>3. Known(t)' /\ \A s \in Thread \ {t} : Known(s)'
  BY OthersKnow DEF SyncInv, TypeOK, Known, Acquire
<1> QED
  BY <1>1, <1>2, <1>3 DEF SyncInv, Acquire

(* A step inside the critical section that does not move the shared time. *)
LEMMA InsideInv ==
    ASSUME SyncInv, NEW t \in Thread,
           ReadTick(t) \/ StartSleep(t) \/ SkipSleep(t) \/ Wake(t) \/ Stamp(t)
    PROVE  SyncInv'
<1> USE SyncAssumption DEF Goto
<1>1. /\ UNCHANGED <<now, tick, holder, syncTime, u, grants>>
      /\ pc' \in [Thread -> Place]
      /\ \A s \in Thread \ {t} : pc'[s] = pc[s] /\ tickTime'[s] = tickTime[s]
                                 /\ due'[s] = due[s]
      /\ pc[t] \in Critical /\ pc'[t] \in Critical
  BY DEF SyncInv, TypeOK, ReadTick, StartSleep, SkipSleep, Wake, Stamp, Critical, Place
<1>2. tickTime' \in [Thread -> Nat]
  BY DEF SyncInv, TypeOK, ReadTick, StartSleep, SkipSleep, Wake, Stamp
<1>3. due' \in [Thread -> Nat]
  <2>1. CASE StartSleep(t)
    <3>1. tick + (u[t] - (tickTime[t] - syncTime)) \in Nat
      BY <2>1 DEF SyncInv, TypeOK, StartSleep, TooSoon
    <3> QED
      BY <2>1, <3>1 DEF SyncInv, TypeOK, StartSleep
  <2>2. CASE ~StartSleep(t)
    BY <2>2 DEF SyncInv, TypeOK, ReadTick, SkipSleep, Wake, Stamp
  <2> QED
    BY <2>1, <2>2
<1>4. TypeOK'
  BY <1>1, <1>2, <1>3 DEF SyncInv, TypeOK
<1>5. Owned'
  BY <1>1 DEF SyncInv, Owned
<1>6. Known(t)'
  <2>1. /\ syncTime \in Nat /\ tick \in Nat /\ u[t] \in Nat /\ tickTime[t] \in Nat
        /\ due[t] \in Nat /\ EarlyWake \in Nat /\ syncTime <= tick /\ Known(t)
        /\ pc \in [Thread -> Place] /\ tickTime \in [Thread -> Nat] /\ due \in [Thread -> Nat]
    BY DEF SyncInv, TypeOK
  <2>2. CASE ReadTick(t)
    BY <2>1, <2>2 DEF Known, ReadTick
  <2>3. CASE StartSleep(t)
    BY <2>1, <2>3 DEF Known, StartSleep, TooSoon
  <2>4. CASE SkipSleep(t)
    BY <2>1, <2>4 DEF Known, SkipSleep, TooSoon
  <2>5. CASE Wake(t)
    BY <2>1, <2>5 DEF Known, Wake
  <2>6. CASE Stamp(t)
    BY <2>1, <2>6 DEF Known, Stamp
  <2> QED
    BY <2>2, <2>3, <2>4, <2>5, <2>6
<1> QED
  BY <1>1, <1>4, <1>5, <1>6, OthersKnow DEF SyncInv

(* The only step that moves the shared time; no other thread is inside. *)
LEMMA PublishInv ==
    ASSUME SyncInv, NEW t \in Thread, Publish(t)
    PROVE  SyncInv'
<1> USE SyncAssumption DEF Goto
<1>1. TypeOK'
  BY DEF SyncInv, TypeOK, Publish, Place, Critical
<1>2. Owned'
  BY DEF SyncInv, TypeOK, Owned, Publish, Critical
<1>3. ASSUME NEW s \in Thread
      PROVE  Known(s)'
  <2>1. s # t => pc'[s] = pc[s] /\ pc[s] \notin Critical
    BY DEF SyncInv, TypeOK, Owned, Publish, Critical
  <2>2. pc'[t] = "published"
    BY DEF SyncInv, TypeOK, Publish
  <2> QED
    BY <2>1, <2>2 DEF Known, Critical
<1>4. syncTime' <= tick'
  BY DEF SyncInv, Known, Publish
<1> QED
  BY <1>1, <1>2, <1>3, <1>4 DEF SyncInv, Publish

(* Leaving the critical section, in order or by dying. *)
LEMMA LeaveInv ==
    ASSUME SyncInv, NEW t \in Thread, Release(t) \/ Crash(t)
    PROVE  SyncInv'
<1> USE SyncAssumption DEF Goto, DropLocals
<1>1. /\ UNCHANGED <<now, tick, syncTime>>
      /\ u' \in [Thread -> Nat] /\ tickTime' \in [Thread -> Nat] /\ due' \in [Thread -> Nat]
      /\ pc' \in [Thread -> Place]
      /\ holder' \in Thread \union {Nobody}
      /\ \A s \in Thread \ {t} : /\ pc'[s] = pc[s] /\ u'[s] = u[s]
                                 /\ tickTime'[s] = tickTime[s] /\ due'[s] = due[s]
      /\ pc'[t] \in {"granted", "crashed"}
  BY DEF SyncInv, TypeOK, Release, Crash, Place
<1>2. grants' \in [Ages -> Nat]
  BY DEF SyncInv, TypeOK, Release, Crash, Note
<1>3. TypeOK'
  BY <1>1, <1>2 DEF SyncInv, TypeOK
<1>4. Owned'
  <2>1. Release(t) => holder = t
    BY DEF SyncInv, Owned, Release, Critical
  <2>2. holder' = IF holder = t THEN Nobody ELSE holder
    BY <2>1 DEF Release, Crash
  <2> QED
    BY <1>1, <2>2 DEF SyncInv, Owned, Critical
<1>5. Known(t)'
  BY <1>1 DEF Known
<1> QED
  BY <1>1, <1>3, <1>4, <1>5, OthersKnow DEF SyncInv

LEMMA ClockInv ==
    ASSUME SyncInv, Clock
    PROVE  SyncInv'
<1> USE SyncAssumption
<1>1. grants' \in [Ages -> Nat]
  BY DEF SyncInv, TypeOK, Clock, Aged, Ages
<1>2. TypeOK' /\ tick <= tick' /\ tick' <= now'
  BY <1>1 DEF SyncInv, TypeOK, Clock
<1>3. Owned'
  BY DEF SyncInv, Owned, Clock
<1>4. ASSUME NEW s \in Thread
      PROVE  Known(s)'
  BY <1>2 DEF SyncInv, TypeOK, Known, Clock
<1> QED
  BY <1>2, <1>3, <1>4 DEF SyncInv, TypeOK, Clock

LEMMA NextInv == SyncInv /\ [Next]_vars => SyncInv'
<1> SUFFICES ASSUME SyncInv, [Next]_vars PROVE SyncInv'
  OBVIOUS
<1>1. CASE Clock
  BY <1>1, ClockInv
<1>2. ASSUME NEW t \in Thread,
             \/ CallUnopened(t) \/ (\E ms \in Interval : Call(t, ms)) \/ Acquire(t)
             \/ Paced(t) \/ Proceed(t) \/ Crash(t)
      PROVE  SyncInv'
  BY <1>2, OutsideInv, AcquireInv, InsideInv, PublishInv, LeaveInv DEF Paced
<1>3. CASE UNCHANGED vars
  BY <1>3 DEF vars, SyncInv, TypeOK, Owned, Known
<1> QED
  BY <1>1, <1>2, <1>3 DEF Next

LEMMA Invariance == Spec => []SyncInv
BY InitInv, NextInv, PTL DEF Spec

-------------------------------------------------------------------------------
(* The type invariant, for any number of threads. *)
THEOREM TypeCorrect == Spec => []TypeOK
<1>1. SyncInv => TypeOK
  BY DEF SyncInv
<1> QED
  BY <1>1, Invariance, PTL

(* Two threads are never between WaitForSingleObject and ReleaseMutex.     *)
THEOREM Exclusion == Spec => []MutualExclusion
<1>1. SyncInv => MutualExclusion
  BY SyncAssumption DEF SyncInv, Owned, MutualExclusion
<1> QED
  BY <1>1, Invariance, PTL

(* The unsigned elapsedTime never wraps. *)
THEOREM ElapsedTimeIsRight == Spec => []NoTimeUnderflow
<1>1. SyncInv => NoTimeUnderflow
  BY DEF SyncInv, Known, NoTimeUnderflow
<1> QED
  BY <1>1, Invariance, PTL

(* Grants are an interval apart by the tick count, less what Sleep returns *)
(* too early, for any number of processes, any of which may die.           *)
THEOREM GrantsAreSpaced == Spec => GrantSpacing
<1>1. SyncInv /\ [Next]_vars =>
         [\A t \in Thread : (pc[t] = "stamped" /\ pc'[t] = "published") =>
             syncTime' + EarlyWake >= syncTime + u[t]]_vars
  <2> SUFFICES ASSUME SyncInv, Next, NEW t \in Thread,
                      pc[t] = "stamped", pc'[t] = "published"
               PROVE  syncTime' + EarlyWake >= syncTime + u[t]
    BY DEF vars
  <2>1. Publish(t)
    BY DEF SyncInv, TypeOK, Next, Clock, CallUnopened, Call, Acquire, Paced, ReadTick,
           StartSleep, SkipSleep, Wake, Stamp, Publish, Release, Proceed, Crash, Goto
  <2> QED
    BY <2>1 DEF SyncInv, Known, Publish
<1> QED
  BY <1>1, Invariance, PTL DEF Spec, GrantSpacing
-------------------------------------------------------------------------------
(***************************************************************************)
(* What SumFunction returns.  Induction is by a smallest counterexample.   *)
(***************************************************************************)
LEMMA Smallest ==
    ASSUME NEW S \in SUBSET Nat, S # {}
    PROVE  \E n \in S : \A m \in S : n <= m
<1>1. PICK n \in S : \A m \in S : ~ (<<m, n>> \in OpToRel(<, Nat))
  BY WFMin, NatLessThanWellFounded
<1>2. \A m \in S : ~ (m < n)
  BY <1>1 DEF OpToRel
<1> QED
  BY <1>2

(* The recursive function that SumFunction applies to the whole domain. *)
Pick(s) == CHOOSE x \in s : TRUE
Unfolded(f, g, s) == IF s = {} THEN 0 ELSE f[Pick(s)] + g[s \ {Pick(s)}]
SumsUp(f, g) == g = [s \in SUBSET DOMAIN f |-> Unfolded(f, g, s)]

LEMMA SumFunctionIs == ASSUME NEW f
                       PROVE  SumFunction(f) = (CHOOSE g : SumsUp(f, g))[DOMAIN f]
BY DEF SumFunction, SumFunctionOnSet, FoldFunctionOnSet, MapThenFoldSet, Pick, Unfolded, SumsUp

LEMMA Picked == \A s : s # {} => Pick(s) \in s
BY DEF Pick

LEMMA Without ==
    ASSUME NEW s, IsFiniteSet(s), NEW x \in s
    PROVE  /\ IsFiniteSet(s \ {x}) /\ Cardinality(s \ {x}) \in Nat
           /\ Cardinality(s) = Cardinality(s \ {x}) + 1
<1>1. /\ IsFiniteSet(s \ {x})
      /\ Cardinality(s \ {x}) = Cardinality(s) - 1
  BY FS_RemoveElement
<1>2. Cardinality(s) \in Nat /\ Cardinality(s \ {x}) \in Nat
  BY <1>1, FS_CardinalityType
<1> QED
  BY <1>1, <1>2

LEMMA SumExists ==
    ASSUME NEW S, IsFiniteSet(S), NEW f \in [S -> Nat]
    PROVE  \E g : SumsUp(f, g)
<1> DEFINE Small(n) == {s \in SUBSET S : Cardinality(s) <= n}
           Upto(g, n) == g = [s \in Small(n) |-> Unfolded(f, g, s)]
           Bad == {n \in Nat : ~ \E g : Upto(g, n)}
<1>1. \A s \in SUBSET S : IsFiniteSet(s) /\ Cardinality(s) \in Nat
  BY FS_Subset, FS_CardinalityType
<1>2. Cardinality(S) \notin Bad
  <2> SUFFICES ASSUME Bad # {} PROVE FALSE
    OBVIOUS
  <2>1. PICK n \in Bad : \A m \in Bad : n <= m
    BY Smallest
  <2>2. n # 0
    <3> DEFINE g == [s \in Small(0) |-> 0]
    <3>1. \A s \in Small(0) : s = {}
      BY <1>1, FS_EmptySet
    <3>2. \A s \in Small(0) : Unfolded(f, g, s) = 0
      BY <3>1 DEF Unfolded
    <3>3. \E gg : Upto(gg, 0)
      BY <3>2
    <3> HIDE DEF Upto
    <3> QED
      BY <3>3
  <2>3. n \in Nat /\ n - 1 \in Nat /\ n - 1 < n
    BY <2>2
  <2>4. PICK g : Upto(g, n - 1)
    <3>1. n - 1 \notin Bad
      <4> HIDE DEF Bad
      <4> QED
        BY <2>1, <2>3
    <3> QED
      BY <2>3, <3>1
  <2> DEFINE h == [s \in Small(n) |-> Unfolded(f, g, s)]
  <2>5. \A s \in Small(n - 1) : s \in Small(n) /\ h[s] = g[s]
    BY <1>1, <2>3, <2>4
  <2>6. ASSUME NEW s \in Small(n), s # {} PROVE s \ {Pick(s)} \in Small(n - 1)
    BY <1>1, <2>3, <2>6, Picked, Without
  <2>7. \A s \in Small(n) : Unfolded(f, g, s) = Unfolded(f, h, s)
    BY <2>5, <2>6 DEF Unfolded
  <2>8. Upto(h, n)
    BY <2>7
  <2> QED
    BY <2>1, <2>8
<1>3. PICK g : Upto(g, Cardinality(S))
  BY <1>1, <1>2, FS_CardinalityType
<1>4. Small(Cardinality(S)) = SUBSET S
  BY FS_Subset
<1> QED
  BY <1>3, <1>4 DEF SumsUp

LEMMA SumTyped ==
    ASSUME NEW S, IsFiniteSet(S), NEW f \in [S -> Nat], NEW g, SumsUp(f, g)
    PROVE  g \in [SUBSET S -> Nat]
<1> DEFINE Bad == {n \in Nat : \E s \in SUBSET S : Cardinality(s) = n /\ g[s] \notin Nat}
<1>1. \A s \in SUBSET S : IsFiniteSet(s) /\ Cardinality(s) \in Nat
  BY FS_Subset, FS_CardinalityType
<1>2. \A s \in SUBSET S : g[s] = Unfolded(f, g, s)
  BY DEF SumsUp
<1>3. Bad = {}
  <2> SUFFICES ASSUME Bad # {} PROVE FALSE
    OBVIOUS
  <2>1. PICK n \in Bad : \A m \in Bad : n <= m
    BY Smallest
  <2>2. PICK s \in SUBSET S : Cardinality(s) = n /\ g[s] \notin Nat
    OBVIOUS
  <2>3. s # {} /\ g[s] = f[Pick(s)] + g[s \ {Pick(s)}]
    <3>1. g[s] = Unfolded(f, g, s) /\ g[s] # 0
      BY <1>2, <2>2
    <3> QED
      BY <3>1 DEF Unfolded
  <2>4. Pick(s) \in s /\ Cardinality(s \ {Pick(s)}) \in Nat /\ Cardinality(s \ {Pick(s)}) < n
    BY <1>1, <2>2, <2>3, Picked, Without
  <2>5. g[s \ {Pick(s)}] \in Nat
    BY <2>1, <2>4
  <2> QED
    BY <2>2, <2>3, <2>4, <2>5
<1>4. \A s \in SUBSET S : g[s] \in Nat
  BY <1>1, <1>3
<1> QED
  BY <1>4 DEF SumsUp

(* The order in which the elements are picked does not matter. *)
LEMMA SumSplits ==
    ASSUME NEW S, IsFiniteSet(S), NEW f \in [S -> Nat], NEW g, SumsUp(f, g),
           NEW T \in SUBSET S, NEW z \in T
    PROVE  g[T] = f[z] + g[T \ {z}]
<1> DEFINE Wrong(s, x) == g[s] # f[x] + g[s \ {x}]
           Bad == {n \in Nat : \E s \in SUBSET S : Cardinality(s) = n /\ \E x \in s : Wrong(s, x)}
<1>1. \A s \in SUBSET S : IsFiniteSet(s) /\ Cardinality(s) \in Nat /\ g[s] \in Nat
  <2>1. g \in [SUBSET S -> Nat]
    BY SumTyped
  <2> QED
    BY <2>1, FS_Subset, FS_CardinalityType
<1>2. \A s \in SUBSET S : s # {} => g[s] = f[Pick(s)] + g[s \ {Pick(s)}]
  BY DEF SumsUp, Unfolded
<1>3. Bad = {}
  <2> SUFFICES ASSUME Bad # {} PROVE FALSE
    OBVIOUS
  <2>1. PICK n \in Bad : \A m \in Bad : n <= m
    BY Smallest
  <2>2. PICK s \in SUBSET S : Cardinality(s) = n /\ \E x \in s : Wrong(s, x)
    OBVIOUS
  <2>3. PICK x \in s : Wrong(s, x)
    BY <2>2
  <2> DEFINE p == Pick(s)
  <2>4. p \in s /\ g[s] = f[p] + g[s \ {p}]
    BY <1>2, Picked
  <2>5. p # x
    BY <2>3, <2>4
  <2>6. ASSUME NEW r \in SUBSET S, Cardinality(r) < n, NEW y \in r PROVE ~Wrong(r, y)
    <3>1. Cardinality(r) \in Nat /\ Cardinality(r) \notin Bad
      <4>1. n \in Nat
        OBVIOUS
      <4> HIDE DEF Bad
      <4> QED
        BY <1>1, <2>1, <2>6, <4>1
    <3> QED
      BY <3>1
  <2>7. g[s \ {p}] = f[x] + g[(s \ {p}) \ {x}]
    <3>1. Cardinality(s \ {p}) < n
      BY <1>1, <2>2, <2>4, Without
    <3> QED
      BY <2>5, <2>6, <3>1
  <2>8. g[s \ {x}] = f[p] + g[(s \ {x}) \ {p}]
    <3>1. Cardinality(s \ {x}) < n
      BY <1>1, <2>2, Without
    <3> QED
      BY <2>4, <2>5, <2>6, <3>1
  <2>9. (s \ {p}) \ {x} = (s \ {x}) \ {p}
    OBVIOUS
  <2>10. f[p] \in Nat /\ f[x] \in Nat /\ g[(s \ {x}) \ {p}] \in Nat
    BY <1>1, <2>4
  <2>11. g[s] = f[p] + (f[x] + g[(s \ {x}) \ {p}]) /\ g[s \ {x}] = f[p] + g[(s \ {x}) \ {p}]
    BY <2>4, <2>7, <2>8, <2>9
  <2> HIDE DEF p
  <2>12. g[s] = f[x] + g[s \ {x}]
    BY <2>10, <2>11
  <2> QED
    BY <2>3, <2>12
<1> QED
  BY <1>1, <1>3

(* c[age] is the number of events that are at most age time units ago. *)
Sums(h, c) ==
    /\ c \in [Ages -> Nat]
    /\ \A age \in Ages : c[age] = h[age] + IF age = 0 THEN 0 ELSE c[age - 1]

LEMMA SumIsLast ==
    ASSUME Window \in Nat \ {0}, NEW h \in [Ages -> Nat], NEW c, Sums(h, c)
    PROVE  SumFunction(h) = c[Window - 1]
<1>1. IsFiniteSet(Ages) /\ DOMAIN h = Ages
  BY FS_Interval DEF Ages
<1> DEFINE g == CHOOSE gg : SumsUp(h, gg)
<1>2. SumsUp(h, g)
  BY <1>1, SumExists
<1>3. g \in [SUBSET Ages -> Nat]
  BY <1>1, <1>2, SumTyped
<1>4. SumFunction(h) = g[Ages]
  BY <1>1, SumFunctionIs
<1>5. g[{}] = 0
  BY <1>1, <1>2 DEF SumsUp, Unfolded
<1> HIDE DEF g
<1>6. \A age \in Ages : g[0 .. age] = h[age] + g[(0 .. age) \ {age}]
  <2> SUFFICES ASSUME NEW age \in Ages
               PROVE  g[0 .. age] = h[age] + g[(0 .. age) \ {age}]
    OBVIOUS
  <2>1. 0 .. age \in SUBSET Ages /\ age \in 0 .. age /\ IsFiniteSet(Ages)
    BY <1>1 DEF Ages
  <2>2. \A T \in SUBSET Ages, z \in Ages : z \in T => g[T] = h[z] + g[T \ {z}]
    BY <1>2, <2>1, SumSplits
  <2> QED
    BY <2>1, <2>2
<1> DEFINE Bad == {age \in Ages : g[0 .. age] # c[age]}
<1>7. Bad = {}
  <2> SUFFICES ASSUME Bad # {} PROVE FALSE
    OBVIOUS
  <2>1. PICK n \in Bad : \A m \in Bad : n <= m
    <3>1. Bad \in SUBSET Nat
      BY DEF Ages
    <3> QED
      BY <3>1, Smallest
  <2>2. n = 0 => (0 .. n) \ {n} = {}
    OBVIOUS
  <2>3. n # 0 => (0 .. n) \ {n} = 0 .. n - 1 /\ n - 1 \in Ages /\ g[0 .. n - 1] = c[n - 1]
    <3>1. n # 0 => n - 1 \in Ages /\ n - 1 < n
      BY DEF Ages
    <3> QED
      BY <2>1, <3>1 DEF Ages
  <2>4. g[0 .. n] = h[n] + g[(0 .. n) \ {n}] /\ c[n] = h[n] + IF n = 0 THEN 0 ELSE c[n - 1]
    BY <1>6 DEF Sums
  <2>5. g[0 .. n] # c[n]
    OBVIOUS
  <2> QED
    BY <1>5, <2>2, <2>3, <2>4, <2>5
<1>8. Window - 1 \in Ages /\ 0 .. Window - 1 = Ages
  BY DEF Ages
<1> QED
  BY <1>4, <1>7, <1>8

LEMMA NoteTyped == \A h \in [Ages -> Nat] : Note(h) \in [Ages -> Nat]
<1> SUFFICES ASSUME NEW h \in [Ages -> Nat]
             PROVE  Note(h) \in [Ages -> Nat]
  OBVIOUS
<1>1. CASE 0 \in Ages
  BY <1>1 DEF Note
<1>2. CASE 0 \notin Ages
  BY <1>2 DEF Note
<1> QED
  BY <1>1, <1>2

LEMMA NoteSums ==
    ASSUME NEW h \in [Ages -> Nat], NEW c, Sums(h, c)
    PROVE  Sums(Note(h), [age \in Ages |-> c[age] + 1])
<1> DEFINE e == [age \in Ages |-> c[age] + 1]
<1>1. c \in [Ages -> Nat] /\ e \in [Ages -> Nat]
  BY DEF Sums
<1>2. \A age \in Ages : age # 0 => age - 1 \in Ages
  BY SyncAssumption DEF Ages
<1>3. \A age \in Ages : Note(h)[age] = IF age = 0 THEN h[0] + 1 ELSE h[age]
  BY DEF Note
<1> QED
  BY <1>1, <1>2, <1>3 DEF Sums

LEMMA AgedSums ==
    ASSUME NEW h \in [Ages -> Nat], NEW c, Sums(h, c)
    PROVE  Sums(Aged(h), [age \in Ages |-> IF age = 0 THEN 0 ELSE c[age - 1]])
<1> DEFINE e == [age \in Ages |-> IF age = 0 THEN 0 ELSE c[age - 1]]
<1>1. \A age \in Ages : age # 0 => age - 1 \in Ages
  BY SyncAssumption DEF Ages
<1>2. c \in [Ages -> Nat] /\ e \in [Ages -> Nat]
  BY <1>1 DEF Sums
<1>3. ASSUME NEW age \in Ages
      PROVE  e[age] = Aged(h)[age] + IF age = 0 THEN 0 ELSE e[age - 1]
  <2>1. CASE age = 0
    BY <2>1 DEF Aged
  <2>2. CASE age # 0
    <3>1. age - 1 \in Ages /\ c[age - 1] = h[age - 1] + IF age - 1 = 0 THEN 0 ELSE c[age - 1 - 1]
      BY <1>1, <2>2 DEF Sums
    <3>2. e[age] = c[age - 1] /\ e[age - 1] = IF age - 1 = 0 THEN 0 ELSE c[age - 1 - 1]
      BY <2>2, <3>1
    <3>3. Aged(h)[age] = h[age - 1]
      BY <2>2 DEF Aged
    <3> QED
      BY <2>2, <3>1, <3>2, <3>3
  <2> QED
    BY <2>1, <2>2
<1> QED
  BY <1>2, <1>3 DEF Sums

-------------------------------------------------------------------------------
(* Every interval is at least d, however early Sleep returns. *)
Apart(d) == d \in Nat \ {0} /\ \A ms \in Interval : ms >= d + EarlyWake

(* A thread that waits or is inside has called with an interval of its own. *)
Called(t) == pc[t] \in Critical \union {"waiting"} => t \in Opened /\ u[t] \in Interval

PaceInv == SyncInv /\ \A t \in Thread : Called(t)

LEMMA PaceInit == Init => PaceInv
BY InitInv DEF Init, PaceInv, Called, Critical

LEMMA PaceNext == PaceInv /\ [Next]_vars => PaceInv'
<1> SUFFICES ASSUME PaceInv, [Next]_vars, NEW s \in Thread
             PROVE  Called(s)'
  BY NextInv DEF PaceInv
<1> USE DEF Goto, Called, Critical
<1>0. pc \in [Thread -> Place] /\ u \in [Thread -> Nat] /\ Called(s)
  BY DEF PaceInv, SyncInv, TypeOK
<1>1. CASE Clock \/ UNCHANGED vars
  BY <1>0, <1>1 DEF Clock, vars
<1>2. ASSUME NEW t \in Thread, CallUnopened(t) \/ (\E ms \in Interval : Call(t, ms)) \/ Acquire(t)
      PROVE  Called(s)'
  BY <1>0, <1>2 DEF CallUnopened, Call, Acquire
<1>3. ASSUME NEW t \in Thread, Paced(t)
      PROVE  Called(s)'
  BY <1>0, <1>3 DEF Paced, ReadTick, StartSleep, SkipSleep, Wake, Stamp, Publish, Release, DropLocals
<1>4. ASSUME NEW t \in Thread, Proceed(t) \/ Crash(t)
      PROVE  Called(s)'
  BY <1>0, <1>4 DEF Proceed, Crash, DropLocals
<1> QED
  BY <1>1, <1>2, <1>3, <1>4 DEF Next

(* Whether a time is published whose thread has not let go yet. *)
Unreleased == IF \E t \in Thread : pc[t] = "published" THEN 1 ELSE 0

(* Let c[age] be how many grants there were in the last age time units.  The *)
(* first may have a stamp of long before, for its thread may stall before it *)
(* lets go, and the second one too, for the tick lags; but the stamp of the  *)
(* third is later than that of the second, and so the tick had moved on      *)
(* since the first.  From there on the stamps are d apart.                   *)
SpreadAt(d, n, age) ==
    /\ n + Unreleased >= 3 => syncTime >= now - age + 1 + (n + Unreleased - 3) * d
    /\ n + Unreleased >= 2 /\ tick > syncTime => tick >= now - age + 1
    /\ \A t \in Thread : pc[t] = "stamped" =>
          /\ n >= 1 /\ tick > tickTime[t] => tick >= now - age + 1
          /\ n >= 2 /\ tickTime[t] > syncTime => tickTime[t] >= now - age + 1

Spread(d, c) == \A age \in Ages : SpreadAt(d, c[age], age)

(* Whoever is inside is alone, and decides whether a time is unreleased. *)
Alone ==
    \A t \in Thread : pc[t] \in Critical =>
        /\ Unreleased = IF pc[t] = "published" THEN 1 ELSE 0
        /\ \A s \in Thread : s # t => pc[s] \notin Critical

LEMMA AloneInside == PaceInv => Alone
<1> SUFFICES ASSUME PaceInv, NEW t \in Thread, pc[t] \in Critical
             PROVE  /\ Unreleased = IF pc[t] = "published" THEN 1 ELSE 0
                    /\ \A s \in Thread : s # t => pc[s] \notin Critical
  BY DEF Alone
<1>1. \A s \in Thread : s # t => pc[s] \notin Critical
  BY SyncAssumption DEF PaceInv, SyncInv, Owned
<1> QED
  BY <1>1 DEF Unreleased, Critical

LEMMA AloneNext == PaceInv' => Alone'
BY AloneInside, PTL

LEMMA TypedParts == PaceInv => /\ syncTime \in Nat /\ tick \in Nat /\ now \in Nat
                               /\ tickTime \in [Thread -> Nat] /\ pc \in [Thread -> Place]
                               /\ syncTime <= tick /\ tick <= now /\ Unreleased \in {0, 1}
BY DEF PaceInv, SyncInv, TypeOK, Unreleased

(* No step but these moves anything that the spread depends on. *)
LEMMA QuietSpread ==
    ASSUME PaceInv, PaceInv', NEW d, Apart(d), NEW c \in [Ages -> Nat], Spread(d, c),
           NEW t \in Thread,
           \/ CallUnopened(t) \/ (\E ms \in Interval : Call(t, ms)) \/ Acquire(t) \/ ReadTick(t)
           \/ StartSleep(t) \/ SkipSleep(t) \/ Wake(t) \/ Proceed(t)
    PROVE  Spread(d, c)'
<1> USE DEF Goto
<1>1. UNCHANGED <<now, tick, syncTime>>
  BY DEF CallUnopened, Call, Acquire, ReadTick, StartSleep, SkipSleep, Wake, Proceed
<1>2. \A s \in Thread : /\ pc'[s] = "published" <=> pc[s] = "published"
                        /\ pc'[s] = "stamped" => pc[s] = "stamped" /\ tickTime'[s] = tickTime[s]
  BY TypedParts DEF CallUnopened, Call, Acquire, ReadTick, StartSleep, SkipSleep, Wake, Proceed
<1>3. Unreleased' = Unreleased
  BY <1>2 DEF Unreleased
<1> QED
  BY <1>1, <1>2, <1>3 DEF Spread, SpreadAt

LEMMA StampSpread ==
    ASSUME PaceInv, PaceInv', NEW d, Apart(d), NEW c \in [Ages -> Nat], Spread(d, c),
           NEW t \in Thread, Stamp(t)
    PROVE  Spread(d, c)'
<1>1. /\ pc[t] = "awake" /\ pc'[t] = "stamped" /\ tickTime'[t] = tick
      /\ UNCHANGED <<now, tick, syncTime>>
  BY TypedParts DEF Stamp, Goto
<1>2. Unreleased = 0 /\ Unreleased' = 0 /\ \A s \in Thread : s # t => pc'[s] # "stamped"
  BY <1>1, AloneInside, AloneNext DEF Alone, Critical
<1>3. SUFFICES ASSUME NEW age \in Ages
               PROVE  SpreadAt(d, c[age], age)'
  BY DEF Spread
<1>4. SpreadAt(d, c[age], age) /\ tick \in Nat
  BY TypedParts DEF Spread
<1> QED
  BY <1>1, <1>2, <1>4 DEF SpreadAt

LEMMA OneMore == \A n, d \in Int : (n + 1) * d = n * d + d
OBVIOUS

(* The time that is published is later than the one before by d or more. *)
LEMMA PublishSpread ==
    ASSUME PaceInv, PaceInv', NEW d, Apart(d), NEW c \in [Ages -> Nat], Spread(d, c),
           NEW t \in Thread, Publish(t)
    PROVE  Spread(d, c)'
<1>1. /\ pc[t] = "stamped" /\ pc'[t] = "published" /\ syncTime' = tickTime[t]
      /\ UNCHANGED <<now, tick>>
  BY TypedParts DEF Publish, Goto
<1>2. /\ Unreleased = 0 /\ Unreleased' = 1 /\ \A s \in Thread : pc'[s] # "stamped"
  BY <1>1, AloneInside, AloneNext DEF Alone, Critical
<1>3. tickTime[t] >= syncTime + d
  <2>1. tickTime[t] + EarlyWake >= syncTime + u[t] /\ u[t] \in Interval
    BY <1>1 DEF PaceInv, SyncInv, Known, Called, Critical
  <2>2. u[t] >= d + EarlyWake /\ u[t] \in Nat /\ d \in Nat /\ EarlyWake \in Nat
    BY <2>1, SyncAssumption DEF Apart
  <2>3. tickTime[t] \in Nat /\ syncTime \in Nat
    BY TypedParts
  <2> QED
    BY <2>1, <2>2, <2>3
<1>4. SUFFICES ASSUME NEW age \in Ages
               PROVE  SpreadAt(d, c[age], age)'
  BY DEF Spread
<1> DEFINE n == c[age]
<1>5. /\ n >= 3 => syncTime >= now - age + 1 + (n - 3) * d
      /\ n >= 1 /\ tick > tickTime[t] => tick >= now - age + 1
      /\ n >= 2 /\ tickTime[t] > syncTime => tickTime[t] >= now - age + 1
  BY <1>1, <1>2 DEF Spread, SpreadAt
<1>6. /\ syncTime \in Nat /\ tick \in Nat /\ now \in Nat /\ tickTime[t] \in Nat /\ age \in Int
      /\ n \in Nat /\ d \in Nat \ {0}
  BY TypedParts DEF Ages, Apart
<1>7. n + 1 >= 3 => tickTime[t] >= now - age + 1 + (n + 1 - 3) * d
  <2>1. CASE n = 2
    <3>1. (n + 1 - 3) * d = 0
      BY <1>6, <2>1
    <3> QED
      BY <1>3, <1>5, <1>6, <2>1, <3>1
  <2>2. CASE n >= 3
    <3>1. (n + 1 - 3) * d = (n - 3) * d + d /\ (n - 3) * d \in Int
      BY <1>6, OneMore
    <3> HIDE DEF n
    <3> QED
      BY <1>3, <1>5, <1>6, <2>2, <3>1
  <2> QED
    BY <1>6, <2>1, <2>2
<1> QED
  BY <1>1, <1>2, <1>5, <1>6, <1>7 DEF SpreadAt

(* The grant counts from here on, at every age. *)
LEMMA ReleaseSpread ==
    ASSUME PaceInv, PaceInv', NEW d, Apart(d), NEW c \in [Ages -> Nat], Spread(d, c),
           NEW t \in Thread, Release(t)
    PROVE  Spread(d, [age \in Ages |-> c[age] + 1])'
<1>1. /\ pc[t] = "published" /\ pc'[t] = "granted" /\ UNCHANGED <<now, tick, syncTime>>
      /\ \A s \in Thread : s # t => pc'[s] = pc[s]
  BY TypedParts DEF Release, Goto
<1>2. Unreleased = 1 /\ \A s \in Thread : s # t => pc[s] \notin Critical
  BY <1>1, AloneInside DEF Alone, Critical
<1>3. Unreleased' = 0 /\ \A s \in Thread : pc'[s] # "stamped"
  BY <1>1, <1>2 DEF Unreleased, Critical
<1>4. SUFFICES ASSUME NEW age \in Ages
               PROVE  SpreadAt(d, c[age] + 1, age)'
  BY DEF Spread
<1> DEFINE n == c[age]
<1>5. n + 1 + 0 = n + 1 /\ n + 1 + 0 - 3 = n + 1 - 3
  OBVIOUS
<1>6. /\ n + 1 >= 3 => syncTime >= now - age + 1 + (n + 1 - 3) * d
      /\ n + 1 >= 2 /\ tick > syncTime => tick >= now - age + 1
  BY <1>2 DEF Spread, SpreadAt
<1> QED
  BY <1>1, <1>3, <1>5, <1>6 DEF SpreadAt

LEMMA CrashSpread ==
    ASSUME PaceInv, PaceInv', NEW d, Apart(d), NEW c \in [Ages -> Nat], Spread(d, c),
           NEW t \in Thread, Crash(t)
    PROVE  Spread(d, c)'
<1>1. /\ pc'[t] = "crashed" /\ UNCHANGED <<now, tick, syncTime>>
      /\ \A s \in Thread : s # t => pc'[s] = pc[s] /\ tickTime'[s] = tickTime[s]
  BY TypedParts DEF Crash, DropLocals
<1>2. Unreleased' \in {0, 1} /\ Unreleased' <= Unreleased
  BY <1>1 DEF Unreleased
<1>3. SUFFICES ASSUME NEW age \in Ages
               PROVE  SpreadAt(d, c[age], age)'
  BY DEF Spread
<1> DEFINE n == c[age]
<1>4. /\ syncTime \in Nat /\ tick \in Nat /\ now \in Nat /\ age \in Int
      /\ n \in Nat /\ d \in Nat \ {0} /\ Unreleased \in {0, 1}
  BY TypedParts DEF Ages, Apart
<1>5. /\ n + Unreleased >= 3 => syncTime >= now - age + 1 + (n + Unreleased - 3) * d
      /\ n + Unreleased >= 2 /\ tick > syncTime => tick >= now - age + 1
  BY DEF Spread, SpreadAt
<1>6. n + Unreleased' >= 3 => syncTime >= now - age + 1 + (n + Unreleased' - 3) * d
  <2>1. CASE Unreleased' = Unreleased
    BY <1>5, <2>1
  <2>2. CASE Unreleased' # Unreleased
    <3>1. Unreleased' = 0 /\ Unreleased = 1
      BY <1>2, <1>4, <2>2
    <3>2. (n + 1 - 3) * d = (n - 3) * d + d /\ (n - 3) * d \in Int
      BY <1>4, OneMore
    <3>3. n + 0 = n /\ n + 1 \in Nat
      BY <1>4
    <3>4. n + 1 >= 3 => syncTime >= now - age + 1 + (n + 1 - 3) * d
      BY <1>5, <3>1
    <3>5. n >= 3 => syncTime >= now - age + 1 + (n - 3) * d
      BY <1>4, <3>2, <3>3, <3>4
    <3>6. n + Unreleased' = n /\ n + Unreleased' - 3 = n - 3
      BY <3>1, <3>3
    <3>7. (n + Unreleased' - 3) * d = (n - 3) * d
      BY <3>6
    <3> QED
      BY <3>5, <3>6, <3>7
  <2> QED
    BY <2>1, <2>2
<1>7. n + Unreleased' >= 2 /\ tick > syncTime => tick >= now - age + 1
  BY <1>2, <1>4, <1>5
<1>8. \A s \in Thread : pc'[s] = "stamped" => s # t /\ pc[s] = "stamped" /\ tickTime'[s] = tickTime[s]
  BY <1>1
<1> QED
  BY <1>1, <1>6, <1>7, <1>8 DEF Spread, SpreadAt

(* A unit of time: everything is one older.  What is counted as just now,  *)
(* if anything is, is counted while no thread is about to be granted.      *)
LEMMA ClockSpread ==
    ASSUME PaceInv, PaceInv', NEW d, Apart(d), NEW c \in [Ages -> Nat], Spread(d, c), Clock,
           NEW z \in {0, 1}, z = 1 => \A t \in Thread : pc[t] \notin Critical,
           NEW e, \A age \in Ages : e[age] = IF age = 0 THEN z ELSE c[age - 1]
    PROVE  Spread(d, e)'
<1>1. /\ now' = now + 1 /\ tick' \in {tick, now'} /\ UNCHANGED <<syncTime, pc, tickTime>>
  BY DEF Clock
<1>2. Unreleased' = Unreleased /\ Unreleased \in {0, 1}
  BY <1>1, TypedParts DEF Unreleased
<1>3. SUFFICES ASSUME NEW age \in Ages
               PROVE  SpreadAt(d, e[age], age)'
  BY DEF Spread
<1>4. /\ syncTime \in Nat /\ tick \in Nat /\ now \in Nat /\ tickTime \in [Thread -> Nat]
      /\ age \in Nat /\ d \in Nat \ {0} /\ syncTime <= tick /\ tick <= now
  BY TypedParts DEF Ages, Apart
<1>5. CASE age = 0
  <2>1. z = 1 => Unreleased = 0 /\ \A t \in Thread : pc[t] # "stamped"
    BY DEF Unreleased, Critical
  <2>2. z + Unreleased \in {0, 1} /\ \A t \in Thread : pc[t] = "stamped" => z = 0
    BY <1>2, <2>1
  <2>3. e[age] = z
    BY <1>5
  <2> QED
    BY <1>1, <1>2, <1>5, <2>2, <2>3 DEF SpreadAt
<1>6. CASE age # 0
  <2> DEFINE n == c[age - 1]
  <2>1. age - 1 \in Ages /\ n \in Nat /\ e[age] = n
    BY <1>6, SyncAssumption DEF Ages
  <2>2. SpreadAt(d, n, age - 1)
    BY <2>1 DEF Spread
  <2>3. now - (age - 1) + 1 = now' - age + 1
    BY <1>1, <1>4
  <2>4. n + Unreleased >= 3 => syncTime >= now' - age + 1 + (n + Unreleased - 3) * d
    BY <2>2, <2>3 DEF SpreadAt
  <2>5. n + Unreleased >= 2 /\ tick' > syncTime => tick' >= now' - age + 1
    BY <1>1, <1>4, <1>6, <2>2, <2>3 DEF SpreadAt
  <2>6. ASSUME NEW t \in Thread, pc[t] = "stamped"
        PROVE  /\ n >= 1 /\ tick' > tickTime[t] => tick' >= now' - age + 1
               /\ n >= 2 /\ tickTime[t] > syncTime => tickTime[t] >= now' - age + 1
    BY <1>1, <1>4, <1>6, <2>2, <2>3, <2>6 DEF SpreadAt
  <2> HIDE DEF n
  <2> QED
    BY <1>1, <1>2, <2>1, <2>4, <2>5, <2>6 DEF SpreadAt
<1> QED
  BY <1>5, <1>6

LEMMA SpreadInit ==
    ASSUME Init, NEW d, NEW c \in [Ages -> {0, 1}]
    PROVE  Spread(d, c)
<1>1. Unreleased = 0 /\ \A t \in Thread : pc[t] # "stamped"
  BY DEF Init, Unreleased
<1>2. \A age \in Ages : c[age] + Unreleased \in {0, 1}
  BY <1>1
<1> QED
  BY <1>1, <1>2 DEF Spread, SpreadAt

(* However many events there are between two of those that are counted, the *)
(* window has no more than this many grants.                                *)
LEMMA SpreadBound ==
    ASSUME PaceInv, Window > 0, NEW d, Apart(d), NEW c \in [Ages -> Nat], Spread(d, c),
           NEW k \in Int, k * d >= Window - 1
    PROVE  c[Window - 1] <= k + 2 /\ k >= 0
<1>1. /\ Window \in Nat /\ d \in Nat \ {0} /\ Window - 1 \in Ages
      /\ now \in Nat /\ syncTime \in Nat /\ syncTime <= now /\ Unreleased \in {0, 1}
  BY SyncAssumption, TypedParts DEF Ages, Apart
<1> DEFINE n == c[Window - 1]  last == Window - 1
<1>2. n \in Nat /\ last \in Nat
  BY <1>1
<1>3. n + Unreleased >= 3 => syncTime >= now - last + 1 + (n + Unreleased - 3) * d
  BY <1>1 DEF Spread, SpreadAt
<1> HIDE DEF n, last
<1>4. \A i \in Int : i < 0 => i * d < 0
  BY <1>1
<1>5. \A i, j \in Int : i >= j => i * d >= j * d
  <2> SUFFICES ASSUME NEW i \in Int, NEW j \in Int, i >= j
               PROVE  i * d >= j * d
    OBVIOUS
  <2>1. i * d - j * d = (i - j) * d /\ (i - j) * d >= 0
    BY <1>1
  <2>2. i * d \in Int /\ j * d \in Int
    BY <1>1
  <2> QED
    BY <2>1, <2>2
<1>6. k * d >= last
  BY DEF last
<1>7. k >= 0
  <2>1. k * d \in Int
    BY <1>1
  <2> QED
    BY <1>2, <1>4, <1>6, <2>1
<1>8. n <= k + 2
  <2> SUFFICES ASSUME n >= k + 3
               PROVE  FALSE
    BY <1>2, <1>7
  <2>1. n + Unreleased - 3 \in Int /\ n + Unreleased - 3 >= k /\ n + Unreleased >= 3
    BY <1>1, <1>2, <1>7
  <2>2. (n + Unreleased - 3) * d >= k * d
    BY <1>5, <2>1
  <2>3. (n + Unreleased - 3) * d \in Int /\ k * d \in Int
    BY <1>1, <2>1
  <2>4. syncTime >= now - last + 1 + (n + Unreleased - 3) * d
    BY <1>3, <2>1
  <2> QED
    BY <1>1, <1>2, <1>6, <2>2, <2>3, <2>4
<1> QED
  BY <1>7, <1>8 DEF n

(* The grants of the last Window are spread. *)
GrantsInv(d) == PaceInv /\ \E c \in [Ages -> Nat] : Sums(grants, c) /\ Spread(d, c)

LEMMA GrantsInit ==
    ASSUME NEW d, Init
    PROVE  GrantsInv(d)
<1> DEFINE c == [age \in Ages |-> 0]
<1>1. c \in [Ages -> Nat] /\ c \in [Ages -> {0, 1}]
  OBVIOUS
<1>2. Sums(grants, c)
  <2>1. \A age \in Ages : age # 0 => age - 1 \in Ages
    BY SyncAssumption DEF Ages
  <2> QED
    BY <1>1, <2>1 DEF Sums, Init, NoEvents
<1> QED
  BY <1>1, <1>2, PaceInit, SpreadInit DEF GrantsInv

LEMMA GrantsNext ==
    ASSUME NEW d, Apart(d), GrantsInv(d), [Next]_vars
    PROVE  GrantsInv(d)'
<1>1. PaceInv /\ PaceInv' /\ grants \in [Ages -> Nat]
  BY PaceNext DEF GrantsInv, PaceInv, SyncInv, TypeOK
<1>2. PICK c \in [Ages -> Nat] : Sums(grants, c) /\ Spread(d, c)
  BY DEF GrantsInv
<1>3. SUFFICES \E e \in [Ages -> Nat] : Sums(grants', e) /\ Spread(d, e)'
  BY <1>1 DEF GrantsInv, Sums
<1>4. CASE UNCHANGED vars
  <2>1. grants' = grants /\ Spread(d, c)'
    BY <1>2, <1>4 DEF vars, Spread, SpreadAt, Unreleased
  <2> QED
    BY <1>2, <2>1
<1>5. CASE Clock
  <2> DEFINE e == [age \in Ages |-> IF age = 0 THEN 0 ELSE c[age - 1]]
  <2>1. Sums(Aged(grants), e) /\ grants' = Aged(grants)
    BY <1>1, <1>2, <1>5, AgedSums DEF Clock
  <2>2. Spread(d, e)'
    <3>1. 0 \in {0, 1} /\ \A age \in Ages : e[age] = IF age = 0 THEN 0 ELSE c[age - 1]
      OBVIOUS
    <3> HIDE DEF e
    <3> QED
      BY <1>1, <1>2, <1>5, <3>1, ClockSpread
  <2> QED
    BY <2>1, <2>2 DEF Sums
<1>6. ASSUME NEW t \in Thread, Release(t)
      PROVE  \E e \in [Ages -> Nat] : Sums(grants', e) /\ Spread(d, e)'
  <2> DEFINE e == [age \in Ages |-> c[age] + 1]
  <2>1. Sums(Note(grants), e) /\ grants' = Note(grants)
    BY <1>1, <1>2, <1>6, NoteSums DEF Release
  <2>2. Spread(d, e)'
    BY <1>1, <1>2, <1>6, ReleaseSpread
  <2> QED
    BY <2>1, <2>2 DEF Sums
<1>7. ASSUME NEW t \in Thread,
             \/ CallUnopened(t) \/ (\E ms \in Interval : Call(t, ms)) \/ Acquire(t) \/ ReadTick(t)
             \/ StartSleep(t) \/ SkipSleep(t) \/ Wake(t) \/ Proceed(t)
             \/ Stamp(t) \/ Publish(t) \/ Crash(t)
      PROVE  \E e \in [Ages -> Nat] : Sums(grants', e) /\ Spread(d, e)'
  <2>1. grants' = grants
    BY <1>7 DEF CallUnopened, Call, Acquire, ReadTick, StartSleep, SkipSleep, Wake, Proceed,
                Stamp, Publish, Crash
  <2>2. Spread(d, c)'
    BY <1>1, <1>2, <1>7, QuietSpread, StampSpread, PublishSpread, CrashSpread
  <2> QED
    BY <1>2, <2>1, <2>2
<1> QED
  BY <1>4, <1>5, <1>6, <1>7 DEF Next, Paced

(* No more than Limit calls are let through in any window, by any number of *)
(* processes, any of which may die, and however coarse the clock is, if the *)
(* interval less what Sleep returns too early is long enough: with 10 ms, 5 *)
(* in 20 ms.                                                                *)
THEOREM GrantsWithinLimit ==
    ASSUME Window > 0, NEW d, Apart(d), (Limit - 2) * d >= Window - 1
    PROVE  Spec => []GrantsPaced
<1>1. Init => GrantsInv(d)
  BY GrantsInit
<1>2. GrantsInv(d) /\ [Next]_vars => GrantsInv(d)'
  BY GrantsNext
<1>3. GrantsInv(d) => GrantsPaced
  <2> SUFFICES ASSUME PaceInv, NEW c \in [Ages -> Nat], Sums(grants, c), Spread(d, c)
               PROVE  GrantsPaced
    BY DEF GrantsInv
  <2>1. grants \in [Ages -> Nat] /\ Window \in Nat \ {0} /\ Limit \in Nat
    BY SyncAssumption DEF PaceInv, SyncInv, TypeOK
  <2>2. SumFunction(grants) = c[Window - 1]
    BY <2>1, SumIsLast
  <2>3. Limit - 2 \in Int /\ Window - 1 \in Ages
    BY <2>1 DEF Ages
  <2>4. c[Window - 1] <= (Limit - 2) + 2
    BY <2>3, SpreadBound
  <2> QED
    BY <2>1, <2>2, <2>3, <2>4 DEF GrantsPaced
<1> QED
  BY <1>1, <1>2, <1>3, PTL DEF Spec

-------------------------------------------------------------------------------
(* The clients that were let through and have not sent their request yet.  *)
Unsent == {t \in Opened : pc[t] = "granted"}
Clients == Cardinality(Opened)

(* Let r[age] be how many requests there were in the last age time units.  *)
(* Each has a grant in that time, counted by c[age], but for those of the  *)
(* clients that stalled at its beginning.  These are all clients but one:  *)
(* if all had stalled, one of their grants counts as just then.            *)
RequestsInv(d) ==
    /\ PaceInv
    /\ \E c \in [Ages -> Nat], r \in [Ages -> Nat] :
          /\ Sums(requests, r) /\ requests \in [Ages -> Nat]
          /\ Spread(d, c)
          /\ \A age \in Ages : r[age] + Cardinality(Unsent) <= Clients - 1 + c[age]

LEMMA OpenedFinite ==
    \A S \in SUBSET Opened : /\ IsFiniteSet(S) /\ Cardinality(S) \in Nat /\ Clients \in Nat
                             /\ Cardinality(S) <= Clients
                             /\ Cardinality(S) = Clients => S = Opened
<1>1. IsFiniteSet(Opened)
  BY SyncAssumption, FS_Subset
<1> QED
  BY <1>1, FS_Subset, FS_CardinalityType DEF Clients

(* Where the clients go that have not sent yet. *)
LEMMA UnsentMoves ==
    ASSUME PaceInv, NEW t \in Thread
    PROVE  /\ Cardinality(Unsent) \in Nat /\ Clients \in Nat
           /\ Proceed(t) => Unsent' = Unsent \ {t} /\ (t \in Opened <=> t \in Unsent)
           /\ Release(t) => Unsent' = Unsent \union {t} /\ t \notin Unsent
           /\ Crash(t) => Unsent' = Unsent \ {t}
           /\ CallUnopened(t) \/ (\E ms \in Interval : Call(t, ms)) \/ Acquire(t) => Unsent' = Unsent
           /\ ReadTick(t) \/ StartSleep(t) \/ SkipSleep(t) \/ Wake(t) \/ Stamp(t) \/ Publish(t)
                 => Unsent' = Unsent
<1> USE DEF Goto, Unsent
<1>1. pc \in [Thread -> Place] /\ Opened \subseteq Thread
  BY SyncAssumption, TypedParts
<1>2. Cardinality(Unsent) \in Nat /\ Clients \in Nat
  BY OpenedFinite
<1>3. Proceed(t) => Unsent' = Unsent \ {t} /\ (t \in Opened <=> t \in Unsent)
  BY <1>1 DEF Proceed
<1>4. Release(t) => Unsent' = Unsent \union {t} /\ t \notin Unsent
  <2>1. Release(t) => t \in Opened
    BY DEF Release, PaceInv, Called, Critical
  <2> QED
    BY <1>1, <2>1 DEF Release
<1>5. Crash(t) => Unsent' = Unsent \ {t}
  BY <1>1 DEF Crash
<1>6. CallUnopened(t) \/ (\E ms \in Interval : Call(t, ms)) \/ Acquire(t) => Unsent' = Unsent
  BY <1>1 DEF CallUnopened, Call, Acquire
<1>7. ReadTick(t) \/ StartSleep(t) \/ SkipSleep(t) \/ Wake(t) \/ Stamp(t) \/ Publish(t)
         => Unsent' = Unsent
  BY <1>1 DEF ReadTick, StartSleep, SkipSleep, Wake, Stamp, Publish
<1> QED
  BY <1>2, <1>3, <1>4, <1>5, <1>6, <1>7

LEMMA RequestsInit ==
    ASSUME NEW d, ClientInit
    PROVE  RequestsInv(d)
<1> DEFINE z == IF Clients = 0 THEN 1 ELSE 0
           c == [age \in Ages |-> z]
           r == [age \in Ages |-> 0]
<1>1. Init /\ requests = NoEvents
  BY DEF ClientInit
<1>2. c \in [Ages -> Nat] /\ c \in [Ages -> {0, 1}] /\ r \in [Ages -> Nat]
  OBVIOUS
<1>3. Sums(requests, r) /\ requests \in [Ages -> Nat]
  <2>1. \A age \in Ages : age # 0 => age - 1 \in Ages
    BY SyncAssumption DEF Ages
  <2> QED
    BY <1>1, <1>2, <2>1 DEF Sums, NoEvents
<1>4. Unsent = {} /\ Cardinality({}) = 0
  BY <1>1, SyncAssumption, FS_EmptySet DEF Init, Unsent
<1>5. Clients \in Nat
  BY OpenedFinite
<1>6. \A age \in Ages : r[age] + Cardinality(Unsent) <= Clients - 1 + c[age]
  BY <1>4, <1>5
<1> HIDE DEF c, r
<1> QED
  BY <1>1, <1>2, <1>3, <1>6, PaceInit, SpreadInit DEF RequestsInv

LEMMA RequestsClock ==
    ASSUME PaceInv, PaceInv', NEW d, Apart(d), RequestsInv(d), Clock, requests' = Aged(requests)
    PROVE  RequestsInv(d)'
<1>1. PICK c \in [Ages -> Nat], r \in [Ages -> Nat] :
          /\ Sums(requests, r) /\ requests \in [Ages -> Nat]
          /\ Spread(d, c)
          /\ \A age \in Ages : r[age] + Cardinality(Unsent) <= Clients - 1 + c[age]
  BY DEF RequestsInv
<1>0. PICK z \in {0, 1} : z = IF Cardinality(Unsent) = Clients THEN 1 ELSE 0
  OBVIOUS
<1> DEFINE e == [age \in Ages |-> IF age = 0 THEN z ELSE c[age - 1]]
           q == [age \in Ages |-> IF age = 0 THEN 0 ELSE r[age - 1]]
<1>2. /\ Unsent' = Unsent
      /\ Cardinality(Unsent) \in Nat /\ Clients \in Nat /\ Cardinality(Unsent) <= Clients
      /\ Cardinality(Unsent) = Clients => Unsent = Opened
  BY OpenedFinite DEF Unsent, Clock
<1>3. z = 1 => \A t \in Thread : pc[t] \notin Critical
  <2>1. z = 1 => Unsent = Opened
    BY <1>0, <1>2
  <2>2. Unsent = Opened => \A t \in Thread : pc[t] \notin Critical
    BY DEF PaceInv, Called, Unsent, Critical
  <2> QED
    BY <2>1, <2>2
<1>4. \A age \in Ages : age # 0 => age - 1 \in Ages
  BY SyncAssumption DEF Ages
<1>5. Sums(requests', q)
  BY <1>1, AgedSums
<1>6. ASSUME NEW age \in Ages
      PROVE  q[age] + Cardinality(Unsent) <= Clients - 1 + e[age]
  <2>1. CASE age = 0
    <3>1. q[age] = 0 /\ e[age] = z
      BY <2>1
    <3>2. Cardinality(Unsent) <= Clients - 1 + z
      BY <1>0, <1>2
    <3> QED
      BY <1>2, <3>1, <3>2
  <2>2. CASE age # 0
    <3>1. q[age] = r[age - 1] /\ e[age] = c[age - 1] /\ age - 1 \in Ages
      BY <1>4, <2>2
    <3> QED
      BY <1>1, <3>1
  <2> QED
    BY <2>1, <2>2
<1>7. \A age \in Ages : e[age] = IF age = 0 THEN z ELSE c[age - 1]
  OBVIOUS
<1>8. e \in [Ages -> Nat]
  BY <1>4
<1>9. requests' \in [Ages -> Nat]
  BY <1>1, <1>4 DEF Aged
<1>10. q \in [Ages -> Nat]
  BY <1>5 DEF Sums
<1> HIDE DEF e, q
<1>11. Spread(d, e)'
  BY <1>1, <1>3, <1>7, ClockSpread
<1> QED
  BY <1>2, <1>5, <1>6, <1>8, <1>9, <1>10, <1>11 DEF RequestsInv, Sums

LEMMA RequestsSend ==
    ASSUME PaceInv, PaceInv', NEW d, Apart(d), RequestsInv(d), NEW t \in Thread, SendRequest(t)
    PROVE  RequestsInv(d)'
<1>1. PICK c \in [Ages -> Nat], r \in [Ages -> Nat] :
          /\ Sums(requests, r) /\ requests \in [Ages -> Nat]
          /\ Spread(d, c)
          /\ \A age \in Ages : r[age] + Cardinality(Unsent) <= Clients - 1 + c[age]
  BY DEF RequestsInv
<1>2. Proceed(t) /\ requests' = IF t \in Opened THEN Note(requests) ELSE requests
  BY DEF SendRequest
<1>3. Spread(d, c)'
  BY <1>1, <1>2, QuietSpread
<1>4. Cardinality(Unsent) \in Nat /\ Clients \in Nat
  BY OpenedFinite DEF Unsent
<1>5. CASE t \in Opened
  <2> DEFINE q == [age \in Ages |-> r[age] + 1]
  <2>1. Sums(requests', q)
    BY <1>1, <1>2, <1>5, NoteSums
  <2>2. t \in Unsent /\ Unsent' = Unsent \ {t}
    BY <1>2, <1>5, UnsentMoves
  <2>3. Cardinality(Unsent \ {t}) = Cardinality(Unsent) - 1
    BY <2>2, OpenedFinite, FS_RemoveElement DEF Unsent
  <2>4. \A age \in Ages : q[age] + Cardinality(Unsent') <= Clients - 1 + c[age]
    BY <1>1, <1>4, <2>2, <2>3
  <2>5. requests' \in [Ages -> Nat]
    BY <1>1, <1>2, <1>5, NoteTyped
  <2>6. q \in [Ages -> Nat]
    BY <2>1 DEF Sums
  <2> HIDE DEF q
  <2> QED
    BY <1>1, <1>3, <2>1, <2>4, <2>5, <2>6 DEF RequestsInv, Sums
<1>6. CASE t \notin Opened
  <2>1. requests' = requests /\ Unsent' = Unsent
    BY <1>2, <1>6, UnsentMoves
  <2> QED
    BY <1>1, <1>3, <2>1 DEF RequestsInv, Sums
<1> QED
  BY <1>5, <1>6

LEMMA RequestsRelease ==
    ASSUME PaceInv, PaceInv', NEW d, Apart(d), RequestsInv(d), NEW t \in Thread, Release(t),
           requests' = requests
    PROVE  RequestsInv(d)'
<1>1. PICK c \in [Ages -> Nat], r \in [Ages -> Nat] :
          /\ Sums(requests, r) /\ requests \in [Ages -> Nat]
          /\ Spread(d, c)
          /\ \A age \in Ages : r[age] + Cardinality(Unsent) <= Clients - 1 + c[age]
  BY DEF RequestsInv
<1> DEFINE e == [age \in Ages |-> c[age] + 1]
<1>2. Spread(d, e)' /\ e \in [Ages -> Nat]
  BY <1>1, ReleaseSpread
<1>3. Cardinality(Unsent) \in Nat /\ Clients \in Nat
  BY OpenedFinite DEF Unsent
<1>4. Unsent' = Unsent \union {t} /\ t \notin Unsent
  BY UnsentMoves
<1>5. Cardinality(Unsent \union {t}) = Cardinality(Unsent) + 1
  BY <1>4, OpenedFinite, FS_AddElement DEF Unsent
<1>6. \A age \in Ages : r[age] + Cardinality(Unsent') <= Clients - 1 + e[age]
  BY <1>1, <1>3, <1>4, <1>5
<1> HIDE DEF e
<1> QED
  BY <1>1, <1>2, <1>6 DEF RequestsInv, Sums

LEMMA RequestsOther ==
    ASSUME PaceInv, PaceInv', NEW d, Apart(d), RequestsInv(d), NEW t \in Thread,
           \/ CallUnopened(t) \/ (\E ms \in Interval : Call(t, ms)) \/ Acquire(t) \/ ReadTick(t)
           \/ StartSleep(t) \/ SkipSleep(t) \/ Wake(t)
           \/ Stamp(t) \/ Publish(t) \/ Crash(t),
           requests' = requests
    PROVE  RequestsInv(d)'
<1>1. PICK c \in [Ages -> Nat], r \in [Ages -> Nat] :
          /\ Sums(requests, r) /\ requests \in [Ages -> Nat]
          /\ Spread(d, c)
          /\ \A age \in Ages : r[age] + Cardinality(Unsent) <= Clients - 1 + c[age]
  BY DEF RequestsInv
<1>2. Spread(d, c)'
  BY <1>1, QuietSpread, StampSpread, PublishSpread, CrashSpread
<1>3. Cardinality(Unsent) \in Nat /\ Clients \in Nat
  BY OpenedFinite DEF Unsent
<1>4. Unsent' = Unsent \/ Unsent' = Unsent \ {t}
  BY UnsentMoves
<1>5. Cardinality(Unsent \ {t}) \in Nat /\ Cardinality(Unsent \ {t}) <= Cardinality(Unsent)
  BY OpenedFinite, FS_Subset, FS_CardinalityType, Unsent \in SUBSET Opened DEF Unsent
<1>6. \A age \in Ages : r[age] + Cardinality(Unsent') <= Clients - 1 + c[age]
  BY <1>1, <1>3, <1>4, <1>5
<1> QED
  BY <1>1, <1>2, <1>6 DEF RequestsInv, Sums

LEMMA ClientStep == [ClientNext]_clientVars => [Next]_vars
BY DEF ClientNext, SendRequest, Next, clientVars, vars

LEMMA RequestsNext ==
    ASSUME NEW d, Apart(d), RequestsInv(d), [ClientNext]_clientVars
    PROVE  RequestsInv(d)'
<1>1. PaceInv /\ PaceInv'
  BY ClientStep, PaceNext DEF RequestsInv
<1>2. CASE UNCHANGED clientVars
  BY <1>1, <1>2 DEF clientVars, vars, RequestsInv, Spread, SpreadAt, Unreleased, Unsent, Sums
<1>3. CASE \E t \in Thread : SendRequest(t)
  BY <1>1, <1>3, RequestsSend
<1>4. CASE /\ Next /\ (\A t \in Thread : ~Proceed(t))
           /\ requests' = IF now' = now THEN requests ELSE Aged(requests)
  <2>1. CASE Clock
    <3>1. now' # now
      BY <1>1, <2>1, TypedParts DEF Clock
    <3> QED
      BY <1>1, <1>4, <2>1, <3>1, RequestsClock
  <2>2. CASE ~Clock
    <3>1. PICK t \in Thread :
             \/ CallUnopened(t) \/ (\E ms \in Interval : Call(t, ms)) \/ Acquire(t)
             \/ Paced(t) \/ Crash(t)
      BY <1>4, <2>2 DEF Next
    <3>2. now' = now
      BY <3>1 DEF CallUnopened, Call, Acquire, Paced, ReadTick, StartSleep, SkipSleep, Wake,
                  Stamp, Publish, Release, Crash
    <3> QED
      BY <1>1, <1>4, <3>1, <3>2, RequestsRelease, RequestsOther DEF Paced
  <2> QED
    BY <2>1, <2>2
<1> QED
  BY <1>2, <1>3, <1>4 DEF ClientNext

(* The requests of a number of clients that pace themselves, each of which  *)
(* may stall as long as it likes between its grant and its request, keep    *)
(* within the limit if the interval is long enough for that number: with    *)
(* 10 ms and 5 in 20 ms, two clients.                                       *)
THEOREM RequestsWithinLimit ==
    ASSUME Window > 0, NEW d, Apart(d), (Limit - Clients - 1) * d >= Window - 1
    PROVE  ClientSpec => []RequestsPaced
<1>1. ClientInit => RequestsInv(d)
  BY RequestsInit
<1>2. RequestsInv(d) /\ [ClientNext]_clientVars => RequestsInv(d)'
  BY RequestsNext
<1>3. RequestsInv(d) => RequestsPaced
  <2> SUFFICES ASSUME PaceInv, NEW c \in [Ages -> Nat], NEW r \in [Ages -> Nat],
                      Sums(requests, r), requests \in [Ages -> Nat], Spread(d, c),
                      \A age \in Ages : r[age] + Cardinality(Unsent) <= Clients - 1 + c[age]
               PROVE  RequestsPaced
    BY DEF RequestsInv
  <2>0. Cardinality(Unsent) \in Nat /\ Clients \in Nat
    BY OpenedFinite DEF Unsent
  <2>1. /\ Window \in Nat \ {0} /\ Limit \in Nat /\ Clients \in Nat
        /\ Cardinality(Unsent) \in Nat /\ Window - 1 \in Ages
    BY <2>0, SyncAssumption DEF Ages
  <2>2. SumFunction(requests) = r[Window - 1]
    BY <2>1, SumIsLast
  <2>3. Limit - Clients - 1 \in Int
    BY <2>1
  <2>4. c[Window - 1] <= (Limit - Clients - 1) + 2
    BY <2>3, SpreadBound
  <2>5. r[Window - 1] \in Nat /\ c[Window - 1] \in Nat
    BY <2>1
  <2> QED
    BY <2>1, <2>2, <2>4, <2>5 DEF RequestsPaced
<1> QED
  BY <1>1, <1>2, <1>3, PTL DEF ClientSpec
-------------------------------------------------------------------------------
(* A step of thread t is, for who sees only calls and grants, one step of   *)
(* the pacer or none.                                                       *)
LEMMA PacerStep ==
    ASSUME PaceInv, NEW t \in Thread,
           \/ CallUnopened(t) \/ (\E ms \in Interval : Call(t, ms)) \/ Acquire(t)
           \/ Paced(t) \/ Proceed(t) \/ Crash(t)
    PROVE  Pacing!PacerNext \/ UNCHANGED Pacing!pacerVars
<1> DEFINE place == [s \in Thread |-> PlaceOf(s)]
           wish == [s \in Thread |-> IF PlaceOf(s) = "waiting" THEN u[s] ELSE 0]
<1> USE DEF Goto
<1>0. /\ pc \in [Thread -> Place] /\ u \in [Thread -> Nat] /\ tickTime \in [Thread -> Nat]
      /\ syncTime \in Nat /\ tick \in Nat /\ Known(t)
  BY DEF PaceInv, SyncInv, TypeOK
<1>1. \A s \in Thread : s # t /\ pc'[s] = pc[s] /\ u'[s] = u[s]
                           => place'[s] = place[s] /\ wish'[s] = wish[s]
  BY DEF PlaceOf
<1>2. CASE CallUnopened(t)
  <2>1. /\ pc[t] = "idle" /\ pc'[t] = "granted" /\ t \notin Opened
        /\ UNCHANGED <<tick, syncTime>>
        /\ \A s \in Thread : s # t => pc'[s] = pc[s] /\ u'[s] = u[s]
    BY <1>0, <1>2 DEF CallUnopened
  <2>2. place[t] = "away" /\ place'[t] = "granted" /\ wish'[t] = wish[t]
    BY <2>1 DEF PlaceOf
  <2>3. place' = [place EXCEPT ![t] = "granted"] /\ wish' = wish
    BY <1>1, <2>1, <2>2
  <2>4. Pacing!Pass(t)
    BY <2>1, <2>2, <2>3 DEF Pacing!Pass, Pacing!Move
  <2> QED
    BY <2>4 DEF Pacing!PacerNext
<1>3. CASE \E ms \in Interval : Call(t, ms)
  <2>1. PICK ms \in Interval : Call(t, ms)
    BY <1>3
  <2>2. /\ pc[t] = "idle" /\ pc'[t] = "waiting" /\ t \in Opened /\ u'[t] = ms
        /\ UNCHANGED <<tick, syncTime>>
        /\ \A s \in Thread : s # t => pc'[s] = pc[s] /\ u'[s] = u[s]
    BY <1>0, <2>1 DEF Call
  <2>3. place[t] = "away" /\ place'[t] = "waiting" /\ wish'[t] = ms
    BY <2>2 DEF PlaceOf
  <2>4. place' = [place EXCEPT ![t] = "waiting"] /\ wish' = [wish EXCEPT ![t] = ms]
    BY <1>1, <2>2, <2>3
  <2>5. Pacing!Ask(t)
    BY <2>2, <2>3, <2>4 DEF Pacing!Ask, Pacing!Move
  <2> QED
    BY <2>5 DEF Pacing!PacerNext
<1>4. CASE \/ Acquire(t) \/ ReadTick(t) \/ StartSleep(t) \/ SkipSleep(t) \/ Wake(t) \/ Stamp(t)
  <2>1. /\ pc[t] \in {"waiting", "locked", "read", "asleep", "awake"}
        /\ pc'[t] \in {"locked", "read", "asleep", "awake", "stamped"}
        /\ UNCHANGED <<tick, syncTime, u>>
        /\ \A s \in Thread : s # t => pc'[s] = pc[s]
    BY <1>0, <1>4 DEF Acquire, ReadTick, StartSleep, SkipSleep, Wake, Stamp
  <2>2. place'[t] = place[t] /\ wish'[t] = wish[t]
    BY <2>1 DEF PlaceOf
  <2>3. place' = place /\ wish' = wish
    BY <1>1, <2>1, <2>2
  <2> QED
    BY <2>1, <2>3 DEF Pacing!pacerVars
<1>5. CASE Publish(t)
  <2>1. /\ pc[t] = "stamped" /\ pc'[t] = "published" /\ syncTime' = tickTime[t]
        /\ UNCHANGED <<tick, u>>
        /\ \A s \in Thread : s # t => pc'[s] = pc[s] /\ u'[s] = u[s]
    BY <1>0, <1>5 DEF Publish
  <2>2. place[t] = "waiting" /\ place'[t] = "granted" /\ wish[t] = u[t] /\ wish'[t] = 0
    BY <2>1 DEF PlaceOf
  <2>3. place' = [place EXCEPT ![t] = "granted"] /\ wish' = [wish EXCEPT ![t] = 0]
    BY <1>1, <2>1, <2>2
  <2>4. syncTime' \in syncTime .. tick /\ syncTime' + EarlyWake >= syncTime + wish[t]
    BY <1>0, <2>1, <2>2 DEF Known
  <2>5. Pacing!Grant(t)
    BY <2>1, <2>2, <2>3, <2>4 DEF Pacing!Grant, Pacing!Move
  <2> QED
    BY <2>5 DEF Pacing!PacerNext
<1>6. CASE Release(t)
  <2>1. /\ pc[t] = "published" /\ pc'[t] = "granted" /\ UNCHANGED <<tick, syncTime>>
        /\ \A s \in Thread : s # t => pc'[s] = pc[s] /\ u'[s] = u[s]
    BY <1>0, <1>6 DEF Release, DropLocals
  <2>2. place'[t] = place[t] /\ wish'[t] = wish[t]
    BY <2>1 DEF PlaceOf
  <2>3. place' = place /\ wish' = wish
    BY <1>1, <2>1, <2>2
  <2> QED
    BY <2>1, <2>3 DEF Pacing!pacerVars
<1>7. CASE Proceed(t)
  <2>1. /\ pc[t] = "granted" /\ pc'[t] = "idle" /\ UNCHANGED <<tick, syncTime>>
        /\ \A s \in Thread : s # t => pc'[s] = pc[s] /\ u'[s] = u[s]
    BY <1>0, <1>7 DEF Proceed
  <2>2. place[t] = "granted" /\ place'[t] = "away" /\ wish'[t] = wish[t]
    BY <2>1 DEF PlaceOf
  <2>3. place' = [place EXCEPT ![t] = "away"] /\ wish' = wish
    BY <1>1, <2>1, <2>2
  <2>4. Pacing!Resume(t)
    BY <2>1, <2>2, <2>3 DEF Pacing!Resume, Pacing!Move
  <2> QED
    BY <2>4 DEF Pacing!PacerNext
<1>8. CASE Crash(t)
  <2>1. /\ pc[t] # "crashed" /\ pc'[t] = "crashed" /\ UNCHANGED <<tick, syncTime>>
        /\ \A s \in Thread : s # t => pc'[s] = pc[s] /\ u'[s] = u[s]
    BY <1>0, <1>8 DEF Crash, DropLocals
  <2>2. place[t] # "gone" /\ place'[t] = "gone" /\ wish'[t] = 0
    BY <2>1 DEF PlaceOf
  <2>3. place' = [place EXCEPT ![t] = "gone"] /\ wish' = [wish EXCEPT ![t] = 0]
    BY <1>1, <2>1, <2>2
  <2>4. Pacing!Die(t)
    BY <2>1, <2>2, <2>3 DEF Pacing!Die
  <2> QED
    BY <2>4 DEF Pacing!PacerNext
<1> QED
  BY <1>2, <1>3, <1>4, <1>5, <1>6, <1>7, <1>8 DEF Paced

(* A unit of time that the tick count shows is a tick of the pacer. *)
LEMMA PacerClock ==
    ASSUME PaceInv, Clock
    PROVE  Pacing!PacerNext \/ UNCHANGED Pacing!pacerVars
<1>1. tick \in Nat /\ now \in Nat /\ tick <= now
  BY TypedParts
<1>2. /\ UNCHANGED <<syncTime, pc, u>> /\ tick' \in Nat /\ (tick' = tick \/ tick' > tick)
  BY <1>1 DEF Clock
<1>3. \A t \in Thread : PlaceOf(t)' = PlaceOf(t)
  BY <1>2 DEF PlaceOf
<1>4. CASE tick' > tick
  BY <1>2, <1>3, <1>4 DEF Pacing!PacerNext, Pacing!Tick
<1>5. CASE tick' = tick
  BY <1>2, <1>3, <1>5 DEF Pacing!pacerVars
<1> QED
  BY <1>2, <1>4, <1>5

(* However the calls of any number of processes interleave and whoever      *)
(* dies, they are paced as if each grant were one step (EfxMfc.cpp:542-558).*)
THEOREM PacingIsAtomic == Spec => PacesAtomically
<1>1. Init => Pacing!PacerInit
  <2> SUFFICES ASSUME Init PROVE Pacing!PacerInit
    OBVIOUS
  <2>1. \A t \in Thread : PlaceOf(t) = "away"
    BY DEF Init, PlaceOf
  <2> QED
    BY <2>1 DEF Init, Pacing!PacerInit
<1>2. PaceInv /\ [Next]_vars => [Pacing!PacerNext]_(Pacing!pacerVars)
  <2> SUFFICES ASSUME PaceInv, [Next]_vars
               PROVE  Pacing!PacerNext \/ UNCHANGED Pacing!pacerVars
    OBVIOUS
  <2>1. CASE UNCHANGED vars
    <3>1. \A t \in Thread : PlaceOf(t)' = PlaceOf(t)
      BY <2>1 DEF vars, PlaceOf
    <3> QED
      BY <2>1, <3>1 DEF vars, Pacing!pacerVars
  <2> QED
    BY <2>1, PacerStep, PacerClock DEF Next
<1> QED
  BY <1>1, <1>2, PaceInit, PaceNext, PTL DEF Spec, PacesAtomically, Pacing!PacerSpec
===============================================================================
