--------------------------- MODULE SharedMutexProofs ---------------------------
(***************************************************************************)
(* Proofs about SharedMutex for any number of processes that come and go   *)
(* any number of times: what makes g_refCount too high, and what makes     *)
(* efxInit miss a mutex that g_hMutex says is there.                       *)
(***************************************************************************)
EXTENDS SharedMutex, FiniteSetTheorems, TLAPS

Leaving == {"exit", "release", "close", "clear", "ended"}

(* A process that has opened the mutex called efxInit, and calls it again  *)
(* if it is before the opening; it has a handle until it closes that one.  *)
OpenedInv ==
    \A p \in Process :
        /\ pc[p] \in {"create", "open"} => inits[p] >= 1
        /\ pc[p] \in {"create", "open"} /\ opened[p] => inits[p] >= 2
        /\ pc[p] = "count" => opened[p]
        /\ opened[p] => inits[p] >= 1
        /\ opened[p] /\ pc[p] \notin Leaving \ {"exit"} => handles[p] >= 1

(* The process that stored its handle in g_hMutex runs, and has that       *)
(* handle until it leaves.                                                 *)
MadeInv ==
    hMutex \in Process =>
        pc[hMutex] # "out" /\ (pc[hMutex] \notin Leaving => handles[hMutex] >= 1)

(* As long as no process dies, a handle in g_hMutex is one of a process    *)
(* that has not counted down yet, or there are users left by the count, or *)
(* the process that counted down to 0 is about to reset it.                *)
LeftInv ==
    crashes = 0 /\ hMutex # Null =>
        \/ hMutex \in Process /\ pc[hMutex] \notin {"close", "clear", "ended"}
        \/ refCount > 0
        \/ \E p \in Process : pc[p] \in {"close", "clear"}

(* No process leaves during an efxInit that is not disturbed. *)
QuietInv ==
    \A p \in Process : pc[p] \in {"create", "open"} /\ p \notin disturbed => Exiting = {}

(* Such an efxInit comes to OpenMutexW with a mutex to find, unless the    *)
(* count promises users that do not exist.                                 *)
FoundInv ==
    \A p \in Process :
        pc[p] = "open" /\ p \notin disturbed /\ crashes = 0 => MutexExists \/ refCount > 0

SharedInv == TypeOK /\ OpenedInv /\ MadeInv /\ LeftInv /\ QuietInv /\ FoundInv

LEMMA SharedInitInv == Init => SharedInv
<1> SUFFICES ASSUME Init PROVE SharedInv
  OBVIOUS
<1>1. TypeOK
  BY SharedAssumption DEF Init, TypeOK, Place
<1>2. OpenedInv /\ MadeInv /\ LeftInv
  BY SharedAssumption DEF Init, OpenedInv, MadeInv, LeftInv
<1>3. QuietInv /\ FoundInv
  BY DEF Init, QuietInv, FoundInv
<1> QED
  BY <1>1, <1>2, <1>3 DEF SharedInv

(* What one process does. *)
Step(p) == Load(p) \/ EfxInit(p) \/ Exit(p) \/ ExitInstance(p) \/ End(p) \/ Crash(p)

-------------------------------------------------------------------------------
(* The closing of g_hOpenMutex finds a handle to close. *)
LEMMA SharedTypes ==
    ASSUME SharedInv, NEW p \in Process, Step(p)
    PROVE  TypeOK'
<1> USE SharedAssumption DEF Goto
<1>a. TypeOK /\ OpenedInv
  BY DEF SharedInv
<1>1. CASE Load(p)
  BY <1>1, <1>a DEF Load, TypeOK, Place, OpenedInv, Leaving
<1>2. CASE TestMutex(p)
  BY <1>2, <1>a DEF TestMutex, TypeOK, Place, OpenedInv, Leaving
<1>3. CASE CreateMutex(p)
  BY <1>3, <1>a DEF CreateMutex, TypeOK, Place, OpenedInv, Leaving
<1>4. CASE CreateMutexFails(p)
  BY <1>4, <1>a DEF CreateMutexFails, TypeOK, Place, OpenedInv, Leaving
<1>5. CASE OpenMutex(p)
  BY <1>5, <1>a DEF OpenMutex, TypeOK, Place, OpenedInv, Leaving
<1>6. CASE OpenMutexFails(p)
  BY <1>6, <1>a DEF OpenMutexFails, TypeOK, Place, OpenedInv, Leaving
<1>7. CASE CountUser(p)
  BY <1>7, <1>a DEF CountUser, TypeOK, Place, OpenedInv, Leaving
<1>8. CASE Exit(p)
  BY <1>8, <1>a DEF Exit, TypeOK, Place, OpenedInv, Leaving
<1>9. CASE CloseOpened(p)
  BY <1>9, <1>a DEF CloseOpened, TypeOK, Place, OpenedInv, Leaving
<1>10. CASE ReleaseUser(p)
  BY <1>10, <1>a DEF ReleaseUser, TypeOK, Place, OpenedInv, Leaving
<1>11. CASE CloseCreated(p)
  BY <1>11, <1>a DEF CloseCreated, TypeOK, Place, OpenedInv, Leaving
<1>12. CASE ClearCreated(p)
  BY <1>12, <1>a DEF ClearCreated, TypeOK, Place, OpenedInv, Leaving
<1>13. CASE End(p)
  BY <1>13, <1>a DEF End, Leave, TypeOK, Place, OpenedInv, Leaving
<1>14. CASE Crash(p)
  BY <1>14, <1>a DEF Crash, Leave, TypeOK, Place, OpenedInv, Leaving
<1> QED
  BY <1>1, <1>2, <1>3, <1>4, <1>5, <1>6, <1>7, <1>8, <1>9, <1>10, <1>11, <1>12, <1>13, <1>14 DEF Step, EfxInit, ExitInstance

LEMMA OpenedNext ==
    ASSUME SharedInv, NEW p \in Process, Step(p)
    PROVE  OpenedInv'
<1> USE SharedAssumption DEF Goto
<1>a. TypeOK /\ OpenedInv
  BY DEF SharedInv
<1>1. CASE Load(p)
  BY <1>1, <1>a DEF Load, TypeOK, OpenedInv, Leaving
<1>2. CASE TestMutex(p)
  BY <1>2, <1>a DEF TestMutex, TypeOK, OpenedInv, Leaving
<1>3. CASE CreateMutex(p)
  BY <1>3, <1>a DEF CreateMutex, TypeOK, OpenedInv, Leaving
<1>4. CASE CreateMutexFails(p)
  BY <1>4, <1>a DEF CreateMutexFails, TypeOK, OpenedInv, Leaving
<1>5. CASE OpenMutex(p)
  BY <1>5, <1>a DEF OpenMutex, TypeOK, OpenedInv, Leaving
<1>6. CASE OpenMutexFails(p)
  BY <1>6, <1>a DEF OpenMutexFails, TypeOK, OpenedInv, Leaving
<1>7. CASE CountUser(p)
  BY <1>7, <1>a DEF CountUser, TypeOK, OpenedInv, Leaving
<1>8. CASE Exit(p)
  BY <1>8, <1>a DEF Exit, TypeOK, OpenedInv, Leaving
<1>9. CASE CloseOpened(p)
  BY <1>9, <1>a DEF CloseOpened, TypeOK, OpenedInv, Leaving
<1>10. CASE ReleaseUser(p)
  BY <1>10, <1>a DEF ReleaseUser, TypeOK, OpenedInv, Leaving
<1>11. CASE CloseCreated(p)
  BY <1>11, <1>a DEF CloseCreated, TypeOK, OpenedInv, Leaving
<1>12. CASE ClearCreated(p)
  BY <1>12, <1>a DEF ClearCreated, TypeOK, OpenedInv, Leaving
<1>13. CASE End(p)
  BY <1>13, <1>a DEF End, Leave, TypeOK, OpenedInv, Leaving
<1>14. CASE Crash(p)
  BY <1>14, <1>a DEF Crash, Leave, TypeOK, OpenedInv, Leaving
<1> QED
  BY <1>1, <1>2, <1>3, <1>4, <1>5, <1>6, <1>7, <1>8, <1>9, <1>10, <1>11, <1>12, <1>13, <1>14 DEF Step, EfxInit, ExitInstance

LEMMA MadeNext ==
    ASSUME SharedInv, NEW p \in Process, Step(p)
    PROVE  MadeInv'
<1> USE SharedAssumption DEF Goto
<1>a. TypeOK /\ MadeInv
  BY DEF SharedInv
<1>1. CASE Load(p)
  BY <1>1, <1>a DEF Load, TypeOK, MadeInv, Leaving
<1>2. CASE TestMutex(p)
  BY <1>2, <1>a DEF TestMutex, TypeOK, MadeInv, Leaving
<1>3. CASE CreateMutex(p)
  BY <1>3, <1>a DEF CreateMutex, TypeOK, MadeInv, Leaving
<1>4. CASE CreateMutexFails(p)
  BY <1>4, <1>a DEF CreateMutexFails, TypeOK, MadeInv, Leaving
<1>5. CASE OpenMutex(p)
  BY <1>5, <1>a DEF OpenMutex, TypeOK, MadeInv, Leaving
<1>6. CASE OpenMutexFails(p)
  BY <1>6, <1>a DEF OpenMutexFails, TypeOK, MadeInv, Leaving
<1>7. CASE CountUser(p)
  BY <1>7, <1>a DEF CountUser, TypeOK, MadeInv, Leaving
<1>8. CASE Exit(p)
  BY <1>8, <1>a DEF Exit, TypeOK, MadeInv, Leaving
<1>9. CASE CloseOpened(p)
  BY <1>9, <1>a DEF CloseOpened, TypeOK, MadeInv, Leaving
<1>10. CASE ReleaseUser(p)
  BY <1>10, <1>a DEF ReleaseUser, TypeOK, MadeInv, Leaving
<1>11. CASE CloseCreated(p)
  BY <1>11, <1>a DEF CloseCreated, TypeOK, MadeInv, Leaving
<1>12. CASE ClearCreated(p)
  BY <1>12, <1>a DEF ClearCreated, TypeOK, MadeInv, Leaving
<1>13. CASE End(p)
  BY <1>13, <1>a DEF End, Leave, TypeOK, MadeInv, Leaving
<1>14. CASE Crash(p)
  BY <1>14, <1>a DEF Crash, Leave, TypeOK, MadeInv, Leaving
<1> QED
  BY <1>1, <1>2, <1>3, <1>4, <1>5, <1>6, <1>7, <1>8, <1>9, <1>10, <1>11, <1>12, <1>13, <1>14 DEF Step, EfxInit, ExitInstance

(* A count that comes to 0 sends its process to reset g_hMutex. *)
LEMMA LeftNext ==
    ASSUME SharedInv, NEW p \in Process, Step(p)
    PROVE  LeftInv'
<1> USE SharedAssumption DEF Goto
<1>a. TypeOK /\ MadeInv /\ LeftInv
  BY DEF SharedInv
<1>1. CASE Load(p)
  BY <1>1, <1>a DEF Load, TypeOK, MadeInv, LeftInv
<1>2. CASE TestMutex(p)
  BY <1>2, <1>a DEF TestMutex, TypeOK, MadeInv, LeftInv
<1>3. CASE CreateMutex(p)
  BY <1>3, <1>a DEF CreateMutex, TypeOK, MadeInv, LeftInv
<1>4. CASE CreateMutexFails(p)
  BY <1>4, <1>a DEF CreateMutexFails, TypeOK, MadeInv, LeftInv
<1>5. CASE OpenMutex(p)
  BY <1>5, <1>a DEF OpenMutex, TypeOK, MadeInv, LeftInv
<1>6. CASE OpenMutexFails(p)
  BY <1>6, <1>a DEF OpenMutexFails, TypeOK, MadeInv, LeftInv
<1>7. CASE CountUser(p)
  BY <1>7, <1>a DEF CountUser, TypeOK, MadeInv, LeftInv
<1>8. CASE Exit(p)
  BY <1>8, <1>a DEF Exit, TypeOK, MadeInv, LeftInv
<1>9. CASE CloseOpened(p)
  BY <1>9, <1>a DEF CloseOpened, TypeOK, MadeInv, LeftInv
<1>10. CASE ReleaseUser(p)
  BY <1>10, <1>a DEF ReleaseUser, TypeOK, MadeInv, LeftInv
<1>11. CASE CloseCreated(p)
  BY <1>11, <1>a DEF CloseCreated, TypeOK, MadeInv, LeftInv
<1>12. CASE ClearCreated(p)
  BY <1>12, <1>a DEF ClearCreated, TypeOK, MadeInv, LeftInv
<1>13. CASE End(p)
  BY <1>13, <1>a DEF End, Leave, TypeOK, MadeInv, LeftInv
<1>14. CASE Crash(p)
  BY <1>14, <1>a DEF Crash, Leave, TypeOK, MadeInv, LeftInv
<1> QED
  BY <1>1, <1>2, <1>3, <1>4, <1>5, <1>6, <1>7, <1>8, <1>9, <1>10, <1>11, <1>12, <1>13, <1>14 DEF Step, EfxInit, ExitInstance

LEMMA QuietNext ==
    ASSUME SharedInv, NEW p \in Process, Step(p)
    PROVE  QuietInv'
<1> USE SharedAssumption DEF Goto
<1>a. TypeOK /\ QuietInv
  BY DEF SharedInv
<1>1. CASE Load(p)
  BY <1>1, <1>a DEF Load, TypeOK, QuietInv, Exiting
<1>2. CASE TestMutex(p)
  BY <1>2, <1>a DEF TestMutex, TypeOK, QuietInv, Exiting
<1>3. CASE CreateMutex(p)
  BY <1>3, <1>a DEF CreateMutex, TypeOK, QuietInv, Exiting
<1>4. CASE CreateMutexFails(p)
  BY <1>4, <1>a DEF CreateMutexFails, TypeOK, QuietInv, Exiting
<1>5. CASE OpenMutex(p)
  BY <1>5, <1>a DEF OpenMutex, TypeOK, QuietInv, Exiting
<1>6. CASE OpenMutexFails(p)
  BY <1>6, <1>a DEF OpenMutexFails, TypeOK, QuietInv, Exiting
<1>7. CASE CountUser(p)
  BY <1>7, <1>a DEF CountUser, TypeOK, QuietInv, Exiting
<1>8. CASE Exit(p)
  BY <1>8, <1>a DEF Exit, TypeOK, QuietInv, Exiting
<1>9. CASE CloseOpened(p)
  BY <1>9, <1>a DEF CloseOpened, TypeOK, QuietInv, Exiting
<1>10. CASE ReleaseUser(p)
  BY <1>10, <1>a DEF ReleaseUser, TypeOK, QuietInv, Exiting
<1>11. CASE CloseCreated(p)
  BY <1>11, <1>a DEF CloseCreated, TypeOK, QuietInv, Exiting
<1>12. CASE ClearCreated(p)
  BY <1>12, <1>a DEF ClearCreated, TypeOK, QuietInv, Exiting
<1>13. CASE End(p)
  BY <1>13, <1>a DEF End, Leave, TypeOK, QuietInv, Exiting
<1>14. CASE Crash(p)
  BY <1>14, <1>a DEF Crash, Leave, TypeOK, QuietInv, Exiting
<1> QED
  BY <1>1, <1>2, <1>3, <1>4, <1>5, <1>6, <1>7, <1>8, <1>9, <1>10, <1>11, <1>12, <1>13, <1>14 DEF Step, EfxInit, ExitInstance

(* The mutex is found when g_hMutex is tested, and stays while none leaves. *)
LEMMA FoundNext ==
    ASSUME SharedInv, NEW p \in Process, Step(p)
    PROVE  FoundInv'
<1> USE SharedAssumption DEF Goto
<1>a. TypeOK /\ MadeInv /\ LeftInv /\ QuietInv /\ FoundInv
  BY DEF SharedInv
<1>1. CASE Load(p)
  BY <1>1, <1>a DEF Load, TypeOK, MadeInv, LeftInv, QuietInv, FoundInv, Exiting, MutexExists, Leaving
<1>2. CASE TestMutex(p)
  BY <1>2, <1>a DEF TestMutex, TypeOK, MadeInv, LeftInv, QuietInv, FoundInv, Exiting, MutexExists, Leaving
<1>3. CASE CreateMutex(p)
  BY <1>3, <1>a DEF CreateMutex, TypeOK, MadeInv, LeftInv, QuietInv, FoundInv, Exiting, MutexExists, Leaving
<1>4. CASE CreateMutexFails(p)
  BY <1>4, <1>a DEF CreateMutexFails, TypeOK, MadeInv, LeftInv, QuietInv, FoundInv, Exiting, MutexExists, Leaving
<1>5. CASE OpenMutex(p)
  BY <1>5, <1>a DEF OpenMutex, TypeOK, MadeInv, LeftInv, QuietInv, FoundInv, Exiting, MutexExists, Leaving
<1>6. CASE OpenMutexFails(p)
  BY <1>6, <1>a DEF OpenMutexFails, TypeOK, MadeInv, LeftInv, QuietInv, FoundInv, Exiting, MutexExists, Leaving
<1>7. CASE CountUser(p)
  BY <1>7, <1>a DEF CountUser, TypeOK, MadeInv, LeftInv, QuietInv, FoundInv, Exiting, MutexExists, Leaving
<1>8. CASE Exit(p)
  BY <1>8, <1>a DEF Exit, TypeOK, MadeInv, LeftInv, QuietInv, FoundInv, Exiting, MutexExists, Leaving
<1>9. CASE CloseOpened(p)
  BY <1>9, <1>a DEF CloseOpened, TypeOK, MadeInv, LeftInv, QuietInv, FoundInv, Exiting, MutexExists, Leaving
<1>10. CASE ReleaseUser(p)
  BY <1>10, <1>a DEF ReleaseUser, TypeOK, MadeInv, LeftInv, QuietInv, FoundInv, Exiting, MutexExists, Leaving
<1>11. CASE CloseCreated(p)
  BY <1>11, <1>a DEF CloseCreated, TypeOK, MadeInv, LeftInv, QuietInv, FoundInv, Exiting, MutexExists, Leaving
<1>12. CASE ClearCreated(p)
  BY <1>12, <1>a DEF ClearCreated, TypeOK, MadeInv, LeftInv, QuietInv, FoundInv, Exiting, MutexExists, Leaving
<1>13. CASE End(p)
  BY <1>13, <1>a DEF End, Leave, TypeOK, MadeInv, LeftInv, QuietInv, FoundInv, Exiting, MutexExists, Leaving
<1>14. CASE Crash(p)
  BY <1>14, <1>a DEF Crash, Leave, TypeOK, MadeInv, LeftInv, QuietInv, FoundInv, Exiting, MutexExists, Leaving
<1> QED
  BY <1>1, <1>2, <1>3, <1>4, <1>5, <1>6, <1>7, <1>8, <1>9, <1>10, <1>11, <1>12, <1>13, <1>14 DEF Step, EfxInit, ExitInstance

LEMMA SharedNextInv == SharedInv /\ [Next]_vars => SharedInv'
<1>1. ASSUME SharedInv, NEW p \in Process, Step(p) PROVE SharedInv'
  BY <1>1, SharedTypes, OpenedNext, MadeNext, LeftNext, QuietNext, FoundNext DEF SharedInv
<1>2. ASSUME SharedInv, UNCHANGED vars PROVE SharedInv'
  BY <1>2 DEF SharedInv, vars, TypeOK, OpenedInv, MadeInv, LeftInv, QuietInv, FoundInv,
              Exiting, MutexExists
<1> QED
  BY <1>1, <1>2 DEF Next, Step

LEMMA SharedInvariance == Spec => []SharedInv
BY SharedInitInv, SharedNextInv, PTL DEF Spec

(* The shared section and the processes keep their types; no process       *)
(* closes more handles than it has.                                        *)
THEOREM SharedTypesCorrect == Spec => []TypeOK
<1>1. SharedInv => TypeOK
  BY DEF SharedInv
<1> QED
  BY <1>1, SharedInvariance, PTL

-------------------------------------------------------------------------------
(* When OpenMutexW fails there is no handle, and so no user; if the        *)
(* process was undisturbed and none died, the count is of users that are   *)
(* not there.                                                              *)
LEMMA OpenFailsStep ==
    ASSUME SharedInv, [Next]_vars,
           NEW p \in Process, pc[p] = "open", pc'[p] = "refused",
           p \notin disturbed, crashes = 0
    PROVE  Overcounted
<1>1. ~MutexExists
  <2>1. \E q \in Process : Step(q) \/ UNCHANGED vars
    BY DEF Next, Step
  <2> QED
    BY <2>1 DEF SharedInv, TypeOK, vars, Step, EfxInit, ExitInstance, Goto, Leave, Load, TestMutex, CreateMutex,
       CreateMutexFails, OpenMutex, OpenMutexFails, CountUser, Exit, CloseOpened, ReleaseUser,
       CloseCreated, ClearCreated, End, Crash
<1>2. refCount > 0 /\ refCount \in Int
  BY <1>1 DEF SharedInv, FoundInv, TypeOK
<1>3. Exiting = {}
  BY DEF SharedInv, QuietInv
<1>4. Users = {}
  <2> SUFFICES ASSUME NEW q \in Users PROVE FALSE
    OBVIOUS
  <2>1. q \in Process /\ opened[q] /\ pc[q] \notin Leaving
    BY <1>3 DEF Users, Exiting, Leaving
  <2>2. handles[q] >= 1 /\ handles[q] \in Nat
    BY <2>1 DEF SharedInv, OpenedInv, TypeOK
  <2> QED
    BY <2>1, <2>2, <1>1 DEF MutexExists
<1> QED
  BY <1>2, <1>4, FS_EmptySet DEF Overcounted

(* efxInit of any process misses the mutex of EfxMfc.cpp:515 only if       *)
(* another process was leaving meanwhile, the count is too high or a       *)
(* process died.                                                           *)
THEOREM OpenFailsForCause == Spec => OpenFailsOnlyForCause
<1>1. SharedInv /\ [Next]_vars =>
        [\A p \in Process : (pc[p] = "open" /\ pc'[p] = "refused") =>
            p \in disturbed \/ Overcounted \/ crashes > 0]_vars
  <2> SUFFICES ASSUME SharedInv, [Next]_vars,
                      NEW p \in Process, pc[p] = "open", pc'[p] = "refused",
                      p \notin disturbed, ~(crashes > 0)
               PROVE  Overcounted
    OBVIOUS
  <2>1. crashes = 0
    BY DEF SharedInv, TypeOK
  <2> QED
    BY <2>1, OpenFailsStep
<1> QED
  BY <1>1, SharedInvariance, PTL DEF Spec, OpenFailsOnlyForCause

-------------------------------------------------------------------------------
(* A process is a user or none. *)
LEMMA UsersFinite == IsFiniteSet(Users) /\ Cardinality(Users) \in Nat
<1>1. IsFiniteSet(Users)
  BY SharedAssumption, FS_Subset DEF Users
<1> QED
  BY <1>1, FS_CardinalityType

LEMMA UsersFiniteNext == (IsFiniteSet(Users) /\ Cardinality(Users) \in Nat)'
BY UsersFinite, PTL

(* As long as no process dies and each calls efxInit once, every step that *)
(* raises the count adds a user, and none goes without being counted down. *)
LEMMA CountedStep ==
    ASSUME SharedInv, NEW p \in Process, Step(p), ~Crash(p), inits[p] <= 1
    PROVE  \/ refCount' = refCount /\ Users \subseteq Users'
           \/ refCount' = refCount + 1 /\ p \notin Users /\ Users' = Users \union {p}
           \/ refCount' = refCount - 1 /\ Users \ {p} \subseteq Users'
           \/ refCount' = 0
<1> USE SharedAssumption DEF Goto, Users
<1>a. TypeOK /\ OpenedInv
  BY DEF SharedInv
<1>1. CASE Load(p)
  BY <1>1, <1>a DEF Load, TypeOK, OpenedInv
<1>2. CASE TestMutex(p)
  BY <1>2, <1>a DEF TestMutex, TypeOK, OpenedInv
<1>3. CASE CreateMutex(p)
  BY <1>3, <1>a DEF CreateMutex, TypeOK, OpenedInv
<1>4. CASE CreateMutexFails(p)
  BY <1>4, <1>a DEF CreateMutexFails, TypeOK, OpenedInv
<1>5. CASE OpenMutex(p)
  BY <1>5, <1>a DEF OpenMutex, TypeOK, OpenedInv
<1>6. CASE OpenMutexFails(p)
  BY <1>6, <1>a DEF OpenMutexFails, TypeOK, OpenedInv
<1>7. CASE CountUser(p)
  BY <1>7, <1>a DEF CountUser, TypeOK, OpenedInv
<1>8. CASE Exit(p)
  BY <1>8, <1>a DEF Exit, TypeOK, OpenedInv
<1>9. CASE CloseOpened(p)
  BY <1>9, <1>a DEF CloseOpened, TypeOK, OpenedInv
<1>10. CASE ReleaseUser(p)
  BY <1>10, <1>a DEF ReleaseUser, TypeOK, OpenedInv
<1>11. CASE CloseCreated(p)
  BY <1>11, <1>a DEF CloseCreated, TypeOK, OpenedInv
<1>12. CASE ClearCreated(p)
  BY <1>12, <1>a DEF ClearCreated, TypeOK, OpenedInv
<1>13. CASE End(p)
  BY <1>13, <1>a DEF End, Leave, TypeOK, OpenedInv
<1> QED
  BY <1>1, <1>2, <1>3, <1>4, <1>5, <1>6, <1>7, <1>8, <1>9, <1>10, <1>11, <1>12, <1>13 DEF Step, EfxInit, ExitInstance

LEMMA CountStaysBelow ==
    ASSUME SharedInv, [Next]_vars, ~Overcounted,
           crashes' = crashes, \A p \in Process : inits[p] <= 1
    PROVE  ~Overcounted'
<1>0. /\ IsFiniteSet(Users) /\ Cardinality(Users) \in Nat
      /\ IsFiniteSet(Users') /\ Cardinality(Users') \in Nat
      /\ refCount \in Int /\ refCount <= Cardinality(Users)
  BY UsersFinite, UsersFiniteNext DEF SharedInv, TypeOK, Overcounted
<1>1. CASE UNCHANGED vars
  BY <1>1 DEF vars, Overcounted, Users
<1>2. ASSUME NEW p \in Process, Step(p) PROVE refCount' <= Cardinality(Users')
  <2>1. ~Crash(p)
    BY DEF Crash, SharedInv, TypeOK
  <2>2. CASE refCount' = refCount /\ Users \subseteq Users'
    BY <2>2, <1>0, FS_Subset
  <2>3. CASE refCount' = refCount + 1 /\ p \notin Users /\ Users' = Users \union {p}
    BY <2>3, <1>0, FS_AddElement
  <2>4. CASE refCount' = refCount - 1 /\ Users \ {p} \subseteq Users'
    <3>1. /\ IsFiniteSet(Users \ {p}) /\ Cardinality(Users \ {p}) \in Nat
          /\ Cardinality(Users \ {p}) >= Cardinality(Users) - 1
      <4>1. /\ IsFiniteSet(Users \ {p})
            /\ Cardinality(Users \ {p}) = (IF p \in Users THEN Cardinality(Users) - 1
                                             ELSE Cardinality(Users))
        BY <1>0, FS_RemoveElement
      <4>2. Cardinality(Users \ {p}) \in Nat
        BY <4>1, FS_CardinalityType
      <4> QED
        BY <4>1, <4>2, <1>0
    <3>2. Cardinality(Users \ {p}) <= Cardinality(Users')
      BY <2>4, <1>0, FS_Subset
    <3> QED
      BY <2>4, <3>1, <3>2, <1>0
  <2>5. CASE refCount' = 0
    BY <2>5, <1>0
  <2> QED
    BY <1>2, <2>1, <2>2, <2>3, <2>4, <2>5, CountedStep
<1>3. CASE Next
  <2>1. PICK p \in Process : Step(p)
    BY <1>3 DEF Next, Step
  <2>2. refCount' <= Cardinality(Users')
    BY <1>2, <2>1
  <2>3. refCount' \in Int
    BY <2>1, SharedTypes DEF TypeOK
  <2> QED
    BY <2>2, <2>3, <1>0 DEF Overcounted
<1> QED
  BY <1>1, <1>3

(* g_refCount (EfxMfc.cpp:152, 519) is at most the number of users until a *)
(* process dies or calls efxInit again.                                    *)
THEOREM OvercountOnlyForCause == Spec => OvercountHasCause
<1>1. SharedInv /\ [Next]_vars =>
        [(~Overcounted /\ Overcounted') =>
            crashes' > crashes \/ \E p \in Process : inits[p] > 1]_vars
  <2> SUFFICES ASSUME SharedInv, [Next]_vars, ~Overcounted, Overcounted',
                      \A p \in Process : ~(inits[p] > 1)
               PROVE  crashes' > crashes
    OBVIOUS
  <2>1. crashes' = crashes \/ crashes' = crashes + 1
    BY DEF vars, Next, EfxInit, ExitInstance, Load, TestMutex, CreateMutex,
       CreateMutexFails, OpenMutex, OpenMutexFails, CountUser, Exit, CloseOpened, ReleaseUser,
       CloseCreated, ClearCreated, End, Crash
  <2>2. \A p \in Process : inits[p] <= 1
    BY DEF SharedInv, TypeOK
  <2>3. crashes \in Nat
    BY DEF SharedInv, TypeOK
  <2> QED
    BY <2>1, <2>2, <2>3, CountStaysBelow
<1> QED
  BY <1>1, SharedInvariance, PTL DEF Spec, OvercountHasCause
===============================================================================
