----------------------------- MODULE SharedMutex -----------------------------
(***************************************************************************)
(* How processes come to share the mutex of efxSynchronize: efxInit and    *)
(* CEfxMfcApp::ExitInstance (EfxMfc.cpp).  g_hMutex and g_refCount lie in  *)
(* a section of the DLL that all processes share; but a handle in g_hMutex *)
(* means something only in the process that stored it.  The mutex is a     *)
(* named kernel object, which exists while any process has a handle to it. *)
(*                                                                         *)
(* External: the kernel, which drops the handles of a process that ends,   *)
(* regularly or not, and the shared section when no process has it loaded. *)
(* The DLL is unloaded only by the end of the process.                     *)
(***************************************************************************)
EXTENDS Integers, FiniteSets

CONSTANTS
    Process,
    MaxLoads,    \* bound: MaxLoads processes are started in all
    MaxInits,    \* bound: efxInit runs at most MaxInits times in a process
    MaxCrashes,  \* bound on the processes that end without ExitInstance
    Null,        \* the null handle
    Lost         \* a handle that a process left behind

ASSUME SharedAssumption ==
    /\ IsFiniteSet(Process)
    /\ MaxLoads \in Nat /\ MaxInits \in Nat /\ MaxCrashes \in Nat
    /\ Null \notin Process /\ Lost \notin Process /\ Null # Lost

VARIABLES
    hMutex,      \* g_hMutex: the process that stored its handle there, Lost
                 \*   once that process is gone, or Null
    refCount,    \* g_refCount
    pc,          \* per process, its place in its life
    opened,      \* per process, whether g_hOpenMutex is a handle
    handles,     \* external: per process, its handles to the mutex
    inits,       \* per process, the calls of efxInit that reached the mutex
    loads,       \* how many processes were started
    crashes,     \* how many processes were lost
    disturbed    \* history: in whose efxInit another process was leaving

vars == <<hMutex, refCount, pc, opened, handles, inits, loads, crashes, disturbed>>

Place == {"out", "loaded", "create", "open", "count", "ready", "refused",
          "exit", "release", "close", "clear", "ended"}

Loaded == {p \in Process : pc[p] # "out"}
Exiting == {p \in Process : pc[p] \in {"exit", "release", "close", "clear", "ended"}}
MutexExists == \E p \in Process : handles[p] > 0

Init ==
    /\ hMutex = Null
    /\ refCount = 0
    /\ pc = [p \in Process |-> "out"]
    /\ opened = [p \in Process |-> FALSE]
    /\ handles = [p \in Process |-> 0]
    /\ inits = [p \in Process |-> 0]
    /\ loads = 0 /\ crashes = 0
    /\ disturbed = {}

Goto(p, from, to) == pc[p] \in from /\ pc' = [pc EXCEPT ![p] = to]

-------------------------------------------------------------------------------
(* The process starts; InitInstance does not touch the mutex. *)
Load(p) ==
    /\ loads < MaxLoads
    /\ loads' = loads + 1
    /\ Goto(p, {"out"}, "loaded")
    /\ UNCHANGED <<hMutex, refCount, opened, handles, inits, crashes, disturbed>>

(* efxInit looks whether somebody made the mutex. *)
TestMutex(p) ==
    /\ inits[p] < MaxInits
    /\ Goto(p, {"loaded", "ready", "refused"}, IF hMutex = Null THEN "create" ELSE "open")
    /\ inits' = [inits EXCEPT ![p] = @ + 1]
    /\ disturbed' = IF Exiting = {} THEN disturbed \ {p} ELSE disturbed \union {p}
    /\ UNCHANGED <<hMutex, refCount, opened, handles, loads, crashes>>

(* CreateMutexW gives a handle to the mutex of that name, new or not. *)
CreateMutex(p) ==
    /\ Goto(p, {"create"}, "open")
    /\ hMutex' = p
    /\ handles' = [handles EXCEPT ![p] = @ + 1]
    /\ UNCHANGED <<refCount, opened, inits, loads, crashes, disturbed>>

CreateMutexFails(p) ==
    /\ Goto(p, {"create"}, "refused")
    /\ hMutex' = Null
    /\ UNCHANGED <<refCount, opened, handles, inits, loads, crashes, disturbed>>

(* OpenMutexW succeeds if there is a mutex of that name. *)
OpenMutex(p) ==
    /\ MutexExists
    /\ Goto(p, {"open"}, "count")
    /\ opened' = [opened EXCEPT ![p] = TRUE]
    /\ handles' = [handles EXCEPT ![p] = @ + 1]
    /\ UNCHANGED <<hMutex, refCount, inits, loads, crashes, disturbed>>

OpenMutexFails(p) ==
    /\ ~MutexExists
    /\ Goto(p, {"open"}, "refused")
    /\ opened' = [opened EXCEPT ![p] = FALSE]
    /\ UNCHANGED <<hMutex, refCount, handles, inits, loads, crashes, disturbed>>

(* The count is kept also when the stock master cannot be loaded and *)
(* efxInit returns an error.                                         *)
CountUser(p) ==
    /\ Goto(p, {"count"}, "ready")
    /\ refCount' = refCount + 1
    /\ UNCHANGED <<hMutex, opened, handles, inits, loads, crashes, disturbed>>

-------------------------------------------------------------------------------
(* The process ends regularly; ExitInstance runs. *)
Exit(p) ==
    /\ Goto(p, {"loaded", "ready", "refused"}, "exit")
    /\ disturbed' = Process
    /\ UNCHANGED <<hMutex, refCount, opened, handles, inits, loads, crashes>>

CloseOpened(p) ==
    /\ Goto(p, {"exit"}, "release")
    /\ handles' = IF opened[p] THEN [handles EXCEPT ![p] = @ - 1] ELSE handles
    /\ UNCHANGED <<hMutex, refCount, opened, inits, loads, crashes, disturbed>>

(* Variant of ReleaseUser: only a process that has opened the mutex counts. *)
ReleaseOpened(p) ==
    LET left == IF opened[p] THEN refCount - 1 ELSE refCount
    IN  /\ Goto(p, {"release"}, IF opened[p] /\ left <= 0 THEN "close" ELSE "ended")
        /\ refCount' = left
        /\ UNCHANGED <<hMutex, opened, handles, inits, loads, crashes, disturbed>>

(* Variant of ReleaseUser: the count is compared, but not decreased. *)
ReleaseNobody(p) ==
    /\ Goto(p, {"release"}, IF refCount - 1 <= 0 THEN "close" ELSE "ended")
    /\ UNCHANGED <<hMutex, refCount, opened, handles, inits, loads, crashes, disturbed>>

(* The count goes down whether or not this process had raised it. *)
ReleaseUser(p) ==
    /\ Goto(p, {"release"}, IF refCount - 1 <= 0 THEN "close" ELSE "ended")
    /\ refCount' = refCount - 1
    /\ UNCHANGED <<hMutex, opened, handles, inits, loads, crashes, disturbed>>

(* CloseHandle(g_hMutex).  The value of another process's handle is here   *)
(* no handle, or one that happens to have the same value.                  *)
CloseCreated(p) ==
    /\ Goto(p, {"close"}, "clear")
    /\ \/ /\ hMutex # Null /\ handles[p] > 0
          /\ handles' = [handles EXCEPT ![p] = @ - 1]
       \/ /\ hMutex # p
          /\ UNCHANGED handles
    /\ UNCHANGED <<hMutex, refCount, opened, inits, loads, crashes, disturbed>>

(* Variant of ClearCreated: g_hMutex keeps its value. *)
ClearNothing(p) ==
    /\ Goto(p, {"clear"}, "ended")
    /\ UNCHANGED <<hMutex, refCount, opened, handles, inits, loads, crashes, disturbed>>

ClearCreated(p) ==
    /\ Goto(p, {"clear"}, "ended")
    /\ hMutex' = Null
    /\ UNCHANGED <<refCount, opened, handles, inits, loads, crashes, disturbed>>

(* The kernel's part: the handles of the process are closed, its own data  *)
(* is gone; the last one takes the shared section with it.                 *)
Leave(p) ==
    /\ pc' = [pc EXCEPT ![p] = "out"]
    /\ handles' = [handles EXCEPT ![p] = 0]
    /\ opened' = [opened EXCEPT ![p] = FALSE]
    /\ inits' = [inits EXCEPT ![p] = 0]
    /\ IF Loaded = {p} THEN hMutex' = Null /\ refCount' = 0
       ELSE hMutex' = (IF hMutex = p THEN Lost ELSE hMutex) /\ UNCHANGED refCount

End(p) == pc[p] = "ended" /\ Leave(p) /\ UNCHANGED <<loads, crashes, disturbed>>

Crash(p) ==
    /\ pc[p] # "out" /\ crashes < MaxCrashes
    /\ Leave(p)
    /\ crashes' = crashes + 1
    /\ UNCHANGED <<loads, disturbed>>

EfxInit(p) == \/ TestMutex(p) \/ CreateMutex(p) \/ CreateMutexFails(p)
              \/ OpenMutex(p) \/ OpenMutexFails(p) \/ CountUser(p)
ExitInstance(p) == \/ CloseOpened(p) \/ ReleaseUser(p) \/ CloseCreated(p)
                   \/ ClearCreated(p)

Next == \E p \in Process :
            \/ Load(p) \/ EfxInit(p) \/ Exit(p) \/ ExitInstance(p) \/ End(p) \/ Crash(p)

Spec == Init /\ [][Next]_vars

(* What was begun is finished, and a client that efxInit refused gives up, *)
(* like the sample, whose unwrap ends it.                                  *)
Unfinished(p) ==
    \/ CreateMutex(p) \/ CreateMutexFails(p) \/ OpenMutex(p) \/ OpenMutexFails(p)
    \/ CountUser(p) \/ ExitInstance(p) \/ End(p)
GiveUp(p) == pc[p] = "refused" /\ Exit(p)

FairSpec == Spec /\ \A p \in Process : WF_vars(Unfinished(p)) /\ WF_vars(GiveUp(p))

-------------------------------------------------------------------------------
(* Type invariant. *)
TypeOK ==
    /\ hMutex \in Process \union {Null, Lost}
    /\ refCount \in Int
    /\ pc \in [Process -> Place]
    /\ opened \in [Process -> BOOLEAN]
    /\ handles \in [Process -> Nat]
    /\ inits \in [Process -> 0 .. MaxInits]
    /\ loads \in 0 .. MaxLoads /\ crashes \in 0 .. MaxCrashes
    /\ disturbed \subseteq Process

(* The processes that g_refCount stands for, and whether it is too high. *)
Users == {p \in Process : opened[p] /\ pc[p] \in {"create", "open", "ready", "exit", "release"}}
Overcounted == refCount > Cardinality(Users)

(* g_refCount comes to be too high only when a process dies, or calls      *)
(* efxInit again; every other way in and out of the library, processes     *)
(* that were refused or never called efxInit included, leaves it at most   *)
(* the number of users (EfxMfc.cpp:152, 519).                              *)
OvercountHasCause ==
    [][(~Overcounted /\ Overcounted') =>
          crashes' > crashes \/ \E p \in Process : inits[p] > 1]_vars

(* The mutex is gone and g_hMutex says it is there. *)
Stale == hMutex # Null /\ ~MutexExists

(* efxInit finds the mutex, which it or an earlier process made, unless a  *)
(* process was leaving meanwhile, g_refCount is too high, or a process     *)
(* died: then g_hMutex may be set although the mutex is gone               *)
(* (EfxMfc.cpp:506, 515).                                                  *)
OpenFailsOnlyForCause ==
    [][\A p \in Process : (pc[p] = "open" /\ pc'[p] = "refused") =>
          p \in disturbed \/ Overcounted \/ crashes > 0]_vars

(* A stale g_hMutex does not last: the process that efxInit refused, when  *)
(* it gives up, takes one off g_refCount, which it never raised, and the   *)
(* one that makes it 0 resets g_hMutex, unless it dies on the way.         *)
RefusalHeals ==
    \A p \in Process, n \in 0 .. MaxCrashes :
        (pc[p] = "refused" /\ Stale /\ refCount <= 1 /\ crashes = n)
            ~> (~Stale \/ crashes > n)
===============================================================================
