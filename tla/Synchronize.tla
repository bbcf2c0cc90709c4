----------------------------- MODULE Synchronize -----------------------------
(***************************************************************************)
(* efxSynchronize (EfxMfc.cpp): the threads of all processes that loaded   *)
(* the library pace their requests with one named mutex and one shared     *)
(* time, g_syncTime.  A thread takes the mutex, sleeps until uMilliSec     *)
(* have passed since the last grant, stamps the time and lets go; then it  *)
(* sends its request.                                                      *)
(*                                                                         *)
(* Time: now is real time; tick is what GetTickCount64 returns, which      *)
(* stands still between timer interrupts and lags up to Quantum behind.    *)
(* Sleep ends on a timer interrupt, up to EarlyWake before it is due.      *)
(* A process may die anywhere; the kernel then releases its mutex.         *)
(***************************************************************************)
EXTENDS Integers, FiniteSets, Functions

CONSTANTS
    Thread,      \* the threads that pace themselves, of all processes
    Opened,      \* those whose process has g_hOpenMutex (efxInit succeeded)
    Interval,    \* the values of uMilliSec, REQ_LIMIT_MS in the sample
    Quantum,     \* the longest time between two timer interrupts
    EarlyWake,   \* how much too early Sleep may return
    MaxTime,     \* bound: no call begins after this time
    Window,      \* the window and
    Limit,       \*   the number of requests that the broker allows in it
    Nobody       \* the mutex is free

ASSUME SyncAssumption ==
    /\ IsFiniteSet(Thread) /\ Opened \subseteq Thread
    /\ Interval \subseteq Nat
    /\ Quantum \in Nat \ {0}
    /\ EarlyWake \in Nat
    /\ MaxTime \in Nat
    /\ Window \in Nat /\ Limit \in Nat
    /\ Nobody \notin Thread

VARIABLES
    now, tick,   \* external: real time and GetTickCount64
    holder,      \* external: the owner of the kernel mutex
    syncTime,    \* g_syncTime, in the section shared by all processes
    pc,          \* per thread, its place in efxSynchronize
    u,           \* per thread, uMilliSec
    tickTime,    \* per thread, the local tickTime
    due,         \* per thread, the tick at which its Sleep is over
    grants       \* history: the calls that let go of the mutex in the last Window

vars == <<now, tick, holder, syncTime, pc, u, tickTime, due, grants>>

Critical == {"locked", "read", "asleep", "awake", "stamped", "published"}
Ages == 0 .. Window - 1
Place == {"idle", "waiting", "granted", "crashed"} \union Critical

(* Histories: how many events there were so many time units ago. *)
NoEvents == [age \in Ages |-> 0]
Note(history) == [history EXCEPT ![0] = @ + 1]
Aged(history) == [age \in Ages |-> IF age = 0 THEN 0 ELSE history[age - 1]]

(* Variant of Init: g_syncTime starts as "never". *)
InitNever ==
    /\ now = 0 /\ tick = 0
    /\ holder = Nobody
    /\ syncTime = -1
    /\ pc = [t \in Thread |-> "idle"]
    /\ u \in [Thread -> {0}] /\ tickTime = u /\ due = u
    /\ grants = NoEvents

Init ==
    /\ now = 0 /\ tick = 0
    /\ holder = Nobody
    /\ syncTime = 0
    /\ pc = [t \in Thread |-> "idle"]
    /\ u \in [Thread -> {0}] /\ tickTime = u /\ due = u
    /\ grants = NoEvents

Goto(t, from, to) == pc[t] = from /\ pc' = [pc EXCEPT ![t] = to]

(* The locals of a call that is over are gone. *)
DropLocals(t) ==
    /\ u' = [u EXCEPT ![t] = 0]
    /\ tickTime' = [tickTime EXCEPT ![t] = 0]
    /\ due' = [due EXCEPT ![t] = 0]

-------------------------------------------------------------------------------
(* Without g_hOpenMutex the call returns at once, unpaced. *)
CallUnopened(t) ==
    /\ t \notin Opened /\ now < MaxTime
    /\ Goto(t, "idle", "granted")
    /\ UNCHANGED <<now, tick, holder, syncTime, u, tickTime, due, grants>>

Call(t, ms) ==
    /\ t \in Opened /\ now < MaxTime
    /\ Goto(t, "idle", "waiting")
    /\ u' = [u EXCEPT ![t] = ms]
    /\ UNCHANGED <<now, tick, holder, syncTime, tickTime, due, grants>>

(* Variant of Acquire: the wait returns without the mutex. *)
AcquireNothing(t) ==
    /\ Goto(t, "waiting", "locked")
    /\ holder' = t
    /\ UNCHANGED <<now, tick, syncTime, u, tickTime, due, grants>>

(* WaitForSingleObject, INFINITE; an abandoned mutex is acquired as well, *)
(* for the result is not looked at.                                       *)
Acquire(t) ==
    /\ holder = Nobody
    /\ Goto(t, "waiting", "locked")
    /\ holder' = t
    /\ UNCHANGED <<now, tick, syncTime, u, tickTime, due, grants>>

ReadTick(t) ==
    /\ Goto(t, "locked", "read")
    /\ tickTime' = [tickTime EXCEPT ![t] = tick]
    /\ UNCHANGED <<now, tick, holder, syncTime, u, due, grants>>

(* Variant of TooSoon: one millisecond is forgiven. *)
TooSoonLess(t) == tickTime[t] >= syncTime /\ tickTime[t] - syncTime < u[t] - 1

(* elapsedTime, an unsigned number of 64 bits: what would be negative is *)
(* larger than every interval.                                           *)
TooSoon(t) == tickTime[t] >= syncTime /\ tickTime[t] - syncTime < u[t]

StartSleep(t) ==
    /\ TooSoon(t)
    /\ Goto(t, "read", "asleep")
    /\ due' = [due EXCEPT ![t] = tick + (u[t] - (tickTime[t] - syncTime))]
    /\ UNCHANGED <<now, tick, holder, syncTime, u, tickTime, grants>>

SkipSleep(t) ==
    /\ ~TooSoon(t)
    /\ Goto(t, "read", "awake")
    /\ UNCHANGED <<now, tick, holder, syncTime, u, tickTime, due, grants>>

Wake(t) ==
    /\ tick + EarlyWake >= due[t]
    /\ Goto(t, "asleep", "awake")
    /\ UNCHANGED <<now, tick, holder, syncTime, u, tickTime, due, grants>>

Stamp(t) ==
    /\ Goto(t, "awake", "stamped")
    /\ tickTime' = [tickTime EXCEPT ![t] = tick]
    /\ UNCHANGED <<now, tick, holder, syncTime, u, due, grants>>

(* Variants of Publish: publishes when the next call may go, or nothing. *)
PublishNextTime(t) ==
    /\ Goto(t, "stamped", "published")
    /\ syncTime' = tickTime[t] + u[t]
    /\ UNCHANGED <<now, tick, holder, u, tickTime, due, grants>>

PublishNothing(t) ==
    /\ Goto(t, "stamped", "published")
    /\ UNCHANGED <<now, tick, holder, syncTime, u, tickTime, due, grants>>

Publish(t) ==
    /\ Goto(t, "stamped", "published")
    /\ syncTime' = tickTime[t]
    /\ UNCHANGED <<now, tick, holder, u, tickTime, due, grants>>

(* Variant of Release: returns without ReleaseMutex. *)
ReleaseNothing(t) ==
    /\ Goto(t, "published", "granted")
    /\ grants' = Note(grants)
    /\ DropLocals(t)
    /\ UNCHANGED <<now, tick, holder, syncTime>>

Release(t) ==
    /\ Goto(t, "published", "granted")
    /\ holder' = Nobody
    /\ grants' = Note(grants)
    /\ DropLocals(t)
    /\ UNCHANGED <<now, tick, syncTime>>

(* The client goes on, to send the request that it paced. *)
Proceed(t) ==
    /\ Goto(t, "granted", "idle")
    /\ UNCHANGED <<now, tick, holder, syncTime, u, tickTime, due, grants>>

(* The process dies; the kernel abandons the mutex it held. *)
Crash(t) ==
    /\ pc[t] # "crashed"
    /\ pc' = [pc EXCEPT ![t] = "crashed"]
    /\ holder' = IF holder = t THEN Nobody ELSE holder
    /\ DropLocals(t)
    /\ UNCHANGED <<now, tick, syncTime, grants>>

(* Past MaxTime the clock runs on only to let sleepers wake. *)
Clock ==
    /\ now < MaxTime \/ \E t \in Thread : pc[t] = "asleep" /\ tick + EarlyWake < due[t]
    /\ now' = now + 1
    /\ tick' \in {tick, now'} /\ now' - tick' < Quantum
    /\ grants' = Aged(grants)
    /\ UNCHANGED <<holder, syncTime, pc, u, tickTime, due>>

Paced(t) == \/ ReadTick(t) \/ StartSleep(t) \/ SkipSleep(t) \/ Wake(t)
            \/ Stamp(t) \/ Publish(t) \/ Release(t)

Next ==
    \/ Clock
    \/ \E t \in Thread :
          \/ CallUnopened(t) \/ (\E ms \in Interval : Call(t, ms)) \/ Acquire(t)
          \/ Paced(t) \/ Proceed(t) \/ Crash(t)

Spec == Init /\ [][Next]_vars

(* Threads that can run do run, time passes, and the kernel does not pass *)
(* over a waiting thread for ever.                                        *)
Fairness ==
    /\ WF_vars(Clock)
    /\ \A t \in Thread : WF_vars(Paced(t)) /\ SF_vars(Acquire(t))

FairSpec == Spec /\ Fairness

-------------------------------------------------------------------------------
(* Type invariant. *)
TypeOK ==
    /\ now \in Nat /\ tick \in Nat
    /\ holder \in Thread \union {Nobody}
    /\ syncTime \in Nat
    /\ pc \in [Thread -> Place]
    /\ u \in [Thread -> Nat]
    /\ tickTime \in [Thread -> Nat]
    /\ due \in [Thread -> Nat]
    /\ grants \in [Ages -> Nat]

(* Between WaitForSingleObject and ReleaseMutex a thread is alone, also    *)
(* when others died holding the mutex.                                     *)
MutualExclusion ==
    \A s, t \in Thread : pc[s] \in Critical /\ pc[t] \in Critical => s = t

(* The shared time never lies ahead of the tick a thread compares it with, *)
(* so the unsigned elapsedTime never wraps to a huge value that would skip *)
(* the pause (EfxMfc.cpp:545).                                             *)
NoTimeUnderflow == \A t \in Thread : pc[t] = "read" => syncTime <= tickTime[t]

(* Two stamps in a row are at least the interval of the later caller apart *)
(* by the tick count, less what Sleep returns too early.                   *)
GrantSpacing ==
    [][\A t \in Thread : (pc[t] = "stamped" /\ pc'[t] = "published") =>
          syncTime' + EarlyWake >= syncTime + u[t]]_vars

(* Where a call stands for who sees only its beginning and its end: it is  *)
(* granted when its time is published.                                     *)
PlaceOf(t) ==
    CASE pc[t] = "idle" -> "away"
      [] pc[t] \in {"published", "granted"} -> "granted"
      [] pc[t] = "crashed" -> "gone"
      [] OTHER -> "waiting"

Pacing == INSTANCE Pacer WITH
    Client <- Thread, last <- syncTime,
    place <- [t \in Thread |-> PlaceOf(t)],
    wish <- [t \in Thread |-> IF PlaceOf(t) = "waiting" THEN u[t] ELSE 0]

(* However the calls of several processes interleave and whoever dies, each *)
(* grant is one step that measures the distance to the grant before it and  *)
(* becomes the last one: no grant between is overlooked, and none is taken  *)
(* back (EfxMfc.cpp:542-558).                                               *)
PacesAtomically == Pacing!PacerSpec

(* However many threads and processes compete, no more than Limit calls    *)
(* are let through in any window (efx.rs:9: at most 5 requests in 20 ms).  *)
GrantsPaced == SumFunction(grants) <= Limit

(* A thread that called efxSynchronize is let through, whoever dies.       *)
EveryCallReturns ==
    \A t \in Thread : pc[t] = "waiting" ~> pc[t] \in {"granted", "idle", "crashed"}
===============================================================================
