-------------------------------- MODULE Pacer --------------------------------
(***************************************************************************)
(* What efxSynchronize promises, without the mutex, the sleep and the      *)
(* section of shared memory: a call is granted in one step, which measures *)
(* the distance to the grant before it and becomes the last grant itself.  *)
(***************************************************************************)
EXTENDS Integers

CONSTANTS
    Client,      \* the threads that pace themselves, of all processes
    Opened,      \* those that have the mutex; the others are not paced
    Interval,    \* the distances that they may ask for
    EarlyWake    \* what the promise leaves to the timer

VARIABLES
    tick,        \* the clock of the grants
    last,        \* the time of the last grant
    place,       \* per client: away, waiting, granted or gone
    wish         \* per waiting client, the distance that it asked for

pacerVars == <<tick, last, place, wish>>

PacerInit ==
    /\ tick = 0 /\ last = 0
    /\ place = [c \in Client |-> "away"]
    /\ wish = [c \in Client |-> 0]

Move(c, from, to) == place[c] = from /\ place' = [place EXCEPT ![c] = to]

Tick ==
    /\ tick' \in Nat /\ tick' > tick
    /\ UNCHANGED <<last, place, wish>>

Ask(c) ==
    /\ c \in Opened
    /\ Move(c, "away", "waiting")
    /\ \E ms \in Interval : wish' = [wish EXCEPT ![c] = ms]
    /\ UNCHANGED <<tick, last>>

Pass(c) ==
    /\ c \notin Opened
    /\ Move(c, "away", "granted")
    /\ UNCHANGED <<tick, last, wish>>

Grant(c) ==
    /\ Move(c, "waiting", "granted")
    /\ last' \in last .. tick
    /\ last' + EarlyWake >= last + wish[c]
    /\ wish' = [wish EXCEPT ![c] = 0]
    /\ UNCHANGED tick

Resume(c) ==
    /\ Move(c, "granted", "away")
    /\ UNCHANGED <<tick, last, wish>>

Die(c) ==
    /\ place[c] # "gone"
    /\ place' = [place EXCEPT ![c] = "gone"]
    /\ wish' = [wish EXCEPT ![c] = 0]
    /\ UNCHANGED <<tick, last>>

PacerNext ==
    \/ Tick
    \/ \E c \in Client : Ask(c) \/ Pass(c) \/ Grant(c) \/ Resume(c) \/ Die(c)

PacerSpec == PacerInit /\ [][PacerNext]_pacerVars
===============================================================================
