----------------------------- MODULE MessageLoop -----------------------------
(***************************************************************************)
(* How a client waits and how it ends: efxProcessMessage, efxMessageLoop   *)
(* and efxQuit (EfxMfc.cpp) under the sample's main and wait_recv_data     *)
(* (main.rs).  The main thread sends its requests one by one, polls its    *)
(* messages until the callback of the answer has set a flag, and at last   *)
(* runs the message loop.  Another thread, and the callbacks, may call     *)
(* efxQuit at any time.                                                    *)
(*                                                                         *)
(* External: the message queue.  PostThreadMessage appends to it;          *)
(* PostQuitMessage marks the queue of the thread that calls it, and the    *)
(* mark comes out as a WM_QUIT once the queue is empty.                    *)
(***************************************************************************)
EXTENDS Integers, Sequences

CONSTANTS
    Requests,    \* how many requests the client sends
    MaxOther,    \* bound: messages that are not answers
    MayFail,     \* whether requests may be answered with an error
    Quitter      \* who else calls efxQuit, once each: "callback", "thread"

ASSUME LoopAssumption ==
    /\ Requests \in Nat /\ MaxOther \in Nat
    /\ MayFail \in BOOLEAN
    /\ Quitter \subseteq {"callback", "thread"}

VARIABLES
    quitsItself, \* whether main calls efxQuit before the loop, as the sample's
    phase,       \* where main is
    sent,        \* requests sent
    sig,         \* SIG_RECV_DATA
    loopSet,     \* whether g_dwMsgLoopThreadId is main's thread id, or still 0
    queue,       \* external: main's message queue
    quitMark,    \* external: PostQuitMessage was called in main's thread
    pending,     \* external: a request has not been answered
    quits,       \* per Quitter, its place in efxQuit
    told,        \* history: requests whose data reached the callback
    failed,      \* history: an error reached the callback
    quitLost     \* history: a WM_QUIT was taken by a poll, or went elsewhere

vars == <<quitsItself, phase, sent, sig, loopSet, queue, quitMark, pending, quits, told, failed, quitLost>>

Phase == {"main", "waiting", "polling", "loop", "over"}
Message == {"data", "error", "other", "quit"}

Init ==
    /\ quitsItself \in BOOLEAN
    /\ phase = "main" /\ sent = 0 /\ sig = FALSE /\ loopSet = FALSE
    /\ queue = << >> /\ quitMark = FALSE /\ pending = FALSE
    /\ quits = [q \in Quitter |-> "idle"]
    /\ told = 0 /\ failed = FALSE /\ quitLost = FALSE

-------------------------------------------------------------------------------
(* The control answers a request; some other message arrives. *)
Answer ==
    /\ pending
    /\ pending' = FALSE
    /\ \E m \in IF MayFail THEN {"data", "error"} ELSE {"data"} : queue' = Append(queue, m)
    /\ UNCHANGED <<quitsItself, phase, sent, sig, loopSet, quitMark, quits, told, failed, quitLost>>

OtherMessage ==
    /\ Len(queue) < MaxOther
    /\ queue' = Append(queue, "other")
    /\ UNCHANGED <<quitsItself, phase, sent, sig, loopSet, quitMark, pending, quits, told, failed, quitLost>>

-------------------------------------------------------------------------------
Request ==
    /\ phase = "main" /\ sent < Requests
    /\ phase' = "waiting"
    /\ sent' = sent + 1
    /\ pending' = TRUE
    /\ UNCHANGED <<quitsItself, sig, loopSet, queue, quitMark, quits, told, failed, quitLost>>

(* wait_recv_data: while !SIG_RECV_DATA, poll. *)
StartPoll ==
    /\ phase = "waiting" /\ ~sig
    /\ phase' = "polling"
    /\ UNCHANGED <<quitsItself, sent, sig, loopSet, queue, quitMark, pending, quits, told, failed, quitLost>>

(* Variant of WaitReturns: the flag is not reset. *)
WaitReturnsKeepingSig ==
    /\ phase = "waiting" /\ sig
    /\ phase' = "main"
    /\ UNCHANGED <<quitsItself, sent, sig, loopSet, queue, quitMark, pending, quits, told, failed, quitLost>>

WaitReturns ==
    /\ phase = "waiting" /\ sig
    /\ phase' = "main"
    /\ sig' = FALSE
    /\ UNCHANGED <<quitsItself, sent, loopSet, queue, quitMark, pending, quits, told, failed, quitLost>>

(* Variant of OnMessage: the flag is left to the error callback. *)
OnMessageNoSig(m) ==
    /\ sig' = (sig \/ m = "error")
    /\ told' = IF m = "data" THEN told + 1 ELSE told
    /\ failed' = (failed \/ m = "error")

(* efx_recv_data sets the flag; efx_recv_error does not. *)
OnMessage(m) ==
    /\ sig' = (sig \/ m = "data")
    /\ told' = IF m = "data" THEN told + 1 ELSE told
    /\ failed' = (failed \/ m = "error")

(* PeekMessage / GetMessage takes a message, which is dispatched. *)
Dispatch(at) ==
    /\ phase = at /\ queue # << >> /\ Head(queue) # "quit"
    /\ queue' = Tail(queue)
    /\ OnMessage(Head(queue))
    /\ UNCHANGED <<quitsItself, phase, sent, loopSet, quitMark, pending, quits, quitLost>>

(* ... or WM_QUIT. *)
TakeQuit ==
    \/ /\ queue # << >> /\ Head(queue) = "quit"
       /\ queue' = Tail(queue)
       /\ UNCHANGED quitMark
    \/ /\ queue = << >> /\ quitMark
       /\ quitMark' = FALSE
       /\ UNCHANGED queue

(* efxProcessMessage returns, and WM_QUIT is gone. *)
PollSwallowsQuit ==
    /\ phase = "polling" /\ TakeQuit
    /\ phase' = "waiting"
    /\ quitLost' = TRUE
    /\ UNCHANGED <<quitsItself, sent, sig, loopSet, pending, quits, told, failed>>

PollEnds ==
    /\ phase = "polling" /\ queue = << >> /\ ~quitMark
    /\ phase' = "waiting"
    /\ UNCHANGED <<quitsItself, sent, sig, loopSet, queue, quitMark, pending, quits, told, failed, quitLost>>

(* Variant of EnterLoop: efxQuit before the loop has no effect. *)
EnterLoopUnmarked ==
    /\ phase = "main" /\ sent = Requests
    /\ phase' = "loop"
    /\ loopSet' = TRUE
    /\ UNCHANGED <<quitsItself, sent, sig, queue, quitMark, pending, quits, told, failed, quitLost>>

(* efx::quit(0), still before the loop: PostQuitMessage; then msg_loop. *)
EnterLoop ==
    /\ phase = "main" /\ sent = Requests
    /\ phase' = "loop"
    /\ loopSet' = TRUE
    /\ quitMark' = (quitMark \/ quitsItself)
    /\ UNCHANGED <<quitsItself, sent, sig, queue, pending, quits, told, failed, quitLost>>

LeaveLoop ==
    /\ phase = "loop" /\ TakeQuit
    /\ phase' = "over"
    /\ UNCHANGED <<quitsItself, sent, sig, loopSet, pending, quits, told, failed, quitLost>>

-------------------------------------------------------------------------------
(* efxQuit looks whether a loop runs.  A callback runs inside a dispatch. *)
QuitTests(q) ==
    /\ quits[q] = "idle"
    /\ q = "callback" => phase \in {"polling", "loop"}
    /\ quits' = [quits EXCEPT ![q] = IF loopSet THEN "toLoop" ELSE "toCaller"]
    /\ UNCHANGED <<quitsItself, phase, sent, sig, loopSet, queue, quitMark, pending, told, failed, quitLost>>

(* Variant of PostToLoop: PostQuitMessage here, too. *)
PostToLoopMark(q) ==
    /\ quits[q] = "toLoop"
    /\ quits' = [quits EXCEPT ![q] = "posted"]
    /\ quitMark' = (quitMark \/ q = "callback")
    /\ UNCHANGED <<quitsItself, phase, sent, sig, loopSet, queue, pending, told, failed, quitLost>>

PostToLoop(q) ==
    /\ quits[q] = "toLoop"
    /\ quits' = [quits EXCEPT ![q] = "posted"]
    /\ queue' = Append(queue, "quit")
    /\ UNCHANGED <<quitsItself, phase, sent, sig, loopSet, quitMark, pending, told, failed, quitLost>>

(* The queue of another thread is not the one that main looks at. *)
PostToCaller(q) ==
    /\ quits[q] = "toCaller"
    /\ quits' = [quits EXCEPT ![q] = "posted"]
    /\ quitMark' = (quitMark \/ q = "callback")
    /\ quitLost' = (quitLost \/ q # "callback")
    /\ UNCHANGED <<quitsItself, phase, sent, sig, loopSet, queue, pending, told, failed>>

Main == \/ Request \/ StartPoll \/ WaitReturns \/ PollSwallowsQuit \/ PollEnds
        \/ Dispatch("polling") \/ Dispatch("loop") \/ EnterLoop \/ LeaveLoop

(* While a callback is in efxQuit, main is in that callback. *)
InCallback == "callback" \in Quitter /\ quits["callback"] \in {"toLoop", "toCaller"}

Post(q) == PostToLoop(q) \/ PostToCaller(q)

MainRuns == ~InCallback /\ Main

Next == \/ Answer \/ OtherMessage \/ MainRuns
        \/ \E q \in Quitter : QuitTests(q) \/ Post(q)

Spec == Init /\ [][Next]_vars

(* Every request is answered, main runs, a begun efxQuit is finished; and  *)
(* messages do not come faster than main can take them, so that it finds   *)
(* its queue empty time and again.                                         *)
Fairness ==
    /\ WF_vars(Answer) /\ WF_vars(MainRuns)
    /\ \A q \in Quitter : WF_vars(Post(q))
    /\ []<>(queue = << >> \/ phase = "over")
    /\ SF_vars(PollEnds) /\ SF_vars(PollSwallowsQuit) /\ SF_vars(LeaveLoop)

FairSpec == Spec /\ Fairness

-------------------------------------------------------------------------------
(* Type invariant. *)
TypeOK ==
    /\ quitsItself \in BOOLEAN
    /\ phase \in Phase /\ sent \in 0 .. Requests
    /\ sig \in BOOLEAN /\ loopSet \in BOOLEAN
    /\ queue \in Seq(Message) /\ quitMark \in BOOLEAN /\ pending \in BOOLEAN
    /\ quits \in [Quitter -> {"idle", "toLoop", "toCaller", "posted"}]
    /\ told \in 0 .. Requests /\ failed \in BOOLEAN /\ quitLost \in BOOLEAN

(* wait_recv_data returns only once the data of the request just sent has  *)
(* reached the callback, never on the flag of an earlier one               *)
(* (main.rs:74-81).                                                        *)
WaitIsForOwnAnswer == phase \in {"main", "loop", "over"} => told = sent

(* The wait ends, whatever else is in the queue and whoever calls efxQuit, *)
(* unless the request was answered with an error: the error callback does  *)
(* not set the flag.                                                       *)
WaitEnds == phase = "waiting" ~> (phase = "main" \/ failed)

(* efxQuit ends the message loop, also when it is called before the loop,  *)
(* but for three cases: the WM_QUIT is taken by a poll, the call came from *)
(* another thread before the loop ran, or main still waits after an error. *)
QuitEndsLoop ==
    \A q \in Quitter : quits[q] = "posted" ~> (phase = "over" \/ quitLost \/ failed)

(* A client that calls efxQuit itself before the loop, like the sample,    *)
(* ends, whatever became of other calls, unless a request was answered     *)
(* with an error.                                                          *)
ClientEnds == quitsItself => <>(phase = "over" \/ failed)
===============================================================================
