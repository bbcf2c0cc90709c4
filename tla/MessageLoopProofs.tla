--------------------------- MODULE MessageLoopProofs ---------------------------
(***************************************************************************)
(* Proofs about MessageLoop for any number of requests: whatever other     *)
(* messages, errors and calls of efxQuit come in between, a wait that      *)
(* returns has seen the data of its own request.                           *)
(***************************************************************************)
EXTENDS MessageLoop, TLAPS

(* Where in the queue data waits to be dispatched. *)
DataAt == {i \in DOMAIN queue : queue[i] = "data"}

Waits == phase \in {"waiting", "polling"}

(* Nothing is under way but the answer to the request that is waited for:  *)
(* it is not made yet, it is in the queue, it has been dispatched and the  *)
(* flag is set, or it was an error and is lost.                            *)
AnswerInv ==
    /\ ~Waits => told = sent /\ ~sig /\ ~pending /\ DataAt = {}
    /\ Waits => /\ told = (IF sig THEN sent ELSE sent - 1)
                /\ sent > 0
                /\ sig => ~pending /\ DataAt = {}
                /\ pending => DataAt = {}
    /\ \A i, j \in DataAt : i = j

LoopInv == TypeOK /\ AnswerInv

LEMMA LoopInitInv == Init => LoopInv
<1> SUFFICES ASSUME Init PROVE LoopInv
  OBVIOUS
<1>1. TypeOK
  <2>1. /\ phase \in Phase /\ sent \in 0 .. Requests /\ told \in 0 .. Requests
        /\ queue \in Seq(Message)
        /\ quits \in [Quitter -> {"idle", "toLoop", "toCaller", "posted"}]
    BY LoopAssumption DEF Init, Phase
  <2>2. /\ sig \in BOOLEAN /\ loopSet \in BOOLEAN /\ quitMark \in BOOLEAN
        /\ pending \in BOOLEAN /\ failed \in BOOLEAN /\ quitLost \in BOOLEAN
        /\ quitsItself \in BOOLEAN
    BY Zenon DEF Init
  <2> QED
    BY <2>1, <2>2 DEF TypeOK
<1>2. DataAt = {}
  BY DEF Init, DataAt
<1>3. AnswerInv
  BY <1>2 DEF Init, AnswerInv, Waits
<1> QED
  BY <1>1, <1>3 DEF LoopInv

-------------------------------------------------------------------------------
(* What becomes of the data in the queue when a message is put into it, or *)
(* the first one is taken from it.                                         *)
LEMMA PutInQueue ==
    ASSUME TypeOK, NEW m \in Message, queue' = Append(queue, m)
    PROVE  /\ queue' \in Seq(Message)
           /\ DataAt' = IF m = "data" THEN DataAt \union {Len(queue) + 1} ELSE DataAt
<1>1. /\ queue \in Seq(Message) /\ Len(queue) \in Nat
      /\ queue' \in Seq(Message) /\ Len(queue') = Len(queue) + 1
      /\ queue'[Len(queue) + 1] = m
      /\ \A i \in 1 .. Len(queue) : queue'[i] = queue[i]
  BY DEF TypeOK
<1>2. DOMAIN queue = 1 .. Len(queue) /\ DOMAIN queue' = 1 .. Len(queue) + 1
  BY <1>1
<1> QED
  BY <1>1, <1>2 DEF DataAt

LEMMA TakeFromQueue ==
    ASSUME TypeOK, queue # << >>, queue' = Tail(queue)
    PROVE  /\ queue' \in Seq(Message) /\ Head(queue) \in Message
           /\ \A i \in DataAt' : i \in Nat /\ i > 0 /\ i + 1 \in DataAt
           /\ Head(queue) = "data" <=> 1 \in DataAt
<1>1. /\ queue \in Seq(Message) /\ Len(queue) \in Nat /\ Len(queue) > 0
      /\ queue' \in Seq(Message) /\ Len(queue') = Len(queue) - 1
      /\ Head(queue) = queue[1] /\ Head(queue) \in Message
      /\ \A i \in 1 .. Len(queue) - 1 : queue'[i] = queue[i + 1]
  BY DEF TypeOK
<1>2. DOMAIN queue = 1 .. Len(queue) /\ DOMAIN queue' = 1 .. Len(queue) - 1
  BY <1>1
<1> QED
  BY <1>1, <1>2 DEF DataAt

-------------------------------------------------------------------------------
(* The steps that leave the queue, the flag and the counts alone. *)
LEMMA StillWaits ==
    ASSUME LoopInv, UNCHANGED <<sent, sig, queue, pending, told>>, Waits' <=> Waits
    PROVE  AnswerInv'
BY DEF LoopInv, AnswerInv, DataAt

LEMMA AnswerPreserves ==
    ASSUME LoopInv, Answer
    PROVE  AnswerInv'
<1>1. PICK m \in {"data", "error"} : queue' = Append(queue, m)
  BY DEF Answer
<1>2. DataAt = {} /\ Waits /\ ~sig
  BY DEF Answer, LoopInv, AnswerInv
<1>3. DataAt' = {} \/ DataAt' = {Len(queue) + 1}
  <2>1. m \in Message
    BY DEF Message
  <2>2. DataAt' = IF m = "data" THEN DataAt \union {Len(queue) + 1} ELSE DataAt
    BY <1>1, <2>1, PutInQueue DEF LoopInv
  <2> QED
    BY <1>2, <2>2
<1>4. ~pending' /\ UNCHANGED <<phase, sent, sig, told>>
  BY DEF Answer
<1> QED
  BY <1>2, <1>3, <1>4 DEF LoopInv, AnswerInv, Waits

LEMMA OtherPreserves ==
    ASSUME LoopInv, NEW m \in Message, m # "data", queue' = Append(queue, m),
           UNCHANGED <<phase, sent, sig, pending, told>>
    PROVE  AnswerInv'
<1>1. DataAt' = DataAt
  BY PutInQueue DEF LoopInv
<1> QED
  BY <1>1 DEF LoopInv, AnswerInv, Waits

LEMMA RequestPreserves ==
    ASSUME LoopInv, Request
    PROVE  AnswerInv'
<1>1. ~Waits /\ Waits' /\ sent' = sent + 1 /\ UNCHANGED <<sig, queue, told>>
  BY DEF Request, Waits
<1>2. sent \in Nat /\ DataAt' = DataAt
  BY <1>1 DEF LoopInv, TypeOK, DataAt
<1> QED
  BY <1>1, <1>2 DEF LoopInv, AnswerInv

LEMMA WaitReturnsPreserves ==
    ASSUME LoopInv, WaitReturns
    PROVE  AnswerInv'
<1>1. Waits /\ ~Waits' /\ sig /\ ~sig' /\ UNCHANGED <<sent, queue, pending, told>>
  BY DEF WaitReturns, Waits
<1>2. DataAt' = DataAt
  BY <1>1 DEF DataAt
<1> QED
  BY <1>1, <1>2 DEF LoopInv, AnswerInv

(* The data is the only one in the queue, and it is main's wait that takes *)
(* it; every other message leaves the flag as it is.                       *)
LEMMA DispatchPreserves ==
    ASSUME LoopInv, NEW at \in {"polling", "loop"}, Dispatch(at)
    PROVE  AnswerInv'
<1>1. /\ queue # << >> /\ queue' = Tail(queue) /\ UNCHANGED <<phase, sent, pending>>
      /\ OnMessage(Head(queue))
  BY DEF Dispatch
<1>2. /\ \A i \in DataAt' : i \in Nat /\ i > 0 /\ i + 1 \in DataAt
      /\ Head(queue) = "data" <=> 1 \in DataAt
  BY <1>1, TakeFromQueue DEF LoopInv
<1>3. /\ AnswerInv /\ told \in Int /\ sent \in Int /\ sig \in BOOLEAN
      /\ Waits' <=> Waits
  BY <1>1 DEF LoopInv, TypeOK, Waits
<1>4. ASSUME NEW i \in DataAt', NEW j \in DataAt' PROVE i = j
  <2>1. i \in Nat /\ j \in Nat /\ i + 1 \in DataAt /\ j + 1 \in DataAt
    BY <1>2
  <2>2. i + 1 = j + 1
    BY <2>1, <1>3 DEF AnswerInv
  <2> QED
    BY <2>1, <2>2
<1>5. CASE 1 \in DataAt
  <2>1. DataAt' = {}
    <3> SUFFICES ASSUME NEW i \in DataAt' PROVE FALSE
      OBVIOUS
    <3>1. i \in Nat /\ i > 0 /\ i + 1 = 1
      BY <1>2, <1>3, <1>5 DEF AnswerInv
    <3> QED
      BY <3>1
  <2>2. Waits /\ ~sig /\ ~pending
    BY <1>3, <1>5 DEF AnswerInv
  <2>3. sig' /\ told' = told + 1
    BY <1>1, <1>2, <1>5 DEF OnMessage
  <2> QED
    BY <1>1, <1>3, <2>1, <2>2, <2>3 DEF AnswerInv
<1>6. CASE 1 \notin DataAt
  <2>1. sig' = sig /\ told' = told
    BY <1>1, <1>2, <1>3, <1>6 DEF OnMessage
  <2>2. DataAt = {} => DataAt' = {}
    BY <1>2
  <2> QED
    BY <1>1, <1>3, <1>4, <2>1, <2>2 DEF AnswerInv
<1> QED
  BY <1>5, <1>6

(* A WM_QUIT that is taken, by a poll or by the loop, is no answer. *)
LEMMA TakeQuitPreserves ==
    ASSUME LoopInv, TakeQuit, UNCHANGED <<sent, sig, pending, told>>, Waits' <=> Waits
    PROVE  AnswerInv' /\ queue' \in Seq(Message)
<1>1. CASE UNCHANGED queue
  BY <1>1, StillWaits DEF LoopInv, TypeOK
<1>2. CASE queue # << >> /\ Head(queue) = "quit" /\ queue' = Tail(queue)
  <2>1. /\ queue' \in Seq(Message)
        /\ \A i \in DataAt' : i \in Nat /\ i > 0 /\ i + 1 \in DataAt
    BY <1>2, TakeFromQueue DEF LoopInv
  <2>2. ASSUME NEW i \in DataAt', NEW j \in DataAt' PROVE i = j
    <3>1. i \in Nat /\ j \in Nat /\ i + 1 \in DataAt /\ j + 1 \in DataAt
      BY <2>1
    <3>2. i + 1 = j + 1
      BY <3>1 DEF LoopInv, AnswerInv
    <3> QED
      BY <3>1, <3>2
  <2>3. DataAt = {} => DataAt' = {}
    BY <2>1
  <2> QED
    BY <2>1, <2>2, <2>3 DEF LoopInv, AnswerInv
<1> QED
  BY <1>1, <1>2 DEF TakeQuit

-------------------------------------------------------------------------------
LEMMA AnswerNextInv ==
    ASSUME LoopInv, [Next]_vars
    PROVE  AnswerInv'
<1>1. CASE Answer
  BY <1>1, AnswerPreserves
<1>2. CASE OtherMessage
  BY <1>2, OtherPreserves DEF OtherMessage, Message
<1>3. CASE MainRuns
  <2>1. CASE StartPoll \/ PollEnds
    BY <2>1, StillWaits DEF StartPoll, PollEnds, Waits
  <2>2. CASE PollSwallowsQuit
    BY <2>2, TakeQuitPreserves DEF PollSwallowsQuit, Waits
  <2>3. CASE LeaveLoop
    BY <2>3, TakeQuitPreserves DEF LeaveLoop, Waits
  <2>4. CASE EnterLoop
    BY <2>4, StillWaits DEF EnterLoop, Waits
  <2> QED
    BY <1>3, <2>1, <2>2, <2>3, <2>4, RequestPreserves, WaitReturnsPreserves, DispatchPreserves
       DEF MainRuns, Main
<1>4. ASSUME NEW q \in Quitter, QuitTests(q) PROVE AnswerInv'
  BY <1>4, StillWaits DEF QuitTests, Waits
<1>5. ASSUME NEW q \in Quitter, PostToCaller(q) PROVE AnswerInv'
  BY <1>5, StillWaits DEF PostToCaller, Waits
<1>6. ASSUME NEW q \in Quitter, PostToLoop(q) PROVE AnswerInv'
  BY <1>6, OtherPreserves DEF PostToLoop, Message
<1>7. CASE UNCHANGED vars
  BY <1>7, StillWaits DEF vars, Waits
<1> QED
  BY <1>1, <1>2, <1>3, <1>4, <1>5, <1>6, <1>7 DEF Next, Post

(* The counts stay within the number of requests; the rest of the types. *)
LEMMA LoopTypes ==
    ASSUME LoopInv, Next
    PROVE  TypeOK'
<1>0. TypeOK /\ AnswerInv /\ AnswerInv'
  BY AnswerNextInv DEF LoopInv
<1>1. /\ quitsItself' \in BOOLEAN
      /\ quits' \in [Quitter -> {"idle", "toLoop", "toCaller", "posted"}]
  BY <1>0 DEF TypeOK, Next, MainRuns, Main, Post, Answer, OtherMessage, Request, StartPoll,
         WaitReturns, Dispatch, PollSwallowsQuit, PollEnds, EnterLoop, LeaveLoop, QuitTests,
         PostToLoop, PostToCaller
<1>2. phase' \in Phase
  BY <1>0 DEF TypeOK, Phase, Next, MainRuns, Main, Post, Answer, OtherMessage, Request, StartPoll,
         WaitReturns, Dispatch, PollSwallowsQuit, PollEnds, EnterLoop, LeaveLoop, QuitTests,
         PostToLoop, PostToCaller
<1>3. sent' \in 0 .. Requests /\ told' \in 0 .. Requests
  <2>1. sent' = sent \/ (sent < Requests /\ sent' = sent + 1)
    BY DEF Next, MainRuns, Main, Post, Answer, OtherMessage, Request, StartPoll,
         WaitReturns, Dispatch, PollSwallowsQuit, PollEnds, EnterLoop, LeaveLoop, QuitTests,
         PostToLoop, PostToCaller
  <2>2. sent' \in 0 .. Requests
    BY <2>1, <1>0, LoopAssumption DEF TypeOK
  <2>3. told' = sent' \/ (sent' > 0 /\ told' = sent' - 1)
    BY <1>0 DEF AnswerInv
  <2> QED
    BY <2>2, <2>3, LoopAssumption
<1>4. queue' \in Seq(Message)
  <2>1. \/ UNCHANGED queue
        \/ \E m \in Message : queue' = Append(queue, m)
        \/ TakeQuit \/ (queue # << >> /\ queue' = Tail(queue))
    BY DEF Message, Next, MainRuns, Main, Post, Answer, OtherMessage, Request, StartPoll,
         WaitReturns, Dispatch, PollSwallowsQuit, PollEnds, EnterLoop, LeaveLoop, QuitTests,
         PostToLoop, PostToCaller
  <2> QED
    BY <2>1, <1>0, PutInQueue, TakeFromQueue DEF TypeOK, TakeQuit
<1>5. /\ sig' \in BOOLEAN /\ loopSet' \in BOOLEAN /\ pending' \in BOOLEAN
      /\ quitMark' \in BOOLEAN /\ failed' \in BOOLEAN /\ quitLost' \in BOOLEAN
  BY <1>0 DEF TypeOK, OnMessage, TakeQuit, Next, MainRuns, Main, Post, Answer, OtherMessage, Request, StartPoll,
         WaitReturns, Dispatch, PollSwallowsQuit, PollEnds, EnterLoop, LeaveLoop, QuitTests,
         PostToLoop, PostToCaller
<1> QED
  BY <1>1, <1>2, <1>3, <1>4, <1>5 DEF TypeOK

LEMMA LoopNextInv == LoopInv /\ [Next]_vars => LoopInv'
<1>1. ASSUME LoopInv, UNCHANGED vars PROVE TypeOK'
  BY <1>1 DEF LoopInv, TypeOK, vars
<1> QED
  BY <1>1, AnswerNextInv, LoopTypes DEF LoopInv

LEMMA LoopInvariance == Spec => []LoopInv
BY LoopInitInv, LoopNextInv, PTL DEF Spec

(* The client's state keeps its types; no more data is told than requests  *)
(* were sent.                                                              *)
THEOREM LoopTypesCorrect == Spec => []TypeOK
<1>1. LoopInv => TypeOK
  BY DEF LoopInv
<1> QED
  BY <1>1, LoopInvariance, PTL

(* wait_recv_data (main.rs:74-81) returns only when the data of the        *)
(* request just sent has been dispatched, however many requests there are. *)
THEOREM WaitSeesOwnAnswer == Spec => []WaitIsForOwnAnswer
<1>1. LoopInv => WaitIsForOwnAnswer
  <2>1. LoopInv => (phase \in {"main", "loop", "over"} => ~Waits)
    BY DEF Waits
  <2> QED
    BY <2>1 DEF LoopInv, AnswerInv, WaitIsForOwnAnswer
<1> QED
  BY <1>1, LoopInvariance, PTL
===============================================================================
