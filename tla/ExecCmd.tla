------------------------------- MODULE ExecCmd -------------------------------
(***************************************************************************)
(* efxExecCmd and CEfxMfcApp::ExecCmd (EfxMfc.cpp): run a command with its *)
(* output redirected into a pipe, wait for the process, then read the pipe *)
(* until nobody can write to it any more.  Several threads may be in the   *)
(* call.  Every handle is inheritable, so a child gets a copy of every     *)
(* pipe end the library has open when it starts, those of other calls      *)
(* included; a pipe reports its end only once all copies of its write end  *)
(* are closed.                                                             *)
(*                                                                         *)
(* External: the pipe, and the child, which writes its output, blocks      *)
(* while the pipe is full, and exits once it has written all.  It may make *)
(* writes of no bytes, too, which a reader sees as reads of no bytes.      *)
(***************************************************************************)
EXTENDS Integers, FiniteSets

CONSTANTS
    Call,        \* one call of efxExecCmd each, in a thread of its own
    Timed,       \* the calls whose dwWait is not INFINITE
    Endless,     \* the calls whose command never exits by itself
    Capacity,    \* how much the pipe holds
    MaxOutput,   \* bound: how much a command writes
    BuffLen,     \* nBuffLen, the client's buffer
    Library      \* the process that calls; children are named by their call

ASSUME ExecAssumption ==
    /\ Timed \subseteq Call /\ Endless \subseteq Call
    /\ Capacity \in Nat \ {0} /\ MaxOutput \in Nat /\ BuffLen \in Nat \ {0}
    /\ Library \notin Call

VARIABLES
    pc,          \* per call, its place in ExecCmd
    code,        \* dwExitCode; Failed when ExecCmd returns -1
    result,      \* how much output strResult holds
    reply,       \* what efxExecCmd returns to the client
    child,       \* external: per call, its process
    output,      \* external: how much the process writes in all
    unsent,      \* external: what the process has still to write
    pipe,        \* external: what the pipe holds
    nothings,    \* external: after how much output it wrote no bytes
    writers      \* external: who holds the write end of the call's pipe

vars == <<pc, code, result, reply, child, output, unsent, pipe, nothings, writers>>
Process == Call \union {Library}

None == -3       \* no reply yet
Failed == -1     \* ExecCmd's return value when something fails
StillActive == 259
ExitCode == 0
LastError == 6   \* GetLastError(), when GetExitCodeProcess fails

Init ==
    /\ pc = [c \in Call |-> "start"]
    /\ code = [c \in Call |-> Failed]
    /\ result = [c \in Call |-> 0]
    /\ reply = [c \in Call |-> None]
    /\ child = [c \in Call |-> "none"]
    /\ output = [c \in Call |-> 0]
    /\ unsent = [c \in Call |-> 0]
    /\ pipe = [c \in Call |-> 0]
    /\ nothings = [c \in Call |-> {}]
    /\ writers = [c \in Call |-> {}]

Place == {"start", "piped", "waiting", "waited", "coded", "reading", "returned"}

Goto(c, from, to) == pc[c] = from /\ pc' = [pc EXCEPT ![c] = to]

(* WideCharToUtf8: the length, or 0 if the text and its end do not fit.   *)
(* The exit code, ExecCmd's result, is not passed on.                     *)
Utf8Length(n) == IF n < BuffLen THEN n ELSE IF BuffLen = 1 THEN n ELSE 0
Return(c) == reply' = [reply EXCEPT ![c] = Utf8Length(result[c])]

-------------------------------------------------------------------------------
CreatePipe(c) ==
    /\ Goto(c, "start", "piped")
    /\ writers' = [writers EXCEPT ![c] = {Library}]
    /\ UNCHANGED <<code, result, reply, child, output, unsent, pipe, nothings>>

CreatePipeFails(c) ==
    /\ Goto(c, "start", "returned")
    /\ Return(c)
    /\ UNCHANGED <<code, result, child, output, unsent, pipe, nothings, writers>>

(* The new process inherits every write end that the library holds. *)
CreateProcess(c, n) ==
    /\ Goto(c, "piped", "waiting")
    /\ child' = [child EXCEPT ![c] = "running"]
    /\ output' = [output EXCEPT ![c] = n]
    /\ unsent' = [unsent EXCEPT ![c] = n]
    /\ writers' = [d \in Call |-> IF Library \in writers[d]
                                  THEN writers[d] \union {c} ELSE writers[d]]
    /\ UNCHANGED <<code, result, reply, pipe, nothings>>

(* Returns without closing the pipe. *)
CreateProcessFails(c) ==
    /\ Goto(c, "piped", "returned")
    /\ Return(c)
    /\ UNCHANGED <<code, result, child, output, unsent, pipe, nothings, writers>>

(* WaitForSingleObject: the process is gone, or dwWait is over. *)
WaitOver(c) ==
    /\ child[c] = "exited" \/ c \in Timed
    /\ Goto(c, "waiting", "waited")
    /\ UNCHANGED <<code, result, reply, child, output, unsent, pipe, nothings, writers>>

GetExitCode(c) ==
    /\ Goto(c, "waited", "coded")
    /\ \E n \in {IF child[c] = "exited" THEN ExitCode ELSE StillActive, LastError} :
          code' = [code EXCEPT ![c] = n]
    /\ UNCHANGED <<result, reply, child, output, unsent, pipe, nothings, writers>>

(* Variant of CloseWriteEnd: the library keeps its copy. *)
CloseNothing(c) ==
    /\ Goto(c, "coded", "reading")
    /\ UNCHANGED <<code, result, reply, child, output, unsent, pipe, nothings, writers>>

CloseWriteEnd(c) ==
    /\ Goto(c, "coded", "reading")
    /\ writers' = [writers EXCEPT ![c] = @ \ {Library}]
    /\ UNCHANGED <<code, result, reply, child, output, unsent, pipe, nothings>>

(* CloseHandle fails, and ExecCmd returns without reading. *)
CloseWriteEndFails(c) ==
    /\ Goto(c, "coded", "returned")
    /\ code' = [code EXCEPT ![c] = Failed]
    /\ Return(c)
    /\ UNCHANGED <<result, child, output, unsent, pipe, nothings, writers>>

(* ReadFile takes what the pipe holds, up to the size of its buffer. *)
ReadOutput(c) ==
    /\ pc[c] = "reading" /\ pipe[c] > 0
    /\ \E n \in 1 .. pipe[c] :
          /\ result' = [result EXCEPT ![c] = @ + n]
          /\ pipe' = [pipe EXCEPT ![c] = @ - n]
    /\ UNCHANGED <<pc, code, reply, child, output, unsent, nothings, writers>>

(* Variant of EndOfOutput: stops as soon as there is nothing to read. *)
EndWhenEmpty(c) ==
    /\ pipe[c] = 0
    /\ Goto(c, "reading", "returned")
    /\ Return(c)
    /\ UNCHANGED <<code, result, child, output, unsent, pipe, nothings, writers>>

(* ReadFile succeeds and has read nothing: the child wrote nothing here. *)
EndAtNothing(c) ==
    /\ result[c] \in nothings[c]
    /\ Goto(c, "reading", "returned")
    /\ Return(c)
    /\ UNCHANGED <<code, result, child, output, unsent, pipe, nothings, writers>>

(* ReadFile fails: the pipe is empty and nobody can write to it. *)
EndOfOutput(c) ==
    /\ pipe[c] = 0 /\ writers[c] = {}
    /\ Goto(c, "reading", "returned")
    /\ Return(c)
    /\ UNCHANGED <<code, result, child, output, unsent, pipe, nothings, writers>>

-------------------------------------------------------------------------------
ChildWrites(c) ==
    /\ child[c] = "running" /\ unsent[c] > 0 /\ pipe[c] < Capacity
    /\ unsent' = [unsent EXCEPT ![c] = @ - 1]
    /\ pipe' = [pipe EXCEPT ![c] = @ + 1]
    /\ UNCHANGED <<pc, code, result, reply, child, output, nothings, writers>>

(* After the call has returned nobody would notice. *)
ChildWritesNothing(c) ==
    /\ child[c] = "running" /\ pc[c] # "returned"
    /\ nothings' = [nothings EXCEPT ![c] = @ \union {output[c] - unsent[c]}]
    /\ UNCHANGED <<pc, code, result, reply, child, output, unsent, pipe, writers>>

ChildExits(c) ==
    /\ child[c] = "running" /\ unsent[c] = 0 /\ c \notin Endless
    /\ child' = [child EXCEPT ![c] = "exited"]
    /\ writers' = [d \in Call |-> writers[d] \ {c}]
    /\ UNCHANGED <<pc, code, result, reply, output, unsent, pipe, nothings>>

CallStep(c) ==
    \/ CreatePipe(c) \/ CreatePipeFails(c)
    \/ (\E n \in 0 .. MaxOutput : CreateProcess(c, n)) \/ CreateProcessFails(c)
    \/ WaitOver(c) \/ GetExitCode(c) \/ CloseWriteEnd(c) \/ CloseWriteEndFails(c)
    \/ ReadOutput(c) \/ EndAtNothing(c) \/ EndOfOutput(c)

ChildStep(c) == ChildWrites(c) \/ ChildExits(c)

Next == \E c \in Call : CallStep(c) \/ ChildStep(c) \/ ChildWritesNothing(c)

Spec == Init /\ [][Next]_vars

(* Threads and processes that can run do run; a finite wait ends. *)
Fairness == \A c \in Call : WF_vars(CallStep(c)) /\ WF_vars(ChildStep(c))

FairSpec == Spec /\ Fairness

-------------------------------------------------------------------------------
(* Type invariant. *)
TypeOK ==
    /\ pc \in [Call -> Place]
    /\ code \in [Call -> {Failed, StillActive, ExitCode, LastError}]
    /\ result \in [Call -> Nat] /\ reply \in [Call -> Nat \union {None}]
    /\ child \in [Call -> {"none", "running", "exited"}]
    /\ output \in [Call -> Nat] /\ unsent \in [Call -> Nat] /\ pipe \in [Call -> Nat]
    /\ nothings \in [Call -> SUBSET Nat] /\ writers \in [Call -> SUBSET Process]

(* A call that did not fail returns with all the output of its command,    *)
(* also after a wait that ended early: the read loop ends only when the    *)
(* process, and with it the last copy of the write end, is gone, or where  *)
(* the process wrote no bytes, and then the rest is lost (EfxMfc.cpp:467). *)
OutputComplete ==
    \A c \in Call :
        (pc[c] = "returned" /\ code[c] # Failed) =>
            \/ child[c] = "exited" /\ result[c] = output[c]
            \/ result[c] \in nothings[c]

(* A write end is left with the library only by the calls whose process    *)
(* could not be created, which return before they close it, and those that *)
(* could not close it.  Processes keep one after any other call only if a  *)
(* write of no bytes ended its reading.                                    *)
LeaksOnlyOnFailure ==
    \A c \in Call :
        (pc[c] = "returned" /\ writers[c] # {}) =>
            \/ code[c] = Failed /\ Library \in writers[c]
            \/ nothings[c] # {} /\ Library \notin writers[c]

(* A process that cannot end: the pipe is full, or will be, and the only   *)
(* reader is the call that waits for the process for ever, or has returned *)
(* early.  The process does not notice the latter, because it inherited    *)
(* the read end, too, and writes on until the pipe is full.                *)
Strangled(c) ==
    \/ c \notin Timed /\ output[c] > Capacity
    \/ pc[c] = "returned" /\ pipe[c] + unsent[c] > Capacity

(* The calls a call must wait for: a process holds the write end of every  *)
(* pipe that was open when it was created.                                 *)
HeldUp(c) == \E d \in Call : d \in writers[c] /\ (Strangled(d) \/ d \in Endless)

(* Every call returns, unless its own process or one that another call     *)
(* created in the meantime can never end.                                  *)
ReturnsUnlessHeldUp ==
    \A c \in Call : pc[c] = "waiting" ~> (pc[c] = "returned" \/ HeldUp(c))

(* "Wait until child processes exit. Don't wait forever." (EfxMfc.cpp:451) *)
(* A call with a finite dwWait returns, whatever its command does.         *)
FiniteWaitReturns ==
    \A c \in Timed : pc[c] = "waiting" ~> pc[c] = "returned"
===============================================================================
