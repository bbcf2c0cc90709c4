----------------------------- MODULE ExecCmdProofs -----------------------------
(***************************************************************************)
(* Proofs about ExecCmd for any number of concurrent calls, any pipe size  *)
(* and any amount of output.                                               *)
(***************************************************************************)
EXTENDS ExecCmd, TLAPS

(* A running process holds the write end of its own pipe, nothing gets     *)
(* lost on the way, and the library lets go of the write end before it     *)
(* reads; a call that has not created its process has moved no output and  *)
(* learned no code, and nobody but the library can write to its pipe.      *)
Accounted(c) ==
    /\ pc[c] \in {"piped", "waiting", "waited", "coded"} => Library \in writers[c]
    /\ pc[c] = "start" => writers[c] = {}
    /\ child[c] = "running" => c \in writers[c]
    /\ child[c] = "none" => /\ result[c] = 0 /\ pipe[c] = 0
                            /\ writers[c] # {} => Library \in writers[c]
    /\ child[c] = "exited" => unsent[c] = 0
    /\ result[c] + pipe[c] + unsent[c] = output[c]
    /\ child[c] = "none" => pc[c] \in {"start", "piped"}
                              \/ (pc[c] = "returned" /\ code[c] = Failed)
    /\ pc[c] \in {"start", "piped"} => child[c] = "none"
    /\ (pc[c] = "returned" /\ code[c] = Failed) => writers[c] = {} \/ Library \in writers[c]
    /\ pc[c] \in {"coded", "reading"} => code[c] # Failed
    /\ code[c] # Failed => pc[c] \in {"coded", "reading", "returned"}
    /\ code[c] # Failed /\ pc[c] # "coded" => Library \notin writers[c]
    /\ (pc[c] = "returned" /\ code[c] # Failed) =>
          \/ pipe[c] = 0 /\ child[c] = "exited" /\ writers[c] = {}
          \/ result[c] \in nothings[c]

ExecInv == TypeOK /\ \A c \in Call : Accounted(c)

LEMMA InitInv == Init => ExecInv
BY ExecAssumption DEF Init, ExecInv, TypeOK, Place, Accounted, Process, Failed, None, StillActive, ExitCode, LastError

LEMMA Utf8LengthIsNat == \A n \in Nat : Utf8Length(n) \in Nat
BY DEF Utf8Length

(* The calls before there is a process, and those that fail. *)
LEMMA OpenInv ==
    ASSUME ExecInv, NEW c \in Call,
           CreatePipe(c) \/ CreatePipeFails(c) \/ CreateProcessFails(c)
    PROVE  ExecInv'
<1> USE ExecAssumption DEF Goto, Return
<1>1. TypeOK'
  <2>1. result[c] \in Nat /\ Utf8Length(result[c]) \in Nat
    BY Utf8LengthIsNat DEF ExecInv, TypeOK
  <2> QED
    BY <2>1 DEF ExecInv, TypeOK, Place, CreatePipe, CreatePipeFails, CreateProcessFails, Process
<1>2. /\ child[c] = "none" /\ code[c] = Failed
      /\ result[c] = 0 /\ pipe[c] = 0
      /\ pc' \in [Call -> Place]
      /\ pc'[c] = "returned" \/ (pc'[c] = "piped" /\ writers'[c] = {Library})
      /\ UNCHANGED <<code, result, child, output, unsent, pipe, nothings>>
      /\ pc[c] = "start" => writers[c] = {}
      /\ pc'[c] = "returned" => writers'[c] \in {{}, writers[c]}
      /\ \A d \in Call \ {c} : pc'[d] = pc[d] /\ writers'[d] = writers[d]
  BY DEF ExecInv, TypeOK, Place, Accounted, CreatePipe, CreatePipeFails, CreateProcessFails
<1>3. Accounted(c)'
  BY <1>2 DEF ExecInv, TypeOK, Place, Accounted
<1>4. ASSUME NEW d \in Call, d # c PROVE Accounted(d)'
  BY <1>2, <1>4 DEF ExecInv, Accounted
<1> QED
  BY <1>1, <1>3, <1>4 DEF ExecInv

LEMMA CreateProcessInv ==
    ASSUME ExecInv, NEW c \in Call, NEW n \in 0 .. MaxOutput, CreateProcess(c, n)
    PROVE  ExecInv'
<1> USE ExecAssumption DEF Goto
<1>1. TypeOK'
  BY DEF ExecInv, TypeOK, Place, CreateProcess, Process
<1>2. /\ Library \in writers[c] /\ child[c] = "none"
      /\ result[c] = 0 /\ pipe[c] = 0 /\ code[c] = Failed
  BY DEF ExecInv, TypeOK, Place, Accounted, CreateProcess
<1>3. Accounted(c)'
  BY <1>2 DEF ExecInv, TypeOK, Place, Accounted, CreateProcess
<1>4. ASSUME NEW d \in Call, d # c PROVE Accounted(d)'
  BY <1>4 DEF ExecInv, TypeOK, Place, Accounted, CreateProcess
<1> QED
  BY <1>1, <1>3, <1>4 DEF ExecInv

(* The wait, the exit code and the library's copy of the write end. *)
LEMMA WaitInv ==
    ASSUME ExecInv, NEW c \in Call,
           WaitOver(c) \/ GetExitCode(c) \/ CloseWriteEnd(c) \/ CloseWriteEndFails(c)
    PROVE  ExecInv'
<1> USE DEF Goto, Return
<1>1. TypeOK'
  <2>1. result[c] \in Nat /\ Utf8Length(result[c]) \in Nat
    BY Utf8LengthIsNat DEF ExecInv, TypeOK
  <2> QED
    BY <2>1 DEF ExecInv, TypeOK, Place, WaitOver, GetExitCode, CloseWriteEnd, CloseWriteEndFails
<1>2. ASSUME NEW d \in Call PROVE Accounted(d)'
  <2>1. Library # d /\ StillActive # Failed /\ ExitCode # Failed /\ LastError # Failed
    BY ExecAssumption DEF StillActive, ExitCode, LastError, Failed
  <2>2. CASE WaitOver(c)
    BY <2>1, <2>2 DEF ExecInv, TypeOK, Place, Accounted, WaitOver
  <2>3. CASE GetExitCode(c)
    BY <2>1, <2>3 DEF ExecInv, TypeOK, Place, Accounted, GetExitCode
  <2>4. CASE CloseWriteEnd(c)
    BY <2>1, <2>4 DEF ExecInv, TypeOK, Place, Accounted, CloseWriteEnd
  <2>5. CASE CloseWriteEndFails(c)
    BY <2>1, <2>5 DEF ExecInv, TypeOK, Place, Accounted, CloseWriteEndFails
  <2> QED
    BY <2>2, <2>3, <2>4, <2>5
<1> QED
  BY <1>1, <1>2 DEF ExecInv

LEMMA ReadInv ==
    ASSUME ExecInv, NEW c \in Call, ReadOutput(c)
    PROVE  ExecInv'
<1>1. PICK n \in 1 .. pipe[c] :
         /\ result' = [result EXCEPT ![c] = @ + n]
         /\ pipe' = [pipe EXCEPT ![c] = @ - n]
  BY DEF ReadOutput
<1>2. /\ pipe[c] \in Nat /\ result[c] \in Nat
      /\ pipe[c] - n \in Nat /\ result[c] + n \in Nat
  BY <1>1 DEF ExecInv, TypeOK
<1>3. TypeOK'
  BY <1>1, <1>2 DEF ExecInv, TypeOK, Place, ReadOutput
<1>4. Accounted(c)'
  BY <1>1, <1>2 DEF ExecInv, TypeOK, Place, Accounted, ReadOutput
<1>5. ASSUME NEW d \in Call, d # c PROVE Accounted(d)'
  BY <1>1, <1>5 DEF ExecInv, TypeOK, Place, Accounted, ReadOutput
<1> QED
  BY <1>3, <1>4, <1>5 DEF ExecInv

(* The process wrote nothing at this point of its output. *)
LEMMA EndAtNothingInv ==
    ASSUME ExecInv, NEW c \in Call, EndAtNothing(c)
    PROVE  ExecInv'
<1> USE DEF Goto, Return
<1>1. TypeOK'
  <2>1. result[c] \in Nat /\ Utf8Length(result[c]) \in Nat
    BY Utf8LengthIsNat DEF ExecInv, TypeOK
  <2> QED
    BY <2>1 DEF ExecInv, TypeOK, Place, EndAtNothing
<1>2. /\ pc[c] = "reading" /\ pc' = [pc EXCEPT ![c] = "returned"]
      /\ result[c] \in nothings[c]
      /\ UNCHANGED <<code, result, child, output, unsent, pipe, nothings, writers>>
  BY DEF EndAtNothing
<1>3. ASSUME NEW d \in Call PROVE Accounted(d)'
  BY <1>2 DEF ExecInv, TypeOK, Place, Accounted
<1> QED
  BY <1>1, <1>3 DEF ExecInv

(* The pipe has no writer left: the process is gone, nothing is missing. *)
LEMMA EndInv ==
    ASSUME ExecInv, NEW c \in Call, EndOfOutput(c)
    PROVE  ExecInv'
<1> USE DEF Goto, Return
<1>1. TypeOK'
  <2>1. result[c] \in Nat /\ Utf8Length(result[c]) \in Nat
    BY Utf8LengthIsNat DEF ExecInv, TypeOK
  <2> QED
    BY <2>1 DEF ExecInv, TypeOK, Place, EndOfOutput
<1>2. child[c] = "exited"
  BY DEF ExecInv, TypeOK, Place, Accounted, EndOfOutput
<1>3. ASSUME NEW d \in Call PROVE Accounted(d)'
  BY <1>2 DEF ExecInv, TypeOK, Place, Accounted, EndOfOutput
<1> QED
  BY <1>1, <1>3 DEF ExecInv

LEMMA ChildInv ==
    ASSUME ExecInv, NEW c \in Call, ChildStep(c)
    PROVE  ExecInv'
<1>1. CASE ChildWrites(c)
  <2>1. unsent[c] - 1 \in Nat /\ pipe[c] + 1 \in Nat
    BY <1>1 DEF ExecInv, TypeOK, Place, ChildWrites
  <2>2. TypeOK'
    BY <1>1, <2>1 DEF ExecInv, TypeOK, Place, ChildWrites
  <2>3. Accounted(c)'
    <3>1. /\ child[c] = "running" /\ Accounted(c)
          /\ unsent'[c] = unsent[c] - 1 /\ pipe'[c] = pipe[c] + 1
          /\ unsent[c] \in Nat /\ pipe[c] \in Nat /\ result[c] \in Nat /\ output[c] \in Nat
          /\ UNCHANGED <<pc, code, result, child, output, nothings, writers>>
      BY <1>1 DEF ExecInv, TypeOK, Place, ChildWrites
    <3> QED
      BY <3>1 DEF Accounted
  <2>4. ASSUME NEW d \in Call, d # c PROVE Accounted(d)'
    BY <1>1, <2>4 DEF ExecInv, TypeOK, Place, Accounted, ChildWrites
  <2> QED
    BY <2>2, <2>3, <2>4 DEF ExecInv
<1>2. CASE ChildExits(c)
  <2>1. TypeOK'
    BY <1>2 DEF ExecInv, TypeOK, Place, ChildExits
  <2>2. ASSUME NEW d \in Call PROVE Accounted(d)'
    BY <1>2, ExecAssumption DEF ExecInv, TypeOK, Place, Accounted, ChildExits
  <2> QED
    BY <2>1, <2>2 DEF ExecInv
<1> QED
  BY <1>1, <1>2 DEF ChildStep

LEMMA NothingInv ==
    ASSUME ExecInv, NEW c \in Call, ChildWritesNothing(c)
    PROVE  ExecInv'
<1>1. output[c] - unsent[c] \in Nat
  BY DEF ExecInv, TypeOK, Accounted
<1>2. TypeOK'
  BY <1>1 DEF ExecInv, TypeOK, ChildWritesNothing
<1>3. ASSUME NEW d \in Call PROVE Accounted(d)'
  BY DEF ExecInv, TypeOK, Accounted, ChildWritesNothing
<1> QED
  BY <1>2, <1>3 DEF ExecInv

LEMMA NextInv == ExecInv /\ [Next]_vars => ExecInv'
<1> SUFFICES ASSUME ExecInv, [Next]_vars PROVE ExecInv'
  OBVIOUS
<1>1. ASSUME NEW c \in Call, CallStep(c) \/ ChildStep(c) \/ ChildWritesNothing(c)
      PROVE  ExecInv'
  BY <1>1, OpenInv, CreateProcessInv, WaitInv, ReadInv, EndAtNothingInv, EndInv, ChildInv,
     NothingInv DEF CallStep
<1>2. CASE UNCHANGED vars
  BY <1>2 DEF vars, ExecInv, TypeOK, Place, Accounted
<1> QED
  BY <1>1, <1>2 DEF Next

LEMMA Invariance == Spec => []ExecInv
BY InitInv, NextInv, PTL DEF Spec

-------------------------------------------------------------------------------
(* The type invariant, for any number of calls. *)
THEOREM TypeCorrect == Spec => []TypeOK
<1>1. ExecInv => TypeOK
  BY DEF ExecInv
<1> QED
  BY <1>1, Invariance, PTL

(* A call that does not fail returns with the whole output of its command, *)
(* or what came before a write of no bytes, however early its wait ended   *)
(* and whatever other calls do.                                            *)
THEOREM OutputIsComplete == Spec => []OutputComplete
<1>1. ExecInv => OutputComplete
  BY DEF ExecInv, TypeOK, Place, Accounted, OutputComplete
<1> QED
  BY <1>1, Invariance, PTL

(* The library keeps a write end only if the process was not created or    *)
(* the end could not be closed, and after any other call no process keeps  *)
(* one unless a write of no bytes ended the reading early, for any number  *)
(* of calls whose processes inherit from each other (EfxMfc.cpp:448-481).  *)
THEOREM OnlyFailuresLeak == Spec => []LeaksOnlyOnFailure
<1>1. ExecInv => LeaksOnlyOnFailure
  BY DEF ExecInv, TypeOK, Place, Accounted, LeaksOnlyOnFailure
<1> QED
  BY <1>1, Invariance, PTL
===============================================================================
