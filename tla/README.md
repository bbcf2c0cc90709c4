# EfxMfc: specifications, model checking and proofs

EfxMfc is a Windows DLL that gives a C interface to a broker's OCX control
(ITGExpertCtl). Client programs (the Rust program `rust/sample1` is one) load it
into their own process, send requests, pump window messages and get answers
through callbacks. Several such processes on one machine share a mutex and a time,
by which they keep within the broker's limit on requests.

This directory holds TLA+ specifications of that program, configurations for
TLC, and proofs for TLAPS. `PROJECT.json` maps each definition to source lines.

## 1. The system

### Components

| Component | State it keeps | Operations | Modules |
|---|---|---|---|
| Request table (`EfxWnd.h`, `ReqIdTable`) | `m_curPos`, the ring `m_pTable` of 50 items | `SetItem`, `GetItem` | `ReqIdTable`, `ReqTrackingProofs` |
| Request and answer tracking (`EfxMfc.cpp:717-741`, `EfxWnd.cpp:62-92`) | the table, one for all controls of the process; the control's last sent id | `efxRequestData`, `efxRequestNextData`, `OnReceiveData`, `OnReceiveError` | `ReqTracking`, `ReqTrackingProofs` |
| Rate limiter (`EfxMfc.cpp:536-560`) | the named mutex, `g_syncTime` in a section all processes share | `efxSynchronize` | `Synchronize`, `Pacer`, `SyncClient`, `SynchronizeProofs` |
| Command execution (`EfxMfc.cpp:409-482, 572-580`) | locals of each call; the pipe and the child process | `efxExecCmd` | `ExecCmd`, `ExecCmdProofs` |
| Set-up of the mutex (`EfxMfc.cpp:147-161, 484-529`) | `g_hMutex`, `g_refCount` (shared), `g_hOpenMutex` (per process) | `efxInit`, `ExitInstance` | `SharedMutex`, `SharedMutexProofs` |
| Message loop (`EfxMfc.cpp:582-620`, `main.rs`) | the thread's message queue, `g_dwMsgLoopThreadId`, the sample's `SIG_RECV_DATA` | `efxProcessMessage`, `efxMessageLoop`, `efxQuit`, `wait_recv_data` | `MessageLoop`, `MessageLoopProofs` |
| Stock master loader (`EfxMfc.cpp:163-361`) | an array, its size, two maps from code and name to pointers into the array | `LoadStockMaster`, `efxFindStockMaster[ByName]`, `efxGetStockMaster` | `StockMaster`, `StockMasterProofs` |
| Control registry (`EfxMfc.cpp:138-144, 363-385, 622-641`) | `m_pEfxWnd`, the map `m_mapEfxWnd`, the next key, the main window | `efxNewControl`, `efxExit` | `Controls`, `ControlsProofs` |
| Real-time subscriptions (`EfxMfc.cpp:743-769`, `EfxWnd.cpp:76-80`) | one query name per control | `efxRequestRealData`, `efxUnrequestRealData`, `efxUnrequestAllRealData`, `OnReceiveRealData` | `Controls`, `ControlsProofs` |
| Text conversions (`pch.cpp`) | none | `Utf8ToWideChar`, `WideCharToUtf8` | `Texts`, `TextsProofs`; also in `ExecCmd` |
| Data setters and getters (`EfxMfc.cpp:638-894`, `efx.rs`) | buffers of fixed size, for the time of a call | convert and forward | `Texts`, `TextsProofs`, for the lengths of texts |
| The OCX (`CDITGExpertCtl.h`) | outside this repository | methods, events | external, in `ReqTracking` and `Controls` |
| Rust sample | `SIG_RECV_DATA` | synchronize, request, wait | `SyncClient`, `MessageLoop`, the one-thread clients of `ReqTracking`, `Texts` |
| Number parser (`fast_float/`, vendored) | none | `from_chars` | `FromChars` on `FloatCommon`, `AsciiNumber`, `DecimalToBinary`, `Bigint`, `DigitComparison`, `FloatReference`; `TextsProofs` |

### How they interact

* A client thread calls `efxSynchronize`, which blocks it until its turn, then
  `efxRequestData`: this forwards to the control (a COM call), asks the control for
  the id it gave the request (`GetSendRqID`) and records id, query name and
  parameter in the table.
* The control answers later through an event, which the thread that pumps messages
  dispatches to `CEfxWnd::OnReceiveData`. The event carries only the id
  (`GetRecvRqID`); the table gives back name and parameter, as pointers into the
  slot, for the client's callback.
* `efxSynchronize` of all processes shares one mutex (by name) and one
  `g_syncTime` (a section of the DLL mapped shared).
* `efxExecCmd` runs a child with a pipe as its standard output. All handles are
  inheritable, and so children of concurrent calls get each other's pipe, and a
  child gets both ends of its own.
* `efxExit` tells the client through the library's own control, runs the client's
  callback with that, and then deletes every control of the map. Callbacks may call
  every function again, also `efxExit`.
* The floating-point getters and the stock loader turn texts into numbers with
  `from_chars`, and use what it left in the variable without asking whether it worked.

### What is hard about it

Nothing in the process is locked: the table is a static member which any thread
writes and the pumping thread reads. Ids are looked up after an arbitrary delay,
the ring forgets, ids come back. Processes die with the mutex in hand. The clock
of `GetTickCount64` is coarse and `Sleep` follows it. The child blocks on a full
pipe while its parent blocks on the child. Callbacks nest. The number parser finds
a float by one of three ways, of which the longest computes with big integers whose
results nobody checks. `PROJECT.json` lists these hazards at the
lines where they bite and the properties that answer them.

### What makes each component correct

* Table: it holds exactly the last `TableSize` items; a look-up finds the latest
  of an id.
* Tracking: the client is told the texts of its own request, under conditions that
  must be spelled out; concurrent `SetItem` calls amount to atomic ones.
* Rate limiter: at most 5 requests in 20 ms, over all processes; nobody waits for
  ever although others die.
* Commands: all output is returned; a call returns unless it must wait for
  something that cannot end; handles are closed.
* Mutex set-up: whoever got through `efxInit` can pace itself, as long as it runs.
* Message loop: `efxQuit` ends the loop; the sample's wait ends.
* Stock master: every lookup gives the record that was loaded for it.
* Texts: a text arrives whole, or not at all and the receiver can tell.
* Controls: every control is deleted once; none is used after that by a client that
  stops when it is told to; real-time data comes under its name. Each under conditions that must be
  spelled out.
* Numbers: the nearest float to the longest number the text begins with.

## 2. The modules

Names follow the source. An action stands for one handler, or for one step of it
where other threads or processes can come in between. History variables, which the
code does not have, are marked "history" where they are declared.

**`ReqIdTable`** is the ring of `EfxWnd.h` used by one thread: `SetItem` is one
action, `GetItem` an operator. `curPos` and `table` are the members; `log` is the
history of all items. The size (50), the ids and the texts are constants; id 0 is
that of unused slots, whose texts come from `new Item[]` and are arbitrary
(`Heap`). `MaxPos` bounds the counter.

**`ReqTracking`** extends it with threads. A call of `efxRequestData` is `RequestData`
(the COM call), `GetSendRqID`, then `SetItem` step by step: `Reserve` (the
interlocked increment), `WriteId`, `WriteQry`, `WriteParam`. `OnReceiveData`
starts the search of the thread that dispatches; each `SearchTurn` reads one slot,
and `ReadQry` and `ReadParam` are the client reading through the pointers it was
given. `req` is the control's knowledge of unanswered requests, `sendId` what
`GetSendRqID` returns. `program` is the client: what each thread may send through
which control. A client of which only one thread sends is `Serial`; its calls do not
overlap, but callbacks may still send. `lapped` and `refused` record that a slot was
taken again while it was being filled, and that a request was refused.

**`Synchronize`** is `efxSynchronize` with one action per line that touches shared
state: `Call`, `Acquire`, `ReadTick`, `TooSoon` (the test), `StartSleep`/`Wake` or
`SkipSleep`, `Stamp`, `Publish`, `Release`; `Crash` may come anywhere. `now` is
time, `tick` what `GetTickCount64` shows of it (at most `Quantum` behind),
`EarlyWake` how much too early a `Sleep` may return. `CallUnopened` is the early
return without a mutex. **`SyncClient`** adds the request that the sample sends
after it was let through, when the mutex is no longer held. **`Pacer`** is the abstract
specification: no mutex, no sleep, no shared section; a `Grant` measures the distance to
the last grant and becomes the last one itself, in one step. `Synchronize` implements it,
with `Publish` as the `Grant`; the mapping is `PlaceOf` and the instance `Pacing`.

**`ExecCmd`** is `ExecCmd` for any number of concurrent calls, with their children and
pipes. `writers[c]` is who holds a write end of call `c`'s pipe: the library and
every process created while it was open, because all handles are inheritable. The
calls of the system may fail, each with the return or the exit code that the code makes
of it (`CreatePipeFails`, `CreateProcessFails`, `GetExitCode`, `CloseWriteEndFails`). The
output is a number of bytes, and `nothings[c]` says after how many of them the child
wrote no bytes: there `ReadFile` may return with none, which ends the loop
(`EndAtNothing`). `Utf8Length` is what `efxExecCmd` returns of the output.

**`SharedMutex`** is `efxInit` and `ExitInstance` in several processes: `TestMutex`,
`CreateMutex` or `OpenMutex` with their failures, `CountUser`; `CloseOpened`,
`ReleaseUser`, `CloseCreated`, `ClearCreated`. `hMutex` and `refCount` are in the
shared section, `opened` is `g_hOpenMutex`. `handles` counts a process's handles to
the mutex, which exists while there is one. `Leave` is the kernel's part.

**`MessageLoop`** is the sample's main and `wait_recv_data`, `efxProcessMessage`,
`efxMessageLoop` and `efxQuit`, over a message queue. `loopSet` says whether
`g_dwMsgLoopThreadId` is set. `quitMark` is the pending mark of `PostQuitMessage`,
which comes out only when the queue is empty. `quitsItself` chooses the kind of
client: the sample calls `efxQuit` just before the loop.

**`StockMaster`** is `LoadStockMaster`: `OpenKospi`, one `ReadRecord` per record of
either file (`Parse`, `Index`), `OpenKosdaq`, `EndOfKosdaq`, and the failures. A
pointer is a block of memory and an index; the array moves to another block when it
outgrows its `room`, and pointers into an earlier block dangle. Of a record's
fields the model keeps the code, the name, the number and the ROE, whose variable
survives from record to record.

**`Texts`** is how texts pass the library: `Utf8ToWideChar` and `WideCharToUtf8` with
their results, what they leave in the buffer and how many cells they write; the
setters (`SetData`), the questions about an account (`AskControl`), the texts of a
request (`RequestData`), the getters (`GetData`, and `GetDataRust` as `efx.rs` calls
them), `OnReceiveError` and `GetDataFloat`. A text is its length in UTF-16 units and
in UTF-8 bytes.

**`Controls`** is the life of the `CEfxWnd` objects. `efxNewControl` is `TakeSeqNo`,
`CreateControl` or `CreateFails`, `InsertEfxWnd`. `efxExit` is `OnEfxExit`, which tells
the client (message 4), and, when the callback has returned, `GetStartPosition`, then
`DestroyControl` and `DeleteControl` for each control, `RemoveAll`, and `DestroyMain`,
which takes the remaining windows with it. It holds no lock, and other threads run
between any two of these steps. `ahead` are the keys the loop will come to; a key that is
added meanwhile may be one of them or not, as `CMap` has it. `frames` is the main
thread's stack of callbacks and exits. `efxRequestRealData` is `RequestRealData` (the
COM call) and `SetRealQryName`. A deleted object is still there as `"deleted"`, and what
`efxExit` finds in one is anything. `careful` chooses the kind of client: a careful one
has given `efxInit` a callback, lets its threads finish in that callback for message 4,
and makes no call when the `efxExit` has returned. The histories are `misusers` (threads
that used a deleted control before the `efxExit` had returned), `gone` (what was deleted
by one that has), `late` (registered while a loop ran) and `alone` (no other name of the
control was wanted when it was last asked).

**`FromChars`** is `from_chars`, one action for each way it may go: `NoText`, `NoNumber`
(with `inf` and `nan`), `FastPath`, `Compute` with `Recheck`, `LongWay`, `Finish`. It
stands on five modules, one to a header: **`FloatCommon`** has machine words, the
two formats and the table of powers of five; **`AsciiNumber`** the grammar;
**`DecimalToBinary`** the product with the table; **`Bigint`** the big integers, limb
by limb, with the result of every operation that may run out of limbs; and
**`DigitComparison`** the comparison of all digits. The header is a template over the
format, and its constants follow from the sizes of words and formats; the modules
state them as functions of the sizes, which are constants of the model. A result
that an operator computed and others use is passed on as an argument. Two helpers of
`Bigint` take an operator and are not in the map: `Try` is `FASTFLOAT_TRY`
(`float_common.h:174`), `Repeat` the loops of `pow5`. **`FloatReference`** is the
other side: an automaton for the longest number, exact decimals, the nearest float.

`MCReqTracking`, `MCSyncClient`, `MCTexts`, `MCControls` and `MCFromChars` only give
constants values and name symmetries. Modules named `...Proofs` hold theorems. Definitions called "Variant of"
are wrong forms of the definition after them; no specification uses them. They
show that a property would notice such a mistake.

## 3. What the runs show

| Run | Specification, bounds | Properties |
|---|---|---|
| `table` | `ReqIdTable`: ring of 3, 2 ids, 2 texts, 6 calls | the ring is the window of the last 3 items; a search finds the latest of an id |
| `req_tracking` | `ReqTracking`: 2 threads, 2 controls, ring of 2, 3 calls, 2 ids that are used again; a control each, a control between them, or one thread only | `RecordedAnswerIsOwn`, `SerialAnswerIsOwn`, `SerialAnswerIsLatest`, `SetItemLinearizes` |
| `sync_client` | `SyncClient`: 2 clients, unit 5 ms, 10 ms interval, 15 ms clock, 60 ms | exclusion, no wrap, spacing, at most 5 grants and 5 requests in any 20 ms; it implements `Pacer` |
| `sync_liveness` | `Synchronize`: 2 processes and one that never opened the mutex, early wake-ups | `EveryCallReturns` |
| `exec` | 2 calls, one with a finite and one with an infinite wait, outputs to 3, a pipe of 2, writes of no bytes | `OutputComplete`, `LeaksOnlyOnFailure`, `ReturnsUnlessHeldUp` |
| `exec_waits_forever` | 1 call with a finite wait and a command that does not end | `FiniteWaitReturns` is **violated** |
| `shared_mutex` | 2 processes, 4 loads, `efxInit` twice, 1 death | `OvercountHasCause`, `OpenFailsOnlyForCause`, `RefusalHeals` |
| `message_loop` | 2 requests, 2 other messages at a time, errors, `efxQuit` by callback and thread, both kinds of client | `WaitIsForOwnAnswer`, `WaitEnds`, `QuitEndsLoop`, `ClientEnds` |
| `stock_master` | 2 loads of up to 3 records, 2 codes, 2 names, room for 2 | `LookupFindsLatest`, `DanglesOnlyForCause`, `RoeIsNearest`, `NumberingAgrees` |
| `texts` | 5 texts, buffers of 1 to 3 | `FieldWholeOrEmpty`, `RecordedAsSent`, `ReadWholeOrNothing`, `OverrunOnlyByFloat` |
| `from_chars` | 5291 texts with their formats, two small float types, 3 rounding modes | `NearestValue`, `TakesLongestNumber`, `RangeReported`, `BigintsFit` |
| `controls` | 2 threads, 3 objects, careful clients and others, 2 names, 3 requests, 2 exits, callbacks 2 deep | `RealDataNamed`, `RegistryMatches`, `MessageFourInTime` |

What they tell of the code:

* **The table without a lock.** `SetItem` is linearizable as long as no thread is
  overtaken by a whole round of the ring. A look-up is not: between the send and the
  record there is a window in which an answer finds nothing, or an item of an
  earlier request with the same id. `RecordedAnswerIsOwn` says when the client is
  told its own texts: its call had returned before the answer came, the ring has
  not come round to the item, nobody else used the id. That is also what threads that
  share a control must keep, where both calls may record the id of the second. A client with one thread
  always is, or is told nothing (`SerialAnswerIsOwn`), if no request is refused; a
  refused one records the last accepted id again, under its own texts.
* **The pace.** For two clients the limit of 5 in 20 ms is kept although the clock
  is coarser than the interval, processes die, and requests go out after the mutex
  was released. Stalled clients add up, one request each: with three clients the
  same run lets a sixth request into the window. So the claim of `efx.rs:9` is about
  grants, and about the requests of few clients. Section 4 says how few, for every
  interval and limit.
* **Commands.** No output is lost, except what follows a write of no bytes. A call
  returns unless it waits for a child that cannot end, its own or one that inherited
  its write end: one that never ends by itself, one in an infinite wait that fills its
  pipe, or one whose call stopped reading at a write of no bytes. That one does not
  notice, because it holds the read end of its pipe itself, and blocks when the pipe
  is full. The library leaves the write end of a pipe open only when `CreateProcess` or
  `CloseHandle` fails.
* **A finding.** `EfxMfc.cpp:451` says "Wait until child processes exit. Don't wait
  forever." With a finite `dwWait` the wait is over, but the read loop after it
  (line 467) waits for the end of the pipe, and the call that would end the child is
  commented out (line 453).
* **The shared mutex.** Its count becomes too high only by a death or a repeated
  `efxInit`; a stale handle makes `efxInit` fail only then, or while another process
  leaves; and it goes away again when refused clients give up.
* **The loop.** `efxQuit` may be lost: to a poll that takes the message, or to a
  thread that calls it before the loop runs. The sample, which calls it itself
  between its last poll and the loop, ends; unless an answer was an error, for
  the error callback does not end the wait.
* **The stock master.** Look-ups are right while the array stays within its reserve,
  over repeated loads too; beyond it exactly the earlier records' pointers dangle.
* **Texts.** Setters never cut, getters say when they did, except that a buffer of one
  byte gets a length without a text and the error callback may get a cut message.
* **Controls.** `efxExit` works for clients that use the callback it makes: one that
  stops its threads when message 4 has come finds every live control in the map, loses
  none and uses none that is deleted, also when it exits again within that callback,
  and however the making of controls went before (`RegistryMatches`,
  `MessageFourInTime`). A client that does not may register a control between the start
  of the loop and `RemoveAll`, which takes it out of the map unseen: it stays alive and
  no `efxExit` ever finds it. And a thread of it may use a control that the loop has
  deleted. What no client sees is a control that is deleted twice, or the main thread
  using a deleted one before the `efxExit` has returned; after that `m_pEfxWnd`, which is
  never reset, may be. Real-time data comes under its own name if no other name of the
  control was subscribed, cancelled and still under way, or being asked for, when it was
  last asked: later refusals, cancellations and requests of the same name do no harm.
  Otherwise it may come under another, and does in the model without that condition.
* **Numbers.** All three ways give the nearest float, ties to even, under every rounding
  mode of the thread; the parser takes the longest number, and leaves the variable
  alone when there is none; and the big integers are large enough, so that the results
  nobody looks at are always good. Two comments of the headers are inexact, without
  effect: `fast_table.h:38` calls the powers "rounded toward one", but those below
  5^-27 are cut, away from one; `float_common.h:369` calls `0x10000000000000`
  `1 << 53`, and it is `1 << 52`.

Bounds. Rings of 2 and 3 are lapped once or twice, and ids come back; a third thread
would only repeat what two do to each other, for what the properties say relates one
writer to one reader or to one other writer. The clock runs three times the window
of 20 ms. Two processes suffice for the races of `SharedMutex`: each is between one
that leaves and one that comes. Buffers of 3 have texts that are shorter, exact and
longer. In `Controls` two names and three requests let a
subscription be replaced and come back; two exits, two deep, are an exit within the
callback of an exit, and one after the other.
`FromChars` has words of 14 bits and limbs of 7, so that a double word is a number of
TLC, and formats of 2 and 3 explicit bits. They have what the code's formats have:
subnormals, infinity, powers of ten on either side of those that are exact, numbers
halfway within and outside the bounds for ties, more digits than a word holds. The
input has every text of a sign, an integer, a fraction and an exponent, a grid of
values that goes beyond both ends of the range, and for every two neighbouring floats
the number halfway, a little less, a little more at once and a little more after 20
digits. `BigintLimbs` is 8: the largest number takes 50 of 56 bits, as in the code it
takes some 3690 of 4000. The formulas for the constants give the code's values at the
code's sizes, all 651 rows of the table of powers included, but for the smallest power
of ten of `float`, which is -65 in the code and -64 by the formula (-65 is harmless).
`ExponentCap` stands for the 0x10000000 at which an exponent stops growing.
`MaxPos`, `MaxTime`, `MaxOther`, `MaxLoads`, `MaxInits`, `MaxCrashes`, `MaxOutput`,
`MaxRecords`, `MaxRequests`, `MaxExits` and `MaxDepth` are bounds of the models and stand in the guards.
Deadlock is not checked where a model ends at such a bound or the program ends, or, in
`Controls`, where a careful client has exited and does nothing more.

Fairness. `Synchronize`: threads that can run do run, time passes (weak), and the
kernel hands a released mutex on, so that no waiter is passed over for ever
(strong, on `Acquire` only; Windows queues waiters). `ExecCmd`: calls and children
that can run do run; a child that never ends is one of `Endless`. `MessageLoop`: each
request is answered, the main thread runs, and messages do not come faster than it
takes them, so that its queue is empty again and again; without that a poll need
not end. `SharedMutex`: a call once begun goes on, and a client that was refused
gives up, as the sample's `unwrap` does.

## 4. What is proved

TLAPS checks the following for all values of the constants. With it every safety
property of section 3 is a theorem, but for `NearestValue`, `RangeReported` and
`BigintsFit` of `FromChars`.

* **The table** (`ReqTrackingProofs`, first part): `TypeCorrect`, `RingIsWindow` (the ring
  holds exactly the last `TableSize` items), `LatestIsFound`. The invariant `TableInv` adds
  to the window that slots not yet used carry id 0. The arithmetic of the ring, that two
  positions less than a round apart have different slots, is a lemma, and so is what
  each turn of the search looks at.
* **Tracking** (`ReqTrackingProofs`), for any number of threads, controls and ids:
  * `RecordedIsOwn`: the client is told its own texts under the conditions that
    `RecordedAnswerIsOwn` spells out. `TrackInv` says what the steps of a `SetItem` keep
    from each other: no two threads fill one position (`FillInv`); unless a thread was
    overtaken by a whole round, every slot that nobody is filling holds the item of the
    log, and one being filled is the old item up to the fields that are written
    (`RingInv`); a request remembers a position whose item is complete and its own
    (`AskedInv`); and the search has not passed that position (`SearchInv`, `OwnInv`).
    `RoomInv` keeps the counter below its bound: every call that has begun has a position.
  * `Linearizes` and `ImplementsTable`: as long as no thread is overtaken, the concurrent
    table implements `ReqIdTable`. The mapping `AsIfFilled` fills a slot at once when its
    position is taken; each step is then one `SetItem` of the abstract table or none.
  * `SerialIsLatest`, `SerialIsOwn`: what a client with one thread is told. `SerialInv`
    adds that its calls do not overlap with the search (`AloneInv`), which item of the log
    the search has hit or that there is none (`LatestInv`), and that without refusals no
    other item has the id of an unanswered request (`NoneRefusedInv`).
* **Rate limiter** (`SynchronizeProofs`), for any number of threads and processes, any
  timer resolution and any deaths:
  * `TypeCorrect`, `Exclusion`, `ElapsedTimeIsRight`, `GrantsAreSpaced`. `SyncInv` says that
    whoever is between wait and release is the `holder` (`Owned`), that neither the shared
    time nor a remembered tick lies ahead of the clock, and what the owner knows of its
    due time at each place (`Known`). No other thread can move the shared time meanwhile;
    a death keeps all this, because a dead thread holds nothing.
  * `PacingIsAtomic`: `Synchronize` implements `Pacer`. Each step is one of the pacer or
    none (`PacerStep`, `PacerClock`); that `Publish` is a `Grant` needs `Known`, which says
    that the time measured at `TooSoon` is still the last one when the new one is published.
  * `GrantsWithinLimit`: let d be the least that every interval leaves when Sleep ends too
    early. If `(Limit - 2) * d >= Window - 1`, no window has more than `Limit` grants.
    Spacing alone does not give that: the first grant of a window may have a stamp from
    long before, when its thread stalled before it let go, and so may the second, because
    the tick lags. `Spread` says what is left: of n grants in the last `age` time units
    the third was stamped within these, and from there on the stamps are d apart.
  * `RequestsWithinLimit`: if `(Limit - Clients - 1) * d >= Window - 1`, no window has more
    than `Limit` requests, however long a client stalls between grant and request. Each
    request has a grant in the window, but for those of the clients that stalled when it
    began, and these are all but one at most, unless one of their grants counts as just
    then (`RequestsInv`). In units of 1 ms, with d = 10 and 5 in 20 ms, the first
    condition holds (30 >= 19), and the second for two clients (20 >= 19) but not for
    three (10 >= 19), where TLC finds a sixth request. If Sleep may end 1 ms too early,
    the guarantee for two clients is gone too (18 >= 19), that for the grants is not.
  * The properties add up a history with `SumFunction`. That the recursive function behind
    it exists, that the order of its choices does not matter, and that it gives the last
    of the partial sums, are lemmas by smallest counterexample (`SumExists`, `SumSplits`,
    `SumIsLast`).
* **Commands** (`ExecCmdProofs`): `TypeCorrect`, `OutputIsComplete`, `OnlyFailuresLeak`.
  `ExecInv` balances the output: what was read, what is in the pipe and what is unsent
  make up the output; a child that runs holds its own write end, so that the end of the
  pipe means its exit; and the library holds the write end until it reads, and not after.
* **The shared mutex** (`SharedMutexProofs`): `SharedTypesCorrect`, `OpenFailsForCause`,
  `OvercountOnlyForCause`, for any number of processes, loads, `efxInit`s and deaths.
  `SharedInv` follows the handle that keeps the mutex alive: a process that opened it
  keeps its handle until it leaves (`OpenedInv`), as does the one that made it
  (`MadeInv`); without deaths a set `g_hMutex` means that its maker has not closed its
  handle, or users are left, or somebody is about to reset it (`LeftInv`); an `efxInit`
  that is not disturbed has nobody leaving beside it (`QuietInv`) and so finds the mutex
  (`FoundInv`).
* **The loop** (`MessageLoopProofs`): `LoopTypesCorrect`, `WaitSeesOwnAnswer`. `AnswerInv`
  says that the answer under way is in one place only: still to be made, in the queue,
  told with the flag set, or lost in an error; and that none is under way when no wait is.
* **Stock master** (`StockMasterProofs`), for every reserve and number of records:
  `TypeCorrect`, `LookupsAreRight`, `RoeIsOwnOrNearest`, `DanglesOnlyWhenMoved`,
  `NumbersAreOfTheArray`. `MasterInv` adds how large the block is, so that it is known at
  which record the array moved last (`RoomInv`); that a pointer is into the present block
  exactly if its record was added since then, and is that of the last record of its code
  or name (`MapsInv`); that `fROE` is the ROE of the last record (`FieldInv`); and that
  the numbers are those of the places (`NumberInv`).
* **Texts** (`TextsProofs`): `TypeCorrect`, `SettersNeverCut`, `RequestsAreRecorded`,
  `GettersNeverMislead`, `ConversionsFit`. The properties are inductive together; two
  lemmas state what the conversions promise.
* **Numbers** (`TextsProofs`, second part), for every size of words, formats and vectors:
  * `ParserIsRight`: `parse_number_string` and the automaton of `FloatReference`, which knows
    nothing of it, agree on every text: which begin with a number, and where the longest
    ends. The automaton's state is known at the end of the sign, of the integer, of the
    fraction and of the exponent, and it is stuck from where the parser stops.
    `CallTakesLongestNumber` adds the rest of `from_chars`; its invariant `Called` says what
    has been parsed and that nothing is stored before the end.
  * `FullMultiplicationIsExact`: the product of two words made of four products of half
    words, in which two sums may wrap around; the word on top never does.
  * `SmallMulIsExact`, `SmallAddIsExact`, `LargeAddIsExact`, `LongMulIsExact`, `Pow2IsExact`:
    `Gives` says that an operation stays in its memory, is exact when it succeeds, and fails
    only when the number has no room. The condition is exact: the results nobody looks at
    are bad only if a number needs more than `BigintLimbs` limbs. They rest on one
    invariant of the loops: limbs and carry together are the number so far
    (`CarriesAreRight`, `PassedOn`). `CompareIsRight`: the first limb that differs from
    the top decides. Vectors without a zero on top (`NoZeroOnTop`) are what `normalize`
    leaves; with zeros there `large_add_from` could fail for want of room it does not need.
  * What would be induction over the limbs is here the smallest counterexample in a set of
    numbers (`UpTo`); of powers of two the prover knows nothing but that they count subsets.
* **Controls** (`ControlsProofs`), for any number of threads, objects, names and exits, however
  deep in each other's callbacks: `MapMatchesControls`, `MessageFourComesInTime`,
  `DataComesUnderItsName`. `ControlsInv` adds to the agreement of map and objects
  * that the keys which threads have taken are below the next one, differ from each other
    and from those of the map (`KeysDiffer`), and that a control being made belongs to one
    thread and is not in the map yet (`MakingOK`): a loop in between leaves it alone, and its
    later registration replaces nothing;
  * that below the top of the main thread's stack there are callbacks only, and that within an
    `efxExit` it is in no other call (`StackOK`): no loop runs within another;
  * how far the loop is: what it has come to is deleted, being deleted, or was late; what is
    deleted is known to the client or its `efxExit` has not returned (`LoopOK`). With this
    `RemoveAll` loses none but late ones, and a call of the main thread, which cannot be
    in a loop, uses none that is deleted;
  * that a careful client hears of every `efxExit`, and that its threads are out of all calls
    before a loop begins and make none until it ends (`CarefulOK`): so none is late.

  `NameInv` says that a control that was last asked alone has at most one name that
  is subscribed, under way or being asked for. So the only call that can change the
  name while there is data of it sets that very name.

The constants' assumptions are the `ASSUME`s of the modules: a table of at least one
slot, positions below 2^31, sizes above 0, and finitely many threads and processes,
of any number; words are of two limbs and vectors of at least two; and every format that
`from_chars` is called with asks for a fixed or a scientific number
(`InputsAssumption`, the presets of `float_common.h:18-29`). The two theorems on the pace
also state the condition on the interval.

Model-checked only, because TLAPS does not reach them:

* everything under fairness: `EveryCallReturns`, `ReturnsUnlessHeldUp`, `RefusalHeals`,
  `WaitEnds`, `QuitEndsLoop`, `ClientEnds`, and the violation of `FiniteWaitReturns`;
* `NearestValue` and `RangeReported` of `FromChars`: that the product with a rounded power of
  ten decides the float correctly is the theorem behind the method, a statement
  on how close a decimal can come to the middle of two floats. It depends on the sizes
  and is checked at those of the run, not true of all;
* `BigintsFit`: it depends on how `BigintLimbs` relates to the digits and exponents of the
  formats. What is proved is that the sums, products and shifts fail for that reason only.
  `pow5` and the digits that `parse_mantissa` adds need powers of five and ten, of which
  the provers know no law; those of two could be had by counting.

## 5. Assumptions, and what is not modelled

* The OCX gives no two unanswered requests of a process the same id and answers
  each accepted request at most once. It may go on with the data of a cancelled name.
* `efxExit` is called by the thread that dispatches, as `DestroyWindow` requires, and
  `DestroyWindow` and `delete` run no code of the client. One operation on the map of controls
  is one step: that `CMap` is not made for two threads at once, and what `GetNextAssoc` finds
  when the map was changed, beyond coming to a new key or not, is outside the model. What
  a client does with handles after an `efxExit` has returned is not followed. A library whose
  `InitInstance` fails is not loaded.
* Of the handles of a command only the write ends are followed: `ExecCmd` returns early
  without closing the read end (lines 449, 460) and those of the process (line 460).
* Buffers have room for the zero at least: with a length of 0 `WideCharToUtf8` writes before
  the buffer (`pch.cpp:11-13`). The buffer of `efxInit` (`EfxMfc.cpp:498`) is not modelled.
* A read may end at each write of no bytes, and may also go beyond it.
* The ANSI code page takes at most two bytes for a unit. Strings end with a zero; the
  calls of `efx.rs` whose strings do not (lines 242, 358) are outside the model.
* The floating-point unit rounds each product once: with `FLT_EVAL_METHOD` other than 0
  or 1 the header takes another path, which a Win32 build with SSE2, the
  compiler's default, does not.
* Closing a handle value of another process (`EfxMfc.cpp:153`) is closing one's own
  handle to the mutex, or none. `g_syncTime` does not start again when all processes
  have ended (`EfxMfc.cpp:16`): the first request of the next process would not be held
  back, and the time that a process takes to start is not in the code.
* Not modelled: `efxLaunchApp` (one call of the system), the wrappers that only
  forward, the content of texts, the double-byte characters at the border of two
  chunks of output, the limit of `MAX_PATH` on a command, a last stock record cut
  short, what a client does with a null parameter. Of fast_float:
  `simple_decimal_conversion.h`, which no file includes, and the variants for wide
  characters, SIMD and 64-bit limbs, which the Win32 build does not compile or call.

## 6. Plan

Done: `ReqIdTable`, `ReqTracking`, `Synchronize`, `SyncClient`, `ExecCmd`, `SharedMutex`,
`MessageLoop`, `StockMaster`, `Texts`, `Controls`, `FromChars` and the modules it stands
on, in this order of weight. Next:

1. Proofs: the laws of powers of five, with which `Pow5` and the digits of
   `DigitComparison` are exact by what is proved of `SmallMul`, `LongMul` and `SmallAddFrom`;
   `Hi64`.
2. A composition of `SharedMutex` and `Synchronize`: a client that got through
   `efxInit` can pace itself, also when the process that made the mutex is gone, and
   the section starting again.
