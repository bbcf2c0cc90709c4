----------------------------- MODULE ReqTracking -----------------------------
(***************************************************************************)
(* How an answer finds its request.  Caller threads run efxRequestData and *)
(* efxRequestNextData (EfxMfc.cpp): send through the control, ask it for   *)
(* the id it used, record the id in the process-wide table.  The thread    *)
(* that pumps messages runs CEfxWnd::OnReceiveData: look the id up, hand   *)
(* the client pointers INTO the table.  Nothing is locked, so every access *)
(* of shared state is a step of its own here.                              *)
(*                                                                         *)
(* The control (ITGExpertCtl.ocx) is external: it may refuse a request,    *)
(* answers in any order, gives no id to two unanswered requests, and may   *)
(* use an id again once its answer was delivered.                          *)
(***************************************************************************)
EXTENDS ReqIdTable, FiniteSets

CONSTANTS
    Thread,      \* threads that send requests
    Ctrl,        \* the controls made by efxNewControl
    Programs,    \* the clients: per thread the requests it may make
    Listening,   \* the controls whose m_fnRecvData is not null
    Empty,       \* the text ""
    None         \* no request, no text

(* An unanswered request, as the control knows it. *)
Request == [ctrl : Ctrl, qry : Text, param : Text, at : Nat]

ASSUME TrackingAssumption ==
    /\ IsFiniteSet(Thread)
    /\ Programs \subseteq [Thread -> SUBSET (Ctrl \X (Text \ {Empty}) \X Text)]
    /\ Listening \subseteq Ctrl
    /\ Empty \in Text
    /\ None \notin Text /\ None \notin ReqId /\ None \notin Request

VARIABLES
    program,     \* the client that runs
    sendId,      \* per control, what GetSendRqID returns (external)
    req,         \* per id, the unanswered request that has it (external):
                 \* what was asked where, and at, the position of its item
                 \* in the log, 0 while it is not recorded
    pc, arg,     \* per caller thread, its place in the call and its locals
    pump, look,  \* the pumping thread: its place in OnReceiveData, its locals
    lapped,      \* history: some SetItem got a slot another was still filling
    refused      \* history: a request of a one-thread client was refused

tracking == <<program, sendId, req, pc, arg, pump, look, lapped, refused>>
vars == <<tableVars, tracking>>

Calling(t) == pc[t] # "idle"
(* A client with one thread, like the sample's. *)
Serial == \E t \in Thread : \A u \in Thread \ {t} : program[u] = {}
Filling(t) == pc[t] \in {"reserved", "wroteId", "wroteQry"}

Init ==
    /\ TableInit
    /\ program \in Programs
    /\ sendId = [c \in Ctrl |-> NoId]
    /\ req = [id \in ReqId |-> None]
    /\ pc = [t \in Thread |-> "idle"]
    /\ arg = [t \in Thread |-> None]
    /\ pump = "idle"
    /\ look = None
    /\ lapped = FALSE /\ refused = FALSE

-------------------------------------------------------------------------------
(* RequestData / RequestNextData of the control. *)
Send(t, c, q, p, id) ==
    /\ pc[t] = "idle"
    /\ curPos + Cardinality({u \in Thread : Calling(u)}) < MaxPos
    /\ pc' = [pc EXCEPT ![t] = "sent"]
    /\ arg' = [arg EXCEPT ![t] = [ctrl |-> c, qry |-> q, param |-> p,
                                  given |-> id, id |-> NoId, pos |-> 0]]
    /\ \/ /\ id \in ReqId \ {NoId} /\ req[id] = None
          /\ sendId' = [sendId EXCEPT ![c] = id]
          /\ req' = [req EXCEPT ![id] = [ctrl |-> c, qry |-> q, param |-> p, at |-> 0]]
          /\ UNCHANGED refused
       \/ /\ id = None                       \* the result is not looked at
          /\ refused' = Serial
          /\ UNCHANGED <<sendId, req>>
    /\ UNCHANGED <<tableVars, pump, look, lapped>>

RequestData(t) ==
    \E ask \in program[t], id \in ReqId \union {None} : Send(t, ask[1], ask[2], ask[3], id)

(* As above, but its item is recorded with an empty parameter. *)
RequestNextData(t) ==
    \E ask \in program[t], id \in ReqId \union {None} : Send(t, ask[1], ask[2], Empty, id)

GetSendRqID(t) ==
    /\ pc[t] = "sent"
    /\ pc' = [pc EXCEPT ![t] = "gotId"]
    /\ arg' = [arg EXCEPT ![t].id = sendId[arg[t].ctrl]]
    /\ UNCHANGED <<tableVars, sendId, req, pump, look, lapped, refused>>

(* SetItem, step 1: the interlocked increment that picks the slot. *)
Reserve(t) ==
    /\ pc[t] = "gotId"
    /\ pc' = [pc EXCEPT ![t] = "reserved"]
    /\ arg' = [arg EXCEPT ![t].pos = curPos]
    /\ curPos' = curPos + 1
    /\ log' = Append(log, [reqId |-> arg[t].id, qry |-> arg[t].qry, param |-> arg[t].param])
    /\ lapped' = (lapped \/ \E u \in Thread :
                     Filling(u) /\ SlotOf(arg[u].pos) = SlotOf(curPos))
    /\ UNCHANGED <<table, sendId, req, pump, look, refused>>

(* SetItem, steps 2 to 4: the id, the name, the parameter. *)
WriteId(t) ==
    /\ pc[t] = "reserved"
    /\ pc' = [pc EXCEPT ![t] = "wroteId"]
    /\ table' = [table EXCEPT ![SlotOf(arg[t].pos)].reqId = arg[t].id]
    /\ UNCHANGED <<curPos, log, sendId, req, arg, pump, look, lapped, refused>>

WriteQry(t) ==
    /\ pc[t] = "wroteId"
    /\ pc' = [pc EXCEPT ![t] = "wroteQry"]
    /\ table' = [table EXCEPT ![SlotOf(arg[t].pos)].qry = arg[t].qry]
    /\ UNCHANGED <<curPos, log, sendId, req, arg, pump, look, lapped, refused>>

(* Variant of WriteParam: a missing parameter does not clear the old one. *)
WriteParamKeeps(t) ==
    /\ pc[t] = "wroteQry"
    /\ pc' = [pc EXCEPT ![t] = "idle"]
    /\ table' = IF arg[t].param = Empty THEN table
                ELSE [table EXCEPT ![SlotOf(arg[t].pos)].param = arg[t].param]
    /\ req' = IF arg[t].given = arg[t].id /\ req[arg[t].id] # None
              THEN [req EXCEPT ![arg[t].id].at = arg[t].pos + 1]
              ELSE req
    /\ arg' = [arg EXCEPT ![t] = None]
    /\ UNCHANGED <<curPos, log, sendId, pump, look, lapped, refused>>

(* The call returns; if it recorded the id it was given, the request is *)
(* known to be recorded.                                                *)
WriteParam(t) ==
    /\ pc[t] = "wroteQry"
    /\ pc' = [pc EXCEPT ![t] = "idle"]
    /\ table' = [table EXCEPT ![SlotOf(arg[t].pos)].param = arg[t].param]
    /\ req' = IF arg[t].given = arg[t].id /\ req[arg[t].id] # None
              THEN [req EXCEPT ![arg[t].id].at = arg[t].pos + 1]
              ELSE req
    /\ arg' = [arg EXCEPT ![t] = None]
    /\ UNCHANGED <<curPos, log, sendId, pump, look, lapped, refused>>

-------------------------------------------------------------------------------
(* The request was answered: its id may be given to another one, which a    *)
(* caller that is still recording it must not be taken for (history only). *)
Forget(id) ==
    /\ req' = [req EXCEPT ![id] = None]
    /\ arg' = [t \in Thread |-> IF Calling(t) /\ arg[t].given = id
                                THEN [arg[t] EXCEPT !.given = None] ELSE arg[t]]

(* The answer to id reaches the control while the thread dispatches; the   *)
(* control's window has a callback, so OnReceiveData starts its search.    *)
OnReceiveData(id) ==
    /\ pump = "idle" /\ req[id] # None
    /\ req[id].ctrl \in Listening
    /\ pump' = "search"
    /\ look' = [id |-> id, asked |-> req[id], from |-> curPos,
                pos |-> SlotOf(curPos), turn |-> 0, qry |-> None, param |-> None]
    /\ UNCHANGED <<tableVars, sendId, req, pc, arg, lapped, refused>>

(* No callback for data, or an error answer: no look-up takes place. *)
AnswerWithoutLookup(id) ==
    /\ pump = "idle" /\ req[id] # None
    /\ Forget(id)
    /\ UNCHANGED <<tableVars, sendId, pc, pump, look, lapped, refused>>

(* Variant of SearchTurn: the loop ends one turn early. *)
SearchTurnShort ==
    LET pos == IF look.pos - 1 < 0 THEN TableSize - 1 ELSE look.pos - 1
        hit == table[pos].reqId = look.id
    IN  /\ pump = "search"
        /\ look' = [look EXCEPT !.pos = pos, !.turn = @ + 1]
        /\ pump' = IF hit THEN "found"
                   ELSE IF look.turn + 2 = TableSize THEN "told" ELSE "search"
        /\ UNCHANGED <<tableVars, sendId, req, pc, arg, lapped, refused>>

(* Variant of SearchTurn: looks before it steps back, the oldest item first. *)
SearchTurnOldestFirst ==
    LET pos == IF look.pos - 1 < 0 THEN TableSize - 1 ELSE look.pos - 1
        hit == table[look.pos].reqId = look.id
    IN  /\ pump = "search"
        /\ look' = [look EXCEPT !.pos = IF hit THEN @ ELSE pos, !.turn = @ + 1]
        /\ pump' = IF hit THEN "found"
                   ELSE IF look.turn + 1 = TableSize THEN "told" ELSE "search"
        /\ UNCHANGED <<tableVars, sendId, req, pc, arg, lapped, refused>>

(* One turn of GetItem's loop; after the last one the client is told that *)
(* nothing is known ("" and a null parameter).                            *)
SearchTurn ==
    LET pos == IF look.pos - 1 < 0 THEN TableSize - 1 ELSE look.pos - 1
        hit == table[pos].reqId = look.id
    IN  /\ pump = "search"
        /\ look' = [look EXCEPT !.pos = pos, !.turn = @ + 1]
        /\ pump' = IF hit THEN "found"
                   ELSE IF look.turn + 1 = TableSize THEN "told" ELSE "search"
        /\ UNCHANGED <<tableVars, sendId, req, pc, arg, lapped, refused>>

(* The client reads the texts through the pointers it was given. *)
ReadQry ==
    /\ pump = "found"
    /\ look' = [look EXCEPT !.qry = table[look.pos].qry]
    /\ pump' = "readQry"
    /\ UNCHANGED <<tableVars, sendId, req, pc, arg, lapped, refused>>

ReadParam ==
    /\ pump = "readQry"
    /\ look' = [look EXCEPT !.param = table[look.pos].param]
    /\ pump' = "told"
    /\ UNCHANGED <<tableVars, sendId, req, pc, arg, lapped, refused>>

CallbackReturns ==
    /\ pump = "told"
    /\ pump' = "idle"
    /\ Forget(look.id)
    /\ look' = None
    /\ UNCHANGED <<tableVars, sendId, pc, lapped, refused>>

CallStep(t) == \/ RequestData(t) \/ RequestNextData(t)
               \/ GetSendRqID(t) \/ Reserve(t)
               \/ WriteId(t) \/ WriteQry(t) \/ WriteParam(t)

PumpStep == \/ \E id \in ReqId : OnReceiveData(id) \/ AnswerWithoutLookup(id)
            \/ SearchTurn \/ ReadQry \/ ReadParam \/ CallbackReturns

(* A client with one thread, like the sample's: the calls do not overlap   *)
(* each other or the search, but a callback may send further requests.     *)
InCallback == pump \in {"found", "readQry", "told"}

Next ==
    /\ UNCHANGED program
    /\ \/ PumpStep /\ (Serial => \A t \in Thread : ~Calling(t))
       \/ \E t \in Thread : CallStep(t) /\ (Serial => pump = "idle" \/ InCallback)

Spec == Init /\ [][Next]_vars

-------------------------------------------------------------------------------
(* The table with the items that are being filled already complete: each *)
(* SetItem seen as one step, its interlocked increment.                  *)
AsIfFilled ==
    [s \in Slots |->
        IF \E t \in Thread : Filling(t) /\ SlotOf(arg[t].pos) = s
        THEN log[1 + arg[CHOOSE t \in Thread : Filling(t) /\ SlotOf(arg[t].pos) = s].pos]
        ELSE table[s]]

Atomic == INSTANCE ReqIdTable WITH table <- AsIfFilled

(* However the SetItem calls of several threads interleave, the table is   *)
(* what atomic calls would have made of it, in the order of the            *)
(* interlocked increments, as long as no SetItem is overtaken by a whole   *)
(* round of the ring (EfxWnd.h:29-38 without a lock).                      *)
SetItemLinearizes ==
    [][lapped' \/ UNCHANGED Atomic!tableVars \/ Atomic!TableNext]_vars

(* What the texts of a callback must be for the answer to be its own. *)
ToldOwn == look.qry = look.asked.qry /\ look.param = look.asked.param
ToldNothing == look.qry = None

(* No other item was set for the id of the answer within a round of the    *)
(* ring before or since; at + 1 .. Len(log) are the later ones.            *)
OnlyItemOfId ==
    \A n \in 1 .. Len(log) :
        (n # look.asked.at /\ n > look.asked.at - TableSize) => log[n].reqId # look.id

(* With any number of threads: the client is told its own name and         *)
(* parameter if efxRequestData had returned before the answer was          *)
(* dispatched, the ring has not come round to the item since, and no other *)
(* request used the id.  Every one of these conditions can fail, and then  *)
(* the client may be told the texts of another request.                    *)
RecordedAnswerIsOwn ==
    (/\ pump = "told" /\ look.asked.at > 0 /\ ~lapped
     /\ Len(log) - look.asked.at < TableSize
     /\ OnlyItemOfId) => ToldOwn

(* A one-thread client whose requests are never refused is told the texts  *)
(* of its own request, or nothing when TableSize requests were recorded    *)
(* since then; never those of another request, also when ids come back.    *)
(* The exception is a callback that itself sends so many requests that the *)
(* ring comes round under the pointers it was given (EfxWnd.cpp:62-73).    *)
SerialAnswerIsOwn ==
    Serial /\ pump = "told" /\ ~refused =>
        \/ ToldOwn
        \/ ToldNothing /\ look.from - look.asked.at >= TableSize
        \/ look.from - look.asked.at < TableSize /\ Len(log) - look.asked.at >= TableSize

(* A refused request records the id of the control's last accepted one     *)
(* again, under its own texts (EfxMfc.cpp:722-724).  For a one-thread      *)
(* client the answer then comes with the texts of the call that last       *)
(* recorded its id, whole and never mixed with another's, and with nothing *)
(* only if the ring has come round to that item.                           *)
SerialAnswerIsLatest ==
    Serial /\ pump = "told" =>
        \E n \in look.asked.at .. look.from :
            /\ n > 0 /\ log[n].reqId = look.id
            /\ \A m \in n + 1 .. look.from : log[m].reqId # look.id
            /\ \/ look.qry = log[n].qry /\ look.param = log[n].param
               \/ ToldNothing /\ look.from - n >= TableSize
               \/ look.from - n < TableSize /\ Len(log) - n >= TableSize
===============================================================================
