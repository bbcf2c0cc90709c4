-------------------------------- MODULE Controls --------------------------------
(***************************************************************************)
(* The life of the controls (EfxMfc.cpp, EfxWnd.cpp): the library's own    *)
(* one and those of efxNewControl, the map by which efxExit finds them,    *)
(* and the one name a control remembers for its real-time data.  The main  *)
(* thread dispatches, runs the client's callbacks, in which every function *)
(* may be called again, and calls efxExit; the other threads make controls *)
(* and request real-time data.                                             *)
(*                                                                         *)
(* efxExit holds no lock: between any two of its steps other threads run.  *)
(*                                                                         *)
(* External: whether Create works, whether the control takes a request,    *)
(* the data that still arrives after it was cancelled, and the order in    *)
(* which CMap goes through its keys.                                       *)
(***************************************************************************)
EXTENDS Naturals, FiniteSets, Sequences, SequencesExt

CONSTANTS
    Thread, Main,   \* the threads; the one that dispatches and exits
    Ctrl, Default,  \* the CEfxWnd objects; the one of InitInstance
    QryName,        \* names of real-time queries
    NoName,         \* the text ""
    None,
    MaxRequests,    \* bound: efxRequestRealData calls
    MaxExits,       \* bound: efxExit calls
    MaxDepth        \* bound: callbacks within callbacks

(* The locals of a call: the key of efxNewControl, the control, the name. *)
Locals == [key : Nat \union {None}, made : Ctrl \union {None}, name : QryName \union {None}]

ASSUME ControlsAssumption ==
    /\ Main \in Thread /\ Default \in Ctrl
    /\ NoName \notin QryName
    /\ None \notin Nat /\ None \notin Ctrl /\ None \notin QryName /\ None \notin Locals
    /\ {MaxRequests, MaxExits, MaxDepth} \subseteq Nat

VARIABLES
    m_efxSeqNo,       \* the next key
    m_mapEfxWnd,      \* key -> control
    wnd,              \* per object: none, live, failed (Create), deleted
    windows,          \* the objects whose window there is
    m_fnSysMsg,       \* Default has a callback for system messages
    m_szRealQryName,  \* per control, the name given to its callback
    data,             \* per control and name: off, on, ending (external)
    call,             \* per thread, the call it is in the middle of
    frames,           \* the main thread's stack: the callbacks for data and
                      \* for message 4, and where an efxExit is
    ahead,            \* pos: the keys the loop of OnEfxExit will come to
    pEfxWnd,          \* the control it deletes, between lines 378 and 379
    requests, exits,  \* efxRequestRealData and efxExit calls made so far
    careful,          \* the client stops its threads when message 4 comes
    told,             \* the client has got message 4
    gone,             \* history: deleted by an efxExit that has returned
    misusers,         \* history: the threads that used a deleted control
                      \* before the efxExit had returned
    late,             \* history: controls registered while efxExit deleted
    alone             \* history: per control, no other name of it was
                      \* requested or delivering when it was last asked

registry == <<m_efxSeqNo, m_mapEfxWnd, wnd>>
realTime == <<m_szRealQryName, requests, alone>>
exiting == <<ahead, pEfxWnd, gone>>
client == <<careful, told>>
vars == <<registry, windows, realTime, data, frames, exits, exiting, client,
          m_fnSysMsg, call, misusers, late>>

(* InitInstance.  When one of its steps fails the library is not loaded.   *)
(* A careful client has called efxInit with a callback before all else.    *)
Init ==
    /\ m_efxSeqNo = 2
    /\ m_mapEfxWnd = <<Default>>                    \* its key is 1
    /\ wnd = [c \in Ctrl |-> IF c = Default THEN "live" ELSE "none"]
    /\ windows = {Default}
    /\ m_szRealQryName = [c \in Ctrl |-> NoName]
    /\ data = [c \in Ctrl |-> [q \in QryName |-> "off"]]
    /\ call = [t \in Thread |-> None]
    /\ frames = <<>> /\ requests = 0 /\ exits = 0
    /\ ahead = {} /\ pEfxWnd = None
    /\ careful \in BOOLEAN /\ m_fnSysMsg = careful /\ told = FALSE
    /\ gone = {} /\ misusers = {} /\ late = {}
    /\ alone = [c \in Ctrl |-> TRUE]

(* The main thread runs the client's code: outside of all calls, or in a   *)
(* callback.                                                               *)
At(place) == frames # <<>> /\ Last(frames) = place
MainIsFree == call[Main] = None /\ (frames = <<>> \/ At("data") \/ At("message"))

(* The client's code runs on t, and calls.  A careful client makes no call *)
(* after an efxExit has returned, and when it has got message 4 only those *)
(* of the callback.                                                        *)
ClientRuns(t) ==
    /\ call[t] = None
    /\ t = Main => MainIsFree
    /\ careful => gone = {} /\ (told => t = Main)

Use(t, c) == misusers' = IF wnd[c] = "deleted" /\ c \notin gone THEN misusers \union {t} ELSE misusers

(* t is between Create and the end of efxNewControl. *)
Making(t, c) == call[t] # None /\ call[t].key # None /\ call[t].made = c

(* t is between the request of q and the setting of its name. *)
Asks(t, c, q) == call[t] # None /\ call[t].made = c /\ call[t].name = q

(* The handles the client has and may use: those that efxNewControl has    *)
(* returned, until the efxExit that deletes them has returned.  The use of *)
(* deleted ones after that is not followed.                                *)
Handles == {c \in Ctrl \ {Default} :
              /\ wnd[c] \in {"live", "deleted"} /\ c \notin gone
              /\ \A t \in Thread : ~Making(t, c)}
-------------------------------------------------------------------------------
(* efxInit, as far as the control goes: with a callback or without. *)
SetSysMsgCallback(t, given) ==
    /\ ClientRuns(t)
    /\ careful => given
    /\ m_fnSysMsg' = given
    /\ Use(t, Default)
    /\ UNCHANGED <<registry, windows, realTime, data, frames, exits, exiting, client, call, late>>

(* efxNewControl: takes a key; makes the control; registers it. *)
TakeSeqNo(t) ==
    /\ ClientRuns(t)
    /\ Cardinality({s \in Thread : call[s] # None /\ call[s].key # None /\ call[s].made = None})
         < Cardinality({c \in Ctrl : wnd[c] = "none"})    \* bound: the objects there are
    /\ call' = [call EXCEPT ![t] = [key |-> m_efxSeqNo, made |-> None, name |-> None]]
    /\ m_efxSeqNo' = m_efxSeqNo + 1
    /\ UNCHANGED <<m_mapEfxWnd, wnd, windows, realTime, data, frames, exits, exiting, client,
                   m_fnSysMsg, misusers, late>>

(* The window is one of the main window's, or after an efxExit, which      *)
(* takes that away, one of the client's own.                               *)
CreateControl(t, c) ==
    /\ call[t] # None /\ call[t].key # None /\ call[t].made = None
    /\ wnd[c] = "none"
    /\ wnd' = [wnd EXCEPT ![c] = "live"]
    /\ windows' = windows \union {c}
    /\ call' = [call EXCEPT ![t].made = c]
    /\ UNCHANGED <<m_efxSeqNo, m_mapEfxWnd, realTime, data, frames, exits, exiting, client,
                   m_fnSysMsg, misusers, late>>

(* nullptr is returned and the object forgotten. *)
CreateFails(t, c) ==
    /\ call[t] # None /\ call[t].key # None /\ call[t].made = None
    /\ wnd[c] = "none"
    /\ wnd' = [wnd EXCEPT ![c] = "failed"]
    /\ call' = [call EXCEPT ![t] = None]
    /\ UNCHANGED <<m_efxSeqNo, m_mapEfxWnd, windows, realTime, data, frames, exits, exiting, client,
                   m_fnSysMsg, misusers, late>>

(* SetAt: replaces what has the key already.  The loop of an efxExit that  *)
(* has not found its last key yet may come to a new one, or not.           *)
InsertEfxWnd(t) ==
    LET key == call[t].key
        made == call[t].made
    IN  /\ call[t] # None /\ key # None /\ made # None
        /\ m_mapEfxWnd' = [k \in DOMAIN m_mapEfxWnd \union {key} |->
                             IF k = key THEN made ELSE m_mapEfxWnd[k]]
        /\ ahead' \in {ahead, IF ahead = {} THEN {} ELSE ahead \union {key}}
        /\ late' = IF At("deleting") THEN late \union {made} ELSE late
        /\ call' = [call EXCEPT ![t] = None]
        /\ UNCHANGED <<m_efxSeqNo, wnd, windows, realTime, data, frames, exits, pEfxWnd, gone,
                       client, m_fnSysMsg, misusers>>
-------------------------------------------------------------------------------
(* efxRequestRealData: the control is asked, and may refuse; its name is   *)
(* set whatever it said.                                                   *)
RequestRealData(t, c, q) ==
    /\ ClientRuns(t) /\ c \in Handles /\ requests < MaxRequests
    /\ requests' = requests + 1
    /\ call' = [call EXCEPT ![t] = [key |-> None, made |-> c, name |-> q]]
    /\ data' \in {data, IF c \in windows THEN [data EXCEPT ![c][q] = "on"] ELSE data}
    /\ alone' = [alone EXCEPT ![c] = \A r \in QryName \ {q} :
                      data[c][r] = "off" /\ \A s \in Thread : ~Asks(s, c, r)]
    /\ Use(t, c)
    /\ UNCHANGED <<registry, windows, frames, exits, exiting, client, m_fnSysMsg,
                   m_szRealQryName, late>>

SetRealQryName(t) ==
    /\ call[t] # None /\ call[t].name # None
    /\ m_szRealQryName' = [m_szRealQryName EXCEPT ![call[t].made] = call[t].name]
    /\ Use(t, call[t].made)
    /\ call' = [call EXCEPT ![t] = None]
    /\ UNCHANGED <<registry, windows, data, frames, exits, exiting, client, m_fnSysMsg,
                   requests, alone, late>>

(* Variant of UnrequestRealData: the name goes with the subscription. *)
UnrequestRealDataForgets(t, c, qs) ==
    /\ ClientRuns(t) /\ c \in Handles
    /\ data' = [data EXCEPT ![c] = [q \in QryName |->
                  IF q \in qs /\ @[q] = "on" THEN "ending" ELSE @[q]]]
    /\ m_szRealQryName' = [m_szRealQryName EXCEPT ![c] = IF @ \in qs THEN NoName ELSE @]
    /\ Use(t, c)
    /\ UNCHANGED <<registry, windows, frames, exits, exiting, client, m_fnSysMsg, call,
                   requests, alone, late>>

(* efxUnrequestRealData and efxUnrequestAllRealData: the names whose data  *)
(* shall end; the name of the control stays.                               *)
UnrequestRealData(t, c, qs) ==
    /\ ClientRuns(t) /\ c \in Handles
    /\ data' = [data EXCEPT ![c] = [q \in QryName |->
                  IF q \in qs /\ @[q] = "on" THEN "ending" ELSE @[q]]]
    /\ Use(t, c)
    /\ UNCHANGED <<registry, windows, realTime, frames, exits, exiting, client, m_fnSysMsg,
                   call, late>>

(* The last data of a cancelled name has gone by. *)
DataEnds(c, q) ==
    /\ data[c][q] = "ending"
    /\ data' = [data EXCEPT ![c][q] = "off"]
    /\ UNCHANGED <<registry, windows, realTime, frames, exits, exiting, client, m_fnSysMsg,
                   call, misusers, late>>

(* The main thread dispatches data of q; the client's callback begins. *)
OnReceiveRealData(c, q) ==
    /\ MainIsFree /\ Len(frames) < MaxDepth
    /\ data[c][q] # "off"
    /\ frames' = Append(frames, "data")
    /\ Use(Main, c)
    /\ UNCHANGED <<registry, windows, realTime, data, exits, exiting, client, m_fnSysMsg,
                   call, late>>

CallbackReturns ==
    /\ MainIsFree /\ At("data")
    /\ frames' = Front(frames)
    /\ UNCHANGED <<registry, windows, realTime, data, exits, exiting, client, m_fnSysMsg,
                   call, misusers, late>>
-------------------------------------------------------------------------------
(* Variant of OnEfxExit: message 4 is not sent before the loop. *)
OnEfxExitSilent ==
    /\ ClientRuns(Main) /\ Len(frames) < MaxDepth /\ exits < MaxExits
    /\ exits' = exits + 1
    /\ frames' = Append(frames, "exit") /\ told' = told
    /\ Use(Main, Default)
    /\ UNCHANGED <<registry, windows, realTime, data, exiting, careful, m_fnSysMsg, call, late>>

(* efxExit tells the client through m_pEfxWnd, which is never reset: when  *)
(* the object is deleted already, what it finds there is anything.         *)
OnEfxExit ==
    /\ ClientRuns(Main) /\ Len(frames) < MaxDepth /\ exits < MaxExits
    /\ exits' = exits + 1
    /\ Use(Main, Default)
    /\ \/ /\ m_fnSysMsg \/ wnd[Default] = "deleted"
          /\ frames' = Append(frames, "message") /\ told' = TRUE
       \/ /\ ~m_fnSysMsg \/ wnd[Default] = "deleted"
          /\ frames' = Append(frames, "exit") /\ told' = told
    /\ UNCHANGED <<registry, windows, realTime, data, exiting, careful, m_fnSysMsg, call, late>>

(* The callback has returned, or there was none: the loop begins.  The     *)
(* callback of a careful client returns when its threads have.             *)
GetStartPosition ==
    /\ call[Main] = None
    /\ At("exit") \/ (At("message") /\ (careful => \A t \in Thread : call[t] = None))
    /\ frames' = Append(Front(frames), "deleting")
    /\ ahead' = DOMAIN m_mapEfxWnd
    /\ UNCHANGED <<registry, windows, realTime, data, exits, pEfxWnd, gone, client, m_fnSysMsg,
                   call, misusers, late>>

(* GetNextAssoc, whose order is CMap's, and DestroyWindow. *)
DestroyControl(k) ==
    /\ At("deleting") /\ pEfxWnd = None /\ k \in ahead
    /\ ahead' = ahead \ {k}
    /\ pEfxWnd' = m_mapEfxWnd[k]
    /\ windows' = windows \ {m_mapEfxWnd[k]}
    /\ data' = [data EXCEPT ![m_mapEfxWnd[k]] = [q \in QryName |-> "off"]]
    /\ Use(Main, m_mapEfxWnd[k])
    /\ UNCHANGED <<registry, realTime, frames, exits, gone, client, m_fnSysMsg, call, late>>

DeleteControl ==
    /\ pEfxWnd # None
    /\ wnd' = [wnd EXCEPT ![pEfxWnd] = "deleted"]
    /\ pEfxWnd' = None
    /\ UNCHANGED <<m_efxSeqNo, m_mapEfxWnd, windows, realTime, data, frames, exits, ahead, gone,
                   client, m_fnSysMsg, call, misusers, late>>

(* Variant of RemoveAll: the map is not emptied. *)
RemoveNothing ==
    /\ At("deleting") /\ pEfxWnd = None /\ ahead = {}
    /\ frames' = Append(Front(frames), "closing")
    /\ UNCHANGED <<registry, windows, realTime, data, exits, exiting, client, m_fnSysMsg, call,
                   misusers, late>>

RemoveAll ==
    /\ At("deleting") /\ pEfxWnd = None /\ ahead = {}
    /\ m_mapEfxWnd' = <<>>
    /\ frames' = Append(Front(frames), "closing")
    /\ UNCHANGED <<m_efxSeqNo, wnd, windows, realTime, data, exits, exiting, client, m_fnSysMsg,
                   call, misusers, late>>

(* The first time the main window takes the windows of all its controls    *)
(* with it, and efxExit returns.                                           *)
DestroyMain ==
    /\ At("closing")
    /\ frames' = Front(frames)
    /\ windows' = IF gone = {} THEN {} ELSE windows
    /\ data' = [c \in Ctrl |-> IF c \in windows' THEN data[c] ELSE [q \in QryName |-> "off"]]
    /\ gone' = {c \in Ctrl : wnd[c] = "deleted"}
    /\ UNCHANGED <<registry, realTime, exits, ahead, pEfxWnd, client, m_fnSysMsg, call,
                   misusers, late>>

Next ==
    \/ \E t \in Thread :
        \/ TakeSeqNo(t) \/ InsertEfxWnd(t) \/ SetRealQryName(t)
        \/ \E given \in BOOLEAN : SetSysMsgCallback(t, given)
        \/ \E c \in Ctrl :
            \/ CreateControl(t, c) \/ CreateFails(t, c)
            \/ \E q \in QryName : RequestRealData(t, c, q)
            \/ \E qs \in {{q} : q \in QryName} \union {QryName} : UnrequestRealData(t, c, qs)
    \/ \E c \in Ctrl, q \in QryName : DataEnds(c, q) \/ OnReceiveRealData(c, q)
    \/ CallbackReturns \/ OnEfxExit \/ GetStartPosition
    \/ (\E k \in ahead : DestroyControl(k)) \/ DeleteControl \/ RemoveAll \/ DestroyMain

Spec == Init /\ [][Next]_vars
-------------------------------------------------------------------------------
(* A control has one name for all its data, and sets it after the request, *)
(* whether or not that was taken (EfxMfc.cpp:749-750).  What it delivers   *)
(* comes under its own name all the same, or its own efxRequestRealData    *)
(* has not returned, provided that when the control was last asked no      *)
(* other of its names was subscribed, cancelled and still under way, or    *)
(* just being asked for by another thread: whatever is refused, cancelled  *)
(* or asked again after that, and whatever goes on with other controls.    *)
RealDataNamed ==
    \A c \in Ctrl, q \in QryName :
        alone[c] /\ data[c][q] # "off" =>
            m_szRealQryName[c] = q \/ \E t \in Thread : Asks(t, c, q)

(* The map and the objects agree, however efxExit nests in its own         *)
(* callback and races the making of a control (EfxMfc.cpp:368-383,         *)
(* 627-636).  What an efxExit is still to come to is alive and there only  *)
(* once, so that nothing is deleted twice; and a live control whose        *)
(* efxNewControl has returned is in the map, for the next efxExit to       *)
(* delete, unless it was registered while one was between the start of its *)
(* loop and RemoveAll, which may take it out unseen.  That happens to no   *)
(* client whose threads rest when message 4 has come.                      *)
RegistryMatches ==
    /\ \A k \in IF At("deleting") THEN ahead ELSE DOMAIN m_mapEfxWnd :
          wnd[m_mapEfxWnd[k]] = "live" /\ m_mapEfxWnd[k] # pEfxWnd
    /\ \A j, k \in DOMAIN m_mapEfxWnd : m_mapEfxWnd[j] = m_mapEfxWnd[k] => j = k
    /\ \A c \in Ctrl :
          wnd[c] = "live" =>
              \/ \E t \in Thread : Making(t, c)
              \/ \E k \in DOMAIN m_mapEfxWnd : m_mapEfxWnd[k] = c
              \/ c \in late /\ ~careful

(* Message 4 comes in time: a client that lets its threads finish in that  *)
(* callback and then drops its handles uses no deleted control, nor does   *)
(* the library, not even by an efxExit within the callback of another; and *)
(* until an efxExit has returned the main thread, with its callbacks and   *)
(* exits, never does, whatever the other threads do (EfxMfc.cpp:370-382).  *)
MessageFourInTime == Main \notin misusers /\ (careful => misusers = {})
===============================================================================
