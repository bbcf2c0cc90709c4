----------------------------- MODULE ControlsProofs -----------------------------
(***************************************************************************)
(* Proofs about Controls for any number of threads, objects and exits: the *)
(* map of the library and the objects that are alive agree, nothing that   *)
(* is deleted is used by a client that stops in time, and real-time data   *)
(* comes under its name.                                                   *)
(***************************************************************************)
EXTENDS Controls, SequenceTheorems, TLAPS

States == {"none", "live", "failed", "deleted"}
Places == {"data", "message", "exit", "deleting", "closing"}

(* The types, and the keys that are taken: each is below the next one. *)
KeysOK ==
    /\ m_efxSeqNo \in Nat
    /\ wnd \in [Ctrl -> States]
    /\ call \in [Thread -> Locals \union {None}]
    /\ m_mapEfxWnd \in [DOMAIN m_mapEfxWnd -> Ctrl]
    /\ \A k \in DOMAIN m_mapEfxWnd : k \in Nat /\ k < m_efxSeqNo

(* t has taken a key for a control. *)
HasKey(t) == call[t] # None /\ call[t].key # None

(* No two threads have the same key, and none has one of the map; a call   *)
(* that has a key is no request for data.                                  *)
KeysDiffer ==
    \A t \in Thread : HasKey(t) =>
        /\ call[t].name = None
        /\ call[t].key < m_efxSeqNo /\ call[t].key \notin DOMAIN m_mapEfxWnd
        /\ \A s \in Thread \ {t} : HasKey(s) => call[s].key # call[t].key

Registered == {m_mapEfxWnd[k] : k \in DOMAIN m_mapEfxWnd}

(* A control that is being made is alive, not in the map, and one's own. *)
MakingOK ==
    \A t \in Thread, c \in Ctrl : Making(t, c) =>
        /\ wnd[c] = "live" /\ c \notin Registered
        /\ \A s \in Thread \ {t} : ~Making(s, c)

(* Below the top of its stack the main thread is in callbacks; within an   *)
(* efxExit it is in no other call.                                         *)
StackOK ==
    /\ frames \in Seq(Places)
    /\ \A i \in 1 .. Len(frames) - 1 : frames[i] \in {"data", "message"}
    /\ At("exit") \/ At("deleting") \/ At("closing") => call[Main] = None

(* Where the loop of efxExit is: what it has come to is deleted, or being  *)
(* deleted, or was put in so late that it was missed; what is deleted is   *)
(* known to the client, or the efxExit has not returned.                   *)
LoopOK ==
    /\ \A k \in DOMAIN m_mapEfxWnd : wnd[m_mapEfxWnd[k]] \in {"live", "deleted"}
    /\ ~At("deleting") => ahead = {} /\ pEfxWnd = None
    /\ ahead \subseteq DOMAIN m_mapEfxWnd
    /\ At("deleting") => \A k \in DOMAIN m_mapEfxWnd \ ahead :
          \/ wnd[m_mapEfxWnd[k]] = "deleted"
          \/ m_mapEfxWnd[k] = pEfxWnd
          \/ m_mapEfxWnd[k] \in late
    /\ pEfxWnd # None =>
          /\ pEfxWnd \in Ctrl /\ wnd[pEfxWnd] = "live"
          /\ \E k \in DOMAIN m_mapEfxWnd : m_mapEfxWnd[k] = pEfxWnd
    /\ \A c \in Ctrl : wnd[c] = "deleted" => c \in gone \/ At("deleting") \/ At("closing")

(* A careful client hears of every efxExit, and its threads are out of all *)
(* calls before the loop begins.                                           *)
CarefulOK ==
    careful =>
        /\ m_fnSysMsg /\ late = {} /\ ~At("exit")
        /\ \A i \in 1 .. Len(frames) : frames[i] # "data" => told
        /\ At("deleting") \/ At("closing") => \A t \in Thread : call[t] = None

ControlsInv ==
    KeysOK /\ KeysDiffer /\ MakingOK /\ StackOK /\ LoopOK /\ CarefulOK /\ RegistryMatches

LEMMA InitInv == Init => ControlsInv
<1> SUFFICES ASSUME Init PROVE ControlsInv
  OBVIOUS
<1>1. /\ m_mapEfxWnd = <<Default>> /\ m_efxSeqNo = 2
      /\ DOMAIN m_mapEfxWnd = {1} /\ m_mapEfxWnd[1] = Default
      /\ \A t \in Thread : call[t] = None
      /\ Default \in Ctrl /\ Main \in Thread /\ None \notin Ctrl
  BY ControlsAssumption DEF Init
<1>2. frames = <<>> /\ \A p : ~At(p)
  BY DEF Init, At
<1>3. KeysOK
  BY <1>1 DEF Init, KeysOK, States
<1>4. KeysDiffer /\ MakingOK
  BY <1>1 DEF KeysDiffer, MakingOK, HasKey, Making
<1>5. StackOK
  BY <1>2 DEF StackOK
<1>6. LoopOK
  BY <1>1, <1>2 DEF Init, LoopOK
<1>7. CarefulOK
  BY <1>2 DEF Init, CarefulOK
<1>8. RegistryMatches
  BY <1>1, <1>2 DEF Init, RegistryMatches, Making
<1> QED
  BY <1>3, <1>4, <1>5, <1>6, <1>7, <1>8 DEF ControlsInv

-------------------------------------------------------------------------------
(* The stack. *)
LEMMA FrontIs ==
    ASSUME NEW S, NEW s \in Seq(S), s # <<>>
    PROVE  /\ Len(s) \in Nat \ {0} /\ Len(Front(s)) = Len(s) - 1
           /\ Front(s) \in Seq(S)
           /\ \A i \in 1 .. Len(s) - 1 : Front(s)[i] = s[i]
<1>1. Len(s) \in Nat \ {0} /\ \A i \in 1 .. Len(s) : s[i] \in S
  OBVIOUS
<1>2. \A i \in 1 .. Len(s) - 1 : s[i] \in S
  BY <1>1
<1> DEFINE n == Len(s) - 1
<1>3. n \in Int /\ n >= 0 /\ \A i \in 1 .. n : s[i] \in S
  BY <1>1, <1>2
<1> HIDE DEF n
<1>4. /\ SubSeq(s, 1, n) \in Seq(S)
      /\ Len(SubSeq(s, 1, n)) = n
      /\ \A i \in 1 .. n : SubSeq(s, 1, n)[i] = s[i]
  <2>1. /\ SubSeq(s, 1, n) \in Seq(S)
        /\ Len(SubSeq(s, 1, n)) = IF 1 <= n THEN n - 1 + 1 ELSE 0
        /\ \A i \in 1 .. n - 1 + 1 : SubSeq(s, 1, n)[i] = s[1 + i - 1]
    BY <1>3, SubSeqProperties
  <2> QED
    BY <1>3, <2>1
<1> QED
  BY <1>1, <1>4 DEF Front, n

LEMMA FreeMain ==
    ASSUME MainIsFree
    PROVE  ~At("exit") /\ ~At("deleting") /\ ~At("closing")
BY DEF MainIsFree, At

(* A callback or an efxExit begins. *)
LEMMA Pushed ==
    ASSUME StackOK, MainIsFree, NEW p \in Places, frames' = Append(frames, p)
    PROVE  /\ frames' \in Seq(Places) /\ Len(frames') = Len(frames) + 1 /\ Len(frames) \in Nat
           /\ \A i \in 1 .. Len(frames') - 1 : frames'[i] = frames[i] /\ frames'[i] \in {"data", "message"}
           /\ frames'[Len(frames')] = p
           /\ At(p)' /\ \A q : At(q)' => q = p
<1>1. /\ frames' \in Seq(Places) /\ Len(frames') = Len(frames) + 1 /\ Len(frames) \in Nat
      /\ \A i \in 1 .. Len(frames) : frames'[i] = frames[i]
      /\ frames'[Len(frames')] = p
      /\ frames' # <<>>
  BY DEF StackOK
<1>2. \A i \in 1 .. Len(frames) : frames[i] \in {"data", "message"}
  <2>1. frames = <<>> \/ frames[Len(frames)] \in {"data", "message"}
    BY DEF MainIsFree, At, Last
  <2> QED
    BY <1>1, <2>1 DEF StackOK
<1>3. At(p)' /\ \A q : At(q)' => q = p
  BY <1>1 DEF At, Last
<1> QED
  BY <1>1, <1>2, <1>3

(* The efxExit on top goes on. *)
LEMMA Turned ==
    ASSUME StackOK, frames # <<>>, NEW p \in Places, frames' = Append(Front(frames), p)
    PROVE  /\ frames' \in Seq(Places) /\ Len(frames') = Len(frames) /\ Len(frames) \in Nat \ {0}
           /\ \A i \in 1 .. Len(frames') - 1 : frames'[i] = frames[i] /\ frames'[i] \in {"data", "message"}
           /\ frames'[Len(frames')] = p
           /\ At(p)' /\ \A q : At(q)' => q = p
<1> DEFINE f == Front(frames)
<1>1. /\ Len(frames) \in Nat \ {0} /\ Len(f) = Len(frames) - 1 /\ f \in Seq(Places)
      /\ \A i \in 1 .. Len(frames) - 1 : f[i] = frames[i]
  BY FrontIs DEF StackOK
<1> HIDE DEF f
<1>2. /\ frames' = Append(f, p)
      /\ frames' \in Seq(Places) /\ Len(frames') = Len(frames)
      /\ \A i \in 1 .. Len(frames) - 1 : frames'[i] = f[i]
      /\ frames'[Len(frames')] = p
      /\ frames' # <<>>
  BY <1>1 DEF f
<1>3. At(p)' /\ \A q : At(q)' => q = p
  BY <1>2 DEF At, Last
<1> QED
  BY <1>1, <1>2, <1>3 DEF StackOK

(* A callback or an efxExit has returned. *)
LEMMA Popped ==
    ASSUME StackOK, frames # <<>>, frames' = Front(frames)
    PROVE  /\ frames' \in Seq(Places) /\ Len(frames') = Len(frames) - 1 /\ Len(frames) \in Nat \ {0}
           /\ \A i \in 1 .. Len(frames') : frames'[i] = frames[i] /\ frames'[i] \in {"data", "message"}
           /\ \A q : At(q)' => q \in {"data", "message"}
<1>1. /\ Len(frames) \in Nat \ {0} /\ Len(frames') = Len(frames) - 1 /\ frames' \in Seq(Places)
      /\ \A i \in 1 .. Len(frames) - 1 : frames'[i] = frames[i]
  BY FrontIs DEF StackOK
<1>2. \A i \in 1 .. Len(frames') : frames'[i] \in {"data", "message"}
  BY <1>1 DEF StackOK
<1>3. \A q : At(q)' => q \in {"data", "message"}
  <2>1. frames' # <<>> => Len(frames') \in 1 .. Len(frames')
    BY <1>1
  <2> QED
    BY <1>2, <2>1 DEF At, Last
<1> QED
  BY <1>1, <1>2, <1>3

-------------------------------------------------------------------------------
(* No call runs while the main thread is in the loop or the end of an      *)
(* efxExit: none of its own, and none of a careful client.                 *)
LEMMA OutOfLoop ==
    ASSUME ControlsInv, NEW t \in Thread, call[t] # None \/ ClientRuns(t), t = Main \/ careful
    PROVE  ~At("deleting") /\ ~At("closing")
<1> SUFFICES ASSUME At("deleting") \/ At("closing") PROVE FALSE
  OBVIOUS
<1>1. CASE t = Main
  BY <1>1, FreeMain DEF ClientRuns, ControlsInv, StackOK
<1>2. CASE careful
  <2>1. call[t] = None
    BY <1>2 DEF ControlsInv, CarefulOK
  <2>2. told
    <3>1. /\ frames # <<>> /\ frames[Len(frames)] # "data"
          /\ Len(frames) \in 1 .. Len(frames)
      BY DEF At, Last, ControlsInv, StackOK
    <3> QED
      BY <1>2, <3>1 DEF ControlsInv, CarefulOK
  <2>3. ~ClientRuns(t)
    BY <1>2, <2>2, FreeMain DEF ClientRuns
  <2> QED
    BY <2>1, <2>3
<1> QED
  BY <1>1, <1>2

(* What a step may do to the calls without making or losing a key. *)
LEMMA OtherInv ==
    ASSUME ControlsInv, UNCHANGED <<registry, frames, exiting, client, late>>,
           careful => m_fnSysMsg',
           call' \in [Thread -> Locals \union {None}],
           \A s \in Thread : HasKey(s) => call'[s] = call[s],
           \A s \in Thread : call'[s] = call[s] \/ call'[s] = None \/ call'[s].key = None,
           \A s \in Thread : call'[s] = call[s] \/ call'[s] = None \/ ClientRuns(s)
    PROVE  ControlsInv'
<1>1. \A t \in Thread : /\ HasKey(t)' <=> HasKey(t)
                        /\ HasKey(t) => call'[t] = call[t]
  BY DEF HasKey
<1>2. \A t \in Thread, c \in Ctrl : Making(t, c)' <=> Making(t, c)
  BY <1>1 DEF HasKey, Making
<1>3. \A p : At(p)' <=> At(p)
  BY DEF At
<1>4. KeysOK'
  BY DEF ControlsInv, KeysOK, registry
<1>5. KeysDiffer'
  BY <1>1 DEF ControlsInv, KeysDiffer, registry
<1>6. MakingOK'
  BY <1>2 DEF ControlsInv, MakingOK, Registered, registry
<1>7. StackOK'
  <2>1. ASSUME At("exit") \/ At("deleting") \/ At("closing")
        PROVE  call'[Main] = None
    <3>1. call[Main] = None /\ Main \in Thread
      BY <2>1, ControlsAssumption DEF ControlsInv, StackOK
    <3>2. ~ClientRuns(Main)
      BY <2>1, FreeMain DEF ClientRuns
    <3> QED
      BY <3>1, <3>2
  <2> QED
    BY <1>3, <2>1 DEF ControlsInv, StackOK
<1>8. LoopOK'
  BY <1>3 DEF ControlsInv, LoopOK, registry, exiting
<1>9. CarefulOK'
  <2>1. ASSUME careful, At("deleting") \/ At("closing"), NEW t \in Thread
        PROVE  call'[t] = None
    <3>1. call[t] = None
      BY <2>1 DEF ControlsInv, CarefulOK
    <3>2. ~ClientRuns(t)
      BY <2>1, OutOfLoop
    <3> QED
      BY <3>1, <3>2
  <2> QED
    BY <1>3, <2>1 DEF ControlsInv, CarefulOK, client
<1>10. RegistryMatches'
  BY <1>2, <1>3 DEF ControlsInv, RegistryMatches, registry, exiting, client
<1> QED
  BY <1>4, <1>5, <1>6, <1>7, <1>8, <1>9, <1>10 DEF ControlsInv

(* What does not disturb the stack, the loop and the careful client: steps *)
(* of other threads, and of the main thread when it runs the client.       *)
LEMMA CallKeeps ==
    ASSUME ControlsInv, UNCHANGED <<frames, client, m_fnSysMsg>>, NEW t \in Thread,
           NEW l, call' = [call EXCEPT ![t] = l],
           call[t] # None \/ ClientRuns(t)
    PROVE  /\ StackOK' /\ \A p : At(p)' <=> At(p)
           /\ careful => ~At("deleting") /\ ~At("closing")
           /\ careful /\ late' = late => CarefulOK'
<1>1. \A p : At(p)' <=> At(p)
  BY DEF At
<1>2. call \in [Thread -> Locals \union {None}] /\ Main \in Thread
  BY ControlsAssumption DEF ControlsInv, KeysOK
<1>3. StackOK'
  <2>1. ASSUME At("exit") \/ At("deleting") \/ At("closing")
        PROVE  call'[Main] = None
    <3>1. call[Main] = None
      BY <2>1 DEF ControlsInv, StackOK
    <3>2. ~ClientRuns(Main)
      BY <2>1, FreeMain DEF ClientRuns
    <3> QED
      BY <1>2, <3>1, <3>2
  <2> QED
    BY <1>1, <2>1 DEF ControlsInv, StackOK
<1>4. careful => ~At("deleting") /\ ~At("closing")
  BY OutOfLoop
<1>5. careful /\ late' = late => CarefulOK'
  BY <1>1, <1>4 DEF ControlsInv, CarefulOK, client
<1> QED
  BY <1>1, <1>3, <1>4, <1>5

-------------------------------------------------------------------------------
LEMMA TakeSeqNoInv ==
    ASSUME ControlsInv, NEW t \in Thread, TakeSeqNo(t)
    PROVE  ControlsInv'
<1> DEFINE locals == [key |-> m_efxSeqNo, made |-> None, name |-> None]
<1>1. /\ call' = [call EXCEPT ![t] = locals] /\ m_efxSeqNo' = m_efxSeqNo + 1
      /\ call[t] = None /\ UNCHANGED <<m_mapEfxWnd, wnd, frames, exiting, client, m_fnSysMsg, late>>
      /\ ClientRuns(t)
      /\ m_efxSeqNo \in Nat /\ call \in [Thread -> Locals \union {None}]
  BY DEF TakeSeqNo, ClientRuns, ControlsInv, KeysOK
<1>2. locals \in Locals /\ locals.key = m_efxSeqNo /\ locals.made = None /\ locals.name = None
  BY <1>1 DEF Locals
<1>3. /\ call'[t] = locals /\ \A s \in Thread \ {t} : call'[s] = call[s]
      /\ call' \in [Thread -> Locals \union {None}]
  BY <1>1, <1>2
<1> HIDE DEF locals
<1>4. \A s \in Thread, c \in Ctrl : Making(s, c)' <=> Making(s, c)
  BY <1>1, <1>2, <1>3, ControlsAssumption DEF Making
<1>5. KeysOK'
  BY <1>1, <1>3 DEF ControlsInv, KeysOK
<1>6. KeysDiffer'
  <2>1. ASSUME NEW s \in Thread, HasKey(s), s # t
        PROVE  call[s].key \in Nat /\ call[s].key < m_efxSeqNo
    BY <2>1, <1>1 DEF ControlsInv, KeysDiffer, HasKey, Locals
  <2>2. \A s \in Thread \ {t} : HasKey(s)' <=> HasKey(s)
    BY <1>3 DEF HasKey
  <2>3. m_efxSeqNo \notin DOMAIN m_mapEfxWnd
    BY <1>1 DEF ControlsInv, KeysOK
  <2>4. ASSUME NEW s \in Thread, s # t, HasKey(s)'
        PROVE  /\ call'[s].name = None /\ call'[s].key \in Nat
               /\ call'[s].key < m_efxSeqNo /\ call'[s].key \notin DOMAIN m_mapEfxWnd
    BY <2>1, <2>2, <2>4, <1>3 DEF ControlsInv, KeysDiffer
  <2>5. ASSUME NEW s \in Thread, NEW r \in Thread, s # t, r # t, s # r, HasKey(s)', HasKey(r)'
        PROVE  call'[s].key # call'[r].key
    BY <2>2, <2>5, <1>3 DEF ControlsInv, KeysDiffer
  <2>6. ASSUME NEW s \in Thread, s # t, HasKey(s)'
        PROVE  /\ call'[s].key < m_efxSeqNo' /\ call'[s].key # call'[t].key
               /\ call'[s].key \notin DOMAIN m_mapEfxWnd'
    BY <2>6, <2>4, <1>1, <1>2, <1>3
  <2>7. /\ call'[t].key < m_efxSeqNo' /\ call'[t].name = None
        /\ call'[t].key \notin DOMAIN m_mapEfxWnd'
    BY <2>3, <1>1, <1>2, <1>3
  <2> QED
    BY <2>4, <2>5, <2>6, <2>7 DEF KeysDiffer
<1>7. MakingOK'
  BY <1>1, <1>4 DEF ControlsInv, MakingOK, Registered
<1>8. /\ StackOK' /\ CarefulOK'
      /\ \A p : At(p)' <=> At(p)
  BY <1>1, CallKeeps DEF CarefulOK, client
<1>9. LoopOK'
  BY <1>1, <1>8 DEF ControlsInv, LoopOK, exiting
<1>10. RegistryMatches'
  BY <1>1, <1>4, <1>8 DEF ControlsInv, RegistryMatches, exiting, client
<1> QED
  BY <1>5, <1>6, <1>7, <1>8, <1>9, <1>10 DEF ControlsInv

LEMMA CreateControlInv ==
    ASSUME ControlsInv, NEW t \in Thread, NEW c \in Ctrl, CreateControl(t, c)
    PROVE  ControlsInv'
<1> DEFINE locals == [call[t] EXCEPT !.made = c]
<1>1. /\ HasKey(t) /\ call[t].made = None /\ wnd[c] = "none"
      /\ wnd' = [wnd EXCEPT ![c] = "live"]
      /\ call' = [call EXCEPT ![t] = locals]
      /\ UNCHANGED <<m_efxSeqNo, m_mapEfxWnd, frames, exiting, client, m_fnSysMsg, late>>
      /\ call \in [Thread -> Locals \union {None}] /\ wnd \in [Ctrl -> States]
  BY DEF CreateControl, HasKey, ControlsInv, KeysOK
<1>2. call[t] \in Locals /\ call[t] # None
  BY <1>1 DEF HasKey
<1>3. /\ call'[t] \in Locals
      /\ call'[t].key = call[t].key /\ call'[t].made = c /\ call'[t].name = call[t].name
      /\ \A s \in Thread \ {t} : call'[s] = call[s]
      /\ call' \in [Thread -> Locals \union {None}]
  <2>1. locals \in Locals /\ locals.key = call[t].key /\ locals.made = c /\ locals.name = call[t].name
    BY <1>2 DEF Locals
  <2> HIDE DEF locals
  <2> QED
    BY <1>1, <2>1
<1>4. \A s \in Thread : HasKey(s)' <=> HasKey(s)
  BY <1>1, <1>3, ControlsAssumption DEF HasKey
<1>5. /\ \A s \in Thread \ {t}, d \in Ctrl : Making(s, d)' <=> Making(s, d)
      /\ \A d \in Ctrl : Making(t, d)' <=> d = c
      /\ \A s \in Thread : ~Making(s, c)
      /\ \A d \in Ctrl : ~Making(t, d)
  BY <1>1, <1>3, <1>4, ControlsAssumption DEF Making, HasKey, ControlsInv, MakingOK
<1>6. c \notin Registered /\ Registered' = Registered
  BY <1>1 DEF ControlsInv, LoopOK, Registered
<1>7. KeysOK'
  BY <1>1, <1>3 DEF ControlsInv, KeysOK, States
<1>8. KeysDiffer'
  BY <1>1, <1>3, <1>4 DEF ControlsInv, KeysDiffer
<1>9. MakingOK'
  BY <1>1, <1>5, <1>6 DEF ControlsInv, MakingOK
<1> HIDE DEF locals
<1>10. /\ StackOK' /\ CarefulOK'
       /\ \A p : At(p)' <=> At(p)
  BY <1>1, <1>2, CallKeeps DEF CarefulOK, client
<1>11. \A d \in Ctrl : d # c => wnd'[d] = wnd[d]
  BY <1>1
<1>12. /\ \A k \in DOMAIN m_mapEfxWnd : m_mapEfxWnd[k] \in Ctrl /\ m_mapEfxWnd[k] # c
       /\ pEfxWnd # c /\ wnd'[c] = "live" /\ ahead \subseteq DOMAIN m_mapEfxWnd
  BY <1>1, <1>6, ControlsAssumption DEF ControlsInv, KeysOK, LoopOK, Registered
<1>13. LoopOK'
  BY <1>1, <1>10, <1>11, <1>12 DEF ControlsInv, LoopOK, exiting
<1>14. RegistryMatches'
  BY <1>1, <1>5, <1>10, <1>11, <1>12 DEF ControlsInv, RegistryMatches, exiting, client
<1> QED
  BY <1>7, <1>8, <1>9, <1>10, <1>13, <1>14 DEF ControlsInv

LEMMA CreateFailsInv ==
    ASSUME ControlsInv, NEW t \in Thread, NEW c \in Ctrl, CreateFails(t, c)
    PROVE  ControlsInv'
<1>1. /\ HasKey(t) /\ call[t].made = None /\ wnd[c] = "none" /\ call[t] # None
      /\ wnd' = [wnd EXCEPT ![c] = "failed"]
      /\ call' = [call EXCEPT ![t] = None]
      /\ UNCHANGED <<m_efxSeqNo, m_mapEfxWnd, frames, exiting, client, m_fnSysMsg, late>>
      /\ call \in [Thread -> Locals \union {None}] /\ wnd \in [Ctrl -> States]
  BY DEF CreateFails, HasKey, ControlsInv, KeysOK
<1>2. /\ call'[t] = None /\ \A s \in Thread \ {t} : call'[s] = call[s]
      /\ call' \in [Thread -> Locals \union {None}]
  BY <1>1
<1>3. /\ \A s \in Thread, d \in Ctrl : Making(s, d)' <=> Making(s, d)
      /\ \A s \in Thread : ~Making(s, c)
  BY <1>1, <1>2, ControlsAssumption DEF Making, HasKey, ControlsInv, MakingOK
<1>4. c \notin Registered /\ Registered' = Registered
  BY <1>1 DEF ControlsInv, LoopOK, Registered
<1>5. KeysOK'
  BY <1>1, <1>2 DEF ControlsInv, KeysOK, States
<1>6. KeysDiffer'
  BY <1>1, <1>2 DEF ControlsInv, KeysDiffer, HasKey
<1>7. MakingOK'
  BY <1>1, <1>3, <1>4 DEF ControlsInv, MakingOK
<1>8. /\ StackOK' /\ CarefulOK'
      /\ \A p : At(p)' <=> At(p)
  BY <1>1, CallKeeps DEF CarefulOK, client
<1>9. \A d \in Ctrl : d # c => wnd'[d] = wnd[d]
  BY <1>1
<1>10. /\ \A k \in DOMAIN m_mapEfxWnd : m_mapEfxWnd[k] \in Ctrl /\ m_mapEfxWnd[k] # c
       /\ pEfxWnd # c /\ wnd'[c] = "failed" /\ ahead \subseteq DOMAIN m_mapEfxWnd
  BY <1>1, <1>4, ControlsAssumption DEF ControlsInv, KeysOK, LoopOK, Registered
<1>11. LoopOK'
  BY <1>1, <1>8, <1>9, <1>10 DEF ControlsInv, LoopOK, exiting
<1>12. RegistryMatches'
  BY <1>1, <1>3, <1>8, <1>9, <1>10 DEF ControlsInv, RegistryMatches, exiting, client
<1> QED
  BY <1>5, <1>6, <1>7, <1>8, <1>11, <1>12 DEF ControlsInv

LEMMA InsertInv ==
    ASSUME ControlsInv, NEW t \in Thread, InsertEfxWnd(t)
    PROVE  ControlsInv'
<1> DEFINE key == call[t].key
           made == call[t].made
<1>1. /\ HasKey(t) /\ made # None /\ call[t] # None
      /\ m_mapEfxWnd' = [k \in DOMAIN m_mapEfxWnd \union {key} |->
                           IF k = key THEN made ELSE m_mapEfxWnd[k]]
      /\ call' = [call EXCEPT ![t] = None]
      /\ ahead' \in {ahead, IF ahead = {} THEN {} ELSE ahead \union {key}}
      /\ late' = IF At("deleting") THEN late \union {made} ELSE late
      /\ UNCHANGED <<m_efxSeqNo, wnd, frames, pEfxWnd, gone, client, m_fnSysMsg>>
      /\ call \in [Thread -> Locals \union {None}]
  BY DEF InsertEfxWnd, HasKey, ControlsInv, KeysOK
<1>2. /\ key \in Nat /\ key < m_efxSeqNo /\ key \notin DOMAIN m_mapEfxWnd
      /\ made \in Ctrl /\ Making(t, made)
  BY <1>1 DEF HasKey, Locals, Making, ControlsInv, KeysDiffer
<1>3. /\ wnd[made] = "live" /\ made \notin Registered
      /\ \A s \in Thread \ {t} : ~Making(s, made)
  BY <1>2 DEF ControlsInv, MakingOK
<1>4. /\ call'[t] = None /\ \A s \in Thread \ {t} : call'[s] = call[s]
      /\ call' \in [Thread -> Locals \union {None}]
  BY <1>1
<1>5. /\ StackOK' /\ \A p : At(p)' <=> At(p)
      /\ careful => ~At("deleting") /\ ~At("closing")
      /\ careful /\ late' = late => CarefulOK'
  BY <1>1, CallKeeps
<1> HIDE DEF key, made
<1>6. CarefulOK'
  BY <1>1, <1>5 DEF CarefulOK, client
<1>7. /\ DOMAIN m_mapEfxWnd' = DOMAIN m_mapEfxWnd \union {key}
      /\ m_mapEfxWnd'[key] = made
      /\ \A k \in DOMAIN m_mapEfxWnd : m_mapEfxWnd'[k] = m_mapEfxWnd[k]
      /\ Registered' = Registered \union {made}
  BY <1>1, <1>2 DEF Registered
<1>8. /\ \A s \in Thread \ {t}, d \in Ctrl : Making(s, d)' <=> Making(s, d)
      /\ \A d \in Ctrl : ~Making(t, d)'
  BY <1>4 DEF Making
<1>9. \A d \in Ctrl : Making(t, d) => d = made
  BY DEF Making, made
<1>10. KeysOK'
  BY <1>1, <1>2, <1>4, <1>7 DEF ControlsInv, KeysOK
<1>11. KeysDiffer'
  BY <1>1, <1>4, <1>7 DEF ControlsInv, KeysDiffer, HasKey, key
<1>12. MakingOK'
  BY <1>1, <1>3, <1>7, <1>8 DEF ControlsInv, MakingOK
<1>13. /\ \A k \in DOMAIN m_mapEfxWnd : m_mapEfxWnd[k] # made
       /\ pEfxWnd # made
       /\ ahead \subseteq DOMAIN m_mapEfxWnd
  BY <1>2, <1>3, ControlsAssumption DEF ControlsInv, LoopOK, Registered
<1>14. /\ ahead \subseteq ahead' /\ ahead' \subseteq ahead \union {key}
       /\ ahead = {} => ahead' = {}
  BY <1>1
<1>15. LoopOK'
  <2>1. /\ ~At("deleting")' => ahead' = {} /\ pEfxWnd' = None
        /\ ahead' \subseteq DOMAIN m_mapEfxWnd'
        /\ \A k \in DOMAIN m_mapEfxWnd' : wnd'[m_mapEfxWnd'[k]] \in {"live", "deleted"}
    BY <1>1, <1>3, <1>5, <1>7, <1>13, <1>14 DEF ControlsInv, LoopOK
  <2>2. ASSUME At("deleting")', NEW k \in DOMAIN m_mapEfxWnd' \ ahead'
        PROVE  \/ wnd'[m_mapEfxWnd'[k]] = "deleted"
               \/ m_mapEfxWnd'[k] = pEfxWnd'
               \/ m_mapEfxWnd'[k] \in late'
    <3>1. At("deleting") /\ late' = late \union {made}
      BY <1>1, <1>5, <2>2
    <3>2. CASE k = key
      BY <1>7, <3>1, <3>2
    <3>3. CASE k # key
      BY <1>1, <1>7, <1>14, <2>2, <3>1, <3>3 DEF ControlsInv, LoopOK
    <3> QED
      BY <3>2, <3>3
  <2>3. pEfxWnd' # None =>
          /\ pEfxWnd' \in Ctrl /\ wnd'[pEfxWnd'] = "live"
          /\ \E k \in DOMAIN m_mapEfxWnd' : m_mapEfxWnd'[k] = pEfxWnd'
    BY <1>1, <1>7 DEF ControlsInv, LoopOK
  <2>4. \A c \in Ctrl : wnd'[c] = "deleted" => c \in gone' \/ At("deleting")' \/ At("closing")'
    BY <1>1, <1>5 DEF ControlsInv, LoopOK
  <2> QED
    BY <2>1, <2>2, <2>3, <2>4 DEF LoopOK
<1>16. RegistryMatches'
  <2>1. \A k \in IF At("deleting")' THEN ahead' ELSE DOMAIN m_mapEfxWnd' :
          wnd'[m_mapEfxWnd'[k]] = "live" /\ m_mapEfxWnd'[k] # pEfxWnd'
    BY <1>1, <1>3, <1>5, <1>7, <1>13, <1>14 DEF ControlsInv, RegistryMatches
  <2>2. ASSUME NEW d \in Ctrl, wnd'[d] = "live"
        PROVE  \/ \E s \in Thread : Making(s, d)'
               \/ \E k \in DOMAIN m_mapEfxWnd' : m_mapEfxWnd'[k] = d
               \/ d \in late' /\ ~careful'
    BY <2>2, <1>1, <1>7, <1>8, <1>9 DEF ControlsInv, RegistryMatches, client
  <2>3. ASSUME NEW j \in DOMAIN m_mapEfxWnd', NEW k \in DOMAIN m_mapEfxWnd',
               m_mapEfxWnd'[j] = m_mapEfxWnd'[k]
        PROVE  j = k
    BY <2>3, <1>3, <1>7 DEF ControlsInv, RegistryMatches, Registered
  <2> QED
    BY <2>1, <2>2, <2>3 DEF RegistryMatches
<1> QED
  BY <1>5, <1>6, <1>10, <1>11, <1>12, <1>15, <1>16 DEF ControlsInv

LEMMA RequestInv ==
    ASSUME ControlsInv, NEW t \in Thread, NEW c \in Ctrl, NEW q \in QryName,
           RequestRealData(t, c, q)
    PROVE  ControlsInv'
<1> DEFINE locals == [key |-> None, made |-> c, name |-> q]
<1>1. /\ call' = [call EXCEPT ![t] = locals] /\ call[t] = None /\ ClientRuns(t)
      /\ UNCHANGED <<registry, frames, exiting, client, late, m_fnSysMsg>>
  BY DEF RequestRealData, ClientRuns
<1>2. locals \in Locals /\ locals.key = None /\ call \in [Thread -> Locals \union {None}]
  BY DEF Locals, ControlsInv, KeysOK
<1>3. careful => m_fnSysMsg'
  BY <1>1 DEF ControlsInv, CarefulOK
<1> HIDE DEF locals
<1>4. /\ call' \in [Thread -> Locals \union {None}] /\ call'[t] = locals
      /\ \A s \in Thread \ {t} : call'[s] = call[s]
  BY <1>1, <1>2
<1>5. /\ \A s \in Thread : HasKey(s) => call'[s] = call[s]
      /\ \A s \in Thread : call'[s] = call[s] \/ call'[s] = None \/ call'[s].key = None
      /\ \A s \in Thread : call'[s] = call[s] \/ call'[s] = None \/ ClientRuns(s)
  BY <1>1, <1>2, <1>4 DEF HasKey
<1>6. UNCHANGED <<registry, frames, exiting, client, late>>
  BY <1>1
<1> QED
  BY <1>3, <1>4, <1>5, <1>6, OtherInv

LEMMA SetNameInv ==
    ASSUME ControlsInv, NEW t \in Thread, SetRealQryName(t)
    PROVE  ControlsInv'
<1>1. /\ call' = [call EXCEPT ![t] = None] /\ ~HasKey(t)
      /\ UNCHANGED <<registry, frames, exiting, client, late, m_fnSysMsg>>
  BY DEF SetRealQryName, HasKey, ControlsInv, KeysDiffer
<1>2. call \in [Thread -> Locals \union {None}] /\ (careful => m_fnSysMsg')
  BY <1>1 DEF ControlsInv, KeysOK, CarefulOK
<1>3. /\ call' \in [Thread -> Locals \union {None}] /\ call'[t] = None
      /\ \A s \in Thread \ {t} : call'[s] = call[s]
  BY <1>1, <1>2
<1>4. /\ \A s \in Thread : HasKey(s) => call'[s] = call[s]
      /\ \A s \in Thread : call'[s] = call[s] \/ call'[s] = None \/ call'[s].key = None
      /\ \A s \in Thread : call'[s] = call[s] \/ call'[s] = None \/ ClientRuns(s)
  BY <1>1, <1>3 DEF HasKey
<1>5. UNCHANGED <<registry, frames, exiting, client, late>>
  BY <1>1
<1> QED
  BY <1>2, <1>3, <1>4, <1>5, OtherInv

(* What leaves the calls and the exits alone. *)
LEMMA QuietInv ==
    ASSUME ControlsInv, UNCHANGED <<registry, frames, exiting, client, late, call>>,
           careful => m_fnSysMsg'
    PROVE  ControlsInv'
<1>1. call' \in [Thread -> Locals \union {None}]
  BY DEF ControlsInv, KeysOK
<1>2. /\ \A s \in Thread : HasKey(s) => call'[s] = call[s]
      /\ \A s \in Thread : call'[s] = call[s] \/ call'[s] = None \/ call'[s].key = None
      /\ \A s \in Thread : call'[s] = call[s] \/ call'[s] = None \/ ClientRuns(s)
  OBVIOUS
<1>3. UNCHANGED <<registry, frames, exiting, client, late>>
  OBVIOUS
<1> QED
  BY <1>1, <1>2, <1>3, OtherInv

(* The main thread enters or leaves a callback, or enters an efxExit. *)
LEMMA StackInv ==
    ASSUME ControlsInv, UNCHANGED <<registry, exiting, call, late, careful>>,
           MainIsFree, frames' \in Seq(Places), CarefulOK',
           \A i \in 1 .. Len(frames') - 1 : frames'[i] \in {"data", "message"},
           \A p : At(p)' => p \in {"data", "message", "exit"}
    PROVE  ControlsInv'
<1>1. /\ ~At("deleting") /\ ~At("closing") /\ call'[Main] = None
      /\ ~At("deleting")' /\ ~At("closing")'
  BY FreeMain DEF MainIsFree
<1>2. \A t \in Thread, c \in Ctrl : Making(t, c)' <=> Making(t, c)
  BY DEF Making
<1>3. KeysOK' /\ KeysDiffer' /\ MakingOK'
  BY <1>2 DEF ControlsInv, KeysOK, KeysDiffer, MakingOK, HasKey, Registered, registry
<1>4. StackOK'
  BY <1>1 DEF StackOK
<1>5. LoopOK'
  BY <1>1 DEF ControlsInv, LoopOK, registry, exiting
<1>6. RegistryMatches'
  BY <1>1, <1>2 DEF ControlsInv, RegistryMatches, registry, exiting
<1> QED
  BY <1>3, <1>4, <1>5, <1>6 DEF ControlsInv

LEMMA DataInv ==
    ASSUME ControlsInv, NEW c \in Ctrl, NEW q \in QryName, OnReceiveRealData(c, q)
    PROVE  ControlsInv'
<1>1. /\ MainIsFree /\ frames' = Append(frames, "data")
      /\ UNCHANGED <<registry, exiting, call, late, client, m_fnSysMsg>>
  BY DEF OnReceiveRealData
<1>2. /\ frames' \in Seq(Places) /\ Len(frames') = Len(frames) + 1 /\ Len(frames) \in Nat
      /\ \A i \in 1 .. Len(frames') - 1 : frames'[i] = frames[i] /\ frames'[i] \in {"data", "message"}
      /\ frames'[Len(frames')] = "data"
      /\ \A p : At(p)' => p = "data"
  BY <1>1, Pushed DEF ControlsInv, Places
<1>3. CarefulOK'
  <2>1. ASSUME careful PROVE \A i \in 1 .. Len(frames') : frames'[i] # "data" => told
    BY <1>2, <2>1 DEF ControlsInv, CarefulOK
  <2>2. ~At("exit")' /\ ~At("deleting")' /\ ~At("closing")'
    BY <1>2
  <2> QED
    BY <1>1, <2>1, <2>2 DEF ControlsInv, CarefulOK, client
<1>4. \A p : At(p)' => p \in {"data", "message", "exit"}
  BY <1>2
<1> QED
  BY <1>1, <1>2, <1>3, <1>4, StackInv DEF client

LEMMA ReturnsInv ==
    ASSUME ControlsInv, CallbackReturns
    PROVE  ControlsInv'
<1>1. /\ MainIsFree /\ frames # <<>> /\ frames' = Front(frames)
      /\ UNCHANGED <<registry, exiting, call, late, client, m_fnSysMsg>>
  BY DEF CallbackReturns, At
<1>2. /\ frames' \in Seq(Places) /\ Len(frames') = Len(frames) - 1 /\ Len(frames) \in Nat \ {0}
      /\ \A i \in 1 .. Len(frames') : frames'[i] = frames[i] /\ frames'[i] \in {"data", "message"}
      /\ \A p : At(p)' => p \in {"data", "message"}
  BY <1>1, Popped DEF ControlsInv
<1>3. CarefulOK'
  <2>1. ASSUME careful PROVE \A i \in 1 .. Len(frames') : frames'[i] # "data" => told
    BY <1>2, <2>1 DEF ControlsInv, CarefulOK
  <2>2. ~At("exit")' /\ ~At("deleting")' /\ ~At("closing")'
    BY <1>2
  <2> QED
    BY <1>1, <2>1, <2>2 DEF ControlsInv, CarefulOK, client
<1>4. /\ \A p : At(p)' => p \in {"data", "message", "exit"}
      /\ \A i \in 1 .. Len(frames') - 1 : frames'[i] \in {"data", "message"}
  BY <1>2
<1> QED
  BY <1>1, <1>2, <1>3, <1>4, StackInv DEF client

(* A careful client has a callback, and its control is there. *)
LEMMA ExitInv ==
    ASSUME ControlsInv, OnEfxExit
    PROVE  ControlsInv'
<1>1. /\ ClientRuns(Main) /\ MainIsFree /\ call[Main] = None
      /\ UNCHANGED <<registry, exiting, call, late, careful, m_fnSysMsg>>
      /\ \/ frames' = Append(frames, "message") /\ told' = TRUE
         \/ /\ ~m_fnSysMsg \/ wnd[Default] = "deleted"
            /\ frames' = Append(frames, "exit") /\ told' = told
  BY DEF OnEfxExit, ClientRuns
<1>2. careful => m_fnSysMsg /\ wnd[Default] # "deleted"
  <2> SUFFICES ASSUME careful PROVE wnd[Default] # "deleted"
    BY DEF ControlsInv, CarefulOK
  <2> QED
    BY <1>1, FreeMain, ControlsAssumption DEF ClientRuns, ControlsInv, LoopOK
<1>3. PICK p \in {"message", "exit"} :
        /\ frames' = Append(frames, p)
        /\ careful => p = "message" /\ told' = TRUE
  BY <1>1, <1>2
<1>4. /\ frames' \in Seq(Places) /\ Len(frames') = Len(frames) + 1 /\ Len(frames) \in Nat
      /\ \A i \in 1 .. Len(frames') - 1 : frames'[i] = frames[i] /\ frames'[i] \in {"data", "message"}
      /\ \A r : At(r)' => r = p
  BY <1>1, <1>3, Pushed DEF ControlsInv, Places
<1>5. CarefulOK'
  BY <1>1, <1>3, <1>4 DEF ControlsInv, CarefulOK
<1>6. \A r : At(r)' => r \in {"data", "message", "exit"}
  BY <1>4
<1> QED
  BY <1>1, <1>4, <1>5, <1>6, StackInv

-------------------------------------------------------------------------------
(* The steps of efxExit's loop and end. *)
LEMMA StartInv ==
    ASSUME ControlsInv, GetStartPosition
    PROVE  ControlsInv'
<1>1. /\ call[Main] = None /\ frames # <<>>
      /\ frames' = Append(Front(frames), "deleting")
      /\ ahead' = DOMAIN m_mapEfxWnd
      /\ UNCHANGED <<registry, pEfxWnd, gone, client, m_fnSysMsg, call, late>>
  BY DEF GetStartPosition, At
<1>2. ~At("deleting") /\ ~At("closing")
  BY DEF GetStartPosition, At
<1>3. /\ frames' \in Seq(Places) /\ Len(frames') = Len(frames) /\ Len(frames) \in Nat \ {0}
      /\ \A i \in 1 .. Len(frames') - 1 : frames'[i] = frames[i] /\ frames'[i] \in {"data", "message"}
      /\ frames'[Len(frames')] = "deleting"
      /\ At("deleting")' /\ \A p : At(p)' => p = "deleting"
  BY <1>1, Turned DEF ControlsInv, Places
<1>4. \A t \in Thread, c \in Ctrl : Making(t, c)' <=> Making(t, c)
  BY <1>1 DEF Making
<1>5. KeysOK' /\ KeysDiffer' /\ MakingOK'
  BY <1>1, <1>4 DEF ControlsInv, KeysOK, KeysDiffer, MakingOK, HasKey, Registered, registry
<1>6. StackOK'
  BY <1>1, <1>3 DEF StackOK
<1>7. LoopOK'
  BY <1>1, <1>2, <1>3 DEF ControlsInv, LoopOK, registry
<1>8. RegistryMatches'
  BY <1>1, <1>2, <1>3, <1>4 DEF ControlsInv, RegistryMatches, registry, client
<1>9. CarefulOK'
  <2> SUFFICES ASSUME careful PROVE CarefulOK'
    BY <1>1 DEF CarefulOK, client
  <2>1. At("message") /\ \A t \in Thread : call[t] = None
    BY DEF GetStartPosition, ControlsInv, CarefulOK
  <2>2. told
    <3>1. frames[Len(frames)] = "message" /\ Len(frames) \in 1 .. Len(frames)
      BY <1>3, <2>1 DEF At, Last
    <3> QED
      BY <3>1 DEF ControlsInv, CarefulOK
  <2>3. ~At("exit")'
    BY <1>3
  <2> QED
    BY <1>1, <2>1, <2>2, <2>3 DEF ControlsInv, CarefulOK, client
<1> QED
  BY <1>5, <1>6, <1>7, <1>8, <1>9 DEF ControlsInv

(* What does not move the exits' places and the client's calls. *)
LEMMA PlaceKept ==
    ASSUME ControlsInv, UNCHANGED <<frames, call, client, m_fnSysMsg, late>>
    PROVE  /\ StackOK' /\ CarefulOK'
           /\ \A p : At(p)' <=> At(p)
           /\ \A t \in Thread, c \in Ctrl : Making(t, c)' <=> Making(t, c)
<1>1. \A p : At(p)' <=> At(p)
  BY DEF At
<1> QED
  BY <1>1 DEF ControlsInv, StackOK, CarefulOK, client, Making

(* No other key of the map has the control that is found. *)
LEMMA DestroyControlInv ==
    ASSUME ControlsInv, NEW k \in ahead, DestroyControl(k)
    PROVE  ControlsInv'
<1> DEFINE c == m_mapEfxWnd[k]
<1>1. /\ At("deleting") /\ pEfxWnd = None /\ pEfxWnd' = c /\ ahead' = ahead \ {k}
      /\ UNCHANGED <<registry, frames, gone, client, m_fnSysMsg, call, late>>
  BY DEF DestroyControl
<1>2. /\ k \in DOMAIN m_mapEfxWnd /\ c \in Ctrl /\ wnd[c] = "live"
      /\ \A j \in DOMAIN m_mapEfxWnd : j # k => m_mapEfxWnd[j] # c
      /\ \A j \in DOMAIN m_mapEfxWnd : m_mapEfxWnd[j] # None
  BY <1>1, ControlsAssumption DEF ControlsInv, KeysOK, LoopOK, RegistryMatches
<1> HIDE DEF c
<1>3. /\ StackOK' /\ CarefulOK'
      /\ \A p : At(p)' <=> At(p)
      /\ \A t \in Thread, d \in Ctrl : Making(t, d)' <=> Making(t, d)
  BY <1>1, PlaceKept
<1>4. KeysOK' /\ KeysDiffer' /\ MakingOK'
  BY <1>1, <1>3 DEF ControlsInv, KeysOK, KeysDiffer, MakingOK, HasKey, Registered, registry
<1>5. LoopOK'
  <2>1. ASSUME NEW j \in DOMAIN m_mapEfxWnd, j \notin ahead'
        PROVE  \/ wnd[m_mapEfxWnd[j]] = "deleted"
               \/ m_mapEfxWnd[j] = pEfxWnd'
               \/ m_mapEfxWnd[j] \in late
    <3>1. CASE j = k
      BY <1>1, <3>1 DEF c
    <3>2. CASE j # k
      BY <1>1, <1>2, <2>1, <3>2 DEF ControlsInv, LoopOK
    <3> QED
      BY <3>1, <3>2
  <2>2. \E j \in DOMAIN m_mapEfxWnd : m_mapEfxWnd[j] = pEfxWnd'
    BY <1>1, <1>2 DEF c
  <2> QED
    BY <1>1, <1>2, <1>3, <2>1, <2>2 DEF ControlsInv, LoopOK, registry
<1>6. RegistryMatches'
  BY <1>1, <1>2, <1>3 DEF ControlsInv, RegistryMatches, LoopOK, registry, client
<1> QED
  BY <1>3, <1>4, <1>5, <1>6 DEF ControlsInv

LEMMA DeleteControlInv ==
    ASSUME ControlsInv, DeleteControl
    PROVE  ControlsInv'
<1>1. /\ pEfxWnd # None /\ pEfxWnd' = None
      /\ wnd' = [wnd EXCEPT ![pEfxWnd] = "deleted"]
      /\ UNCHANGED <<m_efxSeqNo, m_mapEfxWnd, ahead, frames, gone, client, m_fnSysMsg, call, late>>
      /\ wnd \in [Ctrl -> States]
  BY DEF DeleteControl, ControlsInv, KeysOK
<1>2. /\ At("deleting") /\ pEfxWnd \in Ctrl /\ pEfxWnd \in Registered
      /\ \A k \in DOMAIN m_mapEfxWnd : m_mapEfxWnd[k] \in Ctrl /\ m_mapEfxWnd[k] # None
      /\ ahead \subseteq DOMAIN m_mapEfxWnd
  BY <1>1, ControlsAssumption DEF ControlsInv, KeysOK, LoopOK, Registered
<1>3. /\ StackOK' /\ CarefulOK'
      /\ \A p : At(p)' <=> At(p)
      /\ \A t \in Thread, d \in Ctrl : Making(t, d)' <=> Making(t, d)
  BY <1>1, PlaceKept
<1>4. /\ wnd' \in [Ctrl -> States] /\ wnd'[pEfxWnd] = "deleted"
      /\ \A c \in Ctrl : c # pEfxWnd => wnd'[c] = wnd[c]
  BY <1>1, <1>2 DEF States
<1>5. KeysOK' /\ KeysDiffer'
  BY <1>1, <1>4 DEF ControlsInv, KeysOK, KeysDiffer, HasKey
<1>6. MakingOK'
  BY <1>1, <1>2, <1>3, <1>4 DEF ControlsInv, MakingOK, Registered
<1>7. LoopOK'
  <2>1. \A k \in DOMAIN m_mapEfxWnd \ ahead :
          wnd'[m_mapEfxWnd[k]] = "deleted" \/ m_mapEfxWnd[k] \in late
    BY <1>2, <1>4 DEF ControlsInv, LoopOK
  <2>2. \A k \in DOMAIN m_mapEfxWnd : wnd'[m_mapEfxWnd[k]] \in {"live", "deleted"}
    BY <1>2, <1>4 DEF ControlsInv, LoopOK
  <2> QED
    BY <1>1, <1>2, <1>3, <2>1, <2>2 DEF LoopOK
<1>8. RegistryMatches'
  BY <1>1, <1>2, <1>3, <1>4 DEF ControlsInv, RegistryMatches, client
<1> QED
  BY <1>3, <1>5, <1>6, <1>7, <1>8 DEF ControlsInv

(* The loop is through: all that is in the map is deleted or was late. *)
LEMMA RemoveAllInv ==
    ASSUME ControlsInv, RemoveAll
    PROVE  ControlsInv'
<1>1. /\ At("deleting") /\ pEfxWnd = None /\ ahead = {} /\ frames # <<>>
      /\ m_mapEfxWnd' = <<>> /\ DOMAIN m_mapEfxWnd' = {}
      /\ frames' = Append(Front(frames), "closing")
      /\ UNCHANGED <<m_efxSeqNo, wnd, exiting, client, m_fnSysMsg, call, late>>
  BY DEF RemoveAll, At
<1>2. /\ frames' \in Seq(Places) /\ Len(frames') = Len(frames) /\ Len(frames) \in Nat \ {0}
      /\ \A i \in 1 .. Len(frames') - 1 : frames'[i] = frames[i] /\ frames'[i] \in {"data", "message"}
      /\ frames'[Len(frames')] = "closing"
      /\ At("closing")' /\ \A p : At(p)' => p = "closing"
  BY <1>1, Turned DEF ControlsInv, Places
<1>3. Registered' = {} /\ \A t \in Thread, c \in Ctrl : Making(t, c)' <=> Making(t, c)
  BY <1>1 DEF Registered, Making
<1>4. KeysOK' /\ KeysDiffer' /\ MakingOK'
  BY <1>1, <1>3 DEF ControlsInv, KeysOK, KeysDiffer, MakingOK, HasKey
<1>5. StackOK'
  <2>1. call'[Main] = None
    BY <1>1 DEF ControlsInv, StackOK
  <2> QED
    BY <1>2, <2>1 DEF StackOK
<1>6. LoopOK'
  BY <1>1, <1>2 DEF ControlsInv, LoopOK, exiting
<1>7. ASSUME NEW c \in Ctrl, wnd[c] = "live"
      PROVE  (\E t \in Thread : Making(t, c)) \/ (c \in late /\ ~careful)
  <2>1. ASSUME NEW k \in DOMAIN m_mapEfxWnd, m_mapEfxWnd[k] = c
        PROVE  c \in late
    BY <1>1, <1>7, <2>1, ControlsAssumption DEF ControlsInv, LoopOK
  <2>2. careful => late = {}
    BY DEF ControlsInv, CarefulOK
  <2> QED
    BY <1>7, <2>1, <2>2 DEF ControlsInv, RegistryMatches
<1>8. RegistryMatches'
  BY <1>1, <1>2, <1>3, <1>7 DEF RegistryMatches, client
<1>9. CarefulOK'
  <2>1. ASSUME careful PROVE told /\ \A t \in Thread : call[t] = None
    <3>1. frames[Len(frames)] = "deleting" /\ Len(frames) \in 1 .. Len(frames)
      BY <1>1, <1>2 DEF At, Last
    <3> QED
      BY <1>1, <2>1, <3>1 DEF ControlsInv, CarefulOK
  <2>2. ~At("exit")'
    BY <1>2
  <2> QED
    BY <1>1, <2>1, <2>2 DEF ControlsInv, CarefulOK, client
<1> QED
  BY <1>4, <1>5, <1>6, <1>8, <1>9 DEF ControlsInv

LEMMA DestroyMainInv ==
    ASSUME ControlsInv, DestroyMain
    PROVE  ControlsInv'
<1>1. /\ frames # <<>> /\ frames' = Front(frames)
      /\ gone' = {c \in Ctrl : wnd[c] = "deleted"}
      /\ UNCHANGED <<registry, ahead, pEfxWnd, client, m_fnSysMsg, call, late>>
  BY DEF DestroyMain, At
<1>2. ~At("deleting")
  BY DEF DestroyMain, At
<1>3. /\ frames' \in Seq(Places) /\ Len(frames') = Len(frames) - 1 /\ Len(frames) \in Nat \ {0}
      /\ \A i \in 1 .. Len(frames') : frames'[i] = frames[i] /\ frames'[i] \in {"data", "message"}
      /\ \A p : At(p)' => p \in {"data", "message"}
  BY <1>1, Popped DEF ControlsInv
<1>4. ~At("exit")' /\ ~At("deleting")' /\ ~At("closing")'
  BY <1>3
<1>5. \A t \in Thread, c \in Ctrl : Making(t, c)' <=> Making(t, c)
  BY <1>1 DEF Making
<1>6. KeysOK' /\ KeysDiffer' /\ MakingOK'
  BY <1>1, <1>5 DEF ControlsInv, KeysOK, KeysDiffer, MakingOK, HasKey, Registered, registry
<1>7. StackOK'
  BY <1>3, <1>4 DEF StackOK
<1>8. LoopOK'
  BY <1>1, <1>2, <1>4 DEF ControlsInv, LoopOK, registry
<1>9. RegistryMatches'
  BY <1>1, <1>2, <1>4, <1>5 DEF ControlsInv, RegistryMatches, registry, client
<1>10. CarefulOK'
  BY <1>1, <1>3, <1>4 DEF ControlsInv, CarefulOK, client
<1> QED
  BY <1>6, <1>7, <1>8, <1>9, <1>10 DEF ControlsInv

LEMMA NextInv == ControlsInv /\ [Next]_vars => ControlsInv'
<1> SUFFICES ASSUME ControlsInv, [Next]_vars PROVE ControlsInv'
  OBVIOUS
<1>1. ASSUME NEW t \in Thread,
             TakeSeqNo(t) \/ InsertEfxWnd(t) \/ SetRealQryName(t)
      PROVE  ControlsInv'
  BY <1>1, TakeSeqNoInv, InsertInv, SetNameInv
<1>2. ASSUME NEW t \in Thread, NEW c \in Ctrl,
             \/ CreateControl(t, c) \/ CreateFails(t, c)
             \/ \E q \in QryName : RequestRealData(t, c, q)
      PROVE  ControlsInv'
  BY <1>2, CreateControlInv, CreateFailsInv, RequestInv
<1>3. careful => m_fnSysMsg
  BY DEF ControlsInv, CarefulOK
<1>4. ASSUME NEW t \in Thread, NEW given \in BOOLEAN, SetSysMsgCallback(t, given)
      PROVE  ControlsInv'
  BY <1>4, QuietInv DEF SetSysMsgCallback
<1>5. ASSUME NEW t \in Thread, NEW c \in Ctrl, NEW qs, UnrequestRealData(t, c, qs)
      PROVE  ControlsInv'
  BY <1>3, <1>5, QuietInv DEF UnrequestRealData
<1>6. ASSUME NEW c \in Ctrl, NEW q \in QryName, DataEnds(c, q)
      PROVE  ControlsInv'
  BY <1>3, <1>6, QuietInv DEF DataEnds
<1>7. ASSUME NEW c \in Ctrl, NEW q \in QryName, OnReceiveRealData(c, q)
      PROVE  ControlsInv'
  BY <1>7, DataInv
<1>8. CASE CallbackReturns \/ OnEfxExit \/ GetStartPosition
  BY <1>8, ReturnsInv, ExitInv, StartInv
<1>9. CASE \E k \in ahead : DestroyControl(k)
  BY <1>9, DestroyControlInv
<1>10. CASE DeleteControl \/ RemoveAll \/ DestroyMain
  BY <1>10, DeleteControlInv, RemoveAllInv, DestroyMainInv
<1>11. CASE UNCHANGED vars
  BY <1>3, <1>11, QuietInv DEF vars
<1> QED
  BY <1>1, <1>2, <1>4, <1>5, <1>6, <1>7, <1>8, <1>9, <1>10, <1>11 DEF Next

LEMMA Invariance == Spec => []ControlsInv
BY InitInv, NextInv, PTL DEF Spec

-------------------------------------------------------------------------------
(* The map of EfxMfc.cpp:363-385 has every live control once, but for      *)
(* those still being made and those registered too late for the loop of an *)
(* efxExit, of which a careful client has none; and the loop is still to   *)
(* come to none that is deleted.  For any number of threads, objects and   *)
(* exits, however deep in each other's callbacks.                          *)
THEOREM MapMatchesControls == Spec => []RegistryMatches
<1>1. ControlsInv => RegistryMatches
  BY DEF ControlsInv
<1> QED
  BY <1>1, Invariance, PTL

-------------------------------------------------------------------------------
(* A call that asks for data has a control and a name. *)
AsksOK ==
    \A t \in Thread : call[t] # None /\ call[t].name # None =>
        call[t].made \in Ctrl /\ call[t].name \in QryName

LEMMA AsksInitInv == Init => AsksOK
BY DEF Init, AsksOK

LEMMA AsksOfCall ==
    ASSUME AsksOK, call \in [Thread -> Locals \union {None}],
           NEW t \in Thread, NEW l, call' = [call EXCEPT ![t] = l],
           l # None /\ l.name # None => l.made \in Ctrl /\ l.name \in QryName
    PROVE  AsksOK'
BY DEF AsksOK

(* A call that has a key asks for nothing, whatever control it makes. *)
LEMMA KeyAsksNothing ==
    ASSUME ControlsInv, NEW t \in Thread, HasKey(t), NEW c \in Ctrl
    PROVE  /\ call[t] \in Locals /\ call[t].name = None
           /\ [call[t] EXCEPT !.made = c].name = None
<1>1. call[t] \in Locals /\ call[t].name = None
  BY DEF HasKey, ControlsInv, KeysOK, KeysDiffer
<1> QED
  BY <1>1 DEF Locals

LEMMA AsksNextInv == ControlsInv /\ AsksOK /\ [Next]_vars => AsksOK'
<1> SUFFICES ASSUME ControlsInv, AsksOK, [Next]_vars PROVE AsksOK'
  OBVIOUS
<1>1. call \in [Thread -> Locals \union {None}]
  BY DEF ControlsInv, KeysOK
<1>2. ASSUME NEW t \in Thread, TakeSeqNo(t) PROVE AsksOK'
  <2> DEFINE l == [key |-> m_efxSeqNo, made |-> None, name |-> None]
  <2>1. call' = [call EXCEPT ![t] = l] /\ l.name = None
    BY <1>2 DEF TakeSeqNo
  <2> HIDE DEF l
  <2> QED
    BY <1>1, <2>1, AsksOfCall
<1>3. ASSUME NEW t \in Thread, call' = [call EXCEPT ![t] = None] PROVE AsksOK'
  BY <1>1, <1>3, AsksOfCall
<1>4. ASSUME NEW t \in Thread, InsertEfxWnd(t) \/ SetRealQryName(t) PROVE AsksOK'
  BY <1>3, <1>4 DEF InsertEfxWnd, SetRealQryName
<1>5. ASSUME NEW t \in Thread, NEW c \in Ctrl, CreateFails(t, c) PROVE AsksOK'
  BY <1>3, <1>5 DEF CreateFails
<1>6. ASSUME NEW t \in Thread, NEW c \in Ctrl, CreateControl(t, c) PROVE AsksOK'
  <2> DEFINE l == [call[t] EXCEPT !.made = c]
  <2>1. call' = [call EXCEPT ![t] = l] /\ HasKey(t)
    BY <1>6 DEF CreateControl, HasKey
  <2>2. l.name = None
    BY <2>1, KeyAsksNothing
  <2> HIDE DEF l
  <2> QED
    BY <1>1, <2>1, <2>2, AsksOfCall
<1>7. ASSUME NEW t \in Thread, NEW c \in Ctrl, NEW q \in QryName, RequestRealData(t, c, q)
      PROVE  AsksOK'
  <2> DEFINE l == [key |-> None, made |-> c, name |-> q]
  <2>1. call' = [call EXCEPT ![t] = l] /\ l.made = c /\ l.name = q
    BY <1>7 DEF RequestRealData
  <2> HIDE DEF l
  <2> QED
    BY <1>1, <2>1, AsksOfCall
<1>8. ASSUME UNCHANGED call PROVE AsksOK'
  BY <1>8 DEF AsksOK
<1>9. ASSUME NEW t \in Thread, NEW given, NEW c, NEW qs,
             SetSysMsgCallback(t, given) \/ UnrequestRealData(t, c, qs)
      PROVE  AsksOK'
  BY <1>8, <1>9 DEF SetSysMsgCallback, UnrequestRealData
<1>10. ASSUME NEW c, NEW q, DataEnds(c, q) \/ OnReceiveRealData(c, q) PROVE AsksOK'
  BY <1>8, <1>10 DEF DataEnds, OnReceiveRealData
<1>11. CASE CallbackReturns \/ OnEfxExit \/ GetStartPosition
  BY <1>8, <1>11 DEF CallbackReturns, OnEfxExit, GetStartPosition
<1>12. ASSUME NEW k, DestroyControl(k) PROVE AsksOK'
  BY <1>8, <1>12 DEF DestroyControl
<1>13. CASE DeleteControl \/ RemoveAll \/ DestroyMain
  BY <1>8, <1>13 DEF DeleteControl, RemoveAll, DestroyMain
<1>14. CASE UNCHANGED vars
  BY <1>8, <1>14 DEF vars
<1> QED
  BY <1>2, <1>4, <1>5, <1>6, <1>7, <1>9, <1>10, <1>11, <1>12, <1>13, <1>14 DEF Next

-------------------------------------------------------------------------------
(* What is used outside of the loop and the end of an efxExit is there, or *)
(* the client has been told by the return of one that it is not.           *)
LEMMA UseIsHarmless ==
    ASSUME ControlsInv, MessageFourInTime, NEW t \in Thread, NEW c \in Ctrl, Use(t, c),
           careful' = careful, t = Main \/ careful => ~At("deleting") /\ ~At("closing")
    PROVE  MessageFourInTime'
<1>1. t = Main \/ careful => misusers' = misusers
  BY DEF Use, ControlsInv, LoopOK
<1>2. misusers' = misusers \/ misusers' = misusers \union {t}
  BY DEF Use
<1> QED
  BY <1>1, <1>2 DEF MessageFourInTime

LEMMA CallIsHarmless ==
    ASSUME ControlsInv, MessageFourInTime, NEW t \in Thread, NEW c \in Ctrl, Use(t, c),
           careful' = careful, call[t] # None \/ ClientRuns(t)
    PROVE  MessageFourInTime'
BY UseIsHarmless, OutOfLoop

LEMMA UseNextInv == ControlsInv /\ AsksOK /\ MessageFourInTime /\ [Next]_vars => MessageFourInTime'
<1> SUFFICES ASSUME ControlsInv, AsksOK, MessageFourInTime, [Next]_vars
             PROVE  MessageFourInTime'
  OBVIOUS
<1>1. ASSUME UNCHANGED <<misusers, careful>> PROVE MessageFourInTime'
  BY <1>1 DEF MessageFourInTime
<1>2. ASSUME NEW t \in Thread, TakeSeqNo(t) \/ InsertEfxWnd(t) PROVE MessageFourInTime'
  BY <1>1, <1>2 DEF TakeSeqNo, InsertEfxWnd, client
<1>3. ASSUME NEW t \in Thread, SetRealQryName(t) PROVE MessageFourInTime'
  <2>1. call[t] # None /\ call[t].made \in Ctrl /\ Use(t, call[t].made) /\ careful' = careful
    BY <1>3 DEF SetRealQryName, AsksOK, client
  <2> QED
    BY <2>1, CallIsHarmless
<1>4. ASSUME NEW t \in Thread, NEW given, SetSysMsgCallback(t, given) PROVE MessageFourInTime'
  BY <1>4, CallIsHarmless, ControlsAssumption DEF SetSysMsgCallback, client
<1>5. ASSUME NEW t \in Thread, NEW c \in Ctrl, CreateControl(t, c) \/ CreateFails(t, c)
      PROVE  MessageFourInTime'
  BY <1>1, <1>5 DEF CreateControl, CreateFails, client
<1>6. ASSUME NEW t \in Thread, NEW c \in Ctrl, NEW q \in QryName, RequestRealData(t, c, q)
      PROVE  MessageFourInTime'
  BY <1>6, CallIsHarmless DEF RequestRealData, client
<1>7. ASSUME NEW t \in Thread, NEW c \in Ctrl, NEW qs, UnrequestRealData(t, c, qs)
      PROVE  MessageFourInTime'
  BY <1>7, CallIsHarmless DEF UnrequestRealData, client
<1>8. ASSUME NEW c \in Ctrl, NEW q \in QryName, DataEnds(c, q) PROVE MessageFourInTime'
  BY <1>1, <1>8 DEF DataEnds, client
<1>9. ASSUME NEW c \in Ctrl, NEW q \in QryName, OnReceiveRealData(c, q) PROVE MessageFourInTime'
  BY <1>9, UseIsHarmless, FreeMain, ControlsAssumption DEF OnReceiveRealData, client
<1>10. CASE OnEfxExit
  BY <1>10, CallIsHarmless, ControlsAssumption DEF OnEfxExit
<1>11. ASSUME NEW k \in ahead, DestroyControl(k) PROVE MessageFourInTime'
  <2>1. wnd[m_mapEfxWnd[k]] = "live"
    BY <1>11 DEF DestroyControl, ControlsInv, RegistryMatches
  <2>2. misusers' = misusers /\ careful' = careful
    BY <1>11, <2>1 DEF DestroyControl, Use, client
  <2> QED
    BY <1>1, <2>2
<1>12. CASE CallbackReturns \/ GetStartPosition \/ DeleteControl
  BY <1>1, <1>12 DEF CallbackReturns, GetStartPosition, DeleteControl, client
<1>13. CASE RemoveAll \/ DestroyMain
  BY <1>1, <1>13 DEF RemoveAll, DestroyMain, client
<1>14. CASE UNCHANGED vars
  BY <1>1, <1>14 DEF vars, client
<1> QED
  BY <1>2, <1>3, <1>4, <1>5, <1>6, <1>7, <1>8, <1>9, <1>10, <1>11, <1>12, <1>13, <1>14 DEF Next

(* Until an efxExit has returned, neither the main thread nor any thread   *)
(* of a client that stops its threads when message 4 comes uses a control  *)
(* that it has deleted (EfxMfc.cpp:370-382).                               *)
THEOREM MessageFourComesInTime == Spec => []MessageFourInTime
<1>1. Init => MessageFourInTime
  BY DEF Init, MessageFourInTime
<1> QED
  BY <1>1, InitInv, NextInv, AsksInitInv, AsksNextInv, UseNextInv, PTL DEF Spec

-------------------------------------------------------------------------------
(* A name of a control is wanted when it has data, or will have when a     *)
(* call has returned.  A control that was last asked alone has one such    *)
(* name, the one that is set on it or about to be.                         *)
Wanted(c, q) == data[c][q] # "off" \/ \E t \in Thread : Asks(t, c, q)

NameOK ==
    /\ m_szRealQryName \in [Ctrl -> QryName \union {NoName}]
    /\ data \in [Ctrl -> [QryName -> {"off", "on", "ending"}]]
    /\ alone \in [Ctrl -> BOOLEAN]

NameInv ==
    /\ NameOK /\ RealDataNamed
    /\ \A c \in Ctrl, q \in QryName, r \in QryName :
          alone[c] /\ Wanted(c, q) /\ Wanted(c, r) => q = r

LEMMA NameInitInv == Init => NameInv
<1> SUFFICES ASSUME Init PROVE NameInv
  OBVIOUS
<1>1. NameOK
  BY DEF Init, NameOK
<1>2. \A c \in Ctrl, q \in QryName : data[c][q] = "off" /\ ~Wanted(c, q)
  BY DEF Init, Wanted, Asks
<1> QED
  BY <1>1, <1>2 DEF NameInv, RealDataNamed

(* Data may end, and calls go on that ask for none. *)
LEMMA FewerWanted ==
    ASSUME NameInv, UNCHANGED <<m_szRealQryName, alone>>,
           data' \in [Ctrl -> [QryName -> {"off", "on", "ending"}]],
           \A c \in Ctrl, q \in QryName : data'[c][q] # "off" => data[c][q] # "off",
           \A t \in Thread, c \in Ctrl, q \in QryName : Asks(t, c, q)' <=> Asks(t, c, q)
    PROVE  NameInv'
<1>1. NameOK'
  BY DEF NameInv, NameOK
<1>2. \A c \in Ctrl, q \in QryName : Wanted(c, q)' => Wanted(c, q)
  BY DEF Wanted
<1>3. RealDataNamed'
  BY DEF NameInv, RealDataNamed
<1> QED
  BY <1>1, <1>2, <1>3 DEF NameInv

(* A step of one call that asks for nothing before nor after it. *)
LEMMA OtherAsks ==
    ASSUME ControlsInv, NEW t \in Thread, NEW l, call' = [call EXCEPT ![t] = l],
           call[t] = None \/ call[t].name = None, l = None \/ l.name = None
    PROVE  \A s \in Thread, c \in Ctrl, q \in QryName : Asks(s, c, q)' <=> Asks(s, c, q)
<1>1. /\ call'[t] = l /\ \A s \in Thread \ {t} : call'[s] = call[s]
      /\ None \notin QryName
  BY ControlsAssumption DEF ControlsInv, KeysOK
<1> QED
  BY <1>1 DEF Asks

LEMMA RequestNameInv ==
    ASSUME ControlsInv, NameInv, NEW t \in Thread, NEW c \in Ctrl, NEW q \in QryName,
           RequestRealData(t, c, q)
    PROVE  NameInv'
<1> DEFINE l == [key |-> None, made |-> c, name |-> q]
           only == \A r \in QryName \ {q} :
                      data[c][r] = "off" /\ \A s \in Thread : ~Asks(s, c, r)
<1>1. /\ call[t] = None /\ call' = [call EXCEPT ![t] = l]
      /\ data' = data \/ data' = [data EXCEPT ![c][q] = "on"]
      /\ alone' = [alone EXCEPT ![c] = only]
      /\ m_szRealQryName' = m_szRealQryName
  BY DEF RequestRealData, ClientRuns
<1>2. l.made = c /\ l.name = q /\ l # None
  BY ControlsAssumption DEF Locals
<1> HIDE DEF l
<1>3. /\ call'[t] = l /\ \A s \in Thread \ {t} : call'[s] = call[s]
  BY <1>1 DEF ControlsInv, KeysOK
<1>4. \A s \in Thread \ {t}, d \in Ctrl, r \in QryName : Asks(s, d, r)' <=> Asks(s, d, r)
  BY <1>3 DEF Asks
<1>5. \A d \in Ctrl, r \in QryName : ~Asks(t, d, r)
  BY <1>1 DEF Asks
<1>6. \A d \in Ctrl, r \in QryName : Asks(t, d, r)' <=> d = c /\ r = q
  BY <1>2, <1>3 DEF Asks
<1>7. /\ data' \in [Ctrl -> [QryName -> {"off", "on", "ending"}]]
      /\ \A d \in Ctrl, r \in QryName : (d # c \/ r # q) => data'[d][r] = data[d][r]
  <2>1. data \in [Ctrl -> [QryName -> {"off", "on", "ending"}]]
    BY DEF NameInv, NameOK
  <2>2. CASE data' = data
    BY <2>1, <2>2
  <2>3. CASE data' = [data EXCEPT ![c][q] = "on"]
    <3> DEFINE row == [data[c] EXCEPT ![q] = "on"]
    <3>1. /\ row \in [QryName -> {"off", "on", "ending"}]
          /\ \A r \in QryName : r # q => row[r] = data[c][r]
      BY <2>1
    <3>2. data' = [data EXCEPT ![c] = row]
      BY <2>3
    <3> HIDE DEF row
    <3> QED
      BY <2>1, <3>1, <3>2
  <2> QED
    BY <1>1, <2>2, <2>3
<1>8. only \in BOOLEAN
  OBVIOUS
<1>9. \A r \in QryName : only /\ r # q => ~Wanted(c, r)
  BY DEF Wanted
<1> HIDE DEF only
<1>10. /\ alone' \in [Ctrl -> BOOLEAN] /\ alone'[c] = only
      /\ \A d \in Ctrl : d # c => alone'[d] = alone[d]
  BY <1>1, <1>8 DEF NameInv, NameOK
<1>11. \A d \in Ctrl, r \in QryName : (d # c \/ r # q) => (Wanted(d, r)' <=> Wanted(d, r))
  BY <1>4, <1>5, <1>6, <1>7 DEF Wanted
<1>12. Asks(t, c, q)'
  BY <1>6
<1>13. NameOK'
  BY <1>1, <1>7, <1>10 DEF NameInv, NameOK
<1>14. ASSUME NEW d \in Ctrl, NEW p \in QryName, NEW r \in QryName,
              alone'[d], Wanted(d, p)', Wanted(d, r)'
       PROVE  p = r
  <2>1. CASE d = c
    BY <1>9, <1>10, <1>11, <1>14, <2>1
  <2>2. CASE d # c
    BY <1>10, <1>11, <1>14, <2>2 DEF NameInv
  <2> QED
    BY <2>1, <2>2
<1>15. ASSUME NEW d \in Ctrl, NEW r \in QryName, alone'[d], data'[d][r] # "off"
       PROVE  m_szRealQryName'[d] = r \/ \E s \in Thread : Asks(s, d, r)'
  <2>1. CASE d = c
    <3>1. r # q => ~Wanted(c, r)
      BY <1>9, <1>10, <1>15, <2>1
    <3>2. r = q
      BY <1>7, <1>15, <2>1, <3>1 DEF Wanted
    <3> QED
      BY <1>12, <2>1, <3>2
  <2>2. CASE d # c
    BY <1>1, <1>4, <1>5, <1>6, <1>7, <1>10, <1>15, <2>2 DEF NameInv, RealDataNamed
  <2> QED
    BY <2>1, <2>2
<1> QED
  BY <1>13, <1>14, <1>15 DEF NameInv, RealDataNamed

LEMMA SetNameNameInv ==
    ASSUME ControlsInv, AsksOK, NameInv, NEW t \in Thread, SetRealQryName(t)
    PROVE  NameInv'
<1> DEFINE c == call[t].made
           q == call[t].name
<1>1. /\ c \in Ctrl /\ q \in QryName /\ Asks(t, c, q)
      /\ \A d \in Ctrl, r \in QryName : Asks(t, d, r) => d = c /\ r = q
      /\ m_szRealQryName' = [m_szRealQryName EXCEPT ![c] = q]
      /\ call' = [call EXCEPT ![t] = None]
      /\ UNCHANGED <<data, alone>>
  BY DEF SetRealQryName, AsksOK, Asks
<1> HIDE DEF c, q
<1>2. call'[t] = None /\ \A s \in Thread \ {t} : call'[s] = call[s]
  BY <1>1 DEF ControlsInv, KeysOK
<1>3. /\ \A s \in Thread, d \in Ctrl, r \in QryName : Asks(s, d, r)' => Asks(s, d, r)
      /\ \A s \in Thread, d \in Ctrl, r \in QryName :
            Asks(s, d, r) /\ d # c => Asks(s, d, r)'
  BY <1>1, <1>2 DEF Asks
<1>4. /\ m_szRealQryName' \in [Ctrl -> QryName \union {NoName}]
      /\ m_szRealQryName'[c] = q
      /\ \A d \in Ctrl \ {c} : m_szRealQryName'[d] = m_szRealQryName[d]
  BY <1>1 DEF NameInv, NameOK
<1>5. NameOK'
  BY <1>1, <1>4 DEF NameInv, NameOK
<1>6. \A d \in Ctrl, r \in QryName : Wanted(d, r)' => Wanted(d, r)
  BY <1>1, <1>3 DEF Wanted
<1>7. ASSUME NEW d \in Ctrl, NEW r \in QryName, alone[d], data[d][r] # "off"
      PROVE  m_szRealQryName'[d] = r \/ \E s \in Thread : Asks(s, d, r)'
  <2>1. CASE d = c
    <3>1. Wanted(c, q) /\ Wanted(c, r)
      BY <1>1, <1>7, <2>1 DEF Wanted
    <3> QED
      BY <1>1, <1>4, <1>7, <2>1, <3>1 DEF NameInv
  <2>2. CASE d # c
    BY <1>3, <1>4, <1>7, <2>2 DEF NameInv, RealDataNamed
  <2> QED
    BY <2>1, <2>2
<1> QED
  BY <1>1, <1>5, <1>6, <1>7 DEF NameInv, RealDataNamed

LEMMA NameNextInv == ControlsInv /\ AsksOK /\ NameInv /\ [Next]_vars => NameInv'
<1> SUFFICES ASSUME ControlsInv, AsksOK, NameInv, [Next]_vars PROVE NameInv'
  OBVIOUS
<1>1. data \in [Ctrl -> [QryName -> {"off", "on", "ending"}]]
  BY DEF NameInv, NameOK
<1>2. ASSUME NEW t \in Thread, NEW l, call' = [call EXCEPT ![t] = l],
             call[t] = None \/ call[t].name = None, l = None \/ l.name = None,
             UNCHANGED <<m_szRealQryName, alone, data>>
      PROVE  NameInv'
  BY <1>1, <1>2, OtherAsks, FewerWanted
<1>3. ASSUME NEW t \in Thread, TakeSeqNo(t) PROVE NameInv'
  <2> DEFINE l == [key |-> m_efxSeqNo, made |-> None, name |-> None]
  <2>1. call[t] = None /\ call' = [call EXCEPT ![t] = l] /\ l.name = None
    BY <1>3 DEF TakeSeqNo, ClientRuns
  <2> HIDE DEF l
  <2> QED
    BY <1>2, <1>3, <2>1 DEF TakeSeqNo, realTime
<1>4. ASSUME NEW t \in Thread, InsertEfxWnd(t) PROVE NameInv'
  <2>1. call[t].name = None /\ call' = [call EXCEPT ![t] = None]
    BY <1>4 DEF InsertEfxWnd, ControlsInv, KeysDiffer, HasKey
  <2> QED
    BY <1>2, <1>4, <2>1 DEF InsertEfxWnd, realTime
<1>5. ASSUME NEW t \in Thread, NEW c \in Ctrl, CreateControl(t, c) \/ CreateFails(t, c)
      PROVE  NameInv'
  <2> DEFINE l == [call[t] EXCEPT !.made = c]
  <2>1. /\ HasKey(t) /\ UNCHANGED <<m_szRealQryName, alone, data>>
        /\ call' = [call EXCEPT ![t] = l] \/ call' = [call EXCEPT ![t] = None]
    BY <1>5 DEF CreateControl, CreateFails, HasKey, realTime
  <2>2. l.name = None /\ call[t].name = None
    BY <2>1, KeyAsksNothing
  <2> HIDE DEF l
  <2> QED
    BY <1>2, <2>1, <2>2
<1>6. ASSUME UNCHANGED <<m_szRealQryName, alone, call>>,
             data' \in [Ctrl -> [QryName -> {"off", "on", "ending"}]],
             \A c \in Ctrl, q \in QryName : data'[c][q] # "off" => data[c][q] # "off"
      PROVE  NameInv'
  <2>1. \A t \in Thread, c \in Ctrl, q \in QryName : Asks(t, c, q)' <=> Asks(t, c, q)
    BY <1>6 DEF Asks
  <2> QED
    BY <1>6, <2>1, FewerWanted
<1>7. ASSUME NEW t \in Thread, NEW c \in Ctrl, NEW qs, UnrequestRealData(t, c, qs)
      PROVE  NameInv'
  <2>1. /\ data' \in [Ctrl -> [QryName -> {"off", "on", "ending"}]]
        /\ \A d \in Ctrl, q \in QryName : data'[d][q] # "off" => data[d][q] # "off"
    BY <1>1, <1>7 DEF UnrequestRealData
  <2> QED
    BY <1>6, <1>7, <2>1 DEF UnrequestRealData, realTime
<1>8. ASSUME NEW c \in Ctrl, NEW q \in QryName, DataEnds(c, q) PROVE NameInv'
  <2>1. /\ data' \in [Ctrl -> [QryName -> {"off", "on", "ending"}]]
        /\ \A d \in Ctrl, r \in QryName : data'[d][r] # "off" => data[d][r] # "off"
    BY <1>1, <1>8 DEF DataEnds
  <2> QED
    BY <1>6, <1>8, <2>1 DEF DataEnds, realTime
<1>9. ASSUME NEW k \in ahead, DestroyControl(k) PROVE NameInv'
  <2>1. data' = [data EXCEPT ![m_mapEfxWnd[k]] = [q \in QryName |-> "off"]]
    BY <1>9 DEF DestroyControl
  <2>2. /\ data' \in [Ctrl -> [QryName -> {"off", "on", "ending"}]]
        /\ \A d \in Ctrl, q \in QryName : data'[d][q] # "off" => data[d][q] # "off"
    BY <1>1, <2>1
  <2> QED
    BY <1>6, <1>9, <2>2 DEF DestroyControl, realTime
<1>10. CASE DestroyMain
  <2>1. data' = [c \in Ctrl |-> IF c \in windows' THEN data[c] ELSE [q \in QryName |-> "off"]]
    BY <1>10 DEF DestroyMain
  <2>2. /\ data' \in [Ctrl -> [QryName -> {"off", "on", "ending"}]]
        /\ \A d \in Ctrl, q \in QryName : data'[d][q] # "off" => data[d][q] # "off"
    BY <1>1, <2>1
  <2> QED
    BY <1>6, <1>10, <2>2 DEF DestroyMain, realTime
<1>11. ASSUME UNCHANGED <<realTime, call, data>> PROVE NameInv'
  BY <1>1, <1>6, <1>11 DEF realTime
<1>12. ASSUME NEW t \in Thread, NEW given, SetSysMsgCallback(t, given) PROVE NameInv'
  BY <1>11, <1>12 DEF SetSysMsgCallback
<1>13. ASSUME NEW c, NEW q, OnReceiveRealData(c, q) PROVE NameInv'
  BY <1>11, <1>13 DEF OnReceiveRealData
<1>14. CASE CallbackReturns \/ OnEfxExit \/ GetStartPosition
  BY <1>11, <1>14 DEF CallbackReturns, OnEfxExit, GetStartPosition
<1>15. CASE DeleteControl \/ RemoveAll
  BY <1>11, <1>15 DEF DeleteControl, RemoveAll
<1>16. CASE UNCHANGED vars
  BY <1>11, <1>16 DEF vars
<1>17. ASSUME NEW t \in Thread, NEW c \in Ctrl, NEW q \in QryName, RequestRealData(t, c, q)
       PROVE  NameInv'
  BY <1>17, RequestNameInv
<1>18. ASSUME NEW t \in Thread, SetRealQryName(t) PROVE NameInv'
  BY <1>18, SetNameNameInv
<1> QED
  BY <1>3, <1>4, <1>5, <1>7, <1>8, <1>9, <1>10, <1>12, <1>13, <1>14, <1>15, <1>16, <1>17, <1>18
     DEF Next

(* What a control delivers comes under its own name, or the call that      *)
(* asked for it has not returned, if no other name of the control was      *)
(* wanted when it was last asked (EfxMfc.cpp:749-750): for any number of   *)
(* threads, requests, refusals, cancellations and exits after that.        *)
THEOREM DataComesUnderItsName == Spec => []RealDataNamed
<1>1. NameInv => RealDataNamed
  BY DEF NameInv
<1> QED
  BY <1>1, InitInv, NextInv, AsksInitInv, AsksNextInv, NameInitInv, NameNextInv, PTL DEF Spec
===============================================================================
