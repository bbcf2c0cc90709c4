--------------------------- MODULE ReqTrackingProofs ---------------------------
(***************************************************************************)
(* Proofs about ReqIdTable and ReqTracking.  First the table alone, for    *)
(* every size, id and text: the ring always holds the last TableSize       *)
(* items, each in its own slot, and GetItem finds the latest item of an    *)
(* id.  Then the table in use, for any number of threads and controls: the *)
(* interleaved SetItem calls implement the atomic ones, and an answer is   *)
(* told with its own texts under the conditions that the properties name.  *)
(***************************************************************************)
EXTENDS ReqTracking, FiniteSetTheorems, WellFoundedInduction, TLAPS

(* Two positions less than TableSize apart never share a slot. *)
LEMMA DistinctSlots ==
    ASSUME NEW a \in Int, NEW b \in Int, a < b, b < a + TableSize
    PROVE  SlotOf(a) # SlotOf(b)
<1> DEFINE N == TableSize
           qa == a \div N
           qb == b \div N
<1>1. N \in Nat /\ N > 0
  BY TableAssumption
<1>2. /\ qa \in Int /\ qb \in Int
      /\ a = N * qa + (a % N)
      /\ b = N * qb + (b % N)
  BY <1>1, SMT
<1> SUFFICES ASSUME a % N = b % N
             PROVE  FALSE
  BY DEF SlotOf
<1>3. b - a = N * qb - N * qa
  BY <1>1, <1>2, SMT
<1>4. N * qb - N * qa = N * (qb - qa)
  BY <1>1, <1>2, SMT
<1>5. qb - qa \in Int
  BY <1>2
<1> HIDE DEF N, qa, qb
<1>6. CASE qb - qa <= 0
  <2>1. N * (qb - qa) <= 0
    BY <1>1, <1>5, <1>6, SMT
  <2> QED
    BY <2>1, <1>3, <1>4, <1>1, <1>2, SMT
<1>7. CASE qb - qa >= 1
  <2>1. N * (qb - qa) >= N
    BY <1>1, <1>5, <1>7, SMT
  <2>2. b - a >= N
    BY <2>1, <1>3, <1>4
  <2> QED
    BY <2>2, <1>1 DEF N
<1> QED
  BY <1>5, <1>6, <1>7

(* Slots exist: every position has one. *)
LEMMA SlotInTable ==
    ASSUME NEW a \in Int
    PROVE  SlotOf(a) \in Slots
BY TableAssumption, SMT DEF SlotOf, Slots

(* Slots the ring has not reached yet still carry id 0. *)
UnusedAreZero == \A s \in Slots : curPos <= s => table[s].reqId = NoId

TableInv == TableTypeOK /\ RingHoldsWindow /\ UnusedAreZero

LEMMA InitInv == TableInit => TableInv
<1> SUFFICES ASSUME TableInit PROVE TableInv
  OBVIOUS
<1>1. TableTypeOK
  <2>1. [reqId : {NoId}, qry : Heap, param : Heap] \subseteq Item
    BY TableAssumption DEF Item
  <2>2. table \in [Slots -> Item]
    BY <2>1 DEF TableInit
  <2> QED
    BY <2>2, TableAssumption DEF TableInit, TableTypeOK
<1>2. RingHoldsWindow
  BY DEF TableInit, RingHoldsWindow, Window
<1>3. UnusedAreZero
  BY DEF TableInit, UnusedAreZero
<1> QED
  BY <1>1, <1>2, <1>3 DEF TableInv

LEMMA SetItemInv ==
    ASSUME TableInv, NEW item \in Item, SetItem(item)
    PROVE  TableInv'
<1> USE TableAssumption
<1>0. /\ curPos \in Nat /\ curPos < MaxPos /\ MaxPos \in Nat
      /\ curPos' = curPos + 1
      /\ Len(log) = curPos
      /\ log \in Seq(Item)
      /\ table \in [Slots -> Item]
      /\ SlotOf(curPos) \in Slots
      /\ table' = [table EXCEPT ![SlotOf(curPos)] = item]
      /\ log' = Append(log, item)
  BY SlotInTable DEF TableInv, TableTypeOK, RingHoldsWindow, SetItem
<1>1. TableTypeOK'
  BY <1>0 DEF TableTypeOK
<1>2. RingHoldsWindow'
  <2>1. Len(log') = curPos'
    BY <1>0
  <2>2. ASSUME NEW n \in Window'
        PROVE  table'[SlotOf(n - 1)] = log'[n]
    <3>1. n \in 1 .. curPos + 1 /\ n > curPos + 1 - TableSize
      BY <1>0, <2>1 DEF Window
    <3>2. CASE n = curPos + 1
      BY <3>2, <1>0
    <3>3. CASE n # curPos + 1
      <4>1. n \in Window /\ log'[n] = log[n]
        BY <3>1, <3>3, <1>0 DEF Window
      <4>2. SlotOf(n - 1) # SlotOf(curPos)
        BY <3>1, <3>3, <1>0, DistinctSlots
      <4>3. SlotOf(n - 1) \in Slots
        BY <3>1, SlotInTable
      <4>4. table'[SlotOf(n - 1)] = table[SlotOf(n - 1)]
        BY <4>2, <4>3, <1>0
      <4> QED
        BY <4>1, <4>4 DEF TableInv, RingHoldsWindow
    <3> QED
      BY <3>2, <3>3
  <2> QED
    BY <2>1, <2>2 DEF RingHoldsWindow
<1>3. UnusedAreZero'
  <2> SUFFICES ASSUME NEW s \in Slots, curPos' <= s
               PROVE  table'[s].reqId = NoId
    BY DEF UnusedAreZero
  <2>1. SlotOf(curPos) = curPos
    <3>1. s \in Int /\ 0 <= s /\ s < TableSize
      BY DEF Slots
    <3>2. curPos \in Int /\ 0 <= curPos /\ curPos < TableSize
      BY <1>0, <3>1
    <3>3. curPos % TableSize = curPos
      BY <3>2, SMT
    <3> QED
      BY <3>3 DEF SlotOf
  <2>2. table'[s] = table[s]
    BY <2>1, <1>0 DEF Slots
  <2> QED
    BY <2>2, <1>0 DEF TableInv, UnusedAreZero, Slots
<1> QED
  BY <1>1, <1>2, <1>3 DEF TableInv

LEMMA NextInv == TableInv /\ [TableNext]_tableVars => TableInv'
<1> SUFFICES ASSUME TableInv, [TableNext]_tableVars PROVE TableInv'
  OBVIOUS
<1>1. CASE TableNext
  BY <1>1, SetItemInv DEF TableNext
<1>2. CASE UNCHANGED tableVars
  BY <1>2 DEF tableVars, TableInv, TableTypeOK, RingHoldsWindow, Window, UnusedAreZero
<1> QED
  BY <1>1, <1>2

LEMMA Invariance == TableSpec => []TableInv
BY InitInv, NextInv, PTL DEF TableSpec

(* The type invariant holds for every table size. *)
THEOREM TypeCorrect == TableSpec => []TableTypeOK
<1>1. TableInv => TableTypeOK
  BY DEF TableInv
<1> QED
  BY <1>1, Invariance, PTL

(* The ring always holds the last TableSize items, none of them displaced *)
(* by another (ReqIdTable::SetItem).                                      *)
THEOREM RingIsWindow == TableSpec => []RingHoldsWindow
<1>1. TableInv => RingHoldsWindow
  BY DEF TableInv
<1> QED
  BY <1>1, Invariance, PTL

-------------------------------------------------------------------------------
(* The i-th turn of the search looks at the i-th last item, if there is one. *)
LEMMA ProbeSeesWindow ==
    ASSUME TableInv, NEW i \in 1 .. TableSize, i <= curPos
    PROVE  /\ curPos - i + 1 \in Window
           /\ Probe(curPos, i) = SlotOf(curPos - i)
           /\ table[Probe(curPos, i)] = log[curPos - i + 1]
<1> USE TableAssumption
<1>1. curPos \in Nat /\ Len(log) = curPos
  BY DEF TableInv, TableTypeOK, RingHoldsWindow
<1>2. curPos - i + 1 \in Window
  BY <1>1 DEF Window
<1>3. Probe(curPos, i) = SlotOf((curPos - i + 1) - 1)
  BY <1>1 DEF Probe, SlotOf
<1>4. table[SlotOf((curPos - i + 1) - 1)] = log[curPos - i + 1]
  BY <1>2 DEF TableInv, RingHoldsWindow
<1>5. (curPos - i + 1) - 1 = curPos - i
  BY <1>1
<1> QED
  BY <1>2, <1>3, <1>4, <1>5

(* Beyond the first item it looks at slots that were never used. *)
LEMMA ProbeSeesUnused ==
    ASSUME TableInv, NEW i \in 1 .. TableSize, i > curPos
    PROVE  table[Probe(curPos, i)].reqId = NoId
<1> USE TableAssumption
<1>1. curPos \in Nat
  BY DEF TableInv, TableTypeOK
<1>2. /\ curPos - i + TableSize \in Slots
      /\ curPos <= curPos - i + TableSize
  BY <1>1 DEF Slots
<1>3. Probe(curPos, i) = curPos - i + TableSize
  <2>1. SlotOf(curPos - i + TableSize) = curPos - i + TableSize
    BY <1>2 DEF SlotOf, Slots
  <2>2. (curPos - i) % TableSize = (curPos - i + TableSize) % TableSize
    BY <1>1, SMT
  <2> QED
    BY <2>1, <2>2 DEF Probe, SlotOf
<1> QED
  BY <1>2, <1>3 DEF TableInv, UnusedAreZero

LEMMA FindsLatest == TableInv => GetItemFindsLatest
<1> SUFFICES ASSUME TableInv, NEW id \in ReqId
             PROVE  /\ \A n \in Recent(id) :
                          (\A m \in Recent(id) : m <= n) =>
                             /\ GetItem(id) = SlotOf(n - 1)
                             /\ table[GetItem(id)] = log[n]
                    /\ (Recent(id) = {} /\ id # NoId) => GetItem(id) = NoSlot
  BY DEF GetItemFindsLatest
<1> USE TableAssumption
<1>0. curPos \in Nat /\ Len(log) = curPos
  BY DEF TableInv, TableTypeOK, RingHoldsWindow
<1>1. ASSUME NEW n \in Recent(id), \A m \in Recent(id) : m <= n
      PROVE  GetItem(id) = SlotOf(n - 1) /\ table[GetItem(id)] = log[n]
  <2> DEFINE i == curPos - n + 1
  <2>1. /\ i \in 1 .. TableSize /\ i <= curPos
        /\ curPos - i + 1 = n /\ curPos - i = n - 1
        /\ log[n].reqId = id
    BY <1>0 DEF Recent, Window
  <2>2. i \in Hits(id) /\ Probe(curPos, i) = SlotOf(n - 1)
    BY <2>1, ProbeSeesWindow DEF Hits
  <2>3. ASSUME NEW j \in Hits(id), j < i
        PROVE  FALSE
    <3>1. j \in 1 .. TableSize /\ j <= curPos /\ table[Probe(curPos, j)].reqId = id
      BY <2>1, <2>3, <1>0 DEF Hits
    <3>2. curPos - j + 1 \in Recent(id)
      BY <3>1, ProbeSeesWindow DEF Recent
    <3> QED
      BY <3>1, <3>2, <1>1, <2>1, <2>3, <1>0
  <2>4. \A j \in Hits(id) : j \in Int /\ i <= j
    BY <2>1, <2>3 DEF Hits
  <2> DEFINE first(k) == k \in Hits(id) /\ \A j \in Hits(id) : k <= j
  <2>5. \A k : first(k) => k = i
    BY <2>2, <2>4, <2>1
  <2> HIDE DEF i
  <2>6. (CHOOSE k \in Hits(id) : \A j \in Hits(id) : k <= j) = i
    BY <2>2, <2>4, <2>5
  <2>7. GetItem(id) = SlotOf(n - 1)
    BY <2>2, <2>6 DEF GetItem
  <2> QED
    BY <2>7 DEF TableInv, RingHoldsWindow, Recent
<1>2. ASSUME Recent(id) = {}, id # NoId
      PROVE  GetItem(id) = NoSlot
  <2>1. ASSUME NEW i \in Hits(id)
        PROVE  FALSE
    <3>1. i \in 1 .. TableSize /\ table[Probe(curPos, i)].reqId = id
      BY DEF Hits
    <3>2. CASE i <= curPos
      BY <3>1, <3>2, <1>2, ProbeSeesWindow DEF Recent
    <3>3. CASE i > curPos
      BY <3>1, <3>3, <1>2, ProbeSeesUnused
    <3> QED
      BY <3>1, <3>2, <3>3, <1>0
  <2> QED
    BY <2>1 DEF GetItem
<1> QED
  BY <1>1, <1>2

(* An answer is always looked up to the item most recently set for its id, *)
(* and never to an older one, while that item is in the ring               *)
(* (ReqIdTable::GetItem).                                                  *)
THEOREM LatestIsFound == TableSpec => []GetItemFindsLatest
BY Invariance, FindsLatest, PTL

-------------------------------------------------------------------------------
(* The table in use: what every thread and the pump are in the middle of. *)
Place == {"idle", "sent", "gotId", "reserved", "wroteId", "wroteQry"}
PumpPlace == {"idle", "search", "found", "readQry", "told"}

Args == [ctrl : Ctrl, qry : Text, param : Text, given : ReqId \union {None},
         id : ReqId, pos : Nat]
Looks == [id : ReqId \ {NoId}, asked : Request, from : Nat, pos : Slots, turn : Nat,
          qry : Text \union {None}, param : Text \union {None}]

(* The item a call records. *)
ItemOf(t) == [reqId |-> arg[t].id, qry |-> arg[t].qry, param |-> arg[t].param]

TrackTypeOK ==
    /\ curPos \in Nat /\ Len(log) = curPos
    /\ table \in [Slots -> Item] /\ log \in Seq(Item)
    /\ program \in Programs
    /\ sendId \in [Ctrl -> ReqId]
    /\ req \in [ReqId -> Request \union {None}] /\ req[NoId] = None
    /\ pc \in [Thread -> Place] /\ arg \in [Thread -> Args \union {None}]
    /\ \A t \in Thread : Calling(t) => arg[t] \in Args
    /\ pump \in PumpPlace
    /\ pump # "idle" => look \in Looks
    /\ lapped \in BOOLEAN /\ refused \in BOOLEAN

(* A call that has begun finds its position below the bound. *)
Pending == {t \in Thread : pc[t] \in {"sent", "gotId"}}
RoomInv == curPos + Cardinality(Pending) <= MaxPos

(* A position that is being filled is one's own, and in the log. *)
FillInv ==
    \A t \in Thread : Filling(t) =>
        /\ arg[t].pos < curPos
        /\ log[arg[t].pos + 1] = ItemOf(t)
        /\ \A s \in Thread \ {t} : Filling(s) => arg[s].pos # arg[t].pos

(* No thread is filling the n-th item any more. *)
Filled(n) == \A t \in Thread : Filling(t) => arg[t].pos # n - 1

(* What a slot holds that is being filled: before its id is written, the *)
(* id of the item that was there a round ago.                            *)
HalfFilled(t) ==
    LET item == table[SlotOf(arg[t].pos)]
    IN  /\ pc[t] = "reserved" =>
             item.reqId = IF arg[t].pos >= TableSize
                          THEN log[arg[t].pos - TableSize + 1].reqId ELSE NoId
        /\ pc[t] \in {"wroteId", "wroteQry"} => item.reqId = arg[t].id
        /\ pc[t] = "wroteQry" => item.qry = arg[t].qry

RingInv ==
    ~lapped =>
        /\ \A n \in Window : Filled(n) => table[SlotOf(n - 1)] = log[n]
        /\ \A t \in Thread : Filling(t) => arg[t].pos >= curPos - TableSize /\ HalfFilled(t)
        /\ UnusedAreZero

(* A request that is recorded is the item at its position, complete. *)
Recorded(r, id) ==
    r.at > 0 =>
        /\ r.at <= Len(log) /\ Filled(r.at)
        /\ log[r.at] = [reqId |-> id, qry |-> r.qry, param |-> r.param]

(* A call knows its own request by the id it was given. *)
GivenInv ==
    \A t \in Thread : Calling(t) /\ arg[t].given # None =>
        /\ req[arg[t].given] # None /\ req[arg[t].given].at = 0
        /\ req[arg[t].given].qry = arg[t].qry /\ req[arg[t].given].param = arg[t].param
        /\ \A s \in Thread \ {t} : Calling(s) => arg[s].given # arg[t].given

AskedInv ==
    /\ \A id \in ReqId : req[id] # None => Recorded(req[id], id)
    /\ pump # "idle" =>
          /\ Recorded(look.asked, look.id)
          /\ look.asked.at <= look.from /\ look.from <= curPos

(* Where the search stands, and that it has not gone past the item. *)
SearchInv ==
    pump = "search" =>
        /\ look.turn < TableSize /\ look.pos = SlotOf(look.from - look.turn)
        /\ look.qry = None

OwnConditions ==
    look.asked.at > 0 /\ ~lapped /\ Len(log) - look.asked.at < TableSize /\ OnlyItemOfId

OwnInv ==
    pump # "idle" /\ OwnConditions =>
        /\ pump = "search" => look.turn <= look.from - look.asked.at
        /\ pump \in {"found", "readQry"} => look.pos = SlotOf(look.asked.at - 1)
        /\ pump \in {"readQry", "told"} => look.qry = look.asked.qry
        /\ pump = "told" => look.param = look.asked.param

TrackInv ==
    /\ TrackTypeOK /\ RoomInv /\ FillInv /\ RingInv
    /\ GivenInv /\ AskedInv /\ SearchInv /\ OwnInv

-------------------------------------------------------------------------------
(* A client with one thread: its calls and the search do not overlap, and  *)
(* it records every request that was accepted before the answer comes.     *)
AloneInv ==
    /\ ~lapped
    /\ \A t \in Thread : Calling(t) => program[t] # {} /\ (pump = "idle" \/ InCallback)
    /\ \A t \in Thread : Filling(t) => arg[t].pos + 1 = curPos
    /\ \A t \in Thread : Calling(t) /\ arg[t].given # None =>
          /\ sendId[arg[t].ctrl] = arg[t].given
          /\ pc[t] # "sent" => arg[t].id = arg[t].given
    /\ \A id \in ReqId : req[id] # None /\ req[id].at = 0 =>
          \E t \in Thread : Calling(t) /\ arg[t].given = id
    /\ pump # "idle" => look.asked.at > 0 /\ req[look.id] = look.asked
    /\ pump = "search" => curPos = look.from

(* The search has found the latest item of its id that was set before the *)
(* answer came, the n-th, and the client reads it while the ring holds it. *)
HitAt(n) ==
    /\ n \in 1 .. look.from /\ n > look.from - TableSize
    /\ log[n].reqId = look.id /\ look.pos = SlotOf(n - 1)
    /\ \A m \in n + 1 .. look.from : log[m].reqId # look.id
    /\ Len(log) - n < TableSize =>
          /\ pump \in {"readQry", "told"} => look.qry = log[n].qry
          /\ pump = "told" => look.param = log[n].param

Missed ==
    /\ pump = "told" /\ look.qry = None
    /\ \A m \in 1 .. look.from : m > look.from - TableSize => log[m].reqId # look.id

LatestInv ==
    /\ pump = "search" =>
          \A m \in 1 .. look.from : m > look.from - look.turn => log[m].reqId # look.id
    /\ pump \in {"found", "readQry", "told"} => Missed \/ \E n \in 1 .. look.from : HitAt(n)

(* Without refused requests no item but its own has the id of a request. *)
OnlyItem(r, id) == \A m \in 1 .. Len(log) : m > r.at => log[m].reqId # id

NoneRefusedInv ==
    ~refused =>
        /\ \A t \in Thread : Calling(t) => arg[t].given # None
        /\ \A id \in ReqId : req[id] # None /\ req[id].at > 0 => OnlyItem(req[id], id)

SerialInv == Serial => AloneInv /\ LatestInv /\ NoneRefusedInv

-------------------------------------------------------------------------------
(* The locals of a call, as its steps set them. *)
LEMMA ArgSetId ==
    ASSUME NEW a \in Args, NEW id \in ReqId
    PROVE  /\ [a EXCEPT !.id = id] = [ctrl |-> a.ctrl, qry |-> a.qry, param |-> a.param,
                                      given |-> a.given, id |-> id, pos |-> a.pos]
           /\ [a EXCEPT !.id = id] \in Args
BY DEF Args

LEMMA ArgSetPos ==
    ASSUME NEW a \in Args, NEW pos \in Nat
    PROVE  /\ [a EXCEPT !.pos = pos] = [ctrl |-> a.ctrl, qry |-> a.qry, param |-> a.param,
                                        given |-> a.given, id |-> a.id, pos |-> pos]
           /\ [a EXCEPT !.pos = pos] \in Args
BY DEF Args

LEMMA ArgForget ==
    ASSUME NEW a \in Args
    PROVE  /\ [a EXCEPT !.given = None] = [ctrl |-> a.ctrl, qry |-> a.qry, param |-> a.param,
                                           given |-> None, id |-> a.id, pos |-> a.pos]
           /\ [a EXCEPT !.given = None] \in Args
BY DEF Args

(* What each step of a call does to the thread's own place and locals; all *)
(* other threads keep theirs.                                              *)
Others(t) == \A s \in Thread \ {t} : pc'[s] = pc[s] /\ arg'[s] = arg[s]

LEMMA SendStep ==
    ASSUME TrackTypeOK, NEW t \in Thread, NEW c \in Ctrl, NEW q \in Text, NEW p \in Text,
           NEW id \in ReqId \union {None}, Send(t, c, q, p, id)
    PROVE  /\ pc[t] = "idle" /\ pc'[t] = "sent" /\ Others(t)
           /\ arg'[t] = [ctrl |-> c, qry |-> q, param |-> p, given |-> id, id |-> NoId, pos |-> 0]
           /\ arg'[t] \in Args
           /\ pc' \in [Thread -> Place] /\ arg' \in [Thread -> Args \union {None}]
<1> DEFINE a == [ctrl |-> c, qry |-> q, param |-> p, given |-> id, id |-> NoId, pos |-> 0]
<1>1. a \in Args
  BY TableAssumption DEF Args
<1>2. /\ pc[t] = "idle" /\ pc' = [pc EXCEPT ![t] = "sent"]
      /\ arg' = [arg EXCEPT ![t] = a]
  BY DEF Send
<1>3. pc \in [Thread -> Place] /\ arg \in [Thread -> Args \union {None}]
  BY DEF TrackTypeOK
<1> HIDE DEF a
<1>4. arg'[t] = a /\ arg'[t] \in Args /\ arg' \in [Thread -> Args \union {None}]
  BY <1>1, <1>2, <1>3
<1>5. pc'[t] = "sent" /\ pc' \in [Thread -> Place] /\ Others(t)
  BY <1>2, <1>3 DEF Others, Place
<1> QED
  BY <1>2, <1>4, <1>5 DEF a

LEMMA GetSendRqIDStep ==
    ASSUME TrackTypeOK, NEW t \in Thread, GetSendRqID(t)
    PROVE  /\ pc[t] = "sent" /\ pc'[t] = "gotId" /\ Others(t) /\ arg[t] \in Args
           /\ arg'[t] = [ctrl |-> arg[t].ctrl, qry |-> arg[t].qry, param |-> arg[t].param,
                         given |-> arg[t].given, id |-> sendId[arg[t].ctrl], pos |-> arg[t].pos]
           /\ arg'[t] \in Args
           /\ pc' \in [Thread -> Place] /\ arg' \in [Thread -> Args \union {None}]
<1>1. pc \in [Thread -> Place] /\ arg \in [Thread -> Args \union {None}]
  BY DEF TrackTypeOK
<1>2. /\ pc[t] = "sent" /\ pc' = [pc EXCEPT ![t] = "gotId"]
      /\ arg' = [arg EXCEPT ![t] = [arg[t] EXCEPT !.id = sendId[arg[t].ctrl]]]
  BY <1>1 DEF GetSendRqID
<1>3. arg[t] \in Args
  BY <1>2 DEF TrackTypeOK, Calling
<1>4. sendId[arg[t].ctrl] \in ReqId
  BY <1>3 DEF TrackTypeOK, Args
<1>5. arg'[t] = [arg[t] EXCEPT !.id = sendId[arg[t].ctrl]] /\ Others(t)
  BY <1>1, <1>2 DEF Others
<1>6. arg'[t] \in Args
  <2>1. [arg[t] EXCEPT !.id = sendId[arg[t].ctrl]] \in Args
    BY <1>3, <1>4, ArgSetId
  <2> QED
    BY <2>1, <1>5
<1>7. pc'[t] = "gotId" /\ pc' \in [Thread -> Place] /\ arg' \in [Thread -> Args \union {None}]
  BY <1>1, <1>2, <1>5, <1>6 DEF Place
<1> QED
  BY <1>2, <1>3, <1>4, <1>5, <1>6, <1>7, ArgSetId

LEMMA ReserveStep ==
    ASSUME TrackTypeOK, NEW t \in Thread, Reserve(t)
    PROVE  /\ pc[t] = "gotId" /\ pc'[t] = "reserved" /\ Others(t) /\ arg[t] \in Args
           /\ arg'[t] = [ctrl |-> arg[t].ctrl, qry |-> arg[t].qry, param |-> arg[t].param,
                         given |-> arg[t].given, id |-> arg[t].id, pos |-> curPos]
           /\ arg'[t] \in Args
           /\ pc' \in [Thread -> Place] /\ arg' \in [Thread -> Args \union {None}]
           /\ ItemOf(t) \in Item /\ log' = Append(log, ItemOf(t)) /\ ItemOf(t)' = ItemOf(t)
<1>1. pc \in [Thread -> Place] /\ arg \in [Thread -> Args \union {None}] /\ curPos \in Nat
  BY DEF TrackTypeOK
<1>2. /\ pc[t] = "gotId" /\ pc' = [pc EXCEPT ![t] = "reserved"]
      /\ arg' = [arg EXCEPT ![t] = [arg[t] EXCEPT !.pos = curPos]]
      /\ log' = Append(log, ItemOf(t))
  BY <1>1 DEF Reserve, ItemOf
<1>3. arg[t] \in Args
  BY <1>2 DEF TrackTypeOK, Calling
<1>4. arg'[t] = [arg[t] EXCEPT !.pos = curPos] /\ Others(t)
  BY <1>1, <1>2 DEF Others
<1>5. arg'[t] \in Args
  <2>1. [arg[t] EXCEPT !.pos = curPos] \in Args
    BY <1>1, <1>3, ArgSetPos
  <2> QED
    BY <2>1, <1>4
<1>6. pc'[t] = "reserved" /\ pc' \in [Thread -> Place] /\ arg' \in [Thread -> Args \union {None}]
  BY <1>1, <1>2, <1>4, <1>5 DEF Place
<1>7. arg'[t] = [ctrl |-> arg[t].ctrl, qry |-> arg[t].qry, param |-> arg[t].param,
                 given |-> arg[t].given, id |-> arg[t].id, pos |-> curPos]
  BY <1>1, <1>3, <1>4, ArgSetPos
<1>8. ItemOf(t)' = ItemOf(t)
  BY <1>7 DEF ItemOf
<1>9. ItemOf(t) \in Item
  BY <1>3 DEF ItemOf, Item, Args
<1> QED
  BY <1>2, <1>3, <1>4, <1>5, <1>6, <1>7, <1>8, <1>9

(* The steps that fill the slot leave the locals alone. *)
LEMMA WriteStep ==
    ASSUME TrackTypeOK, NEW t \in Thread, WriteId(t) \/ WriteQry(t)
    PROVE  /\ Filling(t) /\ Filling(t)' /\ Others(t) /\ arg[t] \in Args /\ arg' = arg
           /\ pc' \in [Thread -> Place]
           /\ WriteId(t) => pc[t] = "reserved" /\ pc'[t] = "wroteId"
           /\ WriteQry(t) => pc[t] = "wroteId" /\ pc'[t] = "wroteQry"
<1>1. pc \in [Thread -> Place]
  BY DEF TrackTypeOK
<1>2. Calling(t)
  BY DEF WriteId, WriteQry, Calling
<1> QED
  BY <1>1, <1>2 DEF TrackTypeOK, WriteId, WriteQry, Filling, Others, Place

LEMMA WriteParamStep ==
    ASSUME TrackTypeOK, NEW t \in Thread, WriteParam(t)
    PROVE  /\ pc[t] = "wroteQry" /\ Filling(t) /\ arg[t] \in Args
           /\ pc'[t] = "idle" /\ arg'[t] = None /\ Others(t)
           /\ pc' \in [Thread -> Place] /\ arg' \in [Thread -> Args \union {None}]
<1>1. pc \in [Thread -> Place] /\ arg \in [Thread -> Args \union {None}]
  BY DEF TrackTypeOK
<1>2. Calling(t)
  BY DEF WriteParam, Calling
<1> QED
  BY <1>1, <1>2 DEF TrackTypeOK, WriteParam, Filling, Others, Place

(* An answer that is done with: only what the calls were given changes. *)
LEMMA ForgetStep ==
    ASSUME TrackTypeOK, NEW id \in ReqId, Forget(id)
    PROVE  /\ req' = [req EXCEPT ![id] = None]
           /\ arg' \in [Thread -> Args \union {None}]
           /\ \A t \in Thread : Calling(t) =>
                 /\ arg'[t] \in Args
                 /\ arg'[t].ctrl = arg[t].ctrl /\ arg'[t].qry = arg[t].qry
                 /\ arg'[t].param = arg[t].param /\ arg'[t].id = arg[t].id
                 /\ arg'[t].pos = arg[t].pos
                 /\ arg'[t].given = IF arg[t].given = id THEN None ELSE arg[t].given
<1>1. arg \in [Thread -> Args \union {None}] /\ \A t \in Thread : Calling(t) => arg[t] \in Args
  BY DEF TrackTypeOK
<1>2. /\ req' = [req EXCEPT ![id] = None]
      /\ arg' = [t \in Thread |-> IF Calling(t) /\ arg[t].given = id
                                  THEN [arg[t] EXCEPT !.given = None] ELSE arg[t]]
  BY DEF Forget
<1>3. ASSUME NEW t \in Thread, Calling(t), arg[t].given = id
      PROVE  /\ arg'[t] = [ctrl |-> arg[t].ctrl, qry |-> arg[t].qry, param |-> arg[t].param,
                           given |-> None, id |-> arg[t].id, pos |-> arg[t].pos]
             /\ arg'[t] \in Args
  <2>1. arg'[t] = [arg[t] EXCEPT !.given = None]
    BY <1>2, <1>3
  <2> QED
    BY <2>1, <1>1, <1>3, ArgForget
<1>4. \A t \in Thread : ~(Calling(t) /\ arg[t].given = id) => arg'[t] = arg[t]
  BY <1>2
<1>5. \A t \in Thread : arg'[t] \in Args \union {None}
  BY <1>1, <1>3, <1>4
<1>6. arg' \in [Thread -> Args \union {None}]
  <2> DEFINE known(t) == IF Calling(t) /\ arg[t].given = id
                         THEN [arg[t] EXCEPT !.given = None] ELSE arg[t]
  <2>1. arg' = [t \in Thread |-> known(t)]
    BY <1>2
  <2> HIDE DEF known
  <2> QED
    BY <2>1, <1>5
<1> QED
  BY <1>1, <1>2, <1>3, <1>4, <1>5, <1>6

(* The locals of the search. *)
LEMMA LookCounts ==
    ASSUME NEW l \in Looks, NEW turn \in Nat
    PROVE  /\ [l EXCEPT !.turn = turn] =
                  [id |-> l.id, asked |-> l.asked, from |-> l.from, pos |-> l.pos,
                   turn |-> turn, qry |-> l.qry, param |-> l.param]
           /\ [l EXCEPT !.turn = turn] \in Looks
BY DEF Looks

LEMMA LookTurned ==
    ASSUME NEW l \in Looks, NEW pos \in Slots, NEW turn \in Nat
    PROVE  /\ [l EXCEPT !.pos = pos, !.turn = turn] =
                  [id |-> l.id, asked |-> l.asked, from |-> l.from, pos |-> pos,
                   turn |-> turn, qry |-> l.qry, param |-> l.param]
           /\ [l EXCEPT !.pos = pos, !.turn = turn] \in Looks
<1> DEFINE m == [l EXCEPT !.pos = pos]
<1>1. m = [id |-> l.id, asked |-> l.asked, from |-> l.from, pos |-> pos,
           turn |-> l.turn, qry |-> l.qry, param |-> l.param]
  BY DEF Looks
<1>2. m \in Looks
  BY <1>1 DEF Looks
<1>3. [l EXCEPT !.pos = pos, !.turn = turn] = [m EXCEPT !.turn = turn]
  OBVIOUS
<1> HIDE DEF m
<1>4. /\ [m EXCEPT !.turn = turn] =
             [id |-> m.id, asked |-> m.asked, from |-> m.from, pos |-> m.pos,
              turn |-> turn, qry |-> m.qry, param |-> m.param]
      /\ [m EXCEPT !.turn = turn] \in Looks
  BY <1>2, LookCounts
<1> QED
  BY <1>1, <1>3, <1>4

LEMMA LookReads ==
    ASSUME NEW l \in Looks, NEW text \in Text
    PROVE  /\ [l EXCEPT !.qry = text] =
                  [id |-> l.id, asked |-> l.asked, from |-> l.from, pos |-> l.pos,
                   turn |-> l.turn, qry |-> text, param |-> l.param]
           /\ [l EXCEPT !.param = text] =
                  [id |-> l.id, asked |-> l.asked, from |-> l.from, pos |-> l.pos,
                   turn |-> l.turn, qry |-> l.qry, param |-> text]
           /\ [l EXCEPT !.qry = text] \in Looks /\ [l EXCEPT !.param = text] \in Looks
BY DEF Looks

(* The slot is the remainder, which is unique. *)
LEMMA SlotUnique ==
    ASSUME NEW a \in Int, NEW q \in Int, NEW r \in 0 .. TableSize - 1, a = TableSize * q + r
    PROVE  SlotOf(a) = r
<1> DEFINE N == TableSize
           s == a % N
           p == a \div N
<1>1. N \in Nat /\ N > 0
  BY TableAssumption
<1>2. p \in Int /\ a = N * p + s /\ s \in 0 .. N - 1
  BY <1>1, SMT
<1>3. N * (q - p) = s - r
  <2>1. N * (q - p) = N * q - N * p
    BY <1>1, <1>2, SMT
  <2> QED
    BY <2>1, <1>1, <1>2, SMT
<1> HIDE DEF N, s, p
<1>4. q - p \in Int /\ N * (q - p) < N /\ N * (q - p) > -N
  BY <1>1, <1>2, <1>3, SMT DEF N
<1>5. CASE q - p >= 1
  <2>1. N * (q - p) >= N
    BY <1>5, <1>1, <1>4, SMT
  <2> QED
    BY <2>1, <1>1, <1>4, SMT
<1>6. CASE q - p <= -1
  <2>1. N * (q - p) <= -N
    BY <1>6, <1>1, <1>4, SMT
  <2> QED
    BY <2>1, <1>1, <1>4, SMT
<1>7. CASE q - p = 0
  <2>1. N * (q - p) = 0
    BY <1>7, <1>1
  <2> QED
    BY <2>1, <1>2, <1>3, SMT DEF SlotOf, s, N
<1> QED
  BY <1>4, <1>5, <1>6, <1>7

(* One slot back from the slot of a position is that of the one before. *)
LEMMA SlotBefore ==
    ASSUME NEW a \in Int
    PROVE  SlotOf(a - 1) = IF SlotOf(a) - 1 < 0 THEN TableSize - 1 ELSE SlotOf(a) - 1
<1> DEFINE q == a \div TableSize
           r == a % TableSize
<1>1. /\ TableSize \in Nat /\ TableSize > 0
      /\ q \in Int /\ a = TableSize * q + r /\ r \in 0 .. TableSize - 1
  BY TableAssumption, SMT
<1> HIDE DEF q, r
<1>2. CASE r > 0
  <2>1. /\ a - 1 = TableSize * q + (r - 1) /\ r - 1 \in 0 .. TableSize - 1
        /\ a - 1 \in Int
    BY <1>1, <1>2, SMT
  <2>2. SlotOf(a - 1) = r - 1
    BY <2>1, <1>1, SlotUnique
  <2> QED
    BY <2>2, <1>1, <1>2 DEF SlotOf, r
<1>3. CASE r = 0
  <2>1. TableSize * (q - 1) = TableSize * q - TableSize
    BY <1>1, SMT
  <2>2. /\ a - 1 = TableSize * (q - 1) + (TableSize - 1)
        /\ TableSize - 1 \in 0 .. TableSize - 1 /\ q - 1 \in Int
    BY <2>1, <1>1, <1>3, SMT
  <2>3. SlotOf(a - 1) = TableSize - 1
    BY <2>2, SlotUnique
  <2> QED
    BY <2>3, <1>3 DEF SlotOf, r
<1> QED
  BY <1>1, <1>2, <1>3

(* Positions a round apart share their slot. *)
LEMMA SameSlot ==
    ASSUME NEW a \in Int
    PROVE  SlotOf(a - TableSize) = SlotOf(a)
<1> DEFINE q == a \div TableSize
           r == a % TableSize
<1>1. /\ TableSize \in Nat /\ TableSize > 0
      /\ q \in Int /\ a = TableSize * q + r /\ r \in 0 .. TableSize - 1
  BY TableAssumption, SMT
<1> HIDE DEF q, r
<1>2. TableSize * (q - 1) = TableSize * q - TableSize
  BY <1>1, SMT
<1>3. a - TableSize = TableSize * (q - 1) + r /\ q - 1 \in Int /\ a - TableSize \in Int
  BY <1>1, <1>2, SMT
<1>4. SlotOf(a - TableSize) = r
  BY <1>1, <1>3, SlotUnique
<1> QED
  BY <1>4 DEF SlotOf, r

-------------------------------------------------------------------------------
(* What a client asks is a control, a name and a parameter. *)
LEMMA AskTyped ==
    ASSUME TrackTypeOK, NEW t \in Thread, NEW ask \in program[t]
    PROVE  ask[1] \in Ctrl /\ ask[2] \in Text /\ ask[3] \in Text
<1>1. program[t] \in SUBSET (Ctrl \X (Text \ {Empty}) \X Text)
  BY TrackingAssumption DEF TrackTypeOK
<1> QED
  BY <1>1

(* Both calls of a client are a Send of texts. *)
LEMMA CallIsSend ==
    ASSUME TrackTypeOK, NEW t \in Thread, RequestData(t) \/ RequestNextData(t)
    PROVE  \E c \in Ctrl, q \in Text, p \in Text, id \in ReqId \union {None} :
              Send(t, c, q, p, id)
<1>1. PICK ask \in program[t], id \in ReqId \union {None}, p \in Text :
         Send(t, ask[1], ask[2], p, id)
  BY AskTyped, TrackingAssumption DEF RequestData, RequestNextData
<1> QED
  BY <1>1, AskTyped

LEMMA RequestRecorded ==
    ASSUME NEW r \in Request, NEW n \in Nat
    PROVE  /\ [r EXCEPT !.at = n] = [ctrl |-> r.ctrl, qry |-> r.qry, param |-> r.param, at |-> n]
           /\ [r EXCEPT !.at = n] \in Request
BY DEF Request

(* What each step does to the requests that the control knows. *)
LEMMA SendReq ==
    ASSUME TrackTypeOK, NEW t \in Thread, NEW c \in Ctrl, NEW q \in Text, NEW p \in Text,
           NEW id \in ReqId \union {None}, Send(t, c, q, p, id)
    PROVE  /\ req' \in [ReqId -> Request \union {None}] /\ req'[NoId] = None
           /\ id = None => req' = req /\ sendId' = sendId
           /\ id # None =>
                 /\ id \in ReqId \ {NoId} /\ req[id] = None
                 /\ req'[id] = [ctrl |-> c, qry |-> q, param |-> p, at |-> 0]
                 /\ req'[id] # None
                 /\ \A i \in ReqId \ {id} : req'[i] = req[i]
                 /\ sendId'[c] = id /\ refused' = refused
           /\ sendId' \in [Ctrl -> ReqId] /\ refused' \in BOOLEAN
<1> DEFINE r == [ctrl |-> c, qry |-> q, param |-> p, at |-> 0]
<1>1. r \in Request /\ r # None
  BY TrackingAssumption DEF Request
<1>2. req \in [ReqId -> Request \union {None}] /\ sendId \in [Ctrl -> ReqId] /\ req[NoId] = None
  BY DEF TrackTypeOK
<1>3. CASE id \in ReqId
  <2>1. /\ id \in ReqId \ {NoId} /\ req[id] = None
        /\ req' = [req EXCEPT ![id] = r] /\ sendId' = [sendId EXCEPT ![c] = id]
        /\ refused' = refused
    BY <1>3, TrackingAssumption DEF Send
  <2> HIDE DEF r
  <2>2. /\ req' \in [ReqId -> Request \union {None}] /\ req'[NoId] = None /\ req'[id] = r
        /\ \A i \in ReqId \ {id} : req'[i] = req[i]
    BY <2>1, <1>1, <1>2, TableAssumption
  <2>3. sendId' \in [Ctrl -> ReqId] /\ sendId'[c] = id /\ refused' \in BOOLEAN
    BY <2>1, <1>2 DEF TrackTypeOK
  <2> QED
    BY <2>1, <2>2, <2>3, <1>1, <1>3, TrackingAssumption DEF r
<1>4. CASE id = None
  <2>1. req' = req /\ sendId' = sendId /\ refused' = Serial
    BY <1>4, TrackingAssumption DEF Send
  <2>2. refused' \in BOOLEAN
    BY <2>1 DEF Serial
  <2> QED
    BY <2>1, <2>2, <1>2, <1>4
<1> QED
  BY <1>3, <1>4

LEMMA WriteParamReq ==
    ASSUME TrackTypeOK, NEW t \in Thread, WriteParam(t)
    PROVE  /\ req' \in [ReqId -> Request \union {None}] /\ req'[NoId] = None
           /\ \A i \in ReqId :
                 \/ req'[i] = req[i] /\ (i = arg[t].given => i # arg[t].id \/ req[i] = None)
                 \/ /\ i = arg[t].id /\ i = arg[t].given /\ req[i] \in Request
                    /\ req'[i] = [ctrl |-> req[i].ctrl, qry |-> req[i].qry,
                                  param |-> req[i].param, at |-> arg[t].pos + 1]
                    /\ req'[i] \in Request
<1>1. arg[t] \in Args
  BY WriteParamStep
<1>2. req \in [ReqId -> Request \union {None}] /\ req[NoId] = None
  BY DEF TrackTypeOK
<1> DEFINE id == arg[t].id
           n == arg[t].pos + 1
           r == [req[id] EXCEPT !.at = n]
<1>3. id \in ReqId /\ n \in Nat
  BY <1>1 DEF Args
<1>4. CASE arg[t].given = id /\ req[id] # None
  <2>1. req' = [req EXCEPT ![id] = r]
    BY <1>2, <1>3, <1>4 DEF WriteParam
  <2>2. req[id] \in Request
    BY <1>2, <1>3, <1>4
  <2> HIDE DEF n
  <2>3. /\ r = [ctrl |-> req[id].ctrl, qry |-> req[id].qry, param |-> req[id].param, at |-> n]
        /\ r \in Request
    BY <2>2, <1>3, RequestRecorded
  <2> HIDE DEF r, id
  <2>4. req'[id] = r /\ \A i \in ReqId \ {id} : req'[i] = req[i]
    BY <2>1, <1>2, <1>3
  <2>5. req' \in [ReqId -> Request \union {None}]
    BY <2>1, <2>3, <1>2, <1>3
  <2>6. req'[NoId] = None
    BY <2>4, <1>2, <1>4, TableAssumption
  <2> QED
    BY <2>2, <2>3, <2>4, <2>5, <2>6, <1>4 DEF n, id
<1>5. CASE ~(arg[t].given = id /\ req[id] # None)
  <2>1. req' = req
    BY <1>5 DEF WriteParam
  <2> QED
    BY <2>1, <1>2, <1>5
<1> QED
  BY <1>4, <1>5

-------------------------------------------------------------------------------
(* Type correctness, one step per action. *)
LEMMA CallingTyped ==
    ASSUME TrackTypeOK, NEW t \in Thread, Others(t), Calling(t)' => arg'[t] \in Args
    PROVE  \A s \in Thread : Calling(s)' => arg'[s] \in Args
BY DEF TrackTypeOK, Others, Calling

LEMMA SendTyped ==
    ASSUME TrackTypeOK, program' = program, NEW t \in Thread,
           RequestData(t) \/ RequestNextData(t)
    PROVE  TrackTypeOK'
<1>1. PICK c \in Ctrl, q \in Text, p \in Text, id \in ReqId \union {None} : Send(t, c, q, p, id)
  BY CallIsSend
<1>2. /\ pc' \in [Thread -> Place] /\ arg' \in [Thread -> Args \union {None}]
      /\ arg'[t] \in Args /\ Others(t)
  BY <1>1, SendStep
<1>3. \A s \in Thread : Calling(s)' => arg'[s] \in Args
  BY <1>2, CallingTyped
<1>4. /\ req' \in [ReqId -> Request \union {None}] /\ req'[NoId] = None
      /\ sendId' \in [Ctrl -> ReqId] /\ refused' \in BOOLEAN
  BY <1>1, SendReq
<1>5. UNCHANGED <<tableVars, pump, look, lapped>>
  BY <1>1 DEF Send
<1> QED
  BY <1>2, <1>3, <1>4, <1>5 DEF TrackTypeOK, tableVars

LEMMA GetSendRqIDTyped ==
    ASSUME TrackTypeOK, program' = program, NEW t \in Thread, GetSendRqID(t)
    PROVE  TrackTypeOK'
<1>1. /\ pc' \in [Thread -> Place] /\ arg' \in [Thread -> Args \union {None}]
      /\ arg'[t] \in Args /\ Others(t)
  BY GetSendRqIDStep
<1>2. \A s \in Thread : Calling(s)' => arg'[s] \in Args
  BY <1>1, CallingTyped
<1>3. UNCHANGED <<tableVars, sendId, req, pump, look, lapped, refused>>
  BY DEF GetSendRqID
<1> QED
  BY <1>1, <1>2, <1>3 DEF TrackTypeOK, tableVars

LEMMA ReserveTyped ==
    ASSUME TrackTypeOK, program' = program, NEW t \in Thread, Reserve(t)
    PROVE  TrackTypeOK'
<1>1. /\ pc' \in [Thread -> Place] /\ arg' \in [Thread -> Args \union {None}]
      /\ arg'[t] \in Args /\ Others(t)
      /\ ItemOf(t) \in Item /\ log' = Append(log, ItemOf(t))
  BY ReserveStep
<1>2. \A s \in Thread : Calling(s)' => arg'[s] \in Args
  BY <1>1, CallingTyped
<1>3. /\ UNCHANGED <<table, sendId, req, pump, look, refused>>
      /\ curPos' = curPos + 1 /\ lapped' \in BOOLEAN
  BY DEF Reserve
<1>4. curPos' \in Nat /\ log' \in Seq(Item) /\ Len(log') = curPos'
  <2> HIDE DEF ItemOf
  <2> QED
    BY <1>1, <1>3 DEF TrackTypeOK
<1> QED
  BY <1>1, <1>2, <1>3, <1>4 DEF TrackTypeOK

(* A step that fills a slot changes that slot only. *)
LEMMA SlotTyped ==
    ASSUME TrackTypeOK, NEW t \in Thread, arg[t] \in Args,
           WriteId(t) \/ WriteQry(t) \/ WriteParam(t)
    PROVE  /\ arg[t].pos \in Nat /\ SlotOf(arg[t].pos) \in Slots
           /\ table[SlotOf(arg[t].pos)] \in Item
           /\ table' = [table EXCEPT ![SlotOf(arg[t].pos)] = table'[SlotOf(arg[t].pos)]]
           /\ table'[SlotOf(arg[t].pos)] \in Item
           /\ WriteId(t) => table'[SlotOf(arg[t].pos)].reqId = arg[t].id
           /\ WriteQry(t) => /\ table'[SlotOf(arg[t].pos)].qry = arg[t].qry
                             /\ table'[SlotOf(arg[t].pos)].reqId = table[SlotOf(arg[t].pos)].reqId
           /\ WriteParam(t) => /\ table'[SlotOf(arg[t].pos)].param = arg[t].param
                               /\ table'[SlotOf(arg[t].pos)].qry = table[SlotOf(arg[t].pos)].qry
                               /\ table'[SlotOf(arg[t].pos)].reqId = table[SlotOf(arg[t].pos)].reqId
<1> DEFINE s == SlotOf(arg[t].pos)
<1>1. /\ arg[t].id \in ReqId /\ arg[t].qry \in Text /\ arg[t].param \in Text
      /\ arg[t].pos \in Nat
  BY DEF Args
<1>2. s \in Slots
  BY <1>1, SlotInTable
<1>3. table \in [Slots -> Item]
  BY DEF TrackTypeOK
<1> HIDE DEF s
<1>4. table[s] \in Item
  BY <1>2, <1>3
<1>5. CASE WriteId(t)
  <2>1. table' = [table EXCEPT ![s].reqId = arg[t].id]
    BY <1>5 DEF WriteId, s
  <2>2. table'[s] = [table[s] EXCEPT !.reqId = arg[t].id]
    BY <2>1, <1>2, <1>3
  <2> QED
    BY <2>1, <2>2, <1>1, <1>2, <1>3, <1>4, <1>5 DEF Item, s, WriteQry, WriteParam, WriteId
<1>6. CASE WriteQry(t)
  <2>1. table' = [table EXCEPT ![s].qry = arg[t].qry]
    BY <1>6 DEF WriteQry, s
  <2>2. table'[s] = [table[s] EXCEPT !.qry = arg[t].qry]
    BY <2>1, <1>2, <1>3
  <2> QED
    BY <2>1, <2>2, <1>1, <1>2, <1>3, <1>4, <1>6 DEF Item, s, WriteQry, WriteParam, WriteId
<1>7. CASE WriteParam(t)
  <2>1. table' = [table EXCEPT ![s].param = arg[t].param]
    BY <1>7 DEF WriteParam, s
  <2>2. table'[s] = [table[s] EXCEPT !.param = arg[t].param]
    BY <2>1, <1>2, <1>3
  <2> QED
    BY <2>1, <2>2, <1>1, <1>2, <1>3, <1>4, <1>7 DEF Item, s, WriteQry, WriteParam, WriteId
<1> QED
  BY <1>5, <1>6, <1>7

LEMMA WriteTyped ==
    ASSUME TrackTypeOK, program' = program, NEW t \in Thread,
           WriteId(t) \/ WriteQry(t) \/ WriteParam(t)
    PROVE  TrackTypeOK'
<1>1. arg[t] \in Args
  BY WriteStep, WriteParamStep
<1>2. table' \in [Slots -> Item]
  BY <1>1, SlotTyped DEF TrackTypeOK
<1>3. UNCHANGED <<curPos, log, sendId, pump, look, lapped, refused>>
  BY DEF WriteId, WriteQry, WriteParam
<1>4. CASE WriteId(t) \/ WriteQry(t)
  <2>1. pc' \in [Thread -> Place] /\ arg' = arg /\ Others(t)
    BY <1>4, WriteStep
  <2>2. \A s \in Thread : Calling(s)' => arg'[s] \in Args
    BY <2>1, <1>1, CallingTyped
  <2>3. req' = req
    BY <1>4 DEF WriteId, WriteQry
  <2> QED
    BY <2>1, <2>2, <2>3, <1>2, <1>3 DEF TrackTypeOK
<1>5. CASE WriteParam(t)
  <2>1. /\ pc' \in [Thread -> Place] /\ arg' \in [Thread -> Args \union {None}]
        /\ pc'[t] = "idle" /\ Others(t)
    BY <1>5, WriteParamStep
  <2>2. \A s \in Thread : Calling(s)' => arg'[s] \in Args
    BY <2>1, CallingTyped DEF Calling
  <2>3. req' \in [ReqId -> Request \union {None}] /\ req'[NoId] = None
    BY <1>5, WriteParamReq
  <2> QED
    BY <2>1, <2>2, <2>3, <1>2, <1>3 DEF TrackTypeOK
<1> QED
  BY <1>4, <1>5

(* The steps of the pumping thread. *)
LEMMA OnReceiveDataStep ==
    ASSUME TrackTypeOK, NEW id \in ReqId, OnReceiveData(id)
    PROVE  /\ pump = "idle" /\ pump' = "search" /\ id # NoId /\ req[id] \in Request
           /\ look' = [id |-> id, asked |-> req[id], from |-> curPos, pos |-> SlotOf(curPos),
                       turn |-> 0, qry |-> None, param |-> None]
           /\ look' \in Looks
           /\ UNCHANGED <<tableVars, sendId, req, pc, arg, lapped, refused>>
<1>1. /\ pump = "idle" /\ pump' = "search" /\ req[id] # None
      /\ look' = [id |-> id, asked |-> req[id], from |-> curPos, pos |-> SlotOf(curPos),
                  turn |-> 0, qry |-> None, param |-> None]
      /\ UNCHANGED <<tableVars, sendId, req, pc, arg, lapped, refused>>
  BY DEF OnReceiveData
<1>2. id # NoId /\ req[id] \in Request /\ curPos \in Nat /\ SlotOf(curPos) \in Slots
  BY <1>1, SlotInTable DEF TrackTypeOK
<1>3. look' \in Looks
  BY <1>1, <1>2 DEF Looks
<1> QED
  BY <1>1, <1>2, <1>3

LEMMA SearchTurnStep ==
    ASSUME TrackTypeOK, SearchInv, SearchTurn
    PROVE  LET pos == SlotOf(look.from - look.turn - 1)
               hit == table[pos].reqId = look.id
           IN  /\ pump = "search" /\ look \in Looks /\ pos \in Slots
               /\ look' = [id |-> look.id, asked |-> look.asked, from |-> look.from,
                           pos |-> pos, turn |-> look.turn + 1,
                           qry |-> look.qry, param |-> look.param]
               /\ look' \in Looks
               /\ pump' = IF hit THEN "found"
                          ELSE IF look.turn + 1 = TableSize THEN "told" ELSE "search"
               /\ UNCHANGED <<tableVars, sendId, req, pc, arg, lapped, refused>>
<1> DEFINE pos == SlotOf(look.from - look.turn - 1)
           back == IF look.pos - 1 < 0 THEN TableSize - 1 ELSE look.pos - 1
<1>1. pump = "search" /\ look \in Looks
  BY DEF SearchTurn, TrackTypeOK
<1>2. look.from \in Nat /\ look.turn \in Nat /\ look.turn + 1 \in Nat
  BY <1>1 DEF Looks
<1>3. look.from - look.turn \in Int /\ look.pos = SlotOf(look.from - look.turn)
  BY <1>1, <1>2 DEF SearchInv
<1>4. back = pos
  BY <1>3, SlotBefore
<1>5. pos \in Slots
  BY <1>2, SlotInTable
<1>6. /\ look' = [look EXCEPT !.pos = back, !.turn = look.turn + 1]
      /\ pump' = IF table[back].reqId = look.id THEN "found"
                 ELSE IF look.turn + 1 = TableSize THEN "told" ELSE "search"
      /\ UNCHANGED <<tableVars, sendId, req, pc, arg, lapped, refused>>
  BY DEF SearchTurn
<1> HIDE DEF pos, back
<1>7. /\ [look EXCEPT !.pos = pos, !.turn = look.turn + 1] =
              [id |-> look.id, asked |-> look.asked, from |-> look.from, pos |-> pos,
               turn |-> look.turn + 1, qry |-> look.qry, param |-> look.param]
      /\ [look EXCEPT !.pos = pos, !.turn = look.turn + 1] \in Looks
  BY <1>1, <1>2, <1>5, LookTurned
<1> QED
  BY <1>1, <1>4, <1>5, <1>6, <1>7 DEF pos

LEMMA ReadQryStep ==
    ASSUME TrackTypeOK, ReadQry
    PROVE  /\ pump = "found" /\ pump' = "readQry" /\ look \in Looks
           /\ look' = [id |-> look.id, asked |-> look.asked, from |-> look.from,
                       pos |-> look.pos, turn |-> look.turn,
                       qry |-> table[look.pos].qry, param |-> look.param]
           /\ look' \in Looks /\ table[look.pos].qry \in Text
           /\ UNCHANGED <<tableVars, sendId, req, pc, arg, lapped, refused>>
<1>1. pump = "found" /\ look \in Looks
  BY DEF ReadQry, TrackTypeOK
<1>2. table[look.pos].qry \in Text
  BY <1>1 DEF TrackTypeOK, Looks, Item
<1>3. /\ look' = [look EXCEPT !.qry = table[look.pos].qry] /\ pump' = "readQry"
      /\ UNCHANGED <<tableVars, sendId, req, pc, arg, lapped, refused>>
  BY DEF ReadQry
<1> QED
  BY <1>1, <1>2, <1>3, LookReads

LEMMA ReadParamStep ==
    ASSUME TrackTypeOK, ReadParam
    PROVE  /\ pump = "readQry" /\ pump' = "told" /\ look \in Looks
           /\ look' = [id |-> look.id, asked |-> look.asked, from |-> look.from,
                       pos |-> look.pos, turn |-> look.turn,
                       qry |-> look.qry, param |-> table[look.pos].param]
           /\ look' \in Looks /\ table[look.pos].param \in Text
           /\ UNCHANGED <<tableVars, sendId, req, pc, arg, lapped, refused>>
<1>1. pump = "readQry" /\ look \in Looks
  BY DEF ReadParam, TrackTypeOK
<1>2. table[look.pos].param \in Text
  BY <1>1 DEF TrackTypeOK, Looks, Item
<1>3. /\ look' = [look EXCEPT !.param = table[look.pos].param] /\ pump' = "told"
      /\ UNCHANGED <<tableVars, sendId, req, pc, arg, lapped, refused>>
  BY DEF ReadParam
<1> QED
  BY <1>1, <1>2, <1>3, LookReads

(* An answer is done with: at once, or after its callback. *)
LEMMA AnsweredStep ==
    ASSUME TrackTypeOK, (\E id \in ReqId : AnswerWithoutLookup(id)) \/ CallbackReturns
    PROVE  /\ \E id \in ReqId : Forget(id)
           /\ pump' = "idle"
           /\ UNCHANGED <<tableVars, sendId, pc, lapped, refused>>
<1>1. CallbackReturns => look.id \in ReqId
  BY DEF CallbackReturns, TrackTypeOK, Looks
<1> QED
  BY <1>1 DEF AnswerWithoutLookup, CallbackReturns

LEMMA PumpTyped ==
    ASSUME TrackTypeOK, SearchInv, program' = program, PumpStep
    PROVE  TrackTypeOK'
<1>1. ASSUME NEW id \in ReqId, OnReceiveData(id) PROVE TrackTypeOK'
  BY <1>1, OnReceiveDataStep DEF TrackTypeOK, PumpPlace, tableVars, Calling
<1>2. ASSUME (\E id \in ReqId : AnswerWithoutLookup(id)) \/ CallbackReturns
      PROVE  TrackTypeOK'
  <2>1. PICK id \in ReqId : Forget(id)
    BY <1>2, AnsweredStep
  <2>2. pump' = "idle" /\ UNCHANGED <<tableVars, sendId, pc, lapped, refused>>
    BY <1>2, AnsweredStep
  <2>3. /\ req' = [req EXCEPT ![id] = None]
        /\ arg' \in [Thread -> Args \union {None}]
        /\ \A t \in Thread : Calling(t) => arg'[t] \in Args
    BY <2>1, ForgetStep
  <2>4. req' \in [ReqId -> Request \union {None}] /\ req'[NoId] = None
    BY <2>3, TableAssumption DEF TrackTypeOK
  <2>5. \A t \in Thread : Calling(t)' <=> Calling(t)
    BY <2>2 DEF Calling
  <2> QED
    BY <2>2, <2>3, <2>4, <2>5 DEF TrackTypeOK, PumpPlace, tableVars
<1>3. CASE SearchTurn
  BY <1>3, SearchTurnStep DEF TrackTypeOK, PumpPlace, tableVars, Calling
<1>4. CASE ReadQry
  BY <1>4, ReadQryStep DEF TrackTypeOK, PumpPlace, tableVars, Calling
<1>5. CASE ReadParam
  BY <1>5, ReadParamStep DEF TrackTypeOK, PumpPlace, tableVars, Calling
<1> QED
  BY <1>1, <1>2, <1>3, <1>4, <1>5 DEF PumpStep

LEMMA TrackTyped ==
    ASSUME TrackTypeOK, SearchInv, [Next]_vars
    PROVE  TrackTypeOK'
<1>1. CASE UNCHANGED vars
  BY <1>1 DEF vars, tracking, tableVars, TrackTypeOK, Calling
<1>2. CASE Next
  BY <1>2, SendTyped, GetSendRqIDTyped, ReserveTyped, WriteTyped, PumpTyped
     DEF Next, CallStep
<1> QED
  BY <1>1, <1>2

-------------------------------------------------------------------------------
(* Room: a call that has begun keeps its place below the bound. *)
LEMMA RoomKept ==
    ASSUME TrackTypeOK, RoomInv, [Next]_vars
    PROVE  RoomInv'
<1>1. IsFiniteSet(Pending) /\ Cardinality(Pending) \in Nat
  BY TrackingAssumption, FS_Subset, FS_CardinalityType DEF Pending
<1>2. curPos \in Nat /\ MaxPos \in Nat /\ pc \in [Thread -> Place]
  BY TableAssumption DEF TrackTypeOK
<1>3. ASSUME curPos' = curPos, pc' = pc PROVE RoomInv'
  <2>1. Pending' = Pending
    BY <1>3 DEF Pending
  <2> QED
    BY <1>3, <2>1 DEF RoomInv
<1>4. ASSUME NEW t \in Thread, RequestData(t) \/ RequestNextData(t)
      PROVE  RoomInv'
  <2>1. PICK c \in Ctrl, q \in Text, p \in Text, id \in ReqId \union {None} :
           Send(t, c, q, p, id)
    BY <1>4, CallIsSend
  <2> DEFINE Busy == {u \in Thread : Calling(u)}
  <2>2. /\ curPos + Cardinality(Busy) < MaxPos /\ curPos' = curPos
        /\ pc[t] = "idle" /\ pc'[t] = "sent" /\ \A s \in Thread \ {t} : pc'[s] = pc[s]
    BY <2>1, SendStep DEF Others, Send, tableVars
  <2>3. Pending' = Pending \union {t} /\ t \notin Pending
    BY <2>2 DEF Pending
  <2>4. Cardinality(Pending') = Cardinality(Pending) + 1
    BY <1>1, <2>3, FS_AddElement
  <2>5. Pending \subseteq Busy /\ IsFiniteSet(Busy)
    BY TrackingAssumption, FS_Subset DEF Pending, Calling
  <2> HIDE DEF Busy
  <2>6. Cardinality(Pending) <= Cardinality(Busy) /\ Cardinality(Busy) \in Nat
    BY <2>5, FS_Subset, FS_CardinalityType
  <2> QED
    BY <1>1, <1>2, <2>2, <2>4, <2>6 DEF RoomInv
<1>5. ASSUME NEW t \in Thread, GetSendRqID(t)
      PROVE  RoomInv'
  <2>1. pc[t] = "sent" /\ pc'[t] = "gotId" /\ \A s \in Thread \ {t} : pc'[s] = pc[s]
    BY <1>5, GetSendRqIDStep DEF Others
  <2>2. Pending' = Pending /\ curPos' = curPos
    BY <2>1, <1>5 DEF Pending, GetSendRqID, tableVars
  <2> QED
    BY <2>2 DEF RoomInv
<1>6. ASSUME NEW t \in Thread, Reserve(t)
      PROVE  RoomInv'
  <2>1. pc[t] = "gotId" /\ pc'[t] = "reserved" /\ \A s \in Thread \ {t} : pc'[s] = pc[s]
    BY <1>6, ReserveStep DEF Others
  <2>2. Pending' = Pending \ {t} /\ t \in Pending /\ curPos' = curPos + 1
    BY <2>1, <1>6 DEF Pending, Reserve
  <2>3. Cardinality(Pending') = Cardinality(Pending) - 1
    BY <1>1, <2>2, FS_RemoveElement
  <2> QED
    BY <1>1, <1>2, <2>2, <2>3 DEF RoomInv
<1>7. ASSUME NEW t \in Thread, WriteId(t) \/ WriteQry(t) \/ WriteParam(t)
      PROVE  RoomInv'
  <2>1. /\ pc[t] \notin {"sent", "gotId"} /\ pc'[t] \notin {"sent", "gotId"}
        /\ \A s \in Thread \ {t} : pc'[s] = pc[s]
    BY <1>7, WriteStep, WriteParamStep DEF Others, Filling
  <2>2. Pending' = Pending /\ curPos' = curPos
    BY <2>1, <1>7 DEF Pending, WriteId, WriteQry, WriteParam
  <2> QED
    BY <2>2 DEF RoomInv
<1>8. CASE PumpStep
  BY <1>8, <1>3 DEF PumpStep, OnReceiveData, AnswerWithoutLookup, SearchTurn, ReadQry,
                    ReadParam, CallbackReturns, tableVars
<1>9. CASE UNCHANGED vars
  BY <1>9, <1>3 DEF vars, tracking, tableVars
<1> QED
  BY <1>4, <1>5, <1>6, <1>7, <1>8, <1>9 DEF Next, CallStep

(* The search goes back one position per turn. *)
LEMMA SearchKept ==
    ASSUME TrackTypeOK, SearchInv, [Next]_vars
    PROVE  SearchInv'
<1>1. CASE UNCHANGED <<pump, look>>
  BY <1>1 DEF SearchInv
<1>2. ASSUME NEW id \in ReqId, OnReceiveData(id) PROVE SearchInv'
  BY <1>2, OnReceiveDataStep, TableAssumption DEF SearchInv, TrackTypeOK
<1>3. CASE SearchTurn
  <2>1. look.from \in Nat /\ look.turn \in Nat
    BY <1>3, SearchTurnStep DEF Looks
  <2>2. look.from - (look.turn + 1) = look.from - look.turn - 1
    BY <2>1
  <2> QED
    BY <2>1, <2>2, <1>3, SearchTurnStep, TableAssumption DEF SearchInv
<1>4. CASE ReadQry \/ ReadParam \/ CallbackReturns
  BY <1>4 DEF ReadQry, ReadParam, CallbackReturns, SearchInv
<1>5. ASSUME NEW t \in Thread, CallStep(t) PROVE UNCHANGED <<pump, look>>
  BY <1>5 DEF CallStep, RequestData, RequestNextData, Send, GetSendRqID, Reserve,
              WriteId, WriteQry, WriteParam
<1> QED
  BY <1>1, <1>2, <1>3, <1>4, <1>5
     DEF Next, PumpStep, AnswerWithoutLookup, vars, tracking

-------------------------------------------------------------------------------
(* Two threads fill different slots, while none is lapped. *)
LEMMA FillersApart ==
    ASSUME TrackTypeOK, FillInv, RingInv, ~lapped,
           NEW t \in Thread, Filling(t), NEW s \in Thread \ {t}, Filling(s)
    PROVE  SlotOf(arg[t].pos) # SlotOf(arg[s].pos)
<1>1. /\ arg[t].pos \in Nat /\ arg[s].pos \in Nat /\ curPos \in Nat
      /\ TableSize \in Nat
  BY TableAssumption DEF TrackTypeOK, Filling, Calling, Args
<1>2. /\ arg[t].pos < curPos /\ arg[s].pos < curPos /\ arg[s].pos # arg[t].pos
      /\ arg[t].pos >= curPos - TableSize /\ arg[s].pos >= curPos - TableSize
  BY DEF FillInv, RingInv
<1>3. CASE arg[t].pos < arg[s].pos
  <2>1. arg[s].pos < arg[t].pos + TableSize
    BY <1>1, <1>2
  <2> QED
    BY <2>1, <1>1, <1>3, DistinctSlots
<1>4. CASE arg[s].pos < arg[t].pos
  <2>1. arg[t].pos < arg[s].pos + TableSize
    BY <1>1, <1>2
  <2> QED
    BY <2>1, <1>1, <1>4, DistinctSlots
<1> QED
  BY <1>1, <1>2, <1>3, <1>4

(* What is not being filled keeps its place in the log and in the ring. *)
FillersKept ==
    \A t \in Thread :
        /\ Filling(t)' <=> Filling(t)
        /\ Filling(t) => pc'[t] = pc[t] /\ arg'[t].pos = arg[t].pos /\ ItemOf(t)' = ItemOf(t)

LEMMA FillKept ==
    ASSUME FillInv, FillersKept, UNCHANGED <<curPos, log>>
    PROVE  FillInv' /\ \A n \in Nat : Filled(n)' <=> Filled(n)
BY DEF FillInv, FillersKept, Filled

LEMMA RingKept ==
    ASSUME TrackTypeOK, FillInv, RingInv, FillersKept, UNCHANGED <<tableVars, lapped>>
    PROVE  RingInv'
<1> SUFFICES ASSUME ~lapped'
             PROVE  /\ \A n \in Window' : Filled(n)' => table'[SlotOf(n - 1)] = log'[n]
                    /\ \A t \in Thread : Filling(t)' =>
                          arg'[t].pos >= curPos' - TableSize /\ HalfFilled(t)'
                    /\ UnusedAreZero'
  BY DEF RingInv
<1>1. UNCHANGED <<curPos, table, log, lapped>>
  BY DEF tableVars
<1>2. \A n \in Window' : n \in Window /\ n \in Nat
  BY <1>1 DEF Window
<1>3. \A n \in Window' : Filled(n)' => table'[SlotOf(n - 1)] = log'[n]
  BY <1>1, <1>2, FillKept DEF RingInv
<1>4. \A t \in Thread : Filling(t)' => arg'[t].pos >= curPos' - TableSize
  BY <1>1 DEF RingInv, FillersKept
<1>5. ASSUME NEW t \in Thread, Filling(t)'
      PROVE  HalfFilled(t)'
  <2>1. /\ Filling(t) /\ HalfFilled(t)
        /\ pc'[t] = pc[t] /\ arg'[t].pos = arg[t].pos /\ ItemOf(t)' = ItemOf(t)
    BY <1>1, <1>5 DEF RingInv, FillersKept
  <2>2. arg'[t].id = arg[t].id /\ arg'[t].qry = arg[t].qry
    BY <2>1 DEF ItemOf
  <2> QED
    BY <1>1, <2>1, <2>2 DEF HalfFilled
<1>6. UnusedAreZero'
  BY <1>1 DEF RingInv, UnusedAreZero
<1> QED
  BY <1>3, <1>4, <1>5, <1>6

LEMMA OthersKept ==
    ASSUME NEW t \in Thread, Others(t), NEW s \in Thread \ {t}
    PROVE  /\ Filling(s)' <=> Filling(s)
           /\ pc'[s] = pc[s] /\ arg'[s].pos = arg[s].pos /\ ItemOf(s)' = ItemOf(s)
BY DEF Others, Filling, ItemOf

(* The steps that neither reserve nor write. *)
LEMMA QuietSteps ==
    ASSUME TrackTypeOK, [Next]_vars,
           ~ \E t \in Thread : Reserve(t) \/ WriteId(t) \/ WriteQry(t) \/ WriteParam(t)
    PROVE  FillersKept /\ UNCHANGED <<tableVars, lapped>>
<1>1. ASSUME UNCHANGED <<pc, arg, tableVars, lapped>>
      PROVE  FillersKept /\ UNCHANGED <<tableVars, lapped>>
  BY <1>1 DEF FillersKept, Filling, ItemOf
<1>2. ASSUME NEW t \in Thread, RequestData(t) \/ RequestNextData(t)
      PROVE  FillersKept /\ UNCHANGED <<tableVars, lapped>>
  <2>1. PICK c \in Ctrl, q \in Text, p \in Text, id \in ReqId \union {None} :
           Send(t, c, q, p, id)
    BY <1>2, CallIsSend
  <2>2. pc[t] = "idle" /\ pc'[t] = "sent" /\ Others(t)
    BY <2>1, SendStep
  <2>3. ~Filling(t) /\ ~Filling(t)'
    BY <2>2 DEF Filling
  <2> QED
    BY <2>1, <2>2, <2>3, OthersKept DEF FillersKept, Send
<1>3. ASSUME NEW t \in Thread, GetSendRqID(t)
      PROVE  FillersKept /\ UNCHANGED <<tableVars, lapped>>
  <2>1. ~Filling(t) /\ ~Filling(t)' /\ Others(t)
    BY <1>3, GetSendRqIDStep DEF Filling
  <2> QED
    BY <1>3, <2>1, OthersKept DEF FillersKept, GetSendRqID
<1>4. ASSUME (\E id \in ReqId : AnswerWithoutLookup(id)) \/ CallbackReturns
      PROVE  FillersKept /\ UNCHANGED <<tableVars, lapped>>
  <2>1. PICK id \in ReqId : Forget(id)
    BY <1>4, AnsweredStep
  <2>2. UNCHANGED <<tableVars, pc, lapped>>
    BY <1>4, AnsweredStep
  <2>3. \A t \in Thread : Calling(t) =>
           /\ arg'[t].qry = arg[t].qry /\ arg'[t].param = arg[t].param
           /\ arg'[t].id = arg[t].id /\ arg'[t].pos = arg[t].pos
    BY <2>1, ForgetStep
  <2>4. \A t \in Thread : (Filling(t)' <=> Filling(t)) /\ (Filling(t) => Calling(t))
    BY <2>2 DEF Filling, Calling
  <2> QED
    BY <2>2, <2>3, <2>4 DEF FillersKept, ItemOf
<1>5. CASE PumpStep
  BY <1>1, <1>4, <1>5 DEF PumpStep, OnReceiveData, SearchTurn, ReadQry, ReadParam
<1>6. CASE UNCHANGED vars
  BY <1>1, <1>6 DEF vars, tracking
<1> QED
  BY <1>2, <1>3, <1>5, <1>6 DEF Next, CallStep

(* A thread that reserves a position begins to fill the item of its call. *)
LEMMA ReserveFills ==
    ASSUME TrackTypeOK, FillInv, NEW t \in Thread, Reserve(t)
    PROVE  /\ ~Filling(t) /\ Filling(t)' /\ arg'[t].pos = curPos
           /\ curPos' = curPos + 1 /\ log'[curPos + 1] = ItemOf(t)
           /\ \A n \in 1 .. curPos : log'[n] = log[n]
           /\ \A s \in Thread \ {t} : Filling(s) =>
                 arg[s].pos \in Nat /\ arg[s].pos + 1 \in 1 .. curPos
           /\ \A n \in 1 .. curPos : Filled(n)' <=> Filled(n)
<1>1. /\ pc[t] = "gotId" /\ pc'[t] = "reserved" /\ Others(t) /\ arg'[t].pos = curPos
      /\ ItemOf(t) \in Item /\ log' = Append(log, ItemOf(t))
  <2>1. arg'[t] = [ctrl |-> arg[t].ctrl, qry |-> arg[t].qry, param |-> arg[t].param,
                   given |-> arg[t].given, id |-> arg[t].id, pos |-> curPos]
    BY ReserveStep
  <2>2. arg'[t].pos = curPos
    BY <2>1
  <2> QED
    BY <2>2, ReserveStep
<1>2. log \in Seq(Item) /\ Len(log) = curPos /\ curPos \in Nat
  BY DEF TrackTypeOK
<1>3. ~Filling(t) /\ Filling(t)' /\ curPos' = curPos + 1
  BY <1>1 DEF Filling, Reserve
<1>4. log'[curPos + 1] = ItemOf(t) /\ \A n \in 1 .. curPos : log'[n] = log[n]
  <2> HIDE DEF ItemOf
  <2> QED
    BY <1>1, <1>2
<1>5. \A s \in Thread \ {t} : Filling(s) => arg[s].pos \in Nat /\ arg[s].pos + 1 \in 1 .. curPos
  BY <1>2 DEF FillInv, TrackTypeOK, Filling, Calling, Args
<1>6. \A n \in 1 .. curPos : Filled(n)' <=> Filled(n)
  BY <1>1, <1>2, <1>3, OthersKept DEF Filled
<1> QED
  BY <1>1, <1>3, <1>4, <1>5, <1>6

LEMMA ReserveFillInv ==
    ASSUME TrackTypeOK, FillInv, NEW t \in Thread, Reserve(t)
    PROVE  FillInv'
<1>1. Others(t) /\ ItemOf(t)' = ItemOf(t) /\ curPos \in Nat
  BY ReserveStep DEF TrackTypeOK
<1>2. ASSUME NEW s \in Thread, Filling(s)'
      PROVE  /\ arg'[s].pos < curPos'
             /\ log'[arg'[s].pos + 1] = ItemOf(s)'
             /\ \A u \in Thread \ {s} : Filling(u)' => arg'[u].pos # arg'[s].pos
  <2>1. CASE s = t
    BY <2>1, <1>1, ReserveFills, OthersKept
  <2>2. CASE s # t
    <3>1. /\ Filling(s) /\ arg'[s].pos = arg[s].pos /\ ItemOf(s)' = ItemOf(s)
          /\ arg[s].pos \in Nat /\ arg[s].pos + 1 \in 1 .. curPos
      BY <2>2, <1>1, <1>2, ReserveFills, OthersKept
    <3>2. arg'[s].pos < curPos' /\ log'[arg'[s].pos + 1] = ItemOf(s)'
      BY <3>1, <1>1, ReserveFills DEF FillInv
    <3>3. ASSUME NEW u \in Thread \ {s}, Filling(u)'
          PROVE  arg'[u].pos # arg'[s].pos
      <4>1. CASE u = t
        BY <4>1, <3>1, <1>1, ReserveFills
      <4>2. CASE u # t
        BY <4>2, <3>1, <3>3, <1>1, OthersKept DEF FillInv
      <4> QED
        BY <4>1, <4>2
    <3> QED
      BY <3>2, <3>3
  <2> QED
    BY <2>1, <2>2
<1> QED
  BY <1>2 DEF FillInv

LEMMA ReserveRingInv ==
    ASSUME TrackTypeOK, FillInv, RingInv, NEW t \in Thread, Reserve(t)
    PROVE  RingInv'
<1> SUFFICES ASSUME ~lapped'
             PROVE  /\ \A n \in Window' : Filled(n)' => table'[SlotOf(n - 1)] = log'[n]
                    /\ \A s \in Thread : Filling(s)' =>
                          arg'[s].pos >= curPos' - TableSize /\ HalfFilled(s)'
                    /\ UnusedAreZero'
  BY DEF RingInv
<1>1. /\ ~lapped /\ table' = table /\ curPos' = curPos + 1
      /\ \A u \in Thread : Filling(u) => SlotOf(arg[u].pos) # SlotOf(curPos)
  BY DEF Reserve
<1>2. /\ log \in Seq(Item) /\ Len(log) = curPos /\ curPos \in Nat
      /\ TableSize \in Nat /\ TableSize > 0
  BY TableAssumption DEF TrackTypeOK
<1>3. Others(t) /\ pc'[t] = "reserved"
  BY ReserveStep
<1>4. Len(log') = curPos + 1
  <2>1. log' = Append(log, ItemOf(t)) /\ ItemOf(t) \in Item
    BY ReserveStep
  <2> QED
    BY <2>1, <1>2
<1>5. SlotOf(curPos - TableSize) = SlotOf(curPos)
  BY <1>2, SameSlot
<1>6. \A u \in Thread : Filling(u) =>
         /\ arg[u].pos \in Nat /\ arg[u].pos # curPos - TableSize
         /\ arg[u].pos >= curPos - TableSize
  <2>1. \A u \in Thread : Filling(u) => arg[u].pos \in Nat
    BY DEF TrackTypeOK, Filling, Calling, Args
  <2>2. \A u \in Thread : Filling(u) => arg[u].pos # curPos - TableSize
    BY <1>1, <1>5
  <2>3. \A u \in Thread : Filling(u) => arg[u].pos >= curPos - TableSize
    BY <1>1 DEF RingInv
  <2> QED
    BY <2>1, <2>2, <2>3
<1>7. ASSUME NEW n \in Window', Filled(n)'
      PROVE  table'[SlotOf(n - 1)] = log'[n]
  <2>1. n \in 1 .. curPos + 1 /\ n > curPos + 1 - TableSize
    BY <1>2, <1>4, <1>7 DEF Window
  <2>2. n # curPos + 1
    BY <1>2, <1>7, ReserveFills DEF Filled
  <2>3. n \in 1 .. curPos /\ n \in Window
    BY <1>2, <2>1, <2>2 DEF Window
  <2>4. Filled(n) /\ log'[n] = log[n]
    BY <2>3, <1>7, ReserveFills
  <2> QED
    BY <2>3, <2>4, <1>1 DEF RingInv
<1>8. ASSUME NEW s \in Thread \ {t}, Filling(s)'
      PROVE  arg'[s].pos >= curPos' - TableSize /\ HalfFilled(s)'
  <2>1. /\ Filling(s) /\ pc'[s] = pc[s] /\ arg'[s].pos = arg[s].pos /\ ItemOf(s)' = ItemOf(s)
    BY <1>3, <1>8, OthersKept
  <2>2. arg'[s].id = arg[s].id /\ arg'[s].qry = arg[s].qry
    BY <2>1 DEF ItemOf
  <2>3. arg[s].pos \in Nat /\ arg[s].pos + 1 \in 1 .. curPos
    BY <2>1, ReserveFills
  <2>4. arg'[s].pos >= curPos' - TableSize
    <3> DEFINE q == arg[s].pos
    <3>1. q \in Nat /\ q # curPos - TableSize /\ q >= curPos - TableSize
      BY <1>6, <2>1
    <3>2. arg'[s].pos = q /\ curPos' = curPos + 1
      BY <1>1, <2>1
    <3> HIDE DEF q
    <3> QED
      BY <1>2, <3>1, <3>2
  <2>5. arg[s].pos >= TableSize => arg[s].pos - TableSize + 1 \in 1 .. curPos
    <3> DEFINE q == arg[s].pos
    <3>1. q \in Nat /\ q + 1 \in 1 .. curPos
      BY <2>3
    <3> HIDE DEF q
    <3>2. q >= TableSize => q - TableSize + 1 \in 1 .. curPos
      BY <1>2, <3>1
    <3> QED
      BY <3>2 DEF q
  <2>6. arg[s].pos >= TableSize =>
           log'[arg[s].pos - TableSize + 1] = log[arg[s].pos - TableSize + 1]
    BY <2>5, ReserveFills
  <2>7. HalfFilled(s)
    BY <2>1, <1>1 DEF RingInv
  <2>8. HalfFilled(s)'
    BY <1>1, <2>1, <2>2, <2>6, <2>7 DEF HalfFilled
  <2> QED
    BY <2>4, <2>8
<1>9. arg'[t].pos >= curPos' - TableSize /\ HalfFilled(t)'
  <2>1. arg'[t].pos = curPos
    BY ReserveFills
  <2>2. CASE curPos >= TableSize
    <3> DEFINE n == curPos - TableSize + 1
    <3>1. n \in Window /\ n \in 1 .. curPos /\ n - 1 = curPos - TableSize
      BY <1>2, <2>2 DEF Window
    <3>2. Filled(n)
      BY <1>6, <3>1 DEF Filled
    <3>3. table[SlotOf(n - 1)] = log[n]
      BY <1>1, <3>1, <3>2 DEF RingInv
    <3>4. log'[n] = log[n]
      BY <3>1, ReserveFills
    <3> QED
      BY <1>1, <1>2, <1>3, <1>5, <2>1, <2>2, <3>1, <3>3, <3>4 DEF HalfFilled
  <2>3. CASE curPos < TableSize
    <3>1. SlotOf(curPos) = curPos /\ curPos \in Slots
      BY <1>2, <2>3, SMT DEF SlotOf, Slots
    <3>2. table[curPos].reqId = NoId
      BY <1>1, <1>2, <3>1 DEF RingInv, UnusedAreZero
    <3> QED
      BY <1>1, <1>2, <1>3, <2>1, <2>3, <3>1, <3>2 DEF HalfFilled
  <2> QED
    BY <1>2, <2>2, <2>3
<1>10. UnusedAreZero'
  BY <1>1, <1>2 DEF RingInv, UnusedAreZero, Slots
<1> QED
  BY <1>7, <1>8, <1>9, <1>10

(* A step that fills the slot of t leaves every other slot alone that is *)
(* unused, is being filled, or holds one of the last items.              *)
LEMMA WriteApart ==
    ASSUME TrackTypeOK, FillInv, RingInv, ~lapped, NEW t \in Thread, arg[t] \in Args, Filling(t),
           WriteId(t) \/ WriteQry(t) \/ WriteParam(t)
    PROVE  /\ \A n \in Window : n - 1 # arg[t].pos =>
                 table'[SlotOf(n - 1)] = table[SlotOf(n - 1)]
           /\ \A s \in Thread \ {t} : Filling(s) =>
                 table'[SlotOf(arg[s].pos)] = table[SlotOf(arg[s].pos)]
           /\ \A s \in Slots : curPos <= s => table'[s] = table[s]
<1>1. /\ arg[t].pos \in Nat /\ SlotOf(arg[t].pos) \in Slots
      /\ table' = [table EXCEPT ![SlotOf(arg[t].pos)] = table'[SlotOf(arg[t].pos)]]
  BY SlotTyped
<1>2. /\ table \in [Slots -> Item] /\ curPos \in Nat /\ Len(log) = curPos
      /\ TableSize \in Nat /\ TableSize > 0
  BY TableAssumption DEF TrackTypeOK
<1>3. \A s \in Slots : s # SlotOf(arg[t].pos) => table'[s] = table[s]
  BY <1>1, <1>2
<1>4. arg[t].pos < curPos /\ arg[t].pos >= curPos - TableSize
  BY DEF FillInv, RingInv
<1>5. ASSUME NEW n \in Window, n - 1 # arg[t].pos
      PROVE  table'[SlotOf(n - 1)] = table[SlotOf(n - 1)]
  <2>1. n \in 1 .. curPos /\ n > curPos - TableSize
    BY <1>2, <1>5 DEF Window
  <2>2. SlotOf(n - 1) # SlotOf(arg[t].pos)
    <3>1. CASE n - 1 < arg[t].pos
      <4>1. n - 1 \in Int /\ arg[t].pos < (n - 1) + TableSize
        BY <1>1, <1>2, <1>4, <2>1
      <4> QED
        BY <4>1, <3>1, <1>1, DistinctSlots
    <3>2. CASE n - 1 > arg[t].pos
      <4>1. n - 1 \in Int /\ n - 1 < arg[t].pos + TableSize
        BY <1>1, <1>2, <1>4, <2>1
      <4> QED
        BY <4>1, <3>2, <1>1, DistinctSlots
    <3> QED
      BY <3>1, <3>2, <1>1, <1>5, <2>1
  <2>3. SlotOf(n - 1) \in Slots
    BY <2>1, SlotInTable
  <2> QED
    BY <2>2, <2>3, <1>3
<1>6. ASSUME NEW s \in Thread \ {t}, Filling(s)
      PROVE  table'[SlotOf(arg[s].pos)] = table[SlotOf(arg[s].pos)]
  <2>1. SlotOf(arg[t].pos) # SlotOf(arg[s].pos)
    BY <1>6, FillersApart
  <2>2. arg[s].pos \in Int
    BY <1>6 DEF TrackTypeOK, Filling, Calling, Args
  <2>3. SlotOf(arg[s].pos) \in Slots
    BY <2>2, SlotInTable
  <2> QED
    BY <2>1, <2>3, <1>3
<1>7. ASSUME NEW s \in Slots, curPos <= s
      PROVE  table'[s] = table[s]
  <2>1. SlotOf(arg[t].pos) = arg[t].pos /\ arg[t].pos < s
    <3>1. arg[t].pos \in Nat /\ arg[t].pos < s /\ s < TableSize /\ s \in Nat
      BY <1>1, <1>2, <1>4, <1>7 DEF Slots
    <3>2. arg[t].pos % TableSize = arg[t].pos
      BY <3>1, <1>2, SMT
    <3> QED
      BY <3>1, <3>2 DEF SlotOf
  <2>2. s # SlotOf(arg[t].pos)
    BY <2>1, <1>1, <1>7 DEF Slots
  <2> QED
    BY <2>2, <1>3
<1> QED
  BY <1>5, <1>6, <1>7

(* After the last of its steps the thread has written its whole item. *)
LEMMA WriteParamFills ==
    ASSUME TrackTypeOK, FillInv, RingInv, ~lapped, NEW t \in Thread, WriteParam(t)
    PROVE  table'[SlotOf(arg[t].pos)] = ItemOf(t) /\ log[arg[t].pos + 1] = ItemOf(t)
<1> DEFINE s == SlotOf(arg[t].pos)
<1>1. pc[t] = "wroteQry" /\ Filling(t) /\ arg[t] \in Args
  BY WriteParamStep
<1>2. table'[s] \in Item /\ table'[s].param = arg[t].param
      /\ table'[s].qry = table[s].qry /\ table'[s].reqId = table[s].reqId
  BY <1>1, SlotTyped
<1>3. table[s].reqId = arg[t].id /\ table[s].qry = arg[t].qry
  BY <1>1 DEF RingInv, HalfFilled
<1> HIDE DEF s
<1>4. table'[s] = ItemOf(t)
  BY <1>2, <1>3 DEF Item, ItemOf
<1> QED
  BY <1>1, <1>4 DEF FillInv, s

LEMMA WriteFillInv ==
    ASSUME TrackTypeOK, FillInv, NEW t \in Thread, WriteId(t) \/ WriteQry(t) \/ WriteParam(t)
    PROVE  /\ FillInv' /\ UNCHANGED <<curPos, log, lapped>>
           /\ \A n \in Nat : Filled(n) => Filled(n)'
           /\ WriteParam(t) => ~Filling(t)' /\ \A n \in Nat : n - 1 = arg[t].pos => Filled(n)'
           /\ WriteId(t) \/ WriteQry(t) => \A n \in Nat : Filled(n)' => Filled(n)
           /\ \A n \in Nat : Filled(n)' /\ n - 1 # arg[t].pos => Filled(n)
<1>1. UNCHANGED <<curPos, log, lapped>> /\ Filling(t) /\ arg[t] \in Args /\ arg[t].pos \in Nat
  BY WriteStep, WriteParamStep DEF WriteId, WriteQry, WriteParam, Args
<1>2. CASE WriteId(t) \/ WriteQry(t)
  <2>1. arg' = arg /\ Others(t) /\ Filling(t)'
    BY <1>2, WriteStep
  <2>2. \A s \in Thread : (Filling(s)' <=> Filling(s)) /\ ItemOf(s)' = ItemOf(s)
    BY <2>1, <1>1, OthersKept DEF ItemOf
  <2>3. ~WriteParam(t)
    BY <1>2 DEF WriteId, WriteQry, WriteParam
  <2> QED
    BY <1>1, <2>1, <2>2, <2>3 DEF FillInv, Filled
<1>3. CASE WriteParam(t)
  <2>1. Others(t) /\ ~Filling(t)' /\ ~WriteId(t) /\ ~WriteQry(t)
    BY <1>3, WriteParamStep DEF Filling, WriteParam, WriteId, WriteQry
  <2>2. \A s \in Thread \ {t} :
           /\ Filling(s)' <=> Filling(s)
           /\ arg'[s].pos = arg[s].pos /\ ItemOf(s)' = ItemOf(s)
    BY <2>1, OthersKept
  <2>3. FillInv'
    BY <1>1, <2>1, <2>2 DEF FillInv
  <2>4. \A n \in Nat : n - 1 = arg[t].pos => Filled(n)'
    BY <1>1, <2>1, <2>2 DEF FillInv, Filled
  <2>5. \A n \in Nat : (Filled(n) => Filled(n)') /\ (Filled(n)' /\ n - 1 # arg[t].pos => Filled(n))
    BY <1>1, <2>1, <2>2 DEF Filled
  <2> QED
    BY <1>1, <2>1, <2>3, <2>4, <2>5
<1> QED
  BY <1>2, <1>3

LEMMA WriteRingInv ==
    ASSUME TrackTypeOK, FillInv, RingInv, NEW t \in Thread,
           WriteId(t) \/ WriteQry(t) \/ WriteParam(t)
    PROVE  RingInv'
<1> SUFFICES ASSUME ~lapped'
             PROVE  /\ \A n \in Window' : Filled(n)' => table'[SlotOf(n - 1)] = log'[n]
                    /\ \A s \in Thread : Filling(s)' =>
                          arg'[s].pos >= curPos' - TableSize /\ HalfFilled(s)'
                    /\ UnusedAreZero'
  BY DEF RingInv
<1>1. UNCHANGED <<curPos, log>> /\ ~lapped
  BY WriteFillInv
<1>2. Filling(t) /\ Others(t) /\ arg[t] \in Args /\ arg[t].pos \in Nat
  BY WriteStep, WriteParamStep DEF Args
<1>3. ASSUME NEW n \in Window', Filled(n)'
      PROVE  table'[SlotOf(n - 1)] = log'[n]
  <2>1. n \in Window /\ n \in Nat
    BY <1>1 DEF Window
  <2>2. CASE n - 1 # arg[t].pos
    <3>1. Filled(n)
      BY <1>3, <2>1, <2>2, WriteFillInv
    <3> QED
      BY <1>1, <1>2, <2>1, <2>2, <3>1, WriteApart DEF RingInv
  <2>3. CASE n - 1 = arg[t].pos
    <3>1. ~ Filled(n)
      BY <1>2, <2>3 DEF Filled
    <3>2. WriteParam(t)
      BY <1>3, <2>1, <3>1, WriteFillInv
    <3>3. n = arg[t].pos + 1
      BY <1>2, <2>1, <2>3
    <3> QED
      BY <1>1, <2>3, <3>2, <3>3, WriteParamFills
  <2> QED
    BY <2>2, <2>3
<1>4. ASSUME NEW s \in Thread, Filling(s)'
      PROVE  arg'[s].pos >= curPos' - TableSize /\ HalfFilled(s)'
  <2>1. CASE s # t
    <3>1. /\ Filling(s) /\ pc'[s] = pc[s] /\ arg'[s] = arg[s]
          /\ table'[SlotOf(arg[s].pos)] = table[SlotOf(arg[s].pos)]
      BY <1>1, <1>2, <1>4, <2>1, OthersKept, WriteApart DEF Others
    <3>2. arg[s].pos >= curPos - TableSize /\ HalfFilled(s)
      BY <1>1, <3>1 DEF RingInv
    <3> QED
      BY <1>1, <3>1, <3>2 DEF HalfFilled
  <2>2. CASE s = t
    <3>1. arg'[t] = arg[t] /\ ~WriteParam(t)
      BY <1>4, <2>2, WriteStep, WriteFillInv
    <3>2. arg[t].pos >= curPos - TableSize /\ HalfFilled(t)
      BY <1>1, <1>2 DEF RingInv
    <3>3. CASE WriteId(t)
      <4>1. pc'[t] = "wroteId"
        BY <3>3, WriteStep
      <4>2. table'[SlotOf(arg[t].pos)].reqId = arg[t].id
        BY <3>3, <1>2, SlotTyped
      <4> QED
        BY <1>1, <2>2, <3>1, <3>2, <4>1, <4>2 DEF HalfFilled
    <3>4. CASE WriteQry(t)
      <4>1. pc[t] = "wroteId" /\ pc'[t] = "wroteQry"
        BY <3>4, WriteStep
      <4>2. /\ table'[SlotOf(arg[t].pos)].qry = arg[t].qry
            /\ table'[SlotOf(arg[t].pos)].reqId = table[SlotOf(arg[t].pos)].reqId
        BY <3>4, <1>2, SlotTyped
      <4> QED
        BY <1>1, <2>2, <3>1, <3>2, <4>1, <4>2 DEF HalfFilled
    <3> QED
      BY <3>1, <3>3, <3>4
  <2> QED
    BY <2>1, <2>2
<1>5. UnusedAreZero'
  BY <1>1, <1>2, WriteApart DEF RingInv, UnusedAreZero
<1> QED
  BY <1>3, <1>4, <1>5

LEMMA FillRingKept ==
    ASSUME TrackTypeOK, FillInv, RingInv, [Next]_vars
    PROVE  FillInv' /\ RingInv'
<1>1. CASE \E t \in Thread : Reserve(t)
  BY <1>1, ReserveFillInv, ReserveRingInv
<1>2. CASE \E t \in Thread : WriteId(t) \/ WriteQry(t) \/ WriteParam(t)
  BY <1>2, WriteFillInv, WriteRingInv
<1>3. CASE ~ \E t \in Thread : Reserve(t) \/ WriteId(t) \/ WriteQry(t) \/ WriteParam(t)
  BY <1>3, QuietSteps, FillKept, RingKept DEF tableVars
<1> QED
  BY <1>1, <1>2, <1>3

-------------------------------------------------------------------------------
(* The log only grows, and what is recorded stays recorded. *)
LEMMA LogGrows ==
    ASSUME TrackTypeOK, FillInv, [Next]_vars
    PROVE  /\ Len(log') >= Len(log) /\ Len(log) \in Nat /\ Len(log') \in Nat
           /\ \A n \in 1 .. Len(log) : log'[n] = log[n] /\ (Filled(n) => Filled(n)')
           /\ lapped => lapped'
<1>1. Len(log) = curPos /\ curPos \in Nat
  BY DEF TrackTypeOK
<1>2. ASSUME NEW t \in Thread, Reserve(t)
      PROVE  /\ Len(log') = curPos + 1
             /\ \A n \in 1 .. Len(log) : log'[n] = log[n] /\ (Filled(n) => Filled(n)')
             /\ lapped => lapped'
  <2>1. log' = Append(log, ItemOf(t)) /\ ItemOf(t) \in Item
    BY <1>2, ReserveStep
  <2>2. Len(log') = curPos + 1
    BY <2>1, <1>1 DEF TrackTypeOK
  <2> QED
    BY <1>1, <1>2, <2>2, ReserveFills DEF Reserve
<1>3. ASSUME NEW t \in Thread, WriteId(t) \/ WriteQry(t) \/ WriteParam(t)
      PROVE  /\ log' = log /\ lapped' = lapped
             /\ \A n \in 1 .. Len(log) : Filled(n) => Filled(n)'
  BY <1>1, <1>3, WriteFillInv
<1>4. ASSUME ~ \E t \in Thread : Reserve(t) \/ WriteId(t) \/ WriteQry(t) \/ WriteParam(t)
      PROVE  /\ log' = log /\ lapped' = lapped
             /\ \A n \in 1 .. Len(log) : Filled(n) => Filled(n)'
  BY <1>1, <1>4, QuietSteps, FillKept DEF tableVars
<1> QED
  BY <1>1, <1>2, <1>3, <1>4

LEMMA RecordedKept ==
    ASSUME TrackTypeOK, FillInv, [Next]_vars, NEW r \in Request, NEW id \in ReqId,
           Recorded(r, id)
    PROVE  Recorded(r, id)'
<1>1. CASE r.at > 0
  <2>1. r.at \in 1 .. Len(log) /\ Filled(r.at)
        /\ log[r.at] = [reqId |-> id, qry |-> r.qry, param |-> r.param]
    BY <1>1, LogGrows DEF Recorded, Request
  <2> QED
    BY <2>1, LogGrows DEF Recorded
<1>2. CASE ~(r.at > 0)
  BY <1>2 DEF Recorded
<1> QED
  BY <1>1, <1>2

(* A call that was given an id knows its own request by it, until it has *)
(* recorded it or the answer was delivered.                              *)
LEMMA GivenKept ==
    ASSUME TrackTypeOK, GivenInv, [Next]_vars
    PROVE  GivenInv'
<1>1. ASSUME req' = req,
             \A t \in Thread : /\ Calling(t)' <=> Calling(t)
                               /\ Calling(t) => /\ arg'[t].given = arg[t].given
                                                /\ arg'[t].qry = arg[t].qry
                                                /\ arg'[t].param = arg[t].param
      PROVE  GivenInv'
  BY <1>1 DEF GivenInv
<1>2. ASSUME NEW t \in Thread, RequestData(t) \/ RequestNextData(t)
      PROVE  GivenInv'
  <2>1. PICK c \in Ctrl, q \in Text, p \in Text, id \in ReqId \union {None} :
           Send(t, c, q, p, id)
    BY <1>2, CallIsSend
  <2>2. /\ arg'[t].given = id /\ arg'[t].qry = q /\ arg'[t].param = p
        /\ ~Calling(t) /\ Others(t)
    <3>1. arg'[t] = [ctrl |-> c, qry |-> q, param |-> p, given |-> id, id |-> NoId, pos |-> 0]
      BY <2>1, SendStep
    <3>2. ~Calling(t) /\ Others(t)
      BY <2>1, SendStep DEF Calling
    <3> QED
      BY <3>1, <3>2
  <2>3. \A s \in Thread \ {t} : (Calling(s)' <=> Calling(s)) /\ arg'[s] = arg[s]
    BY <2>2 DEF Others, Calling
  <2>4. CASE id = None
    <3>1. req' = req
      BY <2>1, <2>4, SendReq
    <3> QED
      BY <2>2, <2>3, <2>4, <3>1 DEF GivenInv
  <2>5. CASE id # None
    <3>1. /\ req[id] = None /\ req'[id] # None /\ id \in ReqId
          /\ req'[id] = [ctrl |-> c, qry |-> q, param |-> p, at |-> 0]
          /\ \A i \in ReqId \ {id} : req'[i] = req[i]
      BY <2>1, <2>5, SendReq
    <3>2. req'[id].at = 0 /\ req'[id].qry = q /\ req'[id].param = p
      BY <3>1
    <3>3. \A s \in Thread \ {t} : Calling(s) /\ arg[s].given # None =>
             /\ arg[s].given # id /\ arg[s].given \in ReqId
             /\ req'[arg[s].given] = req[arg[s].given]
      BY <3>1, <2>5 DEF GivenInv, TrackTypeOK, Args
    <3> QED
      BY <2>2, <2>3, <2>5, <3>1, <3>2, <3>3 DEF GivenInv
  <2> QED
    BY <2>4, <2>5
<1>3. ASSUME NEW t \in Thread, GetSendRqID(t) \/ Reserve(t)
      PROVE  GivenInv'
  <2>1. Others(t) /\ Calling(t) /\ Calling(t)' /\ req' = req
    BY <1>3, GetSendRqIDStep, ReserveStep DEF Calling, GetSendRqID, Reserve
  <2>2. /\ arg'[t].given = arg[t].given /\ arg'[t].qry = arg[t].qry
        /\ arg'[t].param = arg[t].param
    <3>1. CASE GetSendRqID(t)
      <4>1. arg'[t] = [ctrl |-> arg[t].ctrl, qry |-> arg[t].qry, param |-> arg[t].param,
                       given |-> arg[t].given, id |-> sendId[arg[t].ctrl], pos |-> arg[t].pos]
        BY <3>1, GetSendRqIDStep
      <4> QED
        BY <4>1
    <3>2. CASE Reserve(t)
      <4>1. arg'[t] = [ctrl |-> arg[t].ctrl, qry |-> arg[t].qry, param |-> arg[t].param,
                       given |-> arg[t].given, id |-> arg[t].id, pos |-> curPos]
        BY <3>2, ReserveStep
      <4> QED
        BY <4>1
    <3> QED
      BY <1>3, <3>1, <3>2
  <2>3. \A s \in Thread \ {t} : (Calling(s)' <=> Calling(s)) /\ arg'[s] = arg[s]
    BY <2>1 DEF Others, Calling
  <2> QED
    BY <1>1, <2>1, <2>2, <2>3
<1>4. ASSUME NEW t \in Thread, WriteId(t) \/ WriteQry(t)
      PROVE  GivenInv'
  <2>1. arg' = arg /\ Others(t) /\ Calling(t) /\ Calling(t)' /\ req' = req
    BY <1>4, WriteStep DEF Calling, Filling, WriteId, WriteQry
  <2> QED
    BY <1>1, <2>1 DEF Others, Calling
<1>5. ASSUME NEW t \in Thread, WriteParam(t)
      PROVE  GivenInv'
  <2>1. Others(t) /\ Calling(t) /\ ~Calling(t)'
    BY <1>5, WriteParamStep DEF Calling
  <2>2. \A s \in Thread \ {t} : (Calling(s)' <=> Calling(s)) /\ arg'[s] = arg[s]
    BY <2>1 DEF Others, Calling
  <2>3. \A s \in Thread \ {t} : Calling(s) /\ arg[s].given # None =>
           /\ arg[s].given # arg[t].given /\ arg[s].given \in ReqId
           /\ req'[arg[s].given] = req[arg[s].given]
    <3>1. \A s \in Thread \ {t} : Calling(s) /\ arg[s].given # None =>
             arg[s].given # arg[t].given /\ arg[s].given \in ReqId
      BY <2>1 DEF GivenInv, TrackTypeOK, Args
    <3>2. \A i \in ReqId : i # arg[t].given => req'[i] = req[i]
      BY <1>5, WriteParamReq
    <3> QED
      BY <3>1, <3>2
  <2> QED
    BY <2>1, <2>2, <2>3 DEF GivenInv
<1>6. ASSUME (\E id \in ReqId : AnswerWithoutLookup(id)) \/ CallbackReturns
      PROVE  GivenInv'
  <2>1. PICK id \in ReqId : Forget(id)
    BY <1>6, AnsweredStep
  <2>2. pc' = pc
    BY <1>6, AnsweredStep
  <2>3. /\ req' = [req EXCEPT ![id] = None]
        /\ \A t \in Thread : Calling(t) =>
              /\ arg'[t].qry = arg[t].qry /\ arg'[t].param = arg[t].param
              /\ arg'[t].given = IF arg[t].given = id THEN None ELSE arg[t].given
    BY <2>1, ForgetStep
  <2>4. \A t \in Thread : Calling(t)' <=> Calling(t)
    BY <2>2 DEF Calling
  <2>5. \A t \in Thread : Calling(t) /\ arg'[t].given # None =>
           /\ arg'[t].given = arg[t].given /\ arg[t].given # id /\ arg[t].given \in ReqId
           /\ req'[arg[t].given] = req[arg[t].given]
    BY <2>3 DEF TrackTypeOK, Args
  <2> QED
    BY <2>3, <2>4, <2>5 DEF GivenInv
<1>7. ASSUME UNCHANGED <<req, arg, pc>> PROVE GivenInv'
  BY <1>7 DEF GivenInv, Calling
<1>8. CASE PumpStep
  BY <1>6, <1>7, <1>8 DEF PumpStep, OnReceiveData, SearchTurn, ReadQry, ReadParam
<1>9. CASE UNCHANGED vars
  BY <1>7, <1>9 DEF vars, tracking
<1> QED
  BY <1>2, <1>3, <1>4, <1>5, <1>8, <1>9 DEF Next, CallStep

(* A request that is recorded is an item of the log, complete in the ring; *)
(* the same of the request whose answer is looked up.                      *)
LEMMA ReqRecordedKept ==
    ASSUME TrackTypeOK, FillInv, RingInv, GivenInv, AskedInv, [Next]_vars, NEW id \in ReqId
    PROVE  req'[id] # None => Recorded(req[id], id)'
<1> SUFFICES ASSUME req'[id] # None PROVE Recorded(req[id], id)'
  OBVIOUS
<1>1. CASE req'[id] = req[id]
  <2>1. req[id] \in Request /\ Recorded(req[id], id)
    BY <1>1 DEF TrackTypeOK, AskedInv
  <2> DEFINE r == req[id]
  <2>2. r' = r
    BY <1>1
  <2>3. \A q \in Request : Recorded(q, id) => Recorded(q, id)'
    BY RecordedKept
  <2> QED
    BY <2>1, <2>2, <2>3, <1>1
<1>2. CASE req'[id].at = 0
  BY <1>2 DEF Recorded
<1>3. ASSUME NEW t \in Thread, WriteParam(t), req'[id] # req[id]
      PROVE  Recorded(req[id], id)'
  <2>1. /\ id = arg[t].id /\ id = arg[t].given /\ req[id] \in Request
        /\ req'[id] = [ctrl |-> req[id].ctrl, qry |-> req[id].qry,
                       param |-> req[id].param, at |-> arg[t].pos + 1]
    BY <1>3, WriteParamReq
  <2>2. /\ req'[id].at = arg[t].pos + 1
        /\ req'[id].qry = req[id].qry /\ req'[id].param = req[id].param
    BY <2>1
  <2>3. Filling(t) /\ Calling(t) /\ arg[t] \in Args /\ arg[t].pos \in Nat
    BY <1>3, WriteParamStep DEF Filling, Calling, Args
  <2>4. req[id].qry = arg[t].qry /\ req[id].param = arg[t].param
    BY <2>1, <2>3, TrackingAssumption DEF GivenInv
  <2>5. /\ arg[t].pos < curPos /\ log[arg[t].pos + 1] = ItemOf(t)
        /\ UNCHANGED <<curPos, log>> /\ Len(log) = curPos /\ curPos \in Nat
    BY <1>3, <2>3, WriteFillInv DEF FillInv, TrackTypeOK
  <2>6. \A n \in Nat : n - 1 = arg[t].pos => Filled(n)'
    BY <1>3, WriteFillInv
  <2>7. req'[id].at \in Nat /\ req'[id].at - 1 = arg[t].pos /\ req'[id].at <= Len(log')
    BY <2>2, <2>3, <2>5
  <2>8. Filled(req[id].at)'
    BY <2>6, <2>7
  <2>9. log'[req'[id].at] = [reqId |-> id, qry |-> req'[id].qry, param |-> req'[id].param]
    BY <2>1, <2>2, <2>4, <2>5 DEF ItemOf
  <2> QED
    BY <2>7, <2>8, <2>9 DEF Recorded
<1>4. ASSUME NEW t \in Thread, RequestData(t) \/ RequestNextData(t)
      PROVE  req'[id] = req[id] \/ req'[id].at = 0
  <2>1. PICK c \in Ctrl, q \in Text, p \in Text, i \in ReqId \union {None} :
           Send(t, c, q, p, i)
    BY <1>4, CallIsSend
  <2>2. CASE i = None
    BY <2>1, <2>2, SendReq
  <2>3. CASE i # None
    <3>1. /\ req'[i] = [ctrl |-> c, qry |-> q, param |-> p, at |-> 0]
          /\ \A j \in ReqId \ {i} : req'[j] = req[j]
      BY <2>1, <2>3, SendReq
    <3> QED
      BY <3>1
  <2> QED
    BY <2>2, <2>3
<1>5. ASSUME NEW i \in ReqId, Forget(i) PROVE req'[id] = req[id]
  BY <1>5, ForgetStep DEF TrackTypeOK
<1>6. CASE PumpStep
  <2>1. ASSUME (\E i \in ReqId : AnswerWithoutLookup(i)) \/ CallbackReturns
        PROVE  req'[id] = req[id]
    BY <2>1, <1>5, AnsweredStep
  <2> QED
    BY <1>1, <1>6, <2>1 DEF PumpStep, OnReceiveData, SearchTurn, ReadQry, ReadParam
<1>7. ASSUME NEW t \in Thread, GetSendRqID(t) \/ Reserve(t) \/ WriteId(t) \/ WriteQry(t)
      PROVE  req' = req
  BY <1>7 DEF GetSendRqID, Reserve, WriteId, WriteQry
<1>8. CASE UNCHANGED vars
  BY <1>1, <1>8 DEF vars, tracking
<1> QED
  BY <1>1, <1>2, <1>3, <1>4, <1>6, <1>7, <1>8 DEF Next, CallStep

(* What the pumping thread looks up: a dispatched answer stays the one it  *)
(* is until its callback has returned.                                     *)
LEMMA SameLookUp ==
    ASSUME TrackTypeOK, SearchInv, [Next]_vars, pump' # "idle", pump # "idle"
    PROVE  /\ look \in Looks /\ look'.asked = look.asked /\ look'.id = look.id
           /\ look'.from = look.from
<1>1. look \in Looks
  BY DEF TrackTypeOK
<1>2. CASE look' = look
  BY <1>1, <1>2
<1>3. CASE SearchTurn
  <2>1. look' = [id |-> look.id, asked |-> look.asked, from |-> look.from,
                 pos |-> look'.pos, turn |-> look.turn + 1,
                 qry |-> look.qry, param |-> look.param]
    BY <1>3, SearchTurnStep
  <2> QED
    BY <1>1, <2>1
<1>4. CASE ReadQry
  BY <1>1, <1>4, ReadQryStep
<1>5. CASE ReadParam
  BY <1>1, <1>5, ReadParamStep
<1>6. ASSUME NEW t \in Thread, CallStep(t) PROVE look' = look
  BY <1>6 DEF CallStep, RequestData, RequestNextData, Send, GetSendRqID, Reserve,
              WriteId, WriteQry, WriteParam
<1>7. ~CallbackReturns /\ \A id \in ReqId : ~OnReceiveData(id) /\ ~AnswerWithoutLookup(id)
  BY DEF CallbackReturns, OnReceiveData, AnswerWithoutLookup
<1> QED
  BY <1>2, <1>3, <1>4, <1>5, <1>6, <1>7 DEF Next, PumpStep, vars, tracking

(* How it begins. *)
LEMMA LookUpBegins ==
    ASSUME TrackTypeOK, [Next]_vars, pump' # "idle", pump = "idle"
    PROVE  \E id \in ReqId : OnReceiveData(id)
<1>1. ~SearchTurn /\ ~ReadQry /\ ~ReadParam /\ ~CallbackReturns
  BY DEF SearchTurn, ReadQry, ReadParam, CallbackReturns
<1>2. ASSUME NEW t \in Thread, CallStep(t) PROVE pump' = pump
  BY <1>2 DEF CallStep, RequestData, RequestNextData, Send, GetSendRqID, Reserve,
              WriteId, WriteQry, WriteParam
<1>3. \A id \in ReqId : ~AnswerWithoutLookup(id)
  BY DEF AnswerWithoutLookup
<1> QED
  BY <1>1, <1>2, <1>3 DEF Next, PumpStep, vars, tracking

LEMMA AskedKept ==
    ASSUME TrackTypeOK, FillInv, RingInv, GivenInv, AskedInv, SearchInv, [Next]_vars
    PROVE  AskedInv'
<1>1. \A id \in ReqId : req'[id] # None => Recorded(req[id], id)'
  BY ReqRecordedKept
<1>2. curPos \in Nat /\ curPos' \in Nat /\ curPos' >= curPos /\ Len(log) = curPos
  BY TrackTyped, LogGrows DEF TrackTypeOK
<1>3. \A r \in Request, id \in ReqId : Recorded(r, id) => Recorded(r, id)'
  BY RecordedKept
<1>4. ASSUME pump' # "idle", pump # "idle"
      PROVE  /\ Recorded(look.asked, look.id)'
             /\ look'.asked.at <= look'.from /\ look'.from <= curPos'
  <2>1. /\ look \in Looks /\ look'.asked = look.asked /\ look'.id = look.id
        /\ look'.from = look.from
    BY <1>4, SameLookUp
  <2>2. /\ look.asked \in Request /\ look.id \in ReqId /\ look.from \in Nat
        /\ Recorded(look.asked, look.id)
        /\ look.asked.at <= look.from /\ look.from <= curPos
    BY <1>4, <2>1 DEF AskedInv, Looks
  <2> DEFINE r == look.asked
             id == look.id
  <2>3. r' = r /\ id' = id
    BY <2>1
  <2>4. Recorded(r, id)'
    <3> HIDE DEF r, id
    <3> QED
      BY <1>3, <2>2, <2>3 DEF r, id
  <2> QED
    BY <1>2, <2>1, <2>2, <2>4
<1>5. ASSUME pump' # "idle", pump = "idle"
      PROVE  /\ Recorded(look.asked, look.id)'
             /\ look'.asked.at <= look'.from /\ look'.from <= curPos'
  <2>1. PICK id \in ReqId : OnReceiveData(id)
    BY <1>5, LookUpBegins
  <2>2. /\ req[id] \in Request /\ req' = req /\ curPos' = curPos /\ req' [id] # None
        /\ look'.asked = req[id] /\ look'.id = id /\ look'.from = curPos
    <3>1. look' = [id |-> id, asked |-> req[id], from |-> curPos, pos |-> SlotOf(curPos),
                   turn |-> 0, qry |-> None, param |-> None]
      BY <2>1, OnReceiveDataStep
    <3>2. /\ req[id] \in Request /\ req' = req /\ curPos' = curPos
      BY <2>1, OnReceiveDataStep DEF tableVars
    <3> QED
      BY <3>1, <3>2, TrackingAssumption
  <2>3. Recorded(req[id], id) /\ Recorded(req[id], id)'
    BY <1>1, <2>2, TrackingAssumption DEF AskedInv
  <2>4. Recorded(look.asked, look.id)'
    BY <2>2, <2>3
  <2>5. req[id].at <= curPos
    BY <1>2, <2>2, <2>3 DEF Recorded, Request
  <2> QED
    BY <1>2, <2>2, <2>4, <2>5
<1> QED
  BY <1>1, <1>4, <1>5 DEF AskedInv

-------------------------------------------------------------------------------
(* The conditions under which an answer is told with its own texts, once   *)
(* they fail, never hold again before the callback has returned.           *)
LEMMA ConditionsBack ==
    ASSUME TrackTypeOK, SearchInv, FillInv, [Next]_vars, pump' # "idle", pump # "idle",
           OwnConditions'
    PROVE  OwnConditions
<1>1. /\ look \in Looks /\ look'.asked = look.asked /\ look'.id = look.id
  BY SameLookUp
<1>2. look.asked.at \in Nat /\ TableSize \in Nat
  BY <1>1, TableAssumption DEF Looks, Request
<1>3. /\ Len(log') >= Len(log) /\ Len(log) \in Nat /\ Len(log') \in Nat
      /\ \A n \in 1 .. Len(log) : log'[n] = log[n]
      /\ ~lapped
  BY LogGrows DEF OwnConditions
<1>4. look.asked.at > 0 /\ Len(log) - look.asked.at < TableSize
  BY <1>1, <1>2, <1>3 DEF OwnConditions
<1>5. OnlyItemOfId
  <2>1. ASSUME NEW n \in 1 .. Len(log),
               n # look.asked.at, n > look.asked.at - TableSize
        PROVE  log[n].reqId # look.id
    <3>1. n \in 1 .. Len(log')
      BY <1>3
    <3>2. log'[n].reqId # look'.id
      BY <2>1, <3>1, <1>1 DEF OwnConditions, OnlyItemOfId
    <3> QED
      BY <3>2, <1>1, <1>3
  <2> QED
    BY <2>1 DEF OnlyItemOfId
<1> QED
  BY <1>3, <1>4, <1>5 DEF OwnConditions

(* The item of the request is whole where the search will find it. *)
LEMMA OwnItemInRing ==
    ASSUME TrackTypeOK, FillInv, RingInv, AskedInv, OwnConditions, pump # "idle"
    PROVE  /\ look.asked.at \in Nat /\ look \in Looks
           /\ table[SlotOf(look.asked.at - 1)] =
                 [reqId |-> look.id, qry |-> look.asked.qry, param |-> look.asked.param]
<1>1. look \in Looks /\ look.asked.at \in Nat /\ Len(log) \in Nat /\ TableSize \in Nat
  BY TableAssumption DEF TrackTypeOK, Looks, Request
<1> DEFINE n == look.asked.at
<1>2. /\ n <= Len(log) /\ Filled(n)
      /\ log[n] = [reqId |-> look.id, qry |-> look.asked.qry, param |-> look.asked.param]
  BY DEF OwnConditions, AskedInv, Recorded
<1>3. n \in Window
  BY <1>1, <1>2 DEF Window, OwnConditions
<1>4. table[SlotOf(n - 1)] = log[n]
  BY <1>2, <1>3 DEF RingInv, OwnConditions
<1> QED
  BY <1>1, <1>2, <1>4

(* Between that item and the position where the search began no slot holds *)
(* its id, written whole or not.                                           *)
LEMMA NoOtherHit ==
    ASSUME TrackTypeOK, FillInv, RingInv, AskedInv, OwnConditions, pump # "idle",
           NEW q \in Int, look.asked.at <= q, q < look.from
    PROVE  table[SlotOf(q)].reqId # look.id
<1>1. /\ look \in Looks /\ look.asked.at \in Nat /\ look.from \in Nat
      /\ look.id \in ReqId /\ look.id # NoId
      /\ Len(log) = curPos /\ curPos \in Nat /\ TableSize \in Nat /\ TableSize > 0
      /\ look.from <= curPos /\ ~lapped /\ look.asked.at > 0
      /\ curPos - look.asked.at < TableSize
  BY TableAssumption DEF TrackTypeOK, Looks, Request, AskedInv, OwnConditions
<1>2. \A n \in 1 .. curPos :
         n # look.asked.at /\ n > look.asked.at - TableSize => log[n].reqId # look.id
  BY <1>1 DEF OwnConditions, OnlyItemOfId
<1> DEFINE n == q + 1
<1>3. n \in Window /\ n \in 1 .. curPos /\ log[n].reqId # look.id /\ n - 1 = q
  <2>1. /\ n \in 1 .. curPos /\ n > curPos - TableSize
        /\ n # look.asked.at /\ n > look.asked.at - TableSize /\ n - 1 = q
    BY <1>1
  <2> QED
    BY <2>1, <1>1, <1>2 DEF Window
<1>4. CASE Filled(n)
  BY <1>1, <1>3, <1>4 DEF RingInv
<1>5. CASE ~Filled(n)
  <2>1. PICK t \in Thread : Filling(t) /\ arg[t].pos = q
    BY <1>3, <1>5 DEF Filled
  <2>2. HalfFilled(t) /\ log[n] = ItemOf(t)
    BY <1>1, <2>1 DEF RingInv, FillInv
  <2>3. CASE pc[t] = "reserved" /\ q >= TableSize
    <3>1. table[SlotOf(q)].reqId = log[q - TableSize + 1].reqId
      BY <2>1, <2>2, <2>3 DEF HalfFilled
    <3>2. /\ q - TableSize + 1 \in 1 .. curPos
          /\ q - TableSize + 1 # look.asked.at
          /\ q - TableSize + 1 > look.asked.at - TableSize
      BY <1>1, <1>3, <2>3
    <3> QED
      BY <1>2, <3>1, <3>2
  <2>4. CASE pc[t] = "reserved" /\ ~(q >= TableSize)
    BY <1>1, <2>1, <2>2, <2>4 DEF HalfFilled
  <2>5. CASE pc[t] \in {"wroteId", "wroteQry"}
    <3>1. table[SlotOf(q)].reqId = arg[t].id
      BY <2>1, <2>2, <2>5 DEF HalfFilled
    <3> QED
      BY <1>3, <2>2, <3>1 DEF ItemOf
  <2> QED
    BY <2>1, <2>3, <2>4, <2>5 DEF Filling
<1> QED
  BY <1>4, <1>5

LEMMA OwnKept ==
    ASSUME TrackTypeOK, FillInv, RingInv, AskedInv, SearchInv, OwnInv, AskedInv', [Next]_vars
    PROVE  OwnInv'
<1> SUFFICES ASSUME pump' # "idle", OwnConditions'
             PROVE  /\ pump' = "search" => look'.turn <= look'.from - look'.asked.at
                    /\ pump' \in {"found", "readQry"} => look'.pos = SlotOf(look'.asked.at - 1)
                    /\ pump' \in {"readQry", "told"} => look'.qry = look'.asked.qry
                    /\ pump' = "told" => look'.param = look'.asked.param
  BY DEF OwnInv
<1>1. CASE pump = "idle"
  <2>1. PICK id \in ReqId : OnReceiveData(id)
    BY <1>1, LookUpBegins
  <2>2. /\ pump' = "search" /\ look' \in Looks
        /\ look' = [id |-> id, asked |-> req[id], from |-> curPos, pos |-> SlotOf(curPos),
                    turn |-> 0, qry |-> None, param |-> None]
    BY <2>1, OnReceiveDataStep
  <2>3. look'.turn = 0 /\ look'.asked.at <= look'.from
    BY <2>2 DEF AskedInv
  <2>4. look'.asked.at \in Nat /\ look'.from \in Nat
    BY <2>2 DEF Looks, Request
  <2> QED
    BY <2>2, <2>3, <2>4
<1>2. CASE pump # "idle"
  <2>1. OwnConditions
    BY <1>2, ConditionsBack
  <2>2. /\ look.asked.at \in Nat /\ look \in Looks
        /\ table[SlotOf(look.asked.at - 1)] =
              [reqId |-> look.id, qry |-> look.asked.qry, param |-> look.asked.param]
    BY <1>2, <2>1, OwnItemInRing
  <2>3. /\ table[SlotOf(look.asked.at - 1)].reqId = look.id
        /\ table[SlotOf(look.asked.at - 1)].qry = look.asked.qry
        /\ table[SlotOf(look.asked.at - 1)].param = look.asked.param
    BY <2>2
  <2>4. /\ look.from \in Nat /\ look.turn \in Nat /\ curPos \in Nat /\ Len(log) = curPos
        /\ TableSize \in Nat /\ look.from <= curPos
    BY <1>2, <2>2, TableAssumption DEF Looks, TrackTypeOK, AskedInv
  <2>5. CASE look' = look /\ pump' = pump
    BY <1>2, <2>1, <2>5 DEF OwnInv
  <2>6. CASE SearchTurn
    <3> DEFINE q == look.from - look.turn - 1
    <3>1. /\ pump = "search"
          /\ look' = [id |-> look.id, asked |-> look.asked, from |-> look.from,
                      pos |-> SlotOf(q), turn |-> look.turn + 1,
                      qry |-> look.qry, param |-> look.param]
          /\ pump' = IF table[SlotOf(q)].reqId = look.id THEN "found"
                     ELSE IF look.turn + 1 = TableSize THEN "told" ELSE "search"
      BY <2>6, SearchTurnStep
    <3>2. /\ look'.asked = look.asked /\ look'.from = look.from /\ look'.id = look.id
          /\ look'.pos = SlotOf(q) /\ look'.turn = look.turn + 1
      BY <3>1
    <3>3. look.turn <= look.from - look.asked.at
      BY <1>2, <2>1, <3>1 DEF OwnInv
    <3>4. CASE look.turn = look.from - look.asked.at
      <4>1. q = look.asked.at - 1
        BY <2>2, <2>4, <3>4
      <4>2. pump' = "found"
        BY <2>3, <3>1, <4>1
      <4> QED
        BY <3>2, <4>1, <4>2
    <3>5. CASE look.turn < look.from - look.asked.at
      <4>1. q \in Int /\ look.asked.at <= q /\ q < look.from
        BY <2>2, <2>4, <3>5
      <4>2. table[SlotOf(q)].reqId # look.id
        <5> HIDE DEF q
        <5> QED
          BY <1>2, <2>1, <4>1, NoOtherHit
      <4>3. curPos - look.asked.at < TableSize
        BY <2>1, <2>4 DEF OwnConditions
      <4>4. look.turn + 1 # TableSize /\ look.turn + 1 <= look.from - look.asked.at
        BY <2>2, <2>4, <3>5, <4>3
      <4>5. pump' = "search"
        BY <3>1, <4>2, <4>4
      <4> QED
        BY <3>2, <4>4, <4>5
    <3> QED
      BY <2>2, <2>4, <3>3, <3>4, <3>5
  <2>7. CASE ReadQry
    <3>1. /\ pump = "found" /\ pump' = "readQry"
          /\ look' = [id |-> look.id, asked |-> look.asked, from |-> look.from,
                      pos |-> look.pos, turn |-> look.turn,
                      qry |-> table[look.pos].qry, param |-> look.param]
      BY <2>7, ReadQryStep
    <3>2. look'.asked = look.asked /\ look'.pos = look.pos /\ look'.qry = table[look.pos].qry
      BY <3>1
    <3>3. look.pos = SlotOf(look.asked.at - 1)
      BY <1>2, <2>1, <3>1 DEF OwnInv
    <3> QED
      BY <2>3, <3>1, <3>2, <3>3
  <2>8. CASE ReadParam
    <3>1. /\ pump = "readQry" /\ pump' = "told"
          /\ look' = [id |-> look.id, asked |-> look.asked, from |-> look.from,
                      pos |-> look.pos, turn |-> look.turn,
                      qry |-> look.qry, param |-> table[look.pos].param]
      BY <2>8, ReadParamStep
    <3>2. /\ look'.asked = look.asked /\ look'.qry = look.qry
          /\ look'.param = table[look.pos].param
      BY <3>1
    <3>3. look.pos = SlotOf(look.asked.at - 1) /\ look.qry = look.asked.qry
      BY <1>2, <2>1, <3>1 DEF OwnInv
    <3> QED
      BY <2>3, <3>1, <3>2, <3>3
  <2>9. ASSUME NEW t \in Thread, CallStep(t) PROVE look' = look /\ pump' = pump
    BY <2>9 DEF CallStep, RequestData, RequestNextData, Send, GetSendRqID, Reserve,
                WriteId, WriteQry, WriteParam
  <2>10. ~CallbackReturns /\ \A id \in ReqId : ~OnReceiveData(id) /\ ~AnswerWithoutLookup(id)
    BY <1>2 DEF CallbackReturns, OnReceiveData, AnswerWithoutLookup
  <2> QED
    BY <2>5, <2>6, <2>7, <2>8, <2>9, <2>10 DEF Next, PumpStep, vars, tracking
<1> QED
  BY <1>1, <1>2

-------------------------------------------------------------------------------
LEMMA TrackInit == Init => TrackInv
<1> SUFFICES ASSUME Init PROVE TrackInv
  OBVIOUS
<1>1. TableInv
  BY InitInv DEF Init
<1>2. curPos = 0 /\ log = << >> /\ Len(log) = 0
  BY DEF Init, TableInit
<1>3. \A t \in Thread : ~Calling(t) /\ ~Filling(t)
  BY DEF Init, Calling, Filling
<1>4. TrackTypeOK
  BY <1>1, <1>2, <1>3, TableAssumption DEF Init, TrackTypeOK, Place, PumpPlace, TableInv, TableTypeOK
<1>5. RoomInv
  <2>1. Pending = {}
    BY DEF Init, Pending
  <2> QED
    BY <1>2, <2>1, FS_EmptySet, TableAssumption DEF RoomInv
<1>6. FillInv /\ GivenInv
  BY <1>3 DEF FillInv, GivenInv
<1>7. RingInv
  BY <1>1, <1>2, <1>3 DEF RingInv, Window, TableInv
<1>8. AskedInv /\ SearchInv /\ OwnInv
  BY DEF Init, AskedInv, SearchInv, OwnInv
<1> QED
  BY <1>4, <1>5, <1>6, <1>7, <1>8 DEF TrackInv

LEMMA TrackNext == TrackInv /\ [Next]_vars => TrackInv'
<1> SUFFICES ASSUME TrackInv, [Next]_vars PROVE TrackInv'
  OBVIOUS
<1>1. /\ TrackTypeOK /\ RoomInv /\ FillInv /\ RingInv
      /\ GivenInv /\ AskedInv /\ SearchInv /\ OwnInv
  BY DEF TrackInv
<1>2. TrackTypeOK' /\ RoomInv' /\ FillInv' /\ RingInv'
  BY <1>1, TrackTyped, RoomKept, FillRingKept
<1>3. GivenInv' /\ AskedInv' /\ SearchInv'
  BY <1>1, GivenKept, AskedKept, SearchKept
<1>4. OwnInv'
  BY <1>1, <1>3, OwnKept
<1> QED
  BY <1>2, <1>3, <1>4 DEF TrackInv

LEMMA TrackInvariance == Spec => []TrackInv
BY TrackInit, TrackNext, PTL DEF Spec

(* Every variable keeps its type, for every number of threads and ids, and *)
(* the ring's position keeps below its bound (EfxMfc.cpp, efxRequestData,  *)
(* efxRequestNextData; EfxWnd.cpp, OnReceiveData).                         *)
THEOREM TrackingTypes == Spec => [](TrackTypeOK /\ TableTypeOK)
<1>1. TrackInv => TrackTypeOK /\ TableTypeOK
  <2> SUFFICES ASSUME TrackInv PROVE TrackTypeOK /\ TableTypeOK
    OBVIOUS
  <2>1. TrackTypeOK /\ curPos + Cardinality(Pending) <= MaxPos
    BY DEF TrackInv, RoomInv
  <2>2. Cardinality(Pending) \in Nat
    BY TrackingAssumption, FS_Subset, FS_CardinalityType DEF Pending
  <2>3. curPos \in 0 .. MaxPos
    BY <2>1, <2>2, TableAssumption DEF TrackTypeOK
  <2> QED
    BY <2>1, <2>3 DEF TrackTypeOK, TableTypeOK
<1> QED
  BY <1>1, TrackInvariance, PTL

(* Whatever the threads do, an answer whose request had been recorded when *)
(* it was dispatched is told with the texts of its own request, while the  *)
(* ring holds them and no other request used the id                        *)
(* (CEfxWnd::OnReceiveData, ReqIdTable::GetItem).                          *)
THEOREM RecordedIsOwn == Spec => []RecordedAnswerIsOwn
<1>1. TrackInv => RecordedAnswerIsOwn
  BY DEF TrackInv, OwnInv, OwnConditions, RecordedAnswerIsOwn, ToldOwn
<1> QED
  BY <1>1, TrackInvariance, PTL

-------------------------------------------------------------------------------
(* The table as atomic SetItem calls would have left it. *)
Overlaid ==
    /\ \A t \in Thread : Filling(t) => AsIfFilled[SlotOf(arg[t].pos)] = log[1 + arg[t].pos]
    /\ \A s \in Slots : (\A t \in Thread : Filling(t) => SlotOf(arg[t].pos) # s) =>
          AsIfFilled[s] = table[s]

LEMMA AsIfFilledIs == TrackTypeOK /\ FillInv /\ RingInv /\ ~lapped => Overlaid
<1> SUFFICES ASSUME TrackTypeOK, FillInv, RingInv, ~lapped
             PROVE  Overlaid
  OBVIOUS
<1>1. ASSUME NEW t \in Thread, Filling(t)
      PROVE  AsIfFilled[SlotOf(arg[t].pos)] = log[1 + arg[t].pos]
  <2> DEFINE s == SlotOf(arg[t].pos)
             u == CHOOSE u \in Thread : Filling(u) /\ SlotOf(arg[u].pos) = s
  <2>1. arg[t].pos \in Int
    BY <1>1 DEF TrackTypeOK, Filling, Calling, Args
  <2>2. s \in Slots
    BY <2>1, SlotInTable
  <2>3. u \in Thread /\ Filling(u) /\ SlotOf(arg[u].pos) = s
    BY <1>1
  <2>4. u = t
    <3> HIDE DEF u
    <3> QED
      BY <1>1, <2>3, FillersApart
  <2>5. AsIfFilled[s] = log[1 + arg[u].pos]
    BY <1>1, <2>2 DEF AsIfFilled
  <2> QED
    BY <2>4, <2>5
<1>2. ASSUME NEW s \in Slots, \A t \in Thread : Filling(t) => SlotOf(arg[t].pos) # s
      PROVE  AsIfFilled[s] = table[s]
  BY <1>2 DEF AsIfFilled
<1> QED
  BY <1>1, <1>2 DEF Overlaid

LEMMA AsIfFilledNext == (TrackTypeOK /\ FillInv /\ RingInv /\ ~lapped => Overlaid)'
BY AsIfFilledIs, PTL

(* Reserving a position is the SetItem of the atomic table. *)
LEMMA ReserveSets ==
    ASSUME TrackInv, TrackInv', ~lapped', NEW t \in Thread, Reserve(t)
    PROVE  Atomic!TableNext
<1> DEFINE item == ItemOf(t)
<1>1. /\ TrackTypeOK /\ RoomInv /\ FillInv /\ RingInv /\ TrackTypeOK' /\ FillInv' /\ RingInv'
  BY DEF TrackInv
<1>2. /\ pc[t] = "gotId" /\ pc'[t] = "reserved" /\ Others(t)
      /\ item \in Item /\ log' = Append(log, item)
  BY <1>1, ReserveStep
<1>3. /\ ~lapped /\ table' = table /\ curPos' = curPos + 1
      /\ \A u \in Thread : Filling(u) => SlotOf(arg[u].pos) # SlotOf(curPos)
  BY DEF Reserve
<1>4. curPos < MaxPos
  <2>1. t \in Pending /\ IsFiniteSet(Pending)
    BY <1>2, TrackingAssumption, FS_Subset DEF Pending
  <2>2. Cardinality(Pending) \in Nat /\ Cardinality(Pending) # 0
    BY <2>1, FS_EmptySet, FS_CardinalityType
  <2> QED
    BY <1>1, <2>2, TableAssumption DEF RoomInv, TrackTypeOK
<1>5. /\ ~Filling(t) /\ Filling(t)' /\ arg'[t].pos = curPos /\ log'[curPos + 1] = item
      /\ \A n \in 1 .. curPos : log'[n] = log[n]
      /\ \A s \in Thread \ {t} : Filling(s) =>
            arg[s].pos \in Nat /\ arg[s].pos + 1 \in 1 .. curPos
  BY <1>1, ReserveFills
<1>6. curPos \in Nat /\ SlotOf(curPos) \in Slots
  BY <1>1, SlotInTable DEF TrackTypeOK
<1>7. /\ \A u \in Thread : Filling(u) => AsIfFilled[SlotOf(arg[u].pos)] = log[1 + arg[u].pos]
      /\ \A s \in Slots : (\A u \in Thread : Filling(u) => SlotOf(arg[u].pos) # s) =>
            AsIfFilled[s] = table[s]
  BY <1>1, <1>3, AsIfFilledIs DEF Overlaid
<1>8. /\ \A u \in Thread : Filling(u)' => AsIfFilled'[SlotOf(arg'[u].pos)] = log'[1 + arg'[u].pos]
      /\ \A s \in Slots : (\A u \in Thread : Filling(u)' => SlotOf(arg'[u].pos) # s) =>
            AsIfFilled'[s] = table'[s]
  BY <1>1, AsIfFilledNext DEF Overlaid
<1> HIDE DEF item
<1>9. ASSUME NEW s \in Slots
      PROVE  AsIfFilled'[s] = [AsIfFilled EXCEPT ![SlotOf(curPos)] = item][s]
  <2>0. AsIfFilled \in [Slots -> {AsIfFilled[x] : x \in Slots}]
    BY DEF AsIfFilled
  <2>1. CASE s = SlotOf(curPos)
    <3>1. AsIfFilled'[s] = item
      BY <1>5, <1>6, <1>8, <2>1
    <3> QED
      BY <2>0, <2>1, <3>1, <1>6
  <2>2. CASE s # SlotOf(curPos)
    <3>1. [AsIfFilled EXCEPT ![SlotOf(curPos)] = item][s] = AsIfFilled[s]
      BY <2>0, <2>2, <1>6
    <3>2. CASE \E u \in Thread : Filling(u) /\ SlotOf(arg[u].pos) = s
      <4>1. PICK u \in Thread : Filling(u) /\ SlotOf(arg[u].pos) = s
        BY <3>2
      <4>2. u # t /\ Filling(u)' /\ arg'[u].pos = arg[u].pos
        BY <4>1, <1>2, <1>5, OthersKept
      <4>3. log'[1 + arg[u].pos] = log[1 + arg[u].pos]
        BY <4>1, <4>2, <1>5, <1>6
      <4> QED
        BY <3>1, <4>1, <4>2, <4>3, <1>7, <1>8
    <3>3. CASE \A u \in Thread : Filling(u) => SlotOf(arg[u].pos) # s
      <4>1. \A u \in Thread : Filling(u)' => SlotOf(arg'[u].pos) # s
        BY <3>3, <2>2, <1>2, <1>5, OthersKept
      <4> QED
        BY <3>1, <3>3, <4>1, <1>3, <1>7, <1>8
    <3> QED
      BY <3>2, <3>3
  <2> QED
    BY <2>1, <2>2
<1>10. AsIfFilled' = [AsIfFilled EXCEPT ![SlotOf(curPos)] = item]
  <2>1. AsIfFilled' = [s \in Slots |-> AsIfFilled'[s]]
    BY DEF AsIfFilled
  <2>2. AsIfFilled = [s \in Slots |-> AsIfFilled[s]]
    BY DEF AsIfFilled
  <2>3. [AsIfFilled EXCEPT ![SlotOf(curPos)] = item] =
           [s \in Slots |-> [AsIfFilled EXCEPT ![SlotOf(curPos)] = item][s]]
    BY <2>2, Zenon
  <2> QED
    BY <1>9, <2>1, <2>3, Zenon
<1>11. Atomic!SetItem(item)
  BY <1>2, <1>3, <1>4, <1>10 DEF Atomic!SetItem, SlotOf, Atomic!SlotOf
<1> QED
  BY <1>2, <1>11 DEF Atomic!TableNext, Item, Atomic!Item

(* The steps that fill the slot change nothing in it. *)
LEMMA WriteStutters ==
    ASSUME TrackInv, TrackInv', ~lapped', NEW t \in Thread,
           WriteId(t) \/ WriteQry(t) \/ WriteParam(t)
    PROVE  UNCHANGED Atomic!tableVars
<1>1. /\ TrackTypeOK /\ FillInv /\ RingInv /\ TrackTypeOK' /\ FillInv' /\ RingInv'
  BY DEF TrackInv
<1>2. UNCHANGED <<curPos, log, lapped>>
  BY <1>1, WriteFillInv
<1>3. /\ Filling(t) /\ arg[t] \in Args /\ Others(t)
      /\ Filling(t)' => arg'[t] = arg[t]
  BY <1>1, WriteStep, WriteParamStep, WriteFillInv
<1>4. /\ \A u \in Thread : Filling(u) => AsIfFilled[SlotOf(arg[u].pos)] = log[1 + arg[u].pos]
      /\ \A s \in Slots : (\A u \in Thread : Filling(u) => SlotOf(arg[u].pos) # s) =>
            AsIfFilled[s] = table[s]
  BY <1>1, <1>2, AsIfFilledIs DEF Overlaid
<1>5. /\ \A u \in Thread : Filling(u)' => AsIfFilled'[SlotOf(arg'[u].pos)] = log'[1 + arg'[u].pos]
      /\ \A s \in Slots : (\A u \in Thread : Filling(u)' => SlotOf(arg'[u].pos) # s) =>
            AsIfFilled'[s] = table'[s]
  BY <1>1, AsIfFilledNext DEF Overlaid
<1>6. /\ SlotOf(arg[t].pos) \in Slots
      /\ \A s \in Slots : s # SlotOf(arg[t].pos) => table'[s] = table[s]
  <2>1. /\ SlotOf(arg[t].pos) \in Slots
        /\ table' = [table EXCEPT ![SlotOf(arg[t].pos)] = table'[SlotOf(arg[t].pos)]]
    BY <1>1, <1>3, SlotTyped
  <2> QED
    BY <2>1, <1>1 DEF TrackTypeOK
<1>7. ASSUME NEW s \in Slots PROVE AsIfFilled'[s] = AsIfFilled[s]
  <2>1. CASE s = SlotOf(arg[t].pos)
    <3>1. AsIfFilled[s] = log[1 + arg[t].pos]
      BY <1>3, <1>4, <2>1
    <3>2. CASE Filling(t)'
      BY <1>2, <1>3, <1>5, <2>1, <3>1, <3>2
    <3>3. CASE ~Filling(t)'
      <4>1. WriteParam(t)
        BY <1>1, <3>3, WriteStep
      <4>2. table'[s] = ItemOf(t) /\ log[arg[t].pos + 1] = ItemOf(t)
        BY <1>1, <1>2, <2>1, <4>1, WriteParamFills
      <4>3. ASSUME NEW u \in Thread, Filling(u)' PROVE SlotOf(arg'[u].pos) # s
        <5>1. u # t /\ Filling(u) /\ arg'[u].pos = arg[u].pos
          BY <1>3, <3>3, <4>3, OthersKept
        <5> QED
          BY <1>1, <1>2, <1>3, <2>1, <5>1, FillersApart
      <4>4. AsIfFilled'[s] = table'[s]
        BY <1>5, <4>3
      <4>5. arg[t].pos + 1 = 1 + arg[t].pos
        BY <1>3 DEF Args
      <4> QED
        BY <3>1, <4>2, <4>4, <4>5
    <3> QED
      BY <3>2, <3>3
  <2>2. CASE s # SlotOf(arg[t].pos)
    <3>1. CASE \E u \in Thread : Filling(u) /\ SlotOf(arg[u].pos) = s
      <4>1. PICK u \in Thread : Filling(u) /\ SlotOf(arg[u].pos) = s
        BY <3>1
      <4>2. u # t /\ Filling(u)' /\ arg'[u].pos = arg[u].pos
        BY <4>1, <1>3, <2>2, OthersKept
      <4> QED
        BY <4>1, <4>2, <1>2, <1>4, <1>5
    <3>2. CASE \A u \in Thread : Filling(u) => SlotOf(arg[u].pos) # s
      <4>1. \A u \in Thread : Filling(u)' => SlotOf(arg'[u].pos) # s
        BY <3>2, <2>2, <1>3, OthersKept
      <4> QED
        BY <3>2, <4>1, <1>4, <1>5, <1>6, <2>2
    <3> QED
      BY <3>1, <3>2
  <2> QED
    BY <2>1, <2>2
<1>8. AsIfFilled' = AsIfFilled
  <2>1. AsIfFilled' = [s \in Slots |-> AsIfFilled'[s]]
    BY DEF AsIfFilled
  <2>2. AsIfFilled = [s \in Slots |-> AsIfFilled[s]]
    BY DEF AsIfFilled
  <2> QED
    BY <1>7, <2>1, <2>2, Zenon
<1> QED
  BY <1>2, <1>8 DEF Atomic!tableVars

LEMMA QuietStutters ==
    ASSUME TrackInv, FillersKept, UNCHANGED <<tableVars, lapped>>, ~lapped, TrackInv'
    PROVE  UNCHANGED Atomic!tableVars
<1>1. /\ UNCHANGED <<curPos, table, log>> /\ ~lapped'
      /\ TrackTypeOK /\ FillInv /\ RingInv /\ TrackTypeOK' /\ FillInv' /\ RingInv'
  BY DEF tableVars, TrackInv
<1>2. /\ \A u \in Thread : Filling(u) => AsIfFilled[SlotOf(arg[u].pos)] = log[1 + arg[u].pos]
      /\ \A s \in Slots : (\A u \in Thread : Filling(u) => SlotOf(arg[u].pos) # s) =>
            AsIfFilled[s] = table[s]
  BY <1>1, AsIfFilledIs DEF Overlaid
<1>3. /\ \A u \in Thread : Filling(u)' => AsIfFilled'[SlotOf(arg'[u].pos)] = log'[1 + arg'[u].pos]
      /\ \A s \in Slots : (\A u \in Thread : Filling(u)' => SlotOf(arg'[u].pos) # s) =>
            AsIfFilled'[s] = table'[s]
  BY <1>1, AsIfFilledNext DEF Overlaid
<1>4. \A u \in Thread : (Filling(u)' <=> Filling(u)) /\ (Filling(u) => arg'[u].pos = arg[u].pos)
  BY DEF FillersKept
<1>5. \A s \in Slots : AsIfFilled'[s] = AsIfFilled[s]
  BY <1>1, <1>2, <1>3, <1>4
<1>6. AsIfFilled' = AsIfFilled
  <2>1. AsIfFilled' = [s \in Slots |-> AsIfFilled'[s]]
    BY DEF AsIfFilled
  <2>2. AsIfFilled = [s \in Slots |-> AsIfFilled[s]]
    BY DEF AsIfFilled
  <2> QED
    BY <1>5, <2>1, <2>2, Zenon
<1> QED
  BY <1>1, <1>6 DEF Atomic!tableVars

LEMMA StepIsAtomic ==
    TrackInv /\ TrackInv' /\ [Next]_vars =>
        (lapped' \/ UNCHANGED Atomic!tableVars \/ Atomic!TableNext)
<1> SUFFICES ASSUME TrackInv, TrackInv', [Next]_vars, ~lapped'
             PROVE  UNCHANGED Atomic!tableVars \/ Atomic!TableNext
  OBVIOUS
<1>1. CASE \E t \in Thread : Reserve(t)
  BY <1>1, ReserveSets
<1>2. CASE \E t \in Thread : WriteId(t) \/ WriteQry(t) \/ WriteParam(t)
  BY <1>2, WriteStutters
<1>3. CASE ~ \E t \in Thread : Reserve(t) \/ WriteId(t) \/ WriteQry(t) \/ WriteParam(t)
  <2>1. FillersKept /\ UNCHANGED <<tableVars, lapped>>
    BY <1>3, QuietSteps DEF TrackInv
  <2> QED
    BY <2>1, QuietStutters
<1> QED
  BY <1>1, <1>2, <1>3

(* However many threads record their requests at once, every step is that  *)
(* of atomic SetItem calls or leaves their table as it is, unless a thread *)
(* is lapped (ReqIdTable::SetItem, called without a lock).                 *)
THEOREM Linearizes == Spec => SetItemLinearizes
<1>1. TrackInv /\ TrackInv' /\ [Next]_vars =>
         [lapped' \/ UNCHANGED Atomic!tableVars \/ Atomic!TableNext]_vars
  BY StepIsAtomic
<1> QED
  BY <1>1, TrackInvariance, PTL DEF Spec, SetItemLinearizes

(* So while no thread is ever lapped the interleaved calls implement the   *)
(* table of ReqIdTable, and what is proved of that one holds for this one. *)
THEOREM ImplementsTable == Spec /\ []~lapped => Atomic!TableSpec
<1>1. Init => Atomic!TableInit
  <2> SUFFICES ASSUME Init PROVE Atomic!TableInit
    OBVIOUS
  <2>1. \A t \in Thread : ~Filling(t)
    BY DEF Init, Filling
  <2>2. TableInit /\ table \in [Slots -> [reqId : {NoId}, qry : Heap, param : Heap]]
    BY DEF Init, TableInit
  <2>3. \A s \in Slots : AsIfFilled[s] = table[s]
    BY <2>1 DEF AsIfFilled
  <2>4. AsIfFilled = table
    <3>1. AsIfFilled = [s \in Slots |-> AsIfFilled[s]]
      BY DEF AsIfFilled
    <3>2. table = [s \in Slots |-> table[s]]
      BY <2>2
    <3> QED
      BY <2>3, <3>1, <3>2, Zenon
  <2> QED
    BY <2>2, <2>4 DEF Atomic!TableInit, TableInit, Atomic!Slots, Slots
<1>2. TrackInv /\ TrackInv' /\ [Next]_vars /\ ~lapped' => [Atomic!TableNext]_(Atomic!tableVars)
  BY StepIsAtomic
<1> QED
  BY <1>1, <1>2, TrackInvariance, PTL DEF Spec, Atomic!TableSpec

-------------------------------------------------------------------------------
(* A client with one thread: no other thread calls. *)
LEMMA OneCaller ==
    ASSUME Serial, AloneInv, NEW t \in Thread, Calling(t) \/ program[t] # {}
    PROVE  \A s \in Thread \ {t} : ~Calling(s)
<1>1. PICK u \in Thread : \A s \in Thread \ {u} : program[s] = {}
  BY DEF Serial
<1>2. \A s \in Thread : Calling(s) => program[s] # {}
  BY DEF AloneInv
<1> QED
  BY <1>1, <1>2

LEMMA SerialStays ==
    ASSUME [Next]_vars
    PROVE  program' = program /\ (Serial' <=> Serial)
BY DEF Next, vars, tracking, Serial

(* A step of a one-thread client: its thread's, or one of the pump's while *)
(* it does not call.                                                       *)
LEMMA SerialStep ==
    ASSUME Serial, AloneInv, [Next]_vars
    PROVE  \/ UNCHANGED vars
           \/ PumpStep /\ \A t \in Thread : ~Calling(t)
           \/ \E t \in Thread : /\ CallStep(t) /\ UNCHANGED <<pump, look>>
                                /\ pump = "idle" \/ InCallback
                                /\ \A s \in Thread \ {t} : ~Calling(s)
<1>1. ASSUME NEW t \in Thread, CallStep(t)
      PROVE  UNCHANGED <<pump, look>> /\ \A s \in Thread \ {t} : ~Calling(s)
  <2>1. UNCHANGED <<pump, look>>
    BY <1>1 DEF CallStep, RequestData, RequestNextData, Send, GetSendRqID, Reserve,
                WriteId, WriteQry, WriteParam
  <2>2. Calling(t) \/ program[t] # {}
    BY <1>1 DEF CallStep, RequestData, RequestNextData, GetSendRqID, Reserve,
                WriteId, WriteQry, WriteParam, Calling
  <2> QED
    BY <2>1, <2>2, OneCaller
<1> QED
  BY <1>1 DEF Next

(* What the pump does leaves a client that is not calling as it is. *)
LEMMA AlonePump ==
    ASSUME TrackInv, Serial, AloneInv, PumpStep, program' = program, TrackInv',
           \A t \in Thread : ~Calling(t)
    PROVE  AloneInv'
<1>1. pc' = pc /\ UNCHANGED <<tableVars, lapped, sendId>>
  BY DEF PumpStep, OnReceiveData, AnswerWithoutLookup, SearchTurn, ReadQry, ReadParam,
         CallbackReturns
<1>2. \A t \in Thread : ~Calling(t)' /\ ~Filling(t)'
  BY <1>1 DEF Calling, Filling
<1>3. \A id \in ReqId : req[id] # None => req[id].at > 0
  <2>1. \A id \in ReqId : req[id] # None => req[id].at # 0
    BY DEF AloneInv
  <2>2. \A id \in ReqId : req[id] # None => req[id].at \in Nat
    BY DEF TrackInv, TrackTypeOK, Request
  <2> QED
    BY <2>1, <2>2
<1>4. ASSUME (\E id \in ReqId : AnswerWithoutLookup(id)) \/ CallbackReturns
      PROVE  pump' = "idle" /\ \A id \in ReqId : req'[id] # None => req'[id] = req[id]
  <2>1. PICK id \in ReqId : Forget(id)
    BY <1>4, AnsweredStep DEF TrackInv
  <2> QED
    BY <1>4, <2>1, AnsweredStep DEF Forget, TrackInv, TrackTypeOK
<1>5. ASSUME NEW id \in ReqId, OnReceiveData(id)
      PROVE  /\ req' = req /\ look'.asked.at > 0 /\ req'[look'.id] = look'.asked
             /\ pump' = "search" /\ curPos' = look'.from
  <2>1. /\ look' = [id |-> id, asked |-> req[id], from |-> curPos, pos |-> SlotOf(curPos),
                    turn |-> 0, qry |-> None, param |-> None]
        /\ req' = req /\ curPos' = curPos /\ req[id] \in Request /\ pump' = "search"
    BY <1>5, OnReceiveDataStep DEF TrackInv, tableVars
  <2>2. look'.id = id /\ look'.asked = req[id] /\ look'.from = curPos
    BY <2>1
  <2> QED
    BY <1>3, <2>1, <2>2, TrackingAssumption
<1>6. ASSUME SearchTurn \/ ReadQry \/ ReadParam
      PROVE  /\ req' = req /\ pump # "idle" /\ pump' # "idle"
             /\ look'.asked = look.asked /\ look'.id = look.id /\ look'.from = look.from
             /\ pump' = "search" => pump = "search"
  <2>1. req' = req /\ pump # "idle" /\ pump' # "idle" /\ (pump' = "search" => pump = "search")
    BY <1>6 DEF SearchTurn, ReadQry, ReadParam
  <2>2. [Next]_vars
    BY <1>6 DEF Next, PumpStep
  <2> QED
    BY <2>1, <2>2, SameLookUp DEF TrackInv
<1>7. CASE (\E id \in ReqId : AnswerWithoutLookup(id)) \/ CallbackReturns
  BY <1>1, <1>2, <1>3, <1>4, <1>7 DEF AloneInv
<1>8. CASE \E id \in ReqId : OnReceiveData(id)
  <2>1. curPos' = curPos
    BY <1>1 DEF tableVars
  <2> QED
    BY <1>1, <1>2, <1>3, <1>5, <1>8 DEF AloneInv
<1>9. CASE SearchTurn \/ ReadQry \/ ReadParam
  <2>1. curPos' = curPos
    BY <1>1 DEF tableVars
  <2> QED
    BY <1>1, <1>2, <1>3, <1>6, <1>9, <2>1 DEF AloneInv
<1> QED
  BY <1>7, <1>8, <1>9 DEF PumpStep

LEMMA AloneSend ==
    ASSUME TrackInv, Serial, AloneInv, program' = program, NEW t \in Thread,
           RequestData(t) \/ RequestNextData(t), pump = "idle" \/ InCallback
    PROVE  AloneInv'
<1>1. PICK c \in Ctrl, q \in Text, p \in Text, id \in ReqId \union {None} :
         Send(t, c, q, p, id)
  BY CallIsSend DEF TrackInv
<1>2. program[t] # {}
  BY DEF RequestData, RequestNextData
<1>3. \A s \in Thread \ {t} : ~Calling(s)
  BY <1>2, OneCaller
<1>4. /\ arg'[t].ctrl = c /\ arg'[t].given = id /\ pc[t] = "idle" /\ pc'[t] = "sent" /\ Others(t)
  <2>1. /\ arg'[t] = [ctrl |-> c, qry |-> q, param |-> p, given |-> id, id |-> NoId, pos |-> 0]
        /\ pc[t] = "idle" /\ pc'[t] = "sent" /\ Others(t)
    BY <1>1, SendStep DEF TrackInv
  <2> QED
    BY <2>1
<1>5. \A s \in Thread \ {t} : ~Calling(s)' /\ ~Filling(s)'
  BY <1>3, <1>4 DEF Others, Calling, Filling
<1>6. Calling(t)' /\ ~Filling(t)' /\ ~Calling(t)
  BY <1>4 DEF Calling, Filling
<1>7. UNCHANGED <<tableVars, pump, look, lapped>> /\ curPos' = curPos
  BY <1>1 DEF Send, tableVars
<1>8. \A i \in ReqId : req[i] # None => req[i].at # 0
  BY <1>3, <1>6 DEF AloneInv
<1>9. CASE id = None
  <2>1. req' = req
    BY <1>1, <1>9, SendReq DEF TrackInv
  <2> QED
    BY <1>2, <1>4, <1>5, <1>6, <1>7, <1>8, <1>9, <2>1 DEF AloneInv, InCallback
<1>10. CASE id # None
  <2>1. /\ id \in ReqId /\ req[id] = None
        /\ \A i \in ReqId \ {id} : req'[i] = req[i]
        /\ sendId'[c] = id
    <3>1. TrackTypeOK
      BY DEF TrackInv
    <3>2. /\ id \in ReqId \ {NoId} /\ req[id] = None
          /\ req'[id] = [ctrl |-> c, qry |-> q, param |-> p, at |-> 0]
          /\ \A i \in ReqId \ {id} : req'[i] = req[i]
          /\ sendId'[c] = id
      BY <1>1, <1>10, <3>1, SendReq
    <3> QED
      BY <3>2
  <2>3. pump # "idle" => look.id \in ReqId /\ req[look.id] # None
    BY TrackingAssumption DEF AloneInv, TrackInv, TrackTypeOK, Looks
  <2>4. pump # "idle" => look.id # id
    BY <2>1, <2>3
  <2>5. pump # "idle" => req'[look'.id] = look'.asked /\ look'.asked.at > 0
    BY <1>7, <2>1, <2>3, <2>4 DEF AloneInv
  <2>6. ~lapped' /\ (pump' = "search" => curPos' = look'.from)
    BY <1>7 DEF AloneInv
  <2>7. /\ \A s \in Thread : Calling(s)' =>
              program'[s] # {} /\ (pump' = "idle" \/ InCallback')
        /\ \A s \in Thread : Filling(s)' => arg'[s].pos + 1 = curPos'
    BY <1>2, <1>5, <1>6, <1>7 DEF InCallback
  <2>8. \A s \in Thread : Calling(s)' /\ arg'[s].given # None =>
           /\ sendId'[arg'[s].ctrl] = arg'[s].given
           /\ pc'[s] # "sent" => arg'[s].id = arg'[s].given
    BY <1>4, <1>5, <1>6, <2>1
  <2>9. \A i \in ReqId : req'[i] # None /\ req'[i].at = 0 =>
           \E s \in Thread : Calling(s)' /\ arg'[s].given = i
    BY <1>4, <1>6, <1>8, <2>1
  <2> QED
    BY <1>7, <2>5, <2>6, <2>7, <2>8, <2>9 DEF AloneInv
<1> QED
  BY <1>9, <1>10

(* The later steps of the call. *)
LEMMA AloneCall ==
    ASSUME TrackInv, Serial, AloneInv, program' = program, NEW t \in Thread,
           GetSendRqID(t) \/ Reserve(t) \/ WriteId(t) \/ WriteQry(t),
           pump = "idle" \/ InCallback
    PROVE  AloneInv'
<1>1. Calling(t) /\ Calling(t)' /\ Others(t) /\ UNCHANGED <<pump, look, req, sendId>>
  BY GetSendRqIDStep, ReserveStep, WriteStep
     DEF TrackInv, Calling, GetSendRqID, Reserve, WriteId, WriteQry
<1>2. \A s \in Thread \ {t} : ~Calling(s)
  BY <1>1, OneCaller
<1>3. \A s \in Thread \ {t} : ~Calling(s)' /\ ~Filling(s)' /\ ~Filling(s)
  BY <1>1, <1>2 DEF Others, Calling, Filling
<1>4. arg'[t].given = arg[t].given /\ arg'[t].ctrl = arg[t].ctrl
  <2>1. CASE GetSendRqID(t)
    <3>1. arg'[t] = [ctrl |-> arg[t].ctrl, qry |-> arg[t].qry, param |-> arg[t].param,
                     given |-> arg[t].given, id |-> sendId[arg[t].ctrl], pos |-> arg[t].pos]
      BY <2>1, GetSendRqIDStep DEF TrackInv
    <3> QED
      BY <3>1
  <2>2. CASE Reserve(t)
    <3>1. arg'[t] = [ctrl |-> arg[t].ctrl, qry |-> arg[t].qry, param |-> arg[t].param,
                     given |-> arg[t].given, id |-> arg[t].id, pos |-> curPos]
      BY <2>2, ReserveStep DEF TrackInv
    <3> QED
      BY <3>1
  <2>3. CASE WriteId(t) \/ WriteQry(t)
    BY <2>3, WriteStep DEF TrackInv
  <2> QED
    BY <2>1, <2>2, <2>3
<1>5. arg[t].given # None =>
         /\ sendId[arg[t].ctrl] = arg[t].given
         /\ pc'[t] # "sent" => arg'[t].id = arg[t].given
  <2>1. CASE GetSendRqID(t)
    <3>1. arg'[t] = [ctrl |-> arg[t].ctrl, qry |-> arg[t].qry, param |-> arg[t].param,
                     given |-> arg[t].given, id |-> sendId[arg[t].ctrl], pos |-> arg[t].pos]
      BY <2>1, GetSendRqIDStep DEF TrackInv
    <3>2. arg'[t].id = sendId[arg[t].ctrl]
      BY <3>1
    <3> QED
      BY <1>1, <3>2 DEF AloneInv
  <2>2. CASE Reserve(t)
    <3>1. /\ pc[t] = "gotId"
          /\ arg'[t] = [ctrl |-> arg[t].ctrl, qry |-> arg[t].qry, param |-> arg[t].param,
                        given |-> arg[t].given, id |-> arg[t].id, pos |-> curPos]
      BY <2>2, ReserveStep DEF TrackInv
    <3>2. arg'[t].id = arg[t].id
      BY <3>1
    <3> QED
      BY <1>1, <3>1, <3>2 DEF AloneInv
  <2>3. CASE WriteId(t) \/ WriteQry(t)
    <3>1. arg' = arg /\ pc[t] # "sent"
      BY <2>3, WriteStep DEF TrackInv
    <3> QED
      BY <1>1, <3>1 DEF AloneInv
  <2> QED
    BY <2>1, <2>2, <2>3
<1>6. ~lapped' /\ (Filling(t)' => arg'[t].pos + 1 = curPos')
  <2>1. CASE GetSendRqID(t)
    <3>1. ~Filling(t)' /\ lapped' = lapped
      BY <2>1, GetSendRqIDStep DEF TrackInv, Filling, GetSendRqID
    <3> QED
      BY <3>1 DEF AloneInv
  <2>2. CASE Reserve(t)
    <3>1. arg'[t].pos = curPos /\ curPos' = curPos + 1 /\ ~Filling(t)
      BY <2>2, ReserveFills DEF TrackInv
    <3> QED
      BY <1>3, <2>2, <3>1 DEF AloneInv, Reserve
  <2>3. CASE WriteId(t) \/ WriteQry(t)
    <3>1. arg' = arg /\ Filling(t) /\ UNCHANGED <<curPos, lapped>>
      BY <2>3, WriteStep DEF TrackInv, WriteId, WriteQry
    <3> QED
      BY <3>1 DEF AloneInv
  <2> QED
    BY <2>1, <2>2, <2>3
<1>7. program[t] # {}
  BY <1>1 DEF AloneInv
<1>8. \A i \in ReqId : req'[i] # None /\ req'[i].at = 0 =>
         \E s \in Thread : Calling(s)' /\ arg'[s].given = i
  <2>1. \A i \in ReqId : req[i] # None /\ req[i].at = 0 => arg[t].given = i
    BY <1>2 DEF AloneInv
  <2> QED
    BY <1>1, <1>4, <2>1
<1>9. pump' # "search"
  BY <1>1 DEF InCallback
<1>10. pump' # "idle" => look'.asked.at > 0 /\ req'[look'.id] = look'.asked
  BY <1>1 DEF AloneInv
<1>11. \A s \in Thread : Calling(s)' => program'[s] # {} /\ (pump' = "idle" \/ InCallback')
  BY <1>1, <1>3, <1>7 DEF InCallback
<1>12. \A s \in Thread : Calling(s)' /\ arg'[s].given # None =>
          /\ sendId'[arg'[s].ctrl] = arg'[s].given
          /\ pc'[s] # "sent" => arg'[s].id = arg'[s].given
  BY <1>1, <1>3, <1>4, <1>5
<1>13. \A s \in Thread : Filling(s)' => arg'[s].pos + 1 = curPos'
  BY <1>3, <1>6
<1> QED
  BY <1>6, <1>8, <1>9, <1>10, <1>11, <1>12, <1>13 DEF AloneInv

(* The call returns: its request, if it was accepted, is recorded. *)
LEMMA AloneReturn ==
    ASSUME TrackInv, Serial, AloneInv, program' = program, NEW t \in Thread, WriteParam(t),
           pump = "idle" \/ InCallback
    PROVE  AloneInv'
<1>1. /\ Calling(t) /\ ~Calling(t)' /\ Others(t) /\ pc[t] = "wroteQry"
      /\ arg[t] \in Args /\ UNCHANGED <<pump, look, sendId, curPos, lapped>>
  BY WriteParamStep DEF TrackInv, Calling, WriteParam
<1>2. \A s \in Thread \ {t} : ~Calling(s)
  BY <1>1, OneCaller
<1>3. \A s \in Thread : ~Calling(s)' /\ ~Filling(s)'
  BY <1>1, <1>2 DEF Others, Calling, Filling
<1>4. ASSUME NEW i \in ReqId, req'[i] # None, req'[i].at = 0
      PROVE  FALSE
  <2>1. CASE req'[i] = req[i] /\ (i = arg[t].given => i # arg[t].id \/ req[i] = None)
    <3>1. arg[t].given = i
      BY <1>2, <1>4, <2>1 DEF AloneInv
    <3>2. arg[t].given # None
      BY <3>1, TrackingAssumption
    <3>3. arg[t].id = i
      BY <1>1, <3>1, <3>2 DEF AloneInv
    <3> QED
      BY <1>4, <2>1, <3>1, <3>3
  <2>2. CASE req'[i] = [ctrl |-> req[i].ctrl, qry |-> req[i].qry,
                        param |-> req[i].param, at |-> arg[t].pos + 1]
    <3>1. req'[i].at = arg[t].pos + 1 /\ arg[t].pos \in Nat
      BY <1>1, <2>2 DEF Args
    <3> QED
      BY <1>4, <3>1
  <2> QED
    BY <2>1, <2>2, WriteParamReq DEF TrackInv
<1>5. ASSUME pump' # "idle"
      PROVE  look'.asked.at > 0 /\ req'[look'.id] = look'.asked
  <2>1. /\ look.id \in ReqId /\ look.asked.at > 0 /\ req[look.id] = look.asked
        /\ req[look.id] # None
    BY <1>1, <1>5, TrackingAssumption DEF AloneInv, TrackInv, TrackTypeOK, Looks
  <2>2. arg[t].given # look.id
    <3> SUFFICES ASSUME arg[t].given = look.id PROVE FALSE
      OBVIOUS
    <3>1. req[look.id].at = 0
      BY <1>1, <2>1, TrackingAssumption DEF TrackInv, GivenInv
    <3> QED
      BY <2>1, <3>1
  <2>3. req'[look.id] = req[look.id]
    BY <2>1, <2>2, WriteParamReq DEF TrackInv
  <2> QED
    BY <1>1, <2>1, <2>3
<1> QED
  BY <1>1, <1>3, <1>4, <1>5 DEF AloneInv, InCallback

LEMMA AloneKept ==
    ASSUME TrackInv, TrackInv', Serial, AloneInv, [Next]_vars
    PROVE  AloneInv'
<1>1. program' = program
  BY SerialStays
<1>2. CASE UNCHANGED vars
  BY <1>2 DEF vars, tracking, tableVars, AloneInv, Calling, Filling, InCallback
<1> QED
  BY <1>1, <1>2, SerialStep, AlonePump, AloneSend, AloneCall, AloneReturn DEF CallStep

-------------------------------------------------------------------------------
(* While no thread calls, the ring holds the last items whole. *)
LEMMA QuietRing ==
    ASSUME TrackInv, AloneInv, \A t \in Thread : ~Calling(t)
    PROVE  /\ \A n \in Window : table[SlotOf(n - 1)] = log[n]
           /\ UnusedAreZero
<1>1. \A n \in Window : Filled(n)
  BY DEF Filled, Filling, Calling
<1> QED
  BY <1>1 DEF TrackInv, RingInv, AloneInv

(* What the search sees in the slot of position q. *)
LEMMA SearchSees ==
    ASSUME TrackInv, AloneInv, \A t \in Thread : ~Calling(t), pump = "search",
           NEW q \in Int, q = look.from - look.turn - 1
    PROVE  /\ look.from = curPos /\ look.from \in Nat /\ look.turn \in Nat
           /\ look.turn < TableSize /\ TableSize \in Nat
           /\ q >= 0 => q + 1 \in 1 .. look.from /\ table[SlotOf(q)] = log[q + 1]
           /\ q < 0 => table[SlotOf(q)].reqId # look.id
<1>1. /\ look \in Looks /\ look.from \in Nat /\ look.turn \in Nat /\ look.turn < TableSize
      /\ look.from = curPos /\ Len(log) = curPos /\ TableSize \in Nat /\ TableSize > 0
  BY TableAssumption DEF TrackInv, TrackTypeOK, SearchInv, AloneInv, Looks
<1>2. CASE q >= 0
  <2> DEFINE n == q + 1
  <2>1. n \in Window /\ n - 1 = q /\ n \in 1 .. look.from
    BY <1>1, <1>2 DEF Window
  <2>2. table[SlotOf(n - 1)] = log[n]
    BY <2>1, QuietRing
  <2> QED
    BY <1>1, <1>2, <2>1, <2>2
<1>3. CASE q < 0
  <2>1. /\ q + TableSize \in Int /\ q + TableSize >= curPos /\ q + TableSize \in Slots
        /\ (q + TableSize) - TableSize = q
    BY <1>1, <1>3 DEF Slots
  <2>2. SlotOf(q + TableSize) = q + TableSize
    <3> DEFINE a == q + TableSize
    <3>1. a \in Nat /\ a < TableSize
      BY <1>1, <2>1 DEF Slots
    <3> HIDE DEF a
    <3>2. a % TableSize = a
      BY <1>1, <3>1, SMT
    <3> QED
      BY <3>2 DEF SlotOf, a
  <2>3. SlotOf(q) = SlotOf(q + TableSize)
    <3> DEFINE a == q + TableSize
    <3>1. a \in Int /\ a - TableSize = q
      BY <2>1
    <3> HIDE DEF a
    <3>2. SlotOf(a - TableSize) = SlotOf(a)
      BY <3>1, SameSlot
    <3> QED
      BY <3>1, <3>2 DEF a
  <2>4. table[SlotOf(q)].reqId = NoId
    BY <2>1, <2>2, <2>3, QuietRing DEF UnusedAreZero
  <2>5. look.id # NoId
    BY <1>1 DEF Looks
  <2> QED
    BY <1>1, <1>3, <2>4, <2>5
<1> QED
  BY <1>1, <1>2, <1>3

(* One turn of the search: the latest item of the id, or one item fewer. *)
LEMMA LatestTurn ==
    ASSUME TrackInv, AloneInv, LatestInv, SearchTurn, \A t \in Thread : ~Calling(t)
    PROVE  LatestInv'
<1> DEFINE q == look.from - look.turn - 1
<1>1. /\ pump = "search" /\ look \in Looks
      /\ look' = [id |-> look.id, asked |-> look.asked, from |-> look.from,
                  pos |-> SlotOf(q), turn |-> look.turn + 1,
                  qry |-> look.qry, param |-> look.param]
      /\ pump' = IF table[SlotOf(q)].reqId = look.id THEN "found"
                 ELSE IF look.turn + 1 = TableSize THEN "told" ELSE "search"
      /\ UNCHANGED <<curPos, log, table>>
  BY SearchTurnStep DEF TrackInv, tableVars
<1>2. /\ look'.id = look.id /\ look'.from = look.from /\ look'.pos = SlotOf(q)
      /\ look'.turn = look.turn + 1 /\ look'.qry = look.qry /\ look.qry = None
  BY <1>1 DEF TrackInv, SearchInv
<1>3. q \in Int
  BY <1>1 DEF Looks
<1>4. /\ look.from = curPos /\ look.from \in Nat /\ look.turn \in Nat
      /\ look.turn < TableSize /\ TableSize \in Nat
      /\ q >= 0 => q + 1 \in 1 .. look.from /\ table[SlotOf(q)] = log[q + 1]
      /\ q < 0 => table[SlotOf(q)].reqId # look.id
  <2> HIDE DEF q
  <2> QED
    BY <1>1, <1>3, SearchSees DEF q
<1>5. \A m \in 1 .. look.from : m > look.from - look.turn => log[m].reqId # look.id
  BY <1>1 DEF LatestInv
<1>6. CASE table[SlotOf(q)].reqId = look.id
  <2>1. q >= 0 /\ q + 1 \in 1 .. look.from /\ log[q + 1].reqId = look.id
    BY <1>3, <1>4, <1>6
  <2>2. pump' = "found"
    BY <1>1, <1>6
  <2>0. PICK n \in 1 .. look.from : n = q + 1
    BY <2>1
  <2>3. /\ n > look.from - TableSize /\ n - 1 = q /\ n = look.from - look.turn
        /\ log[n].reqId = look.id
    BY <1>4, <2>0, <2>1
  <2>4. \A m \in n + 1 .. look.from : log[m].reqId # look.id
    BY <1>4, <1>5, <2>3
  <2>5. \E k \in 1 .. look.from : HitAt(k)'
    <3>1. HitAt(n)'
      BY <1>1, <1>2, <2>2, <2>3, <2>4 DEF HitAt
    <3> QED
      BY <3>1
  <2>6. \E k \in 1 .. look'.from : HitAt(k)'
    BY <1>2, <2>5
  <2> QED
    BY <2>2, <2>6 DEF LatestInv
<1>7. CASE table[SlotOf(q)].reqId # look.id
  <2>1. \A m \in 1 .. look.from : m > look.from - (look.turn + 1) => log[m].reqId # look.id
    <3> SUFFICES ASSUME NEW m \in 1 .. look.from, m > look.from - (look.turn + 1)
                 PROVE  log[m].reqId # look.id
      OBVIOUS
    <3>1. CASE m = q + 1
      <4>1. q >= 0
        BY <1>4, <3>1
      <4> QED
        BY <1>4, <1>7, <3>1, <4>1
    <3>2. CASE m # q + 1
      <4>1. m > look.from - look.turn
        BY <1>4, <3>2
      <4> QED
        BY <1>5, <4>1
    <3> QED
      BY <3>1, <3>2
  <2>2. CASE look.turn + 1 = TableSize
    <3>1. pump' = "told"
      BY <1>1, <1>7, <2>2
    <3>2. Missed'
      BY <1>1, <1>2, <2>1, <2>2, <3>1 DEF Missed
    <3> QED
      BY <3>1, <3>2 DEF LatestInv
  <2>3. CASE look.turn + 1 # TableSize
    <3>1. pump' = "search"
      BY <1>1, <1>7, <2>3
    <3> QED
      BY <1>1, <1>2, <2>1, <3>1 DEF LatestInv
  <2> QED
    BY <2>2, <2>3
<1> QED
  BY <1>6, <1>7

(* The client reads the item that the search has found. *)
LEMMA LatestRead ==
    ASSUME TrackInv, AloneInv, LatestInv, ReadQry \/ ReadParam, \A t \in Thread : ~Calling(t)
    PROVE  LatestInv'
<1>1. /\ look \in Looks /\ UNCHANGED <<curPos, table, log>>
      /\ look'.id = look.id /\ look'.from = look.from /\ look'.pos = look.pos
      /\ ReadQry => /\ pump = "found" /\ pump' = "readQry"
                    /\ look'.qry = table[look.pos].qry
      /\ ReadParam => /\ pump = "readQry" /\ pump' = "told" /\ look'.qry = look.qry
                      /\ look'.param = table[look.pos].param
  <2>1. CASE ReadQry
    <3>1. /\ look \in Looks /\ pump = "found" /\ pump' = "readQry" /\ UNCHANGED tableVars
          /\ look' = [id |-> look.id, asked |-> look.asked, from |-> look.from,
                      pos |-> look.pos, turn |-> look.turn,
                      qry |-> table[look.pos].qry, param |-> look.param]
      BY <2>1, ReadQryStep DEF TrackInv
    <3>2. ~ReadParam
      BY <3>1 DEF ReadParam
    <3> QED
      BY <3>1, <3>2 DEF tableVars
  <2>2. CASE ReadParam
    <3>1. /\ look \in Looks /\ pump = "readQry" /\ pump' = "told" /\ UNCHANGED tableVars
          /\ look' = [id |-> look.id, asked |-> look.asked, from |-> look.from,
                      pos |-> look.pos, turn |-> look.turn,
                      qry |-> look.qry, param |-> table[look.pos].param]
      BY <2>2, ReadParamStep DEF TrackInv
    <3>2. ~ReadQry
      BY <3>1 DEF ReadQry
    <3> QED
      BY <3>1, <3>2 DEF tableVars
  <2> QED
    BY <2>1, <2>2
<1>2. look.from \in Nat /\ look.from <= curPos /\ Len(log) = curPos /\ curPos \in Nat
      /\ TableSize \in Nat
  BY <1>1, TableAssumption DEF TrackInv, TrackTypeOK, AskedInv, Looks, ReadQry, ReadParam
<1>3. pump \in {"found", "readQry"}
  BY <1>1
<1>4. PICK n \in 1 .. look.from : HitAt(n)
  BY <1>3 DEF LatestInv, Missed
<1>5. Len(log) - n < TableSize => table[look.pos] = log[n]
  <2> SUFFICES ASSUME Len(log) - n < TableSize PROVE table[look.pos] = log[n]
    OBVIOUS
  <2>1. n \in Window
    BY <1>2 DEF Window
  <2>2. table[SlotOf(n - 1)] = log[n] /\ look.pos = SlotOf(n - 1)
    BY <1>4, <2>1, QuietRing DEF HitAt
  <2> QED
    BY <2>2
<1>6. HitAt(n)'
  BY <1>1, <1>4, <1>5 DEF HitAt
<1>7. pump' \in {"readQry", "told"}
  BY <1>1
<1> QED
  BY <1>1, <1>6, <1>7 DEF LatestInv

(* A call made while the client is told adds to the log only. *)
LEMMA LatestCall ==
    ASSUME TrackInv, LatestInv, [Next]_vars, UNCHANGED <<pump, look>>,
           pump = "idle" \/ InCallback
    PROVE  LatestInv'
<1>1. CASE pump = "idle"
  BY <1>1 DEF LatestInv
<1>2. CASE InCallback
  <2>1. /\ Len(log') >= Len(log) /\ Len(log) \in Nat /\ Len(log') \in Nat
        /\ \A n \in 1 .. Len(log) : log'[n] = log[n]
    BY LogGrows DEF TrackInv
  <2>2. /\ look.from \in Nat /\ look.from <= Len(log) /\ TableSize \in Nat
    BY <1>2, TableAssumption DEF InCallback, TrackInv, TrackTypeOK, AskedInv, Looks
  <2>3. \A n \in 1 .. look.from : log'[n] = log[n]
    BY <2>1, <2>2
  <2>4. CASE Missed
    <3>1. Missed'
      BY <2>3, <2>4 DEF Missed
    <3> QED
      BY <1>2, <3>1 DEF LatestInv, InCallback
  <2>5. ASSUME NEW n \in 1 .. look.from, HitAt(n)
        PROVE  HitAt(n)'
    <3>1. Len(log') - n < TableSize => Len(log) - n < TableSize
      BY <2>1, <2>2
    <3>2. \A m \in n + 1 .. look.from : log'[m].reqId # look.id
      BY <2>2, <2>3, <2>5 DEF HitAt
    <3> QED
      BY <2>3, <2>5, <3>1, <3>2 DEF HitAt
  <2>6. Missed \/ \E n \in 1 .. look.from : HitAt(n)
    BY <1>2 DEF LatestInv, InCallback
  <2>7. CASE \E n \in 1 .. look.from : HitAt(n)
    <3>1. \E n \in 1 .. look'.from : HitAt(n)'
      BY <2>5, <2>7
    <3> QED
      BY <1>2, <3>1 DEF LatestInv, InCallback
  <2> QED
    BY <2>4, <2>6, <2>7
<1> QED
  BY <1>1, <1>2

LEMMA LatestKept ==
    ASSUME TrackInv, Serial, AloneInv, LatestInv, [Next]_vars
    PROVE  LatestInv'
<1>1. CASE UNCHANGED vars
  <2>1. UNCHANGED <<pump, look, log>>
    BY <1>1 DEF vars, tracking, tableVars
  <2> QED
    BY <2>1 DEF LatestInv, Missed, HitAt
<1>2. ASSUME PumpStep, \A t \in Thread : ~Calling(t)
      PROVE  LatestInv'
  <2>1. ASSUME NEW id \in ReqId, OnReceiveData(id) PROVE LatestInv'
    <3>1. /\ pump' = "search" /\ look' \in Looks
          /\ look' = [id |-> id, asked |-> req[id], from |-> curPos, pos |-> SlotOf(curPos),
                      turn |-> 0, qry |-> None, param |-> None]
      BY <2>1, OnReceiveDataStep DEF TrackInv
    <3>2. look'.turn = 0 /\ look'.from \in Nat
      BY <3>1 DEF Looks
    <3> QED
      BY <3>1, <3>2 DEF LatestInv
  <2>2. ASSUME (\E id \in ReqId : AnswerWithoutLookup(id)) \/ CallbackReturns
        PROVE  pump' = "idle"
    BY <2>2, AnsweredStep DEF TrackInv
  <2> QED
    BY <1>2, <2>1, <2>2, LatestTurn, LatestRead DEF PumpStep, LatestInv
<1>3. ASSUME NEW t \in Thread, CallStep(t), UNCHANGED <<pump, look>>, pump = "idle" \/ InCallback
      PROVE  LatestInv'
  BY <1>3, LatestCall
<1> QED
  BY <1>1, <1>2, <1>3, SerialStep

(* Without refused requests the item of a request is the last with its id. *)
LEMMA NoneRefusedKept ==
    ASSUME TrackInv, Serial, AloneInv, NoneRefusedInv, [Next]_vars
    PROVE  NoneRefusedInv'
<1> SUFFICES ASSUME ~refused'
             PROVE  /\ \A t \in Thread : Calling(t)' => arg'[t].given # None
                    /\ \A id \in ReqId : req'[id] # None /\ req'[id].at > 0 =>
                          OnlyItem(req[id], id)'
  BY DEF NoneRefusedInv
<1>0. TrackTypeOK /\ FillInv
  BY DEF TrackInv
<1>1. UNCHANGED <<tableVars, pc, arg, req, refused>> => NoneRefusedInv'
  BY DEF tableVars, NoneRefusedInv, OnlyItem, Calling
<1>2. ASSUME UNCHANGED vars PROVE NoneRefusedInv'
  BY <1>1, <1>2 DEF vars, tracking
<1>3. ASSUME PumpStep, \A t \in Thread : ~Calling(t)
      PROVE  NoneRefusedInv'
  <2>1. ASSUME (\E id \in ReqId : AnswerWithoutLookup(id)) \/ CallbackReturns
        PROVE  NoneRefusedInv'
    <3>1. PICK id \in ReqId : Forget(id)
      BY <1>0, <2>1, AnsweredStep
    <3>2. /\ UNCHANGED <<curPos, log, pc, refused>>
          /\ \A i \in ReqId : req'[i] # None => req'[i] = req[i]
      BY <1>0, <2>1, <3>1, AnsweredStep DEF Forget, tableVars, TrackTypeOK
    <3> QED
      BY <1>3, <3>2 DEF NoneRefusedInv, OnlyItem, Calling
  <2> QED
    BY <1>1, <1>3, <2>1 DEF PumpStep, OnReceiveData, SearchTurn, ReadQry, ReadParam
<1>4. ASSUME NEW t \in Thread, RequestData(t) \/ RequestNextData(t),
             \A s \in Thread \ {t} : ~Calling(s)
      PROVE  NoneRefusedInv'
  <2>1. PICK c \in Ctrl, q \in Text, p \in Text, id \in ReqId \union {None} :
           Send(t, c, q, p, id)
    BY <1>0, <1>4, CallIsSend
  <2>2. /\ arg'[t] = [ctrl |-> c, qry |-> q, param |-> p, given |-> id, id |-> NoId, pos |-> 0]
        /\ Others(t)
    BY <1>0, <2>1, SendStep
  <2>3. id # None /\ refused' = refused /\ UNCHANGED <<curPos, log>>
    <3>1. UNCHANGED <<curPos, log>> /\ (refused' = refused \/ refused' = Serial)
      BY <2>1 DEF Send, tableVars
    <3>2. refused' # Serial
      BY Zenon
    <3>3. id = None => refused' = Serial
      BY <2>1, TrackingAssumption DEF Send
    <3> QED
      BY <3>1, <3>2, <3>3, Zenon
  <2>4. /\ id \in ReqId \ {NoId} /\ req[id] = None
        /\ req'[id] = [ctrl |-> c, qry |-> q, param |-> p, at |-> 0]
        /\ \A i \in ReqId \ {id} : req'[i] = req[i]
        /\ sendId'[c] = id
    BY <1>0, <2>1, <2>3, SendReq
  <2>5. \A i \in ReqId : req'[i] # None /\ req'[i].at > 0 => req'[i] = req[i]
    BY <2>4
  <2>6. \A s \in Thread : Calling(s)' => arg'[s].given # None
    BY <1>4, <2>2, <2>3 DEF Others, Calling
  <2> QED
    BY <2>3, <2>5, <2>6 DEF NoneRefusedInv, OnlyItem
<1>5. ASSUME NEW t \in Thread, GetSendRqID(t), \A s \in Thread \ {t} : ~Calling(s)
      PROVE  NoneRefusedInv'
  <2>1. /\ arg'[t] = [ctrl |-> arg[t].ctrl, qry |-> arg[t].qry, param |-> arg[t].param,
                      given |-> arg[t].given, id |-> sendId[arg[t].ctrl], pos |-> arg[t].pos]
        /\ Others(t) /\ Calling(t)
    BY <1>0, <1>5, GetSendRqIDStep DEF Calling
  <2>2. arg'[t].given = arg[t].given
    BY <2>1
  <2>3. UNCHANGED <<curPos, log, req, refused>>
    BY <1>5 DEF GetSendRqID, tableVars
  <2> QED
    BY <1>5, <2>1, <2>2, <2>3 DEF NoneRefusedInv, OnlyItem, Others, Calling
<1>6. ASSUME NEW t \in Thread, Reserve(t), \A s \in Thread \ {t} : ~Calling(s)
      PROVE  NoneRefusedInv'
  <2>1. /\ arg'[t] = [ctrl |-> arg[t].ctrl, qry |-> arg[t].qry, param |-> arg[t].param,
                      given |-> arg[t].given, id |-> arg[t].id, pos |-> curPos]
        /\ Others(t) /\ Calling(t) /\ pc[t] = "gotId"
        /\ log' = Append(log, ItemOf(t)) /\ ItemOf(t) \in Item
    BY <1>0, <1>6, ReserveStep DEF Calling
  <2>2. arg'[t].given = arg[t].given
    BY <2>1
  <2>3. UNCHANGED <<req, refused>>
    BY <1>6 DEF Reserve
  <2>4. /\ \A n \in 1 .. curPos : log'[n] = log[n]
        /\ log'[curPos + 1] = ItemOf(t) /\ curPos \in Nat /\ Len(log) = curPos
    BY <1>0, <1>6, ReserveFills DEF TrackTypeOK
  <2>5. Len(log') = curPos + 1
    BY <2>1, <2>4 DEF TrackInv, TrackTypeOK
  <2>6. arg[t].given # None /\ arg[t].id = arg[t].given /\ req[arg[t].given].at = 0
    BY <2>1, <2>3 DEF NoneRefusedInv, AloneInv, TrackInv, GivenInv
  <2>7. ASSUME NEW id \in ReqId, req[id] # None, req[id].at > 0
        PROVE  OnlyItem(req[id], id)'
    <3>1. id # arg[t].given
      BY <2>6, <2>7
    <3>2. log'[curPos + 1].reqId # id
      BY <2>4, <2>6, <3>1 DEF ItemOf
    <3>3. OnlyItem(req[id], id)
      BY <2>3, <2>7 DEF NoneRefusedInv
    <3>4. \A m \in 1 .. Len(log') : m = curPos + 1 \/ m \in 1 .. Len(log)
      BY <2>4, <2>5
    <3> QED
      BY <2>3, <2>4, <3>2, <3>3, <3>4 DEF OnlyItem
  <2> QED
    BY <1>6, <2>1, <2>2, <2>3, <2>7 DEF NoneRefusedInv, Others, Calling
<1>7. ASSUME NEW t \in Thread, WriteId(t) \/ WriteQry(t), \A s \in Thread \ {t} : ~Calling(s)
      PROVE  NoneRefusedInv'
  <2>1. arg' = arg /\ Others(t) /\ Calling(t)
    BY <1>0, <1>7, WriteStep DEF Filling, Calling
  <2>2. UNCHANGED <<curPos, log, req, refused>>
    BY <1>7 DEF WriteId, WriteQry
  <2> QED
    BY <1>7, <2>1, <2>2 DEF NoneRefusedInv, OnlyItem, Others, Calling
<1>8. ASSUME NEW t \in Thread, WriteParam(t), \A s \in Thread \ {t} : ~Calling(s)
      PROVE  NoneRefusedInv'
  <2>1. /\ pc'[t] = "idle" /\ Others(t) /\ Filling(t) /\ arg[t] \in Args
        /\ UNCHANGED <<curPos, log, refused>>
    BY <1>0, <1>8, WriteParamStep DEF WriteParam
  <2>2. \A s \in Thread : ~Calling(s)'
    BY <1>8, <2>1 DEF Others, Calling
  <2>3. arg[t].pos + 1 = curPos /\ Len(log) = curPos /\ curPos \in Nat
    BY <1>0, <2>1 DEF AloneInv, TrackTypeOK
  <2>4. ASSUME NEW id \in ReqId, req'[id] # None, req'[id].at > 0
        PROVE  OnlyItem(req[id], id)'
    <3>1. CASE req'[id] = req[id]
      BY <2>1, <2>4, <3>1 DEF NoneRefusedInv, OnlyItem
    <3>2. CASE req'[id] = [ctrl |-> req[id].ctrl, qry |-> req[id].qry,
                           param |-> req[id].param, at |-> arg[t].pos + 1]
      <4>1. req'[id].at = curPos
        BY <2>3, <3>2
      <4> QED
        BY <2>1, <2>3, <4>1 DEF OnlyItem
    <3> QED
      BY <1>0, <1>8, <3>1, <3>2, WriteParamReq
  <2> QED
    BY <2>2, <2>4 DEF NoneRefusedInv
<1>9. NoneRefusedInv'
  BY <1>2, <1>3, <1>4, <1>5, <1>6, <1>7, <1>8, SerialStep DEF CallStep
<1> QED
  BY <1>9 DEF NoneRefusedInv

LEMMA SerialInitially == Init => SerialInv
<1> SUFFICES ASSUME Init PROVE AloneInv /\ LatestInv /\ NoneRefusedInv
  BY DEF SerialInv
<1>1. \A t \in Thread : ~Calling(t) /\ ~Filling(t)
  BY DEF Init, Calling, Filling
<1>2. \A id \in ReqId : req[id] = None
  BY DEF Init
<1> QED
  BY <1>1, <1>2 DEF Init, AloneInv, LatestInv, NoneRefusedInv

LEMMA SerialKept == TrackInv /\ TrackInv' /\ SerialInv /\ [Next]_vars => SerialInv'
<1> SUFFICES ASSUME TrackInv, TrackInv', SerialInv, [Next]_vars, Serial'
             PROVE  AloneInv' /\ LatestInv' /\ NoneRefusedInv'
  BY DEF SerialInv
<1>1. Serial /\ AloneInv /\ LatestInv /\ NoneRefusedInv
  BY SerialStays DEF SerialInv
<1> QED
  BY <1>1, AloneKept, LatestKept, NoneRefusedKept

LEMMA SerialInvariance == Spec => [](TrackInv /\ SerialInv)
<1>1. TrackInv /\ SerialInv /\ [Next]_vars => (TrackInv /\ SerialInv)'
  BY TrackNext, SerialKept
<1> QED
  BY <1>1, TrackInit, SerialInitially, PTL DEF Spec

(* A set of bounded numbers has a largest. *)
LEMMA LargestBelow ==
    ASSUME NEW S, S # {}, NEW b \in Nat, \A n \in S : n \in Nat /\ n <= b
    PROVE  \E n \in S : \A m \in S : m <= n
<1> DEFINE T == {b - n : n \in S}
<1>1. T \subseteq Nat /\ T # {}
  OBVIOUS
<1>2. PICK x \in T : \A y \in T : ~(<<y, x>> \in OpToRel(<, Nat))
  BY <1>1, WFMin, NatLessThanWellFounded
<1>3. \A y \in T : ~(y < x)
  BY <1>1, <1>2 DEF OpToRel
<1>4. PICK n \in S : x = b - n
  OBVIOUS
<1>5. ASSUME NEW m \in S PROVE m <= n
  <2>1. ~(b - m < b - n)
    BY <1>3, <1>4
  <2> QED
    BY <2>1
<1> QED
  BY <1>5

(* What a one-thread client is told, by the latest item of the id. *)
LEMMA ToldLatest ==
    ASSUME TrackInv, SerialInv, Serial, pump = "told"
    PROVE  \E n \in look.asked.at .. look.from :
              /\ n > 0 /\ log[n].reqId = look.id
              /\ \A m \in n + 1 .. look.from : log[m].reqId # look.id
              /\ \/ look.qry = log[n].qry /\ look.param = log[n].param
                 \/ ToldNothing /\ look.from - n >= TableSize
                 \/ look.from - n < TableSize /\ Len(log) - n >= TableSize
<1> DEFINE at == look.asked.at
<1>1. /\ at \in Nat /\ at > 0 /\ at <= look.from /\ look.from \in Nat
      /\ Len(log) \in Nat /\ look.from <= Len(log) /\ TableSize \in Nat
      /\ log[at].reqId = look.id
  <2>1. look \in Looks /\ Recorded(look.asked, look.id) /\ look.asked.at > 0
        /\ look.asked.at <= look.from /\ look.from <= curPos
        /\ Len(log) = curPos /\ curPos \in Nat
    BY DEF SerialInv, AloneInv, TrackInv, TrackTypeOK, AskedInv
  <2>2. log[at] = [reqId |-> look.id, qry |-> look.asked.qry, param |-> look.asked.param]
    BY <2>1 DEF Recorded
  <2>3. log[at].reqId = look.id
    BY <2>2
  <2> QED
    BY <2>1, <2>3, TableAssumption DEF Looks, Request
<1> HIDE DEF at
<1>2. CASE Missed
  <2> DEFINE S == {m \in 1 .. look.from : log[m].reqId = look.id}
  <2>1. S # {} /\ \A m \in S : m \in Nat /\ m <= look.from
    BY <1>1
  <2> HIDE DEF S
  <2>2. PICK n \in S : \A m \in S : m <= n
    BY <1>1, <2>1, LargestBelow
  <2>3. n \in 1 .. look.from /\ log[n].reqId = look.id
    BY <2>2 DEF S
  <2>4. at <= n
    BY <1>1, <2>2 DEF S
  <2>5. \A m \in n + 1 .. look.from : log[m].reqId # look.id
    BY <1>1, <2>2, <2>3 DEF S
  <2>6. ToldNothing /\ look.from - n >= TableSize
    BY <1>1, <1>2, <2>3 DEF Missed, ToldNothing
  <2>7. n \in at .. look.from /\ n > 0
    BY <1>1, <2>3, <2>4
  <2> QED
    BY <2>3, <2>5, <2>6, <2>7 DEF at
<1>3. CASE \E n \in 1 .. look.from : HitAt(n)
  <2>1. PICK n \in 1 .. look.from : HitAt(n)
    BY <1>3
  <2>2. /\ n > look.from - TableSize /\ log[n].reqId = look.id
        /\ \A m \in n + 1 .. look.from : log[m].reqId # look.id
        /\ Len(log) - n < TableSize => look.qry = log[n].qry /\ look.param = log[n].param
    BY <2>1 DEF HitAt
  <2>3. n \in at .. look.from /\ n > 0
    BY <1>1, <2>1, <2>2
  <2>4. look.from - n < TableSize
    BY <1>1, <2>1, <2>2
  <2>5. \/ look.qry = log[n].qry /\ look.param = log[n].param
        \/ look.from - n < TableSize /\ Len(log) - n >= TableSize
    BY <1>1, <2>2, <2>4
  <2> QED
    BY <2>2, <2>3, <2>5 DEF at
<1> QED
  BY <1>2, <1>3 DEF SerialInv, LatestInv

(* A one-thread client is told the texts of the call that last recorded    *)
(* the id, whole, or nothing when the ring has come round                  *)
(* (CEfxWnd::OnReceiveData; EfxMfc.cpp, efxRequestData).                   *)
THEOREM SerialIsLatest == Spec => []SerialAnswerIsLatest
<1>1. TrackInv /\ SerialInv => SerialAnswerIsLatest
  BY ToldLatest DEF SerialAnswerIsLatest
<1> QED
  BY <1>1, SerialInvariance, PTL

(* And when none of its requests was refused, that call is the one whose   *)
(* answer it is, also when the control uses an id again.                   *)
THEOREM SerialIsOwn == Spec => []SerialAnswerIsOwn
<1>1. TrackInv /\ SerialInv => SerialAnswerIsOwn
  <2> SUFFICES ASSUME TrackInv, SerialInv, Serial, pump = "told", ~refused
               PROVE  \/ ToldOwn
                      \/ ToldNothing /\ look.from - look.asked.at >= TableSize
                      \/ look.from - look.asked.at < TableSize
                            /\ Len(log) - look.asked.at >= TableSize
    BY DEF SerialAnswerIsOwn
  <2>1. PICK n \in look.asked.at .. look.from :
           /\ n > 0 /\ log[n].reqId = look.id
           /\ \A m \in n + 1 .. look.from : log[m].reqId # look.id
           /\ \/ look.qry = log[n].qry /\ look.param = log[n].param
              \/ ToldNothing /\ look.from - n >= TableSize
              \/ look.from - n < TableSize /\ Len(log) - n >= TableSize
    BY ToldLatest
  <2>2. /\ look \in Looks /\ look.asked.at > 0 /\ req[look.id] = look.asked
        /\ look.from <= curPos /\ Len(log) = curPos /\ curPos \in Nat
        /\ Recorded(look.asked, look.id)
    BY DEF SerialInv, AloneInv, TrackInv, TrackTypeOK, AskedInv
  <2>3. /\ look.id \in ReqId /\ look.asked \in Request /\ look.asked # None
        /\ look.asked.at \in Nat /\ look.from \in Nat
    BY <2>2, TrackingAssumption DEF Looks, Request
  <2>4. \A m \in 1 .. Len(log) : m > look.asked.at => log[m].reqId # look.id
    BY <2>2, <2>3 DEF SerialInv, NoneRefusedInv, OnlyItem
  <2>5. n = look.asked.at
    BY <2>1, <2>2, <2>3, <2>4
  <2>6. /\ log[n] = [reqId |-> look.id, qry |-> look.asked.qry, param |-> look.asked.param]
    BY <2>2, <2>5 DEF Recorded
  <2>7. log[n].qry = look.asked.qry /\ log[n].param = look.asked.param
    BY <2>6
  <2> QED
    BY <2>1, <2>5, <2>7 DEF ToldOwn
<1> QED
  BY <1>1, SerialInvariance, PTL
===============================================================================
