------------------------------ MODULE ReqIdTable ------------------------------
(***************************************************************************)
(* The request table of EfxWnd.h: a ring of TableSize items that remembers *)
(* under which name and parameter a request was sent, so that the answer,  *)
(* which carries only a request id, can be handed to the client with them. *)
(*                                                                         *)
(* This module is the table as one thread sees it: SetItem and GetItem are *)
(* atomic.  log is a history variable, the items SetItem was called with,  *)
(* in order; it is what the ring is meant to be a window on.  ReqTracking  *)
(* splits both operations into their steps.                                *)
(***************************************************************************)
EXTENDS Integers, Sequences

CONSTANTS
    TableSize,   \* m_tableSize, 50 in the code
    ReqId,       \* the request ids of the control
    NoId,        \* the id 0, which unused slots carry
    Text,        \* names and parameters, told apart and nothing more
    Heap,        \* the texts that fresh memory may happen to hold
    MaxPos       \* bound: SetItem runs at most MaxPos times

LongMax == 2147483647   \* m_curPos is a LONG; the bound keeps it from wrapping

ASSUME TableAssumption ==
    /\ TableSize \in Nat \ {0}
    /\ NoId \in ReqId
    /\ Heap \subseteq Text
    /\ MaxPos \in Nat /\ MaxPos <= LongMax

VARIABLES
    curPos,      \* m_curPos
    table,       \* m_pTable
    log          \* history: every item SetItem was called with

tableVars == <<curPos, table, log>>

Slots  == 0 .. TableSize - 1
NoSlot == -1                              \* GetItem's nullptr
Item   == [reqId : ReqId, qry : Text, param : Text]

SlotOf(n) == n % TableSize

(* Variant of Probe: search upwards, the oldest item first. *)
ProbeOldestFirst(cur, i) == (cur + i - 1) % TableSize

(* The slot GetItem looks at in its i-th turn when m_curPos is cur: *)
(* --pos, and from below 0 back to the last slot.                   *)
Probe(cur, i) == (cur - i) % TableSize

(* GetItem: the first hit of a search that goes backwards from m_curPos. *)
Hits(id) == {i \in 1 .. TableSize : table[Probe(curPos, i)].reqId = id}
GetItem(id) ==
    IF Hits(id) = {} THEN NoSlot
    ELSE Probe(curPos, CHOOSE i \in Hits(id) : \A j \in Hits(id) : i <= j)

(* Variant of TableInit: m_curPos is the last position used. *)
TableInitLastUsed ==
    /\ curPos = -1
    /\ table \in [Slots -> [reqId : {NoId}, qry : Heap, param : Heap]]
    /\ log = << >>

(* The constructor sets only reqId: the texts are whatever the heap held. *)
TableInit ==
    /\ curPos = 0
    /\ table \in [Slots -> [reqId : {NoId}, qry : Heap, param : Heap]]
    /\ log = << >>

(* Variant of SetItem: the incremented position picks the slot. *)
SetItemIncremented(item) ==
    /\ curPos < MaxPos
    /\ curPos' = curPos + 1
    /\ table' = [table EXCEPT ![SlotOf(curPos + 1)] = item]
    /\ log' = Append(log, item)

SetItem(item) ==
    /\ curPos < MaxPos
    /\ curPos' = curPos + 1
    /\ table' = [table EXCEPT ![SlotOf(curPos)] = item]
    /\ log' = Append(log, item)

TableNext == \E item \in Item : SetItem(item)

TableSpec == TableInit /\ [][TableNext]_tableVars

-------------------------------------------------------------------------------
(* Type invariant. *)
TableTypeOK ==
    /\ curPos \in 0 .. MaxPos
    /\ table \in [Slots -> Item]
    /\ log \in Seq(Item)

(* The positions of the log that the ring still holds. *)
Window == {n \in 1 .. Len(log) : n > Len(log) - TableSize}

(* The ring holds exactly the last TableSize items that were set, each in  *)
(* the slot its position falls in: no item is lost before TableSize others *)
(* followed it (ReqIdTable::SetItem).                                      *)
RingHoldsWindow ==
    /\ Len(log) = curPos
    /\ \A n \in Window : table[SlotOf(n - 1)] = log[n]

(* GetItem answers with the item most recently set for the id, as long as  *)
(* fewer than TableSize items were set after it, also when older items     *)
(* carry the same id; and it finds nothing for an id whose items have all  *)
(* left the ring (id 0, NoId, is left out: unused slots carry it).                *)
Recent(id) == {n \in Window : log[n].reqId = id}
GetItemFindsLatest ==
    \A id \in ReqId :
        /\ \A n \in Recent(id) :
              (\A m \in Recent(id) : m <= n) =>
                 /\ GetItem(id) = SlotOf(n - 1)
                 /\ table[GetItem(id)] = log[n]
        /\ (Recent(id) = {} /\ id # NoId) => GetItem(id) = NoSlot
===============================================================================
