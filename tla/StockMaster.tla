----------------------------- MODULE StockMaster -----------------------------
(***************************************************************************)
(* The stock master (EfxMfc.cpp): LoadStockMaster, which efxInit calls,    *)
(* reads two files of fixed-width records into one array; two maps lead    *)
(* from a stock's code and from its name to the record, as pointers INTO   *)
(* the array.  efxFindStockMaster, efxFindStockMasterByName and            *)
(* efxGetStockMaster look records up.                                      *)
(*                                                                         *)
(* A record is abstracted to its code, its name and its ROE, the one field *)
(* a record can take over from the one before it.  A pointer is a block of *)
(* memory and a place in it; the array moves to a new block to grow, and a *)
(* pointer into a block that was given up dangles.  A look-up of a key     *)
(* that a map does not have inserts it with a null pointer (CMap's []): no *)
(* difference is made here between such a key and one that is missing.     *)
(***************************************************************************)
EXTENDS Integers, Sequences

CONSTANTS
    Code, Name,  \* the stocks' codes and names
    Roe,         \* the numbers that ROE fields hold
    Zero,        \* the number a load begins with
    NoNumber,    \* an ROE field that from_chars cannot read
    GrowBy,      \* by how many records the array grows, 4000 in the code
    MaxRecords,  \* bound: records in the files of one load
    MaxLoads,    \* bound: calls of LoadStockMaster
    Null         \* no pointer, no record

Pointer == [block : Nat, at : Nat]

ASSUME MasterAssumption ==
    /\ Zero \in Roe /\ NoNumber \notin Roe
    /\ GrowBy \in Nat \ {0} /\ MaxRecords \in Nat /\ MaxLoads \in Nat
    /\ Null \notin Pointer

VARIABLES
    pc,          \* where the load is: "idle", "kospi", "kosdaq"
    array,       \* m_arStockMaster: its records
    block,       \* the memory they are in; a new number each time
    room,        \* the records the block has room for
    size,        \* m_nStockMasterSize
    byCode,      \* m_mapStockMstCode
    byName,      \* m_mapStockMstName
    fROE,        \* the number last read
    loads,       \* calls of LoadStockMaster
    complete,    \* history: the last call that opened a file loaded both
    fields       \* history: the ROE fields of the records of this load

vars == <<pc, array, block, room, size, byCode, byName, fROE, loads, complete, fields>>

Field   == Roe \union {NoNumber}
Raw     == [code : Code, name : Name, roe : Field]       \* in a file
Record  == [seqNo : Nat, market : {"kospi", "kosdaq"}, code : Code, name : Name, roe : Roe]

Init ==
    /\ pc = "idle"
    /\ array = << >> /\ block = 0 /\ room = 0 /\ size = 0
    /\ byCode = [c \in Code |-> Null] /\ byName = [n \in Name |-> Null]
    /\ fROE = Zero
    /\ loads = 0 /\ complete = FALSE /\ fields = << >>

-------------------------------------------------------------------------------
(* SetSize(0, 4000) gives up the block; the maps are not cleared. *)
OpenKospi ==
    /\ pc = "idle" /\ loads < MaxLoads
    /\ pc' = "kospi"
    /\ array' = << >> /\ room' = 0 /\ block' = block + 1
    /\ fROE' = Zero
    /\ loads' = loads + 1 /\ complete' = FALSE /\ fields' = << >>
    /\ UNCHANGED <<size, byCode, byName>>

OpenKospiFails ==
    /\ pc = "idle" /\ loads < MaxLoads
    /\ loads' = loads + 1
    /\ UNCHANGED <<pc, array, block, room, size, byCode, byName, fROE, complete, fields>>

(* CArray::Add: a full block is given up for one that is larger. *)
Add(item) ==
    /\ array' = Append(array, item)
    /\ IF Len(array) < room THEN UNCHANGED <<block, room>>
       ELSE block' = block + 1 /\ room' = room + GrowBy

(* Variant of Parse: no number counts as 0. *)
ParseZero(raw) ==
    [seqNo |-> Len(array), market |-> pc, code |-> raw.code, name |-> raw.name,
     roe |-> IF raw.roe = NoNumber THEN Zero ELSE raw.roe]

(* from_chars leaves fROE alone when it finds no number. *)
Parse(raw) ==
    [seqNo |-> Len(array), market |-> pc, code |-> raw.code, name |-> raw.name,
     roe |-> IF raw.roe = NoNumber THEN fROE ELSE raw.roe]

(* Variants of Index: points one record too far; keeps what was there. *)
IndexNext(map, key, at) == [map EXCEPT ![key] = [block |-> block', at |-> at + 1]]
IndexFirst(map, key, at) ==
    IF map[key] = Null THEN [map EXCEPT ![key] = [block |-> block', at |-> at]] ELSE map

(* SetAt, after Add: the address is one in the array as it is by then. *)
Index(map, key, at) == [map EXCEPT ![key] = [block |-> block', at |-> at]]

(* One turn of either loop. *)
ReadRecord(raw) ==
    LET item == Parse(raw)
    IN  /\ pc \in {"kospi", "kosdaq"} /\ Len(array) < MaxRecords
        /\ Add(item)
        /\ byCode' = Index(byCode, item.code, item.seqNo)
        /\ byName' = Index(byName, item.name, item.seqNo)
        /\ fROE' = item.roe
        /\ fields' = Append(fields, raw.roe)
        /\ UNCHANGED <<pc, size, loads, complete>>

OpenKosdaq ==
    /\ pc = "kospi"
    /\ pc' = "kosdaq"
    /\ UNCHANGED <<array, block, room, size, byCode, byName, fROE, loads, complete, fields>>

(* The records of the first file stay; the size is not set. *)
OpenKosdaqFails ==
    /\ pc = "kospi"
    /\ pc' = "idle"
    /\ UNCHANGED <<array, block, room, size, byCode, byName, fROE, loads, complete, fields>>

(* Variant of EndOfKosdaq: counts the records of the first load only. *)
EndOfKosdaqOnce ==
    /\ pc = "kosdaq"
    /\ pc' = "idle"
    /\ size' = IF size = 0 THEN Len(array) ELSE size
    /\ complete' = TRUE
    /\ UNCHANGED <<array, block, room, byCode, byName, fROE, loads, fields>>

EndOfKosdaq ==
    /\ pc = "kosdaq"
    /\ pc' = "idle"
    /\ size' = Len(array)
    /\ complete' = TRUE
    /\ UNCHANGED <<array, block, room, byCode, byName, fROE, loads, fields>>

Next ==
    \/ OpenKospi \/ OpenKospiFails \/ OpenKosdaq \/ OpenKosdaqFails \/ EndOfKosdaq
    \/ \E raw \in Raw : ReadRecord(raw)

Spec == Init /\ [][Next]_vars

-------------------------------------------------------------------------------
(* Where in this load's records a code, or a name, occurs. *)
OfCode(c) == {i \in DOMAIN array : array[i].code = c}
OfName(n) == {i \in DOMAIN array : array[i].name = n}

(* The pointer p is to the record last added of those at the places I. *)
PointsToLast(p, I) ==
    p # Null /\ p.at + 1 \in I /\ \A i \in I : i <= p.at + 1

Lives(p) == p.block = block

(* The records that were added before the array last moved. *)
Moved == {i \in DOMAIN array : i <= GrowBy * ((Len(array) - 1) \div GrowBy)}

(* Which of the first i records have a number in their ROE field. *)
Numbered(i) == {j \in 1 .. i : fields[j] # NoNumber}

(* GetStockMasterAt: the bound is the size that the last complete load set. *)
GetStockMasterAt(seqNo) ==
    IF seqNo < 0 \/ seqNo >= size THEN Null ELSE [block |-> block, at |-> seqNo]

(* Type invariant. *)
TypeOK ==
    /\ pc \in {"idle", "kospi", "kosdaq"}
    /\ array \in Seq(Record) /\ fields \in Seq(Field)
    /\ block \in Nat /\ room \in Nat /\ size \in Nat
    /\ byCode \in [Code -> Pointer \union {Null}]
    /\ byName \in [Name -> Pointer \union {Null}]
    /\ fROE \in Roe
    /\ loads \in 0 .. MaxLoads /\ complete \in BOOLEAN

(* As long as the files hold no more records than the array reserves room  *)
(* for, a look-up gives a usable pointer to the latest record of the code, *)
(* or the name, whatever earlier loads left in the maps                    *)
(* (EfxMfc.cpp:186, 267-269, 350-352).                                     *)
LookupFindsLatest ==
    Len(array) <= GrowBy =>
        /\ \A c \in Code : OfCode(c) # {} =>
              PointsToLast(byCode[c], OfCode(c)) /\ Lives(byCode[c])
        /\ \A n \in Name : OfName(n) # {} =>
              PointsToLast(byName[n], OfName(n)) /\ Lives(byName[n])

(* With more records the array moves, and the pointers to exactly the      *)
(* records added before that dangle; apart from these, only those of codes *)
(* and names that this load did not find, but an earlier one had, do.      *)
DanglesOnlyForCause ==
    /\ \A c \in Code : byCode[c] # Null =>
          (~Lives(byCode[c]) <=> OfCode(c) = {} \/ byCode[c].at + 1 \in Moved)
    /\ \A n \in Name : byName[n] # Null =>
          (~Lives(byName[n]) <=> OfName(n) = {} \/ byName[n].at + 1 \in Moved)

(* A record whose ROE field holds no number shows the number of the        *)
(* nearest record before it that has one, of either market, or 0; all      *)
(* others show their own (EfxMfc.cpp:258, 341).                            *)
RoeIsNearest ==
    \A i \in DOMAIN array :
        IF Numbered(i) = {} THEN array[i].roe = Zero
        ELSE \E j \in Numbered(i) :
                 (\A k \in Numbered(i) : k <= j) /\ array[i].roe = fields[j]

(* After a complete load the numbers are those of the array: every number  *)
(* below the size gives the record with that number, the one its code's    *)
(* pointer leads to unless a later record has the same code; after a load  *)
(* that failed half-way the size may be that of the load before.           *)
NumberingAgrees ==
    complete =>
        /\ \A i \in DOMAIN array :
              /\ array[i].seqNo = i - 1
              /\ GetStockMasterAt(array[i].seqNo) = [block |-> block, at |-> i - 1]
              /\ \/ Lives(byCode[array[i].code]) => byCode[array[i].code] = GetStockMasterAt(i - 1)
                 \/ \E j \in DOMAIN array : j > i /\ array[j].code = array[i].code
        /\ GetStockMasterAt(Len(array)) = Null
===============================================================================
