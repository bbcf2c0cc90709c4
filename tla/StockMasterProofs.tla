-------------------------- MODULE StockMasterProofs --------------------------
(***************************************************************************)
(* Proofs about StockMaster, for every reserve of the array, any codes,    *)
(* names and numbers: within the reserve every look-up is right, beyond it *)
(* exactly the pointers to the records that moved dangle, the numbers of a *)
(* complete load are those of the array, and the ROE of a record is its    *)
(* own or that of the nearest record before it.                            *)
(***************************************************************************)
EXTENDS StockMaster, TLAPS

(* How many of n records were added before the array last moved. *)
LastMoved(n) == GrowBy * ((n - 1) \div GrowBy)

(* A map's pointer p for a key that this load found at the places I: it is *)
(* older than the block b of the array if there are none, else it leads to *)
(* the last of them, and is as old only if that one has not moved.         *)
PointerOK(p, I, b, moved) ==
    /\ p # Null => p.block <= b
    /\ I = {} => p = Null \/ p.block < b
    /\ I # {} => PointsToLast(p, I) /\ (p.block = b <=> p.at + 1 > moved)

RoomInv == room = LastMoved(Len(array)) + GrowBy

FieldInv ==
    /\ Len(fields) = Len(array)
    /\ fROE = IF array = << >> THEN Zero ELSE array[Len(array)].roe

MapsInv ==
    /\ \A c \in Code : PointerOK(byCode[c], OfCode(c), block, LastMoved(Len(array)))
    /\ \A n \in Name : PointerOK(byName[n], OfName(n), block, LastMoved(Len(array)))

NumberInv ==
    /\ \A i \in DOMAIN array : array[i].seqNo = i - 1
    /\ complete => pc = "idle" /\ size = Len(array)

MasterInv == TypeOK /\ RoomInv /\ FieldInv /\ MapsInv /\ NumberInv /\ RoeIsNearest

(* The array moves when GrowBy more records have filled its block. *)
LEMMA DivBounds ==
    ASSUME NEW x \in Int
    PROVE  /\ x \div GrowBy \in Int
           /\ GrowBy * (x \div GrowBy) <= x /\ x < GrowBy * (x \div GrowBy) + GrowBy
BY MasterAssumption

LEMMA TimesGrows ==
    ASSUME NEW j \in Int, NEW k \in Int, j < k
    PROVE  GrowBy * j + GrowBy <= GrowBy * k
BY MasterAssumption

LEMMA DivIs ==
    ASSUME NEW x \in Int, NEW k \in Int, GrowBy * k <= x, x < GrowBy * k + GrowBy
    PROVE  x \div GrowBy = k
BY MasterAssumption, DivBounds, TimesGrows

LEMMA LastMovedBounds ==
    ASSUME NEW n \in Nat
    PROVE  LastMoved(n) \in Int /\ LastMoved(n) <= n - 1 /\ n <= LastMoved(n) + GrowBy
<1>1. n - 1 \in Int
  OBVIOUS
<1> QED
  BY <1>1, DivBounds, MasterAssumption DEF LastMoved

LEMMA LastMovedStep ==
    ASSUME NEW n \in Nat
    PROVE  LastMoved(n + 1) = IF n < LastMoved(n) + GrowBy THEN LastMoved(n) ELSE n
<1> DEFINE k == (n - 1) \div GrowBy
<1>1. /\ k \in Int /\ LastMoved(n) = GrowBy * k
      /\ GrowBy * k <= n - 1 /\ n <= GrowBy * k + GrowBy
  BY LastMovedBounds, DivBounds, MasterAssumption DEF LastMoved
<1> HIDE DEF k
<1>2. LastMoved(n + 1) = GrowBy * (n \div GrowBy)
  BY DEF LastMoved
<1>3. CASE n < GrowBy * k + GrowBy
  <2>1. GrowBy * k <= n
    BY <1>1, MasterAssumption
  <2>2. n \div GrowBy = k
    BY <1>1, <1>3, <2>1, DivIs
  <2> QED
    BY <1>1, <1>2, <1>3, <2>2
<1>4. CASE n = GrowBy * k + GrowBy
  <2>1. GrowBy * (k + 1) = n
    BY <1>1, <1>4, MasterAssumption
  <2>2. n \div GrowBy = k + 1
    BY <1>1, <2>1, DivIs, MasterAssumption
  <2> QED
    BY <1>1, <1>2, <1>4, <2>1, <2>2
<1> QED
  BY <1>1, <1>3, <1>4, MasterAssumption

(* What adding the record number N + 1 does to the pointer of its own key, *)
(* and to those of all others.                                             *)
LEMMA PointerOfItem ==
    ASSUME NEW N \in Nat, NEW b \in Nat, NEW moved \in Int, moved <= N,
           NEW I \in SUBSET (1 .. N), NEW p, p = [block |-> b, at |-> N]
    PROVE  PointerOK(p, I \union {N + 1}, b, moved)
<1>1. p.block = b /\ p.at = N /\ p \in Pointer
  BY DEF Pointer
<1> QED
  BY <1>1, MasterAssumption DEF PointerOK, PointsToLast

LEMMA PointerOfOther ==
    ASSUME NEW N \in Nat, NEW b \in Nat, NEW moved \in Int,
           NEW I \in SUBSET (1 .. N), NEW p \in Pointer \union {Null},
           PointerOK(p, I, b, moved),
           NEW b2 \in Nat, NEW moved2 \in Int,
           (b2 = b /\ moved2 = moved) \/ (b2 = b + 1 /\ moved2 = N)
    PROVE  PointerOK(p, I, b2, moved2)
<1>1. p # Null => p.block \in Nat /\ p.at \in Nat
  BY DEF Pointer
<1> QED
  BY <1>1 DEF PointerOK, PointsToLast

LEMMA NoneMoved == LastMoved(0) + GrowBy = 0
<1>1. GrowBy * (-1) = -GrowBy /\ GrowBy \in Int /\ GrowBy >= 1
  BY MasterAssumption
<1>2. (0 - 1) \div GrowBy = -1
  <2>1. GrowBy * (-1) <= 0 - 1 /\ 0 - 1 < GrowBy * (-1) + GrowBy
    BY <1>1
  <2>2. 0 - 1 \in Int /\ -1 \in Int
    OBVIOUS
  <2> QED
    BY <2>1, <2>2, DivIs
<1> QED
  BY <1>1, <1>2 DEF LastMoved

LEMMA InitInv == Init => MasterInv
<1> SUFFICES ASSUME Init PROVE MasterInv
  OBVIOUS
<1> USE MasterAssumption
<1>1. TypeOK
  <2>1. array \in Seq(Record) /\ fields \in Seq(Field)
    BY DEF Init
  <2>2. /\ byCode \in [Code -> Pointer \union {Null}]
        /\ byName \in [Name -> Pointer \union {Null}]
    BY DEF Init
  <2>3. /\ pc \in {"idle", "kospi", "kosdaq"} /\ fROE \in Roe
        /\ block \in Nat /\ room \in Nat /\ size \in Nat
        /\ loads \in 0 .. MaxLoads
    BY MasterAssumption DEF Init
  <2>4. complete \in BOOLEAN
    BY DEF Init
  <2> QED
    BY <2>1, <2>2, <2>3, <2>4 DEF TypeOK
<1>2. RoomInv
  BY NoneMoved DEF Init, RoomInv
<1>3. MapsInv
  BY DEF Init, MapsInv, PointerOK, OfCode, OfName
<1>4. FieldInv /\ NumberInv /\ RoeIsNearest
  BY DEF Init, FieldInv, NumberInv, RoeIsNearest
<1> QED
  BY <1>1, <1>2, <1>3, <1>4 DEF MasterInv

(* The record a turn of the loop makes is one, numbered as it will be. *)
LEMMA ParseType ==
    ASSUME TypeOK, NEW raw \in Raw, pc \in {"kospi", "kosdaq"}
    PROVE  /\ Parse(raw) \in Record
           /\ Parse(raw).seqNo = Len(array)
           /\ Parse(raw).code = raw.code /\ Parse(raw).name = raw.name
           /\ raw.code \in Code /\ raw.name \in Name
           /\ Parse(raw).roe = IF raw.roe = NoNumber THEN fROE ELSE raw.roe
<1>1. /\ Len(array) \in Nat /\ fROE \in Roe
      /\ raw.code \in Code /\ raw.name \in Name /\ raw.roe \in Roe \union {NoNumber}
  BY DEF TypeOK, Raw, Field
<1> QED
  BY <1>1 DEF Parse, Record

LEMMA ReadRecordInv ==
    ASSUME MasterInv, NEW raw \in Raw, ReadRecord(raw)
    PROVE  MasterInv'
<1> DEFINE item == Parse(raw)
           N == Len(array)
<1> USE MasterAssumption
<1>0. TypeOK /\ RoomInv /\ FieldInv /\ MapsInv /\ NumberInv /\ RoeIsNearest
  BY DEF MasterInv
<1>1. /\ pc \in {"kospi", "kosdaq"}
      /\ Add(item)
      /\ byCode' = Index(byCode, item.code, item.seqNo)
      /\ byName' = Index(byName, item.name, item.seqNo)
      /\ fROE' = item.roe
      /\ fields' = Append(fields, raw.roe)
      /\ UNCHANGED <<pc, size, loads, complete>>
  BY DEF ReadRecord
<1>2. /\ item \in Record /\ item.seqNo = N
      /\ item.code \in Code /\ item.name \in Name /\ item.roe \in Roe
      /\ item.roe = (IF raw.roe = NoNumber THEN fROE ELSE raw.roe)
      /\ raw.roe \in Field
  <2>1. raw.roe \in Field
    BY DEF Raw
  <2>2. item \in Record => item.roe \in Roe
    BY DEF Record
  <2> QED
    BY <1>0, <1>1, <2>1, <2>2, ParseType
<1> HIDE DEF item
<1>3. /\ array \in Seq(Record) /\ fields \in Seq(Field) /\ N \in Nat
      /\ array' = Append(array, item)
      /\ Len(array') = N + 1 /\ array'[N + 1] = item /\ array' # << >>
      /\ \A i \in 1 .. N : array'[i] = array[i]
      /\ DOMAIN array = 1 .. N /\ DOMAIN array' = 1 .. N + 1
      /\ Len(fields) = N /\ Len(fields') = N + 1 /\ fields'[N + 1] = raw.roe
      /\ \A i \in 1 .. N : fields'[i] = fields[i]
  BY <1>0, <1>1, <1>2 DEF TypeOK, FieldInv, Add
<1>4. /\ block \in Nat /\ room \in Nat /\ block' \in Nat /\ room' \in Nat
      /\ N < room => block' = block /\ room' = room
      /\ N >= room => block' = block + 1 /\ room' = room + GrowBy
  BY <1>0, <1>1, <1>3 DEF TypeOK, Add
<1>5. /\ byCode' = [byCode EXCEPT ![item.code] = [block |-> block', at |-> N]]
      /\ byName' = [byName EXCEPT ![item.name] = [block |-> block', at |-> N]]
      /\ [block |-> block', at |-> N] \in Pointer
      /\ byCode \in [Code -> Pointer \union {Null}]
      /\ byName \in [Name -> Pointer \union {Null}]
  BY <1>0, <1>1, <1>2, <1>3, <1>4 DEF Index, Pointer, TypeOK
<1>6. TypeOK'
  <2>1. array' \in Seq(Record) /\ fields' \in Seq(Field)
    BY <1>1, <1>2, <1>3
  <2>2. /\ byCode' \in [Code -> Pointer \union {Null}]
        /\ byName' \in [Name -> Pointer \union {Null}]
    BY <1>5
  <2>3. fROE' \in Roe
    BY <1>1, <1>2
  <2> QED
    BY <2>1, <2>2, <2>3, <1>0, <1>1, <1>4 DEF TypeOK
<1> DEFINE moved  == LastMoved(N)
           moved2 == LastMoved(N + 1)
<1>7. /\ N \in Nat /\ moved \in Int /\ moved2 \in Int /\ moved2 <= N /\ room = moved + GrowBy
      /\ (N < room /\ moved2 = moved) \/ (N >= room /\ moved2 = N /\ N = room)
  <2>1. N \in Nat /\ N + 1 \in Nat /\ room = LastMoved(N) + GrowBy
    BY <1>0, <1>3 DEF RoomInv
  <2>2. /\ LastMoved(N) \in Int /\ N <= LastMoved(N) + GrowBy
        /\ LastMoved(N + 1) \in Int /\ LastMoved(N + 1) <= N
    BY <2>1, LastMovedBounds
  <2>3. LastMoved(N + 1) = IF N < LastMoved(N) + GrowBy THEN LastMoved(N) ELSE N
    BY <2>1, LastMovedStep, Zenon
  <2> QED
    BY <2>1, <2>2, <2>3, MasterAssumption
<1> HIDE DEF moved, moved2
<1>8. RoomInv' /\ FieldInv'
  <2>1. room' = moved2 + GrowBy /\ Len(array') = N + 1
    <3>1. room' = moved2 + GrowBy
      BY <1>4, <1>7
    <3> QED
      BY <3>1, <1>3, Zenon
  <2>2. moved2 = LastMoved(Len(array'))
    BY <2>1 DEF moved2
  <2>3. room' = LastMoved(Len(array')) + GrowBy
    BY <2>1, <2>2
  <2>4. FieldInv'
    BY <1>1, <1>3 DEF FieldInv
  <2> QED
    BY <2>3, <2>4 DEF RoomInv
<1>9. /\ N \in Nat /\ block \in Nat /\ block' \in Nat
      /\ moved \in Int /\ moved2 \in Int /\ moved2 <= N
      /\ (block' = block /\ moved2 = moved) \/ (block' = block + 1 /\ moved2 = N)
  BY <1>4, <1>7
<1>10. MapsInv'
  <2>1. /\ \A c \in Code : OfCode(c) \in SUBSET (1 .. N)
        /\ \A c \in Code : OfCode(c)' = OfCode(c) \union (IF c = item.code THEN {N + 1} ELSE {})
        /\ \A n \in Name : OfName(n) \in SUBSET (1 .. N)
        /\ \A n \in Name : OfName(n)' = OfName(n) \union (IF n = item.name THEN {N + 1} ELSE {})
    BY <1>3 DEF OfCode, OfName
  <2>2. /\ \A c \in Code : PointerOK(byCode[c], OfCode(c), block, moved)
        /\ \A n \in Name : PointerOK(byName[n], OfName(n), block, moved)
    BY <1>0 DEF MapsInv, moved
  <2>3. ASSUME NEW c \in Code PROVE PointerOK(byCode'[c], OfCode(c)', block', moved2)
    <3>1. CASE c = item.code
      <4>1. byCode'[c] = [block |-> block', at |-> N]
        BY <3>1, <1>5
      <4>2. OfCode(c)' = OfCode(c) \union {N + 1} /\ OfCode(c) \in SUBSET (1 .. N)
        BY <3>1, <2>1
      <4>3. PointerOK(byCode'[c], OfCode(c) \union {N + 1}, block', moved2)
        BY <4>1, <4>2, <1>9, PointerOfItem
      <4> QED
        BY <4>2, <4>3
    <3>2. CASE c # item.code
      <4>1. byCode'[c] = byCode[c] /\ byCode[c] \in Pointer \union {Null}
        BY <3>2, <1>5
      <4>2. OfCode(c)' = OfCode(c) /\ OfCode(c) \in SUBSET (1 .. N)
        BY <3>2, <2>1
      <4>3. PointerOK(byCode[c], OfCode(c), block, moved)
        BY <2>2
      <4>4. PointerOK(byCode[c], OfCode(c), block', moved2)
        BY <4>1, <4>2, <4>3, <1>9, PointerOfOther
      <4> QED
        BY <4>1, <4>2, <4>4
    <3> QED
      BY <3>1, <3>2
  <2>4. ASSUME NEW n \in Name PROVE PointerOK(byName'[n], OfName(n)', block', moved2)
    <3>1. CASE n = item.name
      <4>1. byName'[n] = [block |-> block', at |-> N]
        BY <3>1, <1>5
      <4>2. OfName(n)' = OfName(n) \union {N + 1} /\ OfName(n) \in SUBSET (1 .. N)
        BY <3>1, <2>1
      <4>3. PointerOK(byName'[n], OfName(n) \union {N + 1}, block', moved2)
        BY <4>1, <4>2, <1>9, PointerOfItem
      <4> QED
        BY <4>2, <4>3
    <3>2. CASE n # item.name
      <4>1. byName'[n] = byName[n] /\ byName[n] \in Pointer \union {Null}
        BY <3>2, <1>5
      <4>2. OfName(n)' = OfName(n) /\ OfName(n) \in SUBSET (1 .. N)
        BY <3>2, <2>1
      <4>3. PointerOK(byName[n], OfName(n), block, moved)
        BY <2>2
      <4>4. PointerOK(byName[n], OfName(n), block', moved2)
        BY <4>1, <4>2, <4>3, <1>9, PointerOfOther
      <4> QED
        BY <4>1, <4>2, <4>4
    <3> QED
      BY <3>1, <3>2
  <2>5. moved2 = LastMoved(Len(array'))
    BY <1>3 DEF moved2
  <2> QED
    BY <2>3, <2>4, <2>5 DEF MapsInv
<1>12. NumberInv'
  BY <1>0, <1>1, <1>2, <1>3 DEF NumberInv
<1>11. RoeIsNearest'
  <2> SUFFICES ASSUME NEW i \in 1 .. N + 1
               PROVE  IF Numbered(i)' = {} THEN array'[i].roe = Zero
                      ELSE \E j \in Numbered(i)' :
                               (\A k \in Numbered(i)' : k <= j) /\ array'[i].roe = fields'[j]
    BY <1>3 DEF RoeIsNearest, Numbered
  <2>1. ASSUME NEW n \in 0 .. N
        PROVE  /\ Numbered(n)' = Numbered(n)
               /\ \A j \in Numbered(n) : fields'[j] = fields[j]
    <3>1. \A j \in 1 .. n : fields'[j] = fields[j]
      BY <2>1, <1>3
    <3> QED
      BY <3>1 DEF Numbered
  <2>2. ASSUME NEW n \in 1 .. N
        PROVE  IF Numbered(n) = {} THEN array[n].roe = Zero
               ELSE \E j \in Numbered(n) :
                        (\A k \in Numbered(n) : k <= j) /\ array[n].roe = fields[j]
    BY <2>2, <1>0, <1>3 DEF RoeIsNearest
  <2>3. CASE i <= N
    <3>1. i \in 1 .. N /\ array'[i] = array[i]
      BY <2>3, <1>3
    <3> QED
      BY <3>1, <2>1, <2>2
  <2>4. CASE i = N + 1 /\ raw.roe # NoNumber
    <3>1. N + 1 \in Numbered(i)' /\ \A k \in Numbered(i)' : k <= N + 1
      BY <2>4, <1>3 DEF Numbered
    <3>2. array'[i].roe = fields'[N + 1]
      BY <2>4, <1>2, <1>3
    <3> QED
      BY <3>1, <3>2
  <2>5. CASE i = N + 1 /\ raw.roe = NoNumber
    <3>1. Numbered(i)' = Numbered(N) /\ \A j \in Numbered(N) : fields'[j] = fields[j]
      BY <2>5, <1>3 DEF Numbered
    <3>2. array'[i].roe = fROE
      BY <2>5, <1>2, <1>3
    <3>3. CASE N = 0
      <4>1. Numbered(N) = {}
        BY <3>3 DEF Numbered
      <4>2. fROE = Zero
        BY <3>3, <1>0, <1>3 DEF FieldInv
      <4> QED
        BY <4>1, <4>2, <3>1, <3>2
    <3>4. CASE N > 0
      <4>1. fROE = array[N].roe
        BY <3>4, <1>0, <1>3 DEF FieldInv
      <4>2. N \in 1 .. N
        BY <3>4, <1>3
      <4>3. CASE Numbered(N) = {}
        BY <4>1, <4>2, <4>3, <2>2, <3>1, <3>2
      <4>4. CASE Numbered(N) # {}
        <5>1. PICK j \in Numbered(N) : (\A k \in Numbered(N) : k <= j) /\ array[N].roe = fields[j]
          BY <4>2, <4>4, <2>2
        <5> QED
          BY <5>1, <4>1, <3>1, <3>2
      <4> QED
        BY <4>3, <4>4
    <3> QED
      BY <3>3, <3>4, <1>3
  <2> QED
    BY <2>3, <2>4, <2>5, <1>3
<1> QED
  BY <1>6, <1>8, <1>10, <1>11, <1>12 DEF MasterInv

LEMMA OpenKospiInv ==
    ASSUME MasterInv, OpenKospi
    PROVE  MasterInv'
<1> USE MasterAssumption
<1>1. TypeOK
  BY DEF MasterInv
<1>2. TypeOK'
  <2>1. array' \in Seq(Record) /\ fields' \in Seq(Field)
    BY DEF OpenKospi
  <2>2. /\ byCode' \in [Code -> Pointer \union {Null}]
        /\ byName' \in [Name -> Pointer \union {Null}]
    BY <1>1 DEF OpenKospi, TypeOK
  <2>3. /\ pc' \in {"idle", "kospi", "kosdaq"} /\ fROE' \in Roe
        /\ block' \in Nat /\ room' \in Nat /\ size' \in Nat
    BY <1>1 DEF OpenKospi, TypeOK
  <2>4. loads' \in 0 .. MaxLoads
    BY <1>1 DEF OpenKospi, TypeOK
  <2>5. complete' \in BOOLEAN
    BY DEF OpenKospi
  <2> QED
    BY <2>1, <2>2, <2>3, <2>4, <2>5 DEF TypeOK
<1>3. RoomInv'
  BY NoneMoved DEF OpenKospi, RoomInv
<1>4. MapsInv'
  <2>1. block' = block + 1 /\ block \in Nat /\ byCode' = byCode /\ byName' = byName
    BY <1>1 DEF OpenKospi, TypeOK
  <2>2. (\A c \in Code : OfCode(c)' = {}) /\ (\A n \in Name : OfName(n)' = {})
    BY DEF OpenKospi, OfCode, OfName
  <2>3. ASSUME NEW p \in Pointer \union {Null}, NEW I, PointerOK(p, I, block, LastMoved(Len(array)))
        PROVE  PointerOK(p, {}, block', LastMoved(Len(array')))
    BY <2>1, <2>3 DEF PointerOK, Pointer
  <2>4. MapsInv
    BY DEF MasterInv
  <2>5. /\ \A c \in Code : PointerOK(byCode[c], OfCode(c), block, LastMoved(Len(array)))
        /\ \A n \in Name : PointerOK(byName[n], OfName(n), block, LastMoved(Len(array)))
    BY <2>4 DEF MapsInv
  <2>6. /\ \A c \in Code : PointerOK(byCode'[c], OfCode(c)', block', LastMoved(Len(array')))
        /\ \A n \in Name : PointerOK(byName'[n], OfName(n)', block', LastMoved(Len(array')))
    BY <1>1, <2>1, <2>2, <2>3, <2>5 DEF TypeOK
  <2> QED
    BY <2>6 DEF MapsInv
<1>5. FieldInv' /\ NumberInv' /\ RoeIsNearest'
  BY DEF OpenKospi, FieldInv, NumberInv, RoeIsNearest
<1> QED
  BY <1>2, <1>3, <1>4, <1>5 DEF MasterInv

(* All other steps leave the array, the maps and the numbers alone. *)
LEMMA OtherInv ==
    ASSUME MasterInv,
           \/ OpenKospiFails \/ OpenKosdaq \/ OpenKosdaqFails \/ EndOfKosdaq
           \/ UNCHANGED vars
    PROVE  MasterInv'
<1> USE MasterAssumption
<1>1. /\ array' = array /\ block' = block /\ room' = room
      /\ byCode' = byCode /\ byName' = byName
      /\ fROE' = fROE /\ fields' = fields
  BY DEF OpenKospiFails, OpenKosdaq, OpenKosdaqFails, EndOfKosdaq, vars
<1>2. TypeOK /\ RoomInv /\ FieldInv /\ MapsInv /\ NumberInv /\ RoeIsNearest
  BY DEF MasterInv
<1>3. TypeOK'
  <2>1. pc' \in {"idle", "kospi", "kosdaq"} /\ loads' \in 0 .. MaxLoads
    BY <1>2 DEF TypeOK, OpenKospiFails, OpenKosdaq, OpenKosdaqFails, EndOfKosdaq, vars
  <2>2. size' = size \/ size' = Len(array)
    BY DEF OpenKospiFails, OpenKosdaq, OpenKosdaqFails, EndOfKosdaq, vars
  <2>3. size' \in Nat
    BY <2>2, <1>2 DEF TypeOK
  <2>4. complete' \in BOOLEAN
    <3>1. complete \in BOOLEAN
      BY <1>2 DEF TypeOK
    <3>2. complete' = complete \/ complete' = TRUE
      BY DEF OpenKospiFails, OpenKosdaq, OpenKosdaqFails, EndOfKosdaq, vars
    <3> QED
      BY <3>1, <3>2
  <2> QED
    BY <2>1, <2>3, <2>4, <1>1, <1>2 DEF TypeOK
<1>4. RoomInv' /\ FieldInv'
  BY <1>1, <1>2 DEF RoomInv, FieldInv
<1>5. (\A c \in Code : OfCode(c)' = OfCode(c)) /\ (\A n \in Name : OfName(n)' = OfName(n))
  BY <1>1 DEF OfCode, OfName
<1>6. MapsInv'
  BY <1>1, <1>2, <1>5 DEF MapsInv
<1>8. NumberInv'
  <2>1. complete' => complete \/ EndOfKosdaq
    BY DEF OpenKospiFails, OpenKosdaq, OpenKosdaqFails, EndOfKosdaq, vars
  <2>2. EndOfKosdaq => pc' = "idle" /\ size' = Len(array')
    BY DEF EndOfKosdaq
  <2>3. pc = "idle" => (pc' = "idle" /\ size' = size) 
    BY DEF OpenKospiFails, OpenKosdaq, OpenKosdaqFails, EndOfKosdaq, vars
  <2> QED
    BY <2>1, <2>2, <2>3, <1>1, <1>2 DEF NumberInv
<1>7. RoeIsNearest'
  BY <1>1, <1>2 DEF RoeIsNearest, Numbered
<1> QED
  BY <1>3, <1>4, <1>6, <1>7, <1>8 DEF MasterInv

LEMMA Invariance == Spec => []MasterInv
<1>1. MasterInv /\ [Next]_vars => MasterInv'
  BY ReadRecordInv, OpenKospiInv, OtherInv DEF Next
<1> QED
  BY InitInv, <1>1, PTL DEF Spec

(* The array, the maps and the locals of LoadStockMaster keep their types. *)
THEOREM TypeCorrect == Spec => []TypeOK
<1>1. MasterInv => TypeOK
  BY DEF MasterInv
<1> QED
  BY Invariance, <1>1, PTL

(* Whatever was loaded before, and wherever the load stands, a look-up of  *)
(* a code or name of this load gives a live pointer to its latest record,  *)
(* as long as the array has not outgrown its reserve.                      *)
THEOREM LookupsAreRight == Spec => []LookupFindsLatest
<1>1. MasterInv => LookupFindsLatest
  <2> SUFFICES ASSUME MasterInv, Len(array) <= GrowBy PROVE LookupFindsLatest
    BY DEF LookupFindsLatest
  <2>1. LastMoved(Len(array)) <= 0 /\ LastMoved(Len(array)) \in Int
    <3>1. Len(array) \in Nat
      BY DEF MasterInv, TypeOK
    <3>2. CASE Len(array) = 0
      BY <3>1, <3>2, LastMovedBounds
    <3>3. CASE Len(array) > 0
      <4>1. (Len(array) - 1) \div GrowBy = 0
        BY <3>1, <3>3, DivIs, MasterAssumption
      <4> QED
        BY <4>1, MasterAssumption DEF LastMoved
    <3> QED
      BY <3>1, <3>2, <3>3
  <2>2. ASSUME NEW p \in Pointer \union {Null}, NEW I, I # {},
               PointerOK(p, I, block, LastMoved(Len(array)))
        PROVE  PointsToLast(p, I) /\ Lives(p)
    BY <2>1, <2>2 DEF PointerOK, PointsToLast, Pointer, Lives
  <2> QED
    BY <2>2 DEF MasterInv, TypeOK, MapsInv, LookupFindsLatest
<1> QED
  BY Invariance, <1>1, PTL

(* However many records there are, a look-up gives a pointer into memory   *)
(* that was given up in exactly two cases: the key is none of this load's, *)
(* or its last record was added before the array last moved.               *)
THEOREM DanglesOnlyWhenMoved == Spec => []DanglesOnlyForCause
<1>1. MasterInv => DanglesOnlyForCause
  <2> SUFFICES ASSUME MasterInv PROVE DanglesOnlyForCause
    OBVIOUS
  <2>1. Len(array) \in Nat /\ DOMAIN array = 1 .. Len(array) /\ block \in Nat
    BY DEF MasterInv, TypeOK
  <2>2. LastMoved(Len(array)) \in Int /\ LastMoved(Len(array)) <= Len(array)
    BY <2>1, LastMovedBounds
  <2>3. Moved = {i \in 1 .. Len(array) : i <= LastMoved(Len(array))}
    BY <2>1 DEF Moved, LastMoved
  <2>4. ASSUME NEW p \in Pointer, NEW I \in SUBSET (1 .. Len(array)), p # Null,
               PointerOK(p, I, block, LastMoved(Len(array)))
        PROVE  ~Lives(p) <=> I = {} \/ p.at + 1 \in Moved
    <3>1. p.block \in Nat /\ p.at \in Nat
      BY DEF Pointer
    <3>2. CASE I = {}
      BY <3>1, <3>2, <2>1, <2>4 DEF PointerOK, Lives
    <3>3. CASE I # {}
      BY <3>1, <3>3, <2>1, <2>2, <2>3, <2>4 DEF PointerOK, PointsToLast, Lives
    <3> QED
      BY <3>2, <3>3
  <2>5. /\ \A c \in Code : OfCode(c) \in SUBSET (1 .. Len(array))
        /\ \A n \in Name : OfName(n) \in SUBSET (1 .. Len(array))
    BY <2>1 DEF OfCode, OfName
  <2> QED
    BY <2>4, <2>5 DEF MasterInv, TypeOK, MapsInv, DanglesOnlyForCause
<1> QED
  BY Invariance, <1>1, PTL

(* After a complete load the numbers, the array and the map of codes tell  *)
(* the same about every record.                                            *)
THEOREM NumbersAreOfTheArray == Spec => []NumberingAgrees
<1>1. MasterInv => NumberingAgrees
  <2> SUFFICES ASSUME MasterInv, complete PROVE NumberingAgrees
    BY DEF NumberingAgrees
  <2>1. /\ size = Len(array) /\ Len(array) \in Nat /\ DOMAIN array = 1 .. Len(array)
        /\ \A i \in DOMAIN array : array[i].seqNo = i - 1
        /\ array \in Seq(Record) /\ byCode \in [Code -> Pointer \union {Null}]
    BY DEF MasterInv, TypeOK, NumberInv
  <2>2. GetStockMasterAt(Len(array)) = Null
    BY <2>1 DEF GetStockMasterAt
  <2>3. ASSUME NEW i \in DOMAIN array
        PROVE  GetStockMasterAt(i - 1) = [block |-> block, at |-> i - 1]
    BY <2>1 DEF GetStockMasterAt
  <2>4. ASSUME NEW i \in DOMAIN array, Lives(byCode[array[i].code]),
               ~\E j \in DOMAIN array : j > i /\ array[j].code = array[i].code
        PROVE  byCode[array[i].code] = [block |-> block, at |-> i - 1]
    <3> DEFINE c == array[i].code
    <3>1. c \in Code
      <4>1. array[i] \in Record
        BY <2>1
      <4> QED
        BY <4>1 DEF Record
    <3>2. i \in OfCode(c) /\ \A j \in OfCode(c) : j <= i
      BY <2>1, <2>4 DEF OfCode
    <3> HIDE DEF c
    <3>3. PointsToLast(byCode[c], OfCode(c))
      BY <3>1, <3>2 DEF MasterInv, MapsInv, PointerOK
    <3>4. byCode[c] \in Pointer /\ byCode[c].at \in Nat
      BY <3>1, <3>3, <2>1 DEF PointsToLast, Pointer
    <3>5. byCode[c].at + 1 = i
      <4>1. i \in Nat /\ OfCode(c) \subseteq Nat
        BY <2>1 DEF OfCode
      <4> QED
        BY <4>1, <3>2, <3>3, <3>4 DEF PointsToLast
    <3>6. byCode[c].block = block
      BY <2>4 DEF Lives, c
    <3> QED
      BY <3>4, <3>5, <3>6, <2>1 DEF Pointer, c
  <2> QED
    BY <2>1, <2>2, <2>3, <2>4 DEF NumberingAgrees
<1> QED
  BY Invariance, <1>1, PTL

(* A record shows its own ROE, or that of the nearest record before it     *)
(* which has one.                                                          *)
THEOREM RoeIsOwnOrNearest == Spec => []RoeIsNearest
<1>1. MasterInv => RoeIsNearest
  BY DEF MasterInv
<1> QED
  BY Invariance, <1>1, PTL
===============================================================================
