-------------------------------- MODULE Texts --------------------------------
(***************************************************************************)
(* How texts pass between client, library and control: Utf8ToWideChar and  *)
(* WideCharToUtf8 (pch.cpp), the buffers of fixed size that the exported   *)
(* functions (EfxMfc.cpp), OnReceiveError (EfxWnd.cpp) and the client's    *)
(* side (efx.rs) convert into, and strcpy_s in SetItem (EfxWnd.h).         *)
(*                                                                         *)
(* A text is abstracted to its length, in UTF-16 units and in UTF-8 bytes: *)
(* one to three bytes to a unit.  Sizes count the terminating zero.        *)
(***************************************************************************)
EXTENDS Integers

CONSTANTS
    Text,        \* the texts there are
    DataSize,    \* wszData of the setters: 256 units
    AskSize,     \* wszTemp of the account functions: 32 or 256 units
    NameSize,    \* wszQryName: 16 units; szQryName: 16 bytes
    ParamSize,   \* szParam: 256 bytes
    FloatSize,   \* szValue: 41 bytes
    ErrorSize,   \* szMsg of OnReceiveError: 256 bytes
    RustSize,    \* sizes of the buffers that efx.rs makes
    BuffSize     \* sizes of the buffers that clients pass themselves

Empty == [units |-> 0, bytes |-> 0]

ASSUME TextAssumption ==
    /\ Text \subseteq {t \in [units : Nat, bytes : Nat] :
                          t.units <= t.bytes /\ t.bytes <= 3 * t.units}
    /\ Empty \in Text
    /\ {DataSize, NameSize, ParamSize, FloatSize, ErrorSize} \subseteq Nat \ {0}
    /\ RustSize \subseteq Nat \ {0, 1}
    /\ BuffSize \subseteq Nat \ {0} /\ AskSize \subseteq Nat \ {0}

VARIABLES
    put,         \* history: the text last given to a setter, or asked about
    field,       \* external: what the control got of it
    asked,       \* history: the name and parameter last given to efxRequestData
    query,       \* external: the name the control got with the request
    item,        \* what SetItem recorded
    answer,      \* external: the text of the control's answer, or of its error
    got,         \* what the client read last
    aborted,     \* the process ended in strcpy_s
    overrun      \* something was written behind the end of a buffer

vars == <<put, field, asked, query, item, answer, got, aborted, overrun>>

(* What is left of a text that was cut off, perhaps inside a character. *)
Cut == [units |-> -1, bytes |-> -1]

Pair == [name : Text, param : Text]
Read == [by : {"rust", "buffer", "error"}, of : Text, size : Nat,
         ret : Nat, text : Text \union {Cut}]

(* Variants of Utf8ToWideChar: the zero is forgotten in the comparison; a  *)
(* text is cut to the buffer as WideCharToUtf8 does.                       *)
Utf8ToWideCharNoZero(size, t) ==
    IF size < t.units THEN [ret |-> -1, text |-> Empty, cells |-> 0]
    ELSE [ret |-> t.units, text |-> t, cells |-> t.units + 1]

Utf8ToWideCharCuts(size, t) ==
    IF size <= t.units THEN [ret |-> size - 1, text |-> Cut, cells |-> size]
    ELSE [ret |-> t.units, text |-> t, cells |-> t.units + 1]

(* Variant of WideCharToUtf8: the length is the buffer's when cut. *)
WideCharToUtf8Fills(size, t) ==
    LET n == IF size <= t.bytes THEN size - 1 ELSE t.bytes
    IN  [ret |-> n, text |-> IF n = t.bytes THEN t ELSE Cut, cells |-> n + 1]

(* The buffers of the functions modelled here were zeroed, and one that is *)
(* too small stays so.  (That of efxInit, EfxMfc.cpp:498, was not; its     *)
(* text is not modelled.)                                                  *)
Utf8ToWideChar(size, t) ==
    IF size <= t.units THEN [ret |-> -1, text |-> Empty, cells |-> 0]
    ELSE [ret |-> t.units, text |-> t, cells |-> t.units + 1]

(* WideCharToMultiByte returns 0 when the buffer is too small, of which it *)
(* may have filled what there is; of a buffer of 0 it returns the length   *)
(* that would be needed.                                                   *)
WideCharToUtf8(size, t) ==
    LET n == IF size <= t.bytes THEN size - 1 ELSE t.bytes
    IN  [ret   |-> IF n # 0 /\ n < t.bytes THEN 0 ELSE t.bytes,
         text  |-> IF n = t.bytes THEN t ELSE IF n = 0 THEN Empty ELSE Cut,
         cells |-> n + 1]

Init ==
    /\ put = Empty /\ field = Empty
    /\ asked = [name |-> Empty, param |-> Empty]
    /\ query = Empty /\ item = asked
    /\ answer = Empty
    /\ got = [by |-> "rust", of |-> Empty, size |-> 2, ret |-> 0, text |-> Empty]
    /\ aborted = FALSE /\ overrun = FALSE

-------------------------------------------------------------------------------
(* efxSetSingleData, -DataEx, efxSetMultiData, -BlockData: the result of *)
(* the conversion is not looked at.                                      *)
SetData(t) ==
    LET wide == Utf8ToWideChar(DataSize, t)
    IN  /\ ~aborted
        /\ put' = t
        /\ field' = wide.text
        /\ overrun' = (overrun \/ wide.cells > DataSize)
        /\ UNCHANGED <<asked, query, item, answer, got, aborted>>

(* request_account_balance: what efxGetEncryptPassword gave, or nothing, is *)
(* put into a field of the request.                                         *)
SetDataRead ==
    LET wide == Utf8ToWideChar(DataSize, got.text)
    IN  /\ ~aborted /\ got.by = "rust"
        /\ put' = got.of
        /\ field' = wide.text
        /\ overrun' = (overrun \/ wide.cells > DataSize)
        /\ UNCHANGED <<asked, query, item, answer, got, aborted>>

(* Variant of RequestData: SetItem keeps what fits. *)
RequestDataCut(n, p) ==
    LET wide == Utf8ToWideChar(NameSize, n)
    IN  /\ ~aborted
        /\ asked' = [name |-> n, param |-> p]
        /\ query' = wide.text
        /\ item' = [name |-> IF n.bytes >= NameSize THEN Empty ELSE n, param |-> p]
        /\ overrun' = (overrun \/ wide.cells > NameSize)
        /\ UNCHANGED <<put, field, answer, got, aborted>>

(* efxRequestData and, with p empty, efxRequestNextData: the request goes  *)
(* out, then SetItem copies; strcpy_s ends the process when a text, with   *)
(* its zero, is longer than the member.                                    *)
RequestData(n, p) ==
    LET wide == Utf8ToWideChar(NameSize, n)
    IN  /\ ~aborted
        /\ asked' = [name |-> n, param |-> p]
        /\ query' = wide.text
        /\ IF n.bytes >= NameSize \/ p.bytes >= ParamSize
           THEN aborted' = TRUE /\ UNCHANGED item
           ELSE item' = [name |-> n, param |-> p] /\ UNCHANGED aborted
        /\ overrun' = (overrun \/ wide.cells > NameSize)
        /\ UNCHANGED <<put, field, answer, got>>

(* The control has a new text for the client. *)
Answer(t) ==
    /\ answer' = t
    /\ UNCHANGED <<put, field, asked, query, item, got, aborted, overrun>>

(* A getter that fills the caller's buffer. *)
GetData(size) ==
    LET utf8 == WideCharToUtf8(size, answer)
    IN  /\ ~aborted
        /\ got' = [by |-> "buffer", of |-> answer, size |-> size,
                   ret |-> utf8.ret, text |-> utf8.text]
        /\ overrun' = (overrun \/ utf8.cells > size)
        /\ UNCHANGED <<put, field, asked, query, item, answer, aborted>>

(* ... as efx.rs calls it: the zeroed buffer becomes a String, which is   *)
(* truncated to the length that was returned.                             *)
GetDataRust(size) ==
    LET utf8 == WideCharToUtf8(size, answer)
    IN  /\ ~aborted
        /\ got' = [by |-> "rust", of |-> answer, size |-> size, ret |-> utf8.ret,
                   text |-> IF utf8.ret = 0 THEN Empty ELSE utf8.text]
        /\ overrun' = (overrun \/ utf8.cells > size)
        /\ UNCHANGED <<put, field, asked, query, item, answer, aborted>>

(* efxGetAccountBrcode, efxGetEncryptPassword as efx.rs calls them: a text  *)
(* goes to the control, and a is the text it has about what it got.        *)
AskControl(t, a, ask, size) ==
    LET wide == Utf8ToWideChar(ask, t)
        utf8 == WideCharToUtf8(size, a)
    IN  /\ ~aborted
        /\ put' = t /\ field' = wide.text
        /\ answer' = a
        /\ got' = [by |-> "rust", of |-> a, size |-> size, ret |-> utf8.ret,
                   text |-> IF utf8.ret = 0 THEN Empty ELSE utf8.text]
        /\ overrun' = (overrun \/ wide.cells > ask \/ utf8.cells > size)
        /\ UNCHANGED <<asked, query, item, aborted>>

(* OnReceiveError gives the callback its own buffer. *)
OnReceiveError ==
    LET utf8 == WideCharToUtf8(ErrorSize, answer)
    IN  /\ ~aborted
        /\ got' = [by |-> "error", of |-> answer, size |-> ErrorSize,
                   ret |-> utf8.ret, text |-> utf8.text]
        /\ overrun' = (overrun \/ utf8.cells > ErrorSize)
        /\ UNCHANGED <<put, field, asked, query, item, answer, aborted>>

(* efxGetSingleDataFloat, efxGetMultiDataFloat: the text is cut to the     *)
(* units that szValue has room for, and converted to the ANSI code page,   *)
(* in which a unit that is not ASCII may take two bytes; there are at most *)
(* as many such units as the text has bytes more than units.               *)
GetDataFloat(len) ==
    LET units == IF answer.units >= FloatSize THEN FloatSize - 1 ELSE answer.units
    IN  /\ ~aborted
        /\ units <= len /\ len <= 2 * units
        /\ len - units <= answer.bytes - answer.units
        /\ overrun' = (overrun \/ len + 1 > FloatSize)
        /\ UNCHANGED <<put, field, asked, query, item, answer, got, aborted>>

Next ==
    \/ \E t \in Text : SetData(t) \/ Answer(t) \/ \E p \in Text : RequestData(t, p)
    \/ \E size \in BuffSize : GetData(size)
    \/ \E size \in RustSize :
        GetDataRust(size) \/ \E t, a \in Text, ask \in AskSize : AskControl(t, a, ask, size)
    \/ SetDataRead \/ OnReceiveError
    \/ \E len \in 0 .. 2 * FloatSize : GetDataFloat(len)

Spec == Init /\ [][Next]_vars

-------------------------------------------------------------------------------
(* Type invariant. *)
TypeOK ==
    /\ put \in Text /\ field \in Text
    /\ asked \in Pair /\ query \in Text /\ item \in Pair
    /\ answer \in Text /\ got \in Read
    /\ aborted \in BOOLEAN /\ overrun \in BOOLEAN

(* A setter gives the control the client's text or, when it does not fit   *)
(* the library's buffer or did not fit the client's own, no text: never    *)
(* one that was cut; and so does a function that asks the control about a *)
(* text (EfxMfc.cpp:655-715, efx.rs:588-598).                              *)
FieldWholeOrEmpty == field \in {put, Empty}

(* When a request call returns, the texts recorded for its answer are the  *)
(* client's, and the control got the request under that name: the limit in *)
(* bytes of the table implies the one in units of the conversion           *)
(* (EfxMfc.cpp:720-724, EfxWnd.h:33-35).                                   *)
RecordedAsSent == ~aborted => item = asked /\ query = item.name

(* A Rust getter returns the control's text, or nothing when its buffer    *)
(* has no room for it; a getter into the caller's buffer returns the       *)
(* length of the text that is there, 0 if the text is not whole, except    *)
(* that for a buffer of one byte it returns the length of the text that    *)
(* would not fit; the error callback may be given a message that was cut   *)
(* (pch.cpp:11-14, efx.rs:469-575, EfxWnd.cpp:87-90).                      *)
ReadWholeOrNothing ==
    /\ got.by = "rust" =>
          got.text = IF got.of.bytes < got.size THEN got.of ELSE Empty
    /\ got.by # "rust" =>
          \/ got.text = got.of /\ got.ret = got.of.bytes
          \/ got.text = Cut /\ got.ret = 0 /\ got.of.bytes >= got.size
          \/ got.text = Empty /\ got.size = 1 /\ got.ret = got.of.bytes

(* No conversion writes behind the end of its buffer, zero included, but   *)
(* for a floating-point getter whose text, of more than half the units     *)
(* that szValue has room for, is not plain ASCII (EfxMfc.cpp:798-804).     *)
OverrunOnlyByFloat ==
    [][(~overrun /\ overrun') =>
          /\ answer.bytes > answer.units /\ 2 * answer.units >= FloatSize
          /\ UNCHANGED <<put, field, asked, query, item, got>>]_vars
===============================================================================
