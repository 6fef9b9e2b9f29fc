---------------------------- MODULE PrintedValue ----------------------------
(***************************************************************************)
(* The value classes under TestCip4/include/snmp_pp keep the text of their *)
(* value in a buffer and a flag that says that the value has changed since *)
(* the text was made.  One object of one of these classes; each class is a *)
(* record of what it does in its own way.                                  *)
(***************************************************************************)
EXTENDS Integers

CONSTANTS
  ClassesUsed,   \* the classes whose objects are considered
  HalfRadix,     \* 2^32: the values of one half of a Counter64
  LongRadix,     \* the values of the unsigned long that a half is kept in
  NoText

(* checked: assigning an object to itself does nothing; halves: the value  *)
(* is kept as two numbers; parsed: there may be no value, as when it comes *)
(* from a text; inside: the value is an array in the object, so that       *)
(* references to it outlive an assignment; indexed: a part is written      *)
(* through operator[]; pointer: ... or through a pointer that the object   *)
(* gives out; styled: the text depends on static settings; wiped: clear()  *)
(* erases the text.                                                        *)
Plain == [checked |-> FALSE, halves |-> FALSE, parsed |-> FALSE, inside |-> FALSE,
          indexed |-> FALSE, pointer |-> FALSE, styled |-> FALSE, wiped |-> FALSE]

SnmpUInt32 == [Plain EXCEPT !.checked = TRUE]
SnmpInt32  == [Plain EXCEPT !.checked = TRUE]
Counter32  == Plain
Gauge32    == Plain
TimeTicks  == Plain
Counter64  == [Plain EXCEPT !.checked = TRUE, !.halves = TRUE]
OctetStr   == [Plain EXCEPT !.checked = TRUE, !.indexed = TRUE, !.pointer = TRUE,
                            !.styled = TRUE]
OpaqueStr  == OctetStr
Oid        == [Plain EXCEPT !.checked = TRUE, !.parsed = TRUE, !.indexed = TRUE,
                            !.pointer = TRUE]
Address    == [Plain EXCEPT !.checked = TRUE, !.parsed = TRUE, !.inside = TRUE,
                            !.indexed = TRUE]
IpAddress  == Address
UdpAddress == [Address EXCEPT !.wiped = TRUE]

Classes == {SnmpUInt32, SnmpInt32, Counter32, Gauge32, TimeTicks, Counter64, OctetStr,
            OpaqueStr, Oid, IpAddress, UdpAddress}

Numbers == 0..HalfRadix * HalfRadix - 1
Longs   == 0..LongRadix - 1
Parts64 == {"hi", "lo"}
Styles  == {"hex", "clear"}
Texts   == [number : Numbers, style : Styles]

ASSUME PrintedAssumption ==
  /\ ClassesUsed \subseteq Classes
  /\ HalfRadix \in Nat \ {0, 1} /\ LongRadix \in Nat /\ LongRadix >= HalfRadix
  /\ NoText \notin Texts

VARIABLES
  class,                        \* the class of the object
  value, validFlag, changed, text,
  style,                        \* the static settings of OctetStr
  reference,                    \* is there a live reference from operator[]?
  put,                          \* history: the number that was put in; ...
  wide,                         \* ... the halves that no 32-bit number was put in; ...
  late                          \* ... was it put in where the object cannot notice?

printVars == <<class, value, validFlag, changed, text, style, reference, put, wide, late>>

(* val & UINT32_MAX without the mask.                                      *)
LowUnmasked(v) == v

Low(v)  == v % HalfRadix
High(v) == v \div HalfRadix

Stored(c, v)   == IF c.halves THEN [hi |-> High(v), lo |-> Low(v)] ELSE v
ToNumber(c, x) ==
  IF c.halves THEN (x.hi * HalfRadix + x.lo) % (HalfRadix * HalfRadix) ELSE x

PrintInit ==
  /\ class \in ClassesUsed /\ value = Stored(class, 0) /\ validFlag = ~class.parsed
  /\ changed = TRUE /\ text = NoText /\ style = "hex"
  /\ reference = FALSE /\ put = 0 /\ wide = {} /\ late = FALSE

Became(v, valid) ==
  /\ value' = Stored(class, v) /\ put' = v /\ wide' = {} /\ validFlag' = valid
  /\ changed' = TRUE /\ late' = FALSE
  /\ reference' = (reference /\ class.inside)
  /\ UNCHANGED <<class, text, style>>

(* The constructor or operator= from a number or a text.                   *)
AssignValue(v) == \E valid \in {TRUE, ~class.parsed} : Became(v, valid)

(* operator= from another object, valid or not; a Counter64 always is.     *)
AssignObject(v) == \E valid \in {TRUE, class.halves} : Became(v, valid)

AssignSelf ==
  /\ IF class.checked THEN UNCHANGED changed ELSE changed' = TRUE
  /\ UNCHANGED <<class, value, validFlag, text, style, reference, put, wide, late>>

(* n with one half replaced by x, if x is the 32-bit number asked for.      *)
PutHalf(n, half, x) ==
  IF x >= HalfRadix THEN n
  ELSE IF half = "hi" THEN x * HalfRadix + (n % HalfRadix)
                      ELSE (n \div HalfRadix) * HalfRadix + x

TooWide(half, x) == IF x >= HalfRadix THEN {half} ELSE {}

(* set_high() and set_low() that do not mark the object.                   *)
SetHalfUnmarked(half, x) ==
  /\ class.halves /\ value' = [value EXCEPT ![half] = x]
  /\ put' = PutHalf(put, half, x) /\ wide' = (wide \ {half}) \cup TooWide(half, x)
  /\ UNCHANGED <<class, validFlag, changed, text, style, reference, late>>

SetHalf(half, x) ==
  /\ class.halves /\ value' = [value EXCEPT ![half] = x] /\ changed' = TRUE
  /\ put' = PutHalf(put, half, x) /\ wide' = (wide \ {half}) \cup TooWide(half, x)
  /\ UNCHANGED <<class, validFlag, text, style, reference, late>>

(* The constructor from two halves, also as it is used in operator=.       *)
AssignHalves(h, l) ==
  /\ class.halves /\ value' = [hi |-> h, lo |-> l] /\ changed' = TRUE /\ late' = FALSE
  /\ put' = PutHalf(PutHalf(put, "hi", h), "lo", l)
  /\ wide' = TooWide("hi", h) \cup TooWide("lo", l)
  /\ UNCHANGED <<class, validFlag, text, style, reference>>

(* A pointer into an object without an array would be a null pointer.      *)
HasArray == class.parsed /\ ~class.inside => validFlag

(* operator[] marks the object before the caller writes.                   *)
TakeReference ==
  /\ class.indexed /\ HasArray
  /\ reference' = TRUE /\ changed' = TRUE /\ validFlag' = TRUE /\ late' = FALSE
  /\ UNCHANGED <<class, value, text, style, put, wide>>

WriteReference(v) ==
  /\ reference /\ value' = v /\ put' = v /\ late' = (late \/ ~changed)
  /\ UNCHANGED <<class, validFlag, changed, text, style, reference, wide>>

(* data() and oidval() do not mark the object.                             *)
WritePointer(v) ==
  /\ class.pointer /\ HasArray /\ value' = v /\ put' = v /\ late' = (late \/ ~changed)
  /\ UNCHANGED <<class, validFlag, changed, text, style, reference, wide>>

(* clear(): that of an address makes it invalid and need not mark it.      *)
ClearValue ==
  /\ value' = Stored(class, 0) /\ put' = 0 /\ wide' = {} /\ late' = FALSE
  /\ validFlag' = ~class.parsed
  /\ \/ changed' = TRUE
     \/ class.inside /\ UNCHANGED changed
  /\ text' = IF class.wiped THEN NoText ELSE text
  /\ reference' = (reference /\ class.inside)
  /\ UNCHANGED <<class, style>>

(* set_hex_output_type() and set_np_char() are static.                     *)
SetStyle(s) ==
  /\ style' = s
  /\ UNCHANGED <<class, value, validFlag, changed, text, reference, put, wide, late>>

TextNow == [number |-> ToNumber(class, value),
            style  |-> IF class.styled THEN style ELSE "hex"]

Remake  == changed \/ (class.styled /\ text # NoText /\ text.style # style)
Printed == IF Remake THEN TextNow ELSE text

(* get_printable(), and operator const char * of the addresses.            *)
PrintValue ==
  /\ text' = Printed /\ changed' = FALSE /\ late' = (late /\ ~Remake)
  /\ UNCHANGED <<class, value, validFlag, style, reference, put, wide>>

PrintNext ==
  \/ \E v \in Numbers :
       AssignValue(v) \/ AssignObject(v) \/ WriteReference(v) \/ WritePointer(v)
  \/ \E half \in Parts64, x \in Longs : SetHalf(half, x)
  \/ \E h, l \in Longs : AssignHalves(h, l)
  \/ AssignSelf \/ TakeReference \/ ClearValue \/ PrintValue
  \/ \E s \in Styles : SetStyle(s)

PrintSpec == PrintInit /\ [][PrintNext]_printVars
-----------------------------------------------------------------------------
PrintTypeOK ==
  /\ class \in ClassesUsed /\ ToNumber(class, value) \in Numbers
  /\ {validFlag, changed, reference, late} \subseteq BOOLEAN /\ style \in Styles
  /\ text \in {NoText} \cup Texts /\ put \in Numbers /\ wide \subseteq Parts64

(* A valid object prints the value it has now, in the style set now,       *)
(* whatever was printed before, unless the value was last written through  *)
(* a pointer or a reference that the object could not notice.              *)
PrintsCurrent == validFlag /\ ~late => Printed = TextNow

(* The number that is read is the number that was put in, also when it is  *)
(* kept in two halves and these are set one by one, unless a half was last *)
(* given a number outside of the range that is documented for it.          *)
HoldsNumber == wide = {} => ToNumber(class, value) = put
=============================================================================
