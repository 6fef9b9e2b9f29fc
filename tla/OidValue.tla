------------------------------ MODULE OidValue ------------------------------
(***************************************************************************)
(* The class Oid of TestCip4/include/snmp_pp/oid.h: an array of            *)
(* subidentifiers on the heap with a length.  Memory that was allocated    *)
(* and not written, and memory that was freed, read as WildSub.            *)
(***************************************************************************)
EXTENDS Integers, Sequences

CONSTANTS
  Sub,       \* the subidentifiers
  WildSub,
  Operands,  \* the values of other Oids
  MaxLen     \* bound on the length of the Oid

ASSUME OidAssumption ==
  /\ Sub \subseteq Nat /\ WildSub \notin Sub /\ MaxLen \in Nat
  /\ Operands \subseteq Seq(Sub)

NoArray == << >>    \* the array of an Oid without one

VARIABLES
  opc,              \* "idle"; operator+=: "copy", "switch", "grow";
                    \* nCompare(): "compare"
  ptr, len,         \* the Oid: its array and its length
  rhs, self,        \* the operand; is it this Oid?
  fresh,            \* new_oid
  limit,            \* the argument of nCompare(), or -1 if it has none
  length, reduced, zz, answer,   \* nCompare()
  expect            \* history: what the Oid should hold

cmpVars == <<limit, length, reduced, zz, answer>>
oidVars == <<opc, ptr, len, rhs, self, fresh, cmpVars, expect>>

OidInit ==
  /\ opc = "idle" /\ ptr = NoArray /\ len = 0 /\ expect = << >>
  /\ rhs = << >> /\ self = FALSE /\ fresh = NoArray
  /\ limit = -1 /\ length = 0 /\ reduced = FALSE /\ zz = 0 /\ answer = 0

OidIdle == opc = "idle"

OidNow == [k \in 1..len |-> ptr[k]]
OtherOid == IF self THEN OidNow ELSE rhs

(* The Oid becomes s, or empty if there is no memory for it.               *)
BecomeOid(s) ==
  /\ \/ ptr' = s /\ len' = Len(s) /\ expect' = s
     \/ ptr' = NoArray /\ len' = 0 /\ expect' = << >>
  /\ UNCHANGED <<opc, rhs, self, fresh, cmpVars>>

(* operator= from another Oid, the destructor followed by one of the       *)
(* constructors, and clear() for s = << >>.                                *)
AssignOid(s) == OidIdle /\ BecomeOid(s)

(* trim() of more subidentifiers than there are.                           *)
TrimOidUnchecked(m) ==
  /\ OidIdle /\ m > 0
  /\ len' = len - m
  /\ ptr' = IF len' = 0 THEN NoArray ELSE ptr
  /\ expect' = SubSeq(expect, 1, len - m)
  /\ UNCHANGED <<opc, rhs, self, fresh, cmpVars>>

(* trim(): an Oid without subidentifiers has no array.                     *)
TrimOid(m) ==
  /\ OidIdle /\ m > 0 /\ m <= len
  /\ len' = len - m
  /\ ptr' = IF len' = 0 THEN NoArray ELSE ptr
  /\ expect' = SubSeq(expect, 1, len - m)
  /\ UNCHANGED <<opc, rhs, self, fresh, cmpVars>>

(* A subidentifier is overwritten through operator[].                      *)
SetSub(k, i) ==
  /\ OidIdle /\ k <= len
  /\ ptr' = [ptr EXCEPT ![k] = i] /\ expect' = [expect EXCEPT ![k] = i]
  /\ UNCHANGED <<opc, len, rhs, self, fresh, cmpVars>>

(* operator+=: the operand may be this Oid.                                *)
StartAppend(s, own) ==
  /\ OidIdle
  /\ LET o == IF own THEN OidNow ELSE s
     IN  /\ o # << >> /\ len + Len(o) <= MaxLen
         /\ \/ /\ opc' = "copy" /\ rhs' = s /\ self' = own
               /\ fresh' = [k \in 1..len + Len(o) |-> WildSub]
               /\ expect' = expect \o o
               /\ UNCHANGED <<ptr, len, cmpVars>>
            \/ BecomeOid(<< >>)

(* The own subidentifiers are copied and the old array is freed.           *)
CopyOwn ==
  /\ opc = "copy" /\ opc' = "switch"
  /\ fresh' = [k \in DOMAIN fresh |-> IF k <= len THEN ptr[k] ELSE WildSub]
  /\ ptr' = [k \in DOMAIN ptr |-> WildSub]
  /\ UNCHANGED <<len, rhs, self, cmpVars, expect>>

Filled(array, source) ==
  [k \in DOMAIN array |-> IF k <= len THEN array[k] ELSE source[k - len]]

(* The operand is copied before `ptr' points to the new array.             *)
CopyOtherFirst ==
  /\ opc = "switch" /\ opc' = "grow"
  /\ ptr' = Filled(fresh, IF self THEN ptr ELSE rhs)
  /\ UNCHANGED <<len, rhs, self, fresh, cmpVars, expect>>

(* `ptr' points to the new array before the operand is copied, through its *)
(* own `ptr'.                                                              *)
CopyOther ==
  /\ opc = "switch" /\ opc' = "grow"
  /\ ptr' = Filled(fresh, IF self THEN fresh ELSE rhs)
  /\ UNCHANGED <<len, rhs, self, fresh, cmpVars, expect>>

Grow ==
  /\ opc = "grow" /\ opc' = "idle"
  /\ len' = len + (IF self THEN len ELSE Len(rhs))
  /\ rhs' = << >> /\ self' = FALSE /\ fresh' = NoArray
  /\ UNCHANGED <<ptr, cmpVars, expect>>

Larger(a, b)  == IF a < b THEN b ELSE a
Smaller(a, b) == IF a < b THEN a ELSE b

(* nCompare(m, o), and nCompare(o) for m = -1, as far as the loop.         *)
StartCompare(m, s) ==
  /\ OidIdle /\ opc' = "compare"
  /\ limit' = m /\ rhs' = s
  /\ LET longer == Larger(len, Len(s))
         bound  == IF m = -1 \/ (len < m /\ Len(s) < m) THEN longer ELSE m
         shorter == Smaller(len, Len(s))
     IN  length' = Smaller(bound, shorter) /\ reduced' = (bound > shorter)
  /\ zz' = 0 /\ answer' = 0
  /\ UNCHANGED <<ptr, len, self, fresh, expect>>

Comparing == opc = "compare" /\ answer = 0

CompareStep ==
  /\ Comparing /\ zz < length
  /\ \/ ptr[zz + 1] < rhs[zz + 1] /\ answer' = -1 /\ UNCHANGED zz
     \/ ptr[zz + 1] > rhs[zz + 1] /\ answer' = 1 /\ UNCHANGED zz
     \/ ptr[zz + 1] = rhs[zz + 1] /\ zz' = zz + 1 /\ UNCHANGED answer
  /\ UNCHANGED <<opc, ptr, len, rhs, self, fresh, limit, length, reduced, expect>>

(* What is returned after a loop that found no difference: the lengths     *)
(* decide.                                                                 *)
AfterLoopUnreduced == 0

AfterLoop ==
  IF reduced /\ len < Len(rhs) THEN -1
  ELSE IF reduced /\ len > Len(rhs) THEN 1 ELSE 0

Returns == IF answer # 0 THEN answer ELSE AfterLoop

(* operators == and <, made from nCompare() without an argument.           *)
Equal == len = Len(rhs) /\ Returns = 0

Less == Returns < 0 \/ (Returns = 0 /\ len < Len(rhs))

Returning == opc = "compare" /\ (answer # 0 \/ zz = length)

ReturnCompare ==
  /\ Returning
  /\ opc' = "idle" /\ rhs' = << >>
  /\ limit' = -1 /\ length' = 0 /\ reduced' = FALSE /\ zz' = 0 /\ answer' = 0
  /\ UNCHANGED <<ptr, len, self, fresh, expect>>

OidNext ==
  \/ \E s \in Operands :
       AssignOid(s) \/ StartAppend(s, FALSE) \/ \E m \in -1..MaxLen : StartCompare(m, s)
  \/ StartAppend(<< >>, TRUE)
  \/ \E m \in 1..MaxLen : TrimOid(m) \/ \E i \in Sub : SetSub(m, i)
  \/ CopyOwn \/ CopyOther \/ Grow \/ CompareStep \/ ReturnCompare

OidSpec == OidInit /\ [][OidNext]_oidVars
-----------------------------------------------------------------------------
OidTypeOK ==
  /\ opc \in {"idle", "copy", "switch", "grow", "compare"}
  /\ ptr \in Seq(Sub \cup {WildSub}) /\ len \in Nat /\ fresh \in Seq(Sub \cup {WildSub})
  /\ rhs \in Seq(Sub) /\ self \in BOOLEAN /\ expect \in Seq(Sub)
  /\ limit \in -1..MaxLen /\ length \in Nat /\ zz \in 0..length
  /\ reduced \in BOOLEAN /\ answer \in {-1, 0, 1}

(* An Oid holds what the operations on it say, also when it is appended to *)
(* itself or memory runs out, and valid(), which asks for the array, is    *)
(* true of exactly the Oids that are not empty.                            *)
HoldsExpected ==
  OidIdle =>
    /\ OidNow = expect /\ len <= Len(ptr)
    /\ ptr = NoArray <=> len = 0

Prefix(s, m) == IF m = -1 \/ m >= Len(s) THEN s ELSE SubSeq(s, 1, m)

(* Lexicographic order.                                                    *)
Below(s, t) ==
  \E k \in 0..Len(s) :
    /\ k <= Len(t)
    /\ \A i \in 1..k : s[i] = t[i]
    /\ \/ k = Len(s) /\ k < Len(t)
       \/ k < Len(s) /\ k < Len(t) /\ s[k + 1] < t[k + 1]

(* nCompare() is the lexicographic order of the first n subidentifiers,    *)
(* whichever of the Oids is the shorter and wherever n lies, and the       *)
(* operators == and < made from it are the order of the Oids.              *)
ComparesLexicographically ==
  Returning =>
    LET s == Prefix(OidNow, limit)
        t == Prefix(rhs, limit)
    IN  /\ Returns = -1 <=> Below(s, t)
        /\ Returns = 1 <=> Below(t, s)
        /\ Returns = 0 <=> s = t
        /\ limit = -1 => (Equal <=> OidNow = rhs) /\ (Less <=> Below(OidNow, rhs))
=============================================================================
