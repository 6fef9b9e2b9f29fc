----------------------------- MODULE OidProofs -----------------------------
(* Theorems about Oid, for subidentifiers and lengths of any size.         *)
EXTENDS OidValue, SequenceTheorems, TLAPS

(* The length of the first m subidentifiers of x.                          *)
PrefixLen(x, m) == IF m = -1 \/ m >= x THEN x ELSE m

OperandLen == IF self THEN len ELSE Len(rhs)

(* What the array holds while += and the other operations run.             *)
StoreFacts ==
  /\ opc \in {"idle", "copy", "compare"} =>
       /\ len <= Len(ptr) /\ (ptr = NoArray <=> len = 0)
       /\ \A k \in 1..len : ptr[k] = expect[k]
  /\ opc \in {"idle", "compare"} => Len(expect) = len /\ self = FALSE
  /\ opc \in {"copy", "switch", "grow"} =>
       /\ OperandLen > 0 /\ Len(expect) = len + OperandLen
       /\ \A k \in 1..OperandLen :
            expect[len + k] = IF self THEN expect[k] ELSE rhs[k]
  /\ opc \in {"copy", "switch"} => Len(fresh) = len + OperandLen
  /\ opc = "switch" => \A k \in 1..len : fresh[k] = expect[k]
  /\ opc = "grow" => ptr = expect

(* The loop of nCompare(): no difference below zz, and the lengths of the  *)
(* prefixes in `length' and `reduced'.                                     *)
CompareFacts ==
  opc = "compare" =>
    LET a == PrefixLen(len, limit)
        b == PrefixLen(Len(rhs), limit)
    IN  /\ length = Smaller(a, b)
        /\ (reduced /\ len < Len(rhs)) <=> a < b
        /\ (reduced /\ len > Len(rhs)) <=> a > b
        /\ \A k \in 1..zz : ptr[k] = rhs[k]
        /\ answer = -1 => zz < length /\ ptr[zz + 1] < rhs[zz + 1]
        /\ answer = 1 => zz < length /\ ptr[zz + 1] > rhs[zz + 1]

OidInv == OidTypeOK /\ StoreFacts /\ CompareFacts

LEMMA OidInitInv == OidInit => OidInv
<1> SUFFICES ASSUME OidInit PROVE OidInv
  OBVIOUS
<1>1. << >> \in Seq(Sub) /\ << >> \in Seq(Sub \cup {WildSub})
  OBVIOUS
<1>2. OidTypeOK
  <2>1. -1 \in -1..MaxLen /\ 0 \in 0..0
    BY OidAssumption
  <2>2. limit \in -1..MaxLen /\ zz \in 0..length
    BY <2>1 DEF OidInit
  <2>3. ptr \in Seq(Sub \cup {WildSub}) /\ fresh \in Seq(Sub \cup {WildSub}) /\ rhs \in Seq(Sub) /\ expect \in Seq(Sub)
    BY <1>1 DEF OidInit, NoArray
  <2> QED
    BY <2>2, <2>3 DEF OidInit, OidTypeOK
<1>3. StoreFacts
  BY DEF OidInit, StoreFacts, NoArray
<1> QED
  BY <1>2, <1>3 DEF OidInit, OidInv, CompareFacts

(* What BecomeOid does, for each caller.                                   *)
LEMMA BecomeInv ==
  ASSUME OidInv, OidIdle, NEW s \in Seq(Sub), BecomeOid(s)
  PROVE  OidInv'
<1>1. << >> \in Seq(Sub) /\ << >> \in Seq(Sub \cup {WildSub}) /\ s \in Seq(Sub \cup {WildSub})
  OBVIOUS
<1>2. Len(s) \in Nat /\ (s = << >> <=> Len(s) = 0) /\ Len(<< >>) = 0
  OBVIOUS
<1>3. OidTypeOK'
  <2>1. \/ ptr' = s /\ len' = Len(s) /\ expect' = s
        \/ ptr' = << >> /\ len' = 0 /\ expect' = << >>
    BY DEF BecomeOid, NoArray
  <2>2. ptr' \in Seq(Sub \cup {WildSub}) /\ len' \in Nat /\ expect' \in Seq(Sub)
    <3>1. CASE ptr' = s /\ len' = Len(s) /\ expect' = s
      BY <1>1, <1>2, <3>1
    <3>2. CASE ptr' = << >> /\ len' = 0 /\ expect' = << >>
      BY <1>1, <3>2
    <3> QED
      BY <2>1, <3>1, <3>2
  <2>3. UNCHANGED <<opc, rhs, self, fresh, cmpVars>>
    BY DEF BecomeOid
  <2> QED
    BY <2>2, <2>3 DEF OidInv, OidTypeOK, cmpVars
<1>4. StoreFacts'
  BY <1>1, <1>2 DEF OidInv, OidIdle, BecomeOid, StoreFacts, NoArray
<1> QED
  BY <1>3, <1>4 DEF OidInv, OidIdle, BecomeOid, CompareFacts

LEMMA TrimInv ==
  ASSUME OidInv, NEW m \in 1..MaxLen, TrimOid(m)
  PROVE  OidInv'
<1>1. opc = "idle" /\ len \in Nat /\ m \in Nat /\ m > 0 /\ m <= len /\ expect \in Seq(Sub)
      /\ Len(expect) = len
  BY OidAssumption DEF TrimOid, OidIdle, OidInv, OidTypeOK, StoreFacts
<1>2. /\ expect' \in Seq(Sub) /\ Len(expect') = len - m
      /\ \A k \in 1..len - m : expect'[k] = expect[k]
  BY <1>1 DEF TrimOid
<1> QED
  BY <1>1, <1>2
     DEF OidInv, TrimOid, OidTypeOK, StoreFacts, CompareFacts, NoArray, cmpVars

LEMMA SetSubInv ==
  ASSUME OidInv, NEW k \in 1..MaxLen, NEW i \in Sub, SetSub(k, i)
  PROVE  OidInv'
<1>1. /\ opc = "idle" /\ len \in Nat /\ k <= len /\ expect \in Seq(Sub)
      /\ Len(expect) = len /\ ptr \in Seq(Sub \cup {WildSub}) /\ len <= Len(ptr)
  BY OidAssumption DEF SetSub, OidIdle, OidInv, OidTypeOK, StoreFacts
<1>2. /\ expect' \in Seq(Sub) /\ Len(expect') = len
      /\ ptr' \in Seq(Sub \cup {WildSub}) /\ Len(ptr') = Len(ptr)
      /\ \A j \in 1..len : expect'[j] = IF j = k THEN i ELSE expect[j]
      /\ \A j \in 1..len : ptr'[j] = IF j = k THEN i ELSE ptr[j]
  BY <1>1, OidAssumption DEF SetSub
<1> QED
  BY <1>1, <1>2
     DEF OidInv, SetSub, OidTypeOK, StoreFacts, CompareFacts, NoArray, cmpVars

LEMMA StartAppendInv ==
  ASSUME OidInv, NEW s \in Seq(Sub), NEW own \in BOOLEAN, StartAppend(s, own)
  PROVE  OidInv'
<1> DEFINE o == IF own THEN OidNow ELSE s
<1>1. /\ opc = "idle" /\ len \in Nat /\ expect \in Seq(Sub) /\ Len(expect) = len
      /\ ptr \in Seq(Sub \cup {WildSub}) /\ len <= Len(ptr)
      /\ \A k \in 1..len : ptr[k] = expect[k]
  BY DEF StartAppend, OidIdle, OidInv, OidTypeOK, StoreFacts
<1>2. OidNow \in Seq(Sub) /\ Len(OidNow) = len /\ \A k \in 1..len : OidNow[k] = expect[k]
  <2>1. \A k \in 1..len : ptr[k] \in Sub
    BY <1>1
  <2> QED
    BY <1>1, <2>1 DEF OidNow
<1>3. CASE BecomeOid(<< >>)
  <2>1. << >> \in Seq(Sub)
    OBVIOUS
  <2> QED
    BY <1>1, <1>3, <2>1, BecomeInv DEF OidIdle
<1>4. CASE /\ o # << >> /\ opc' = "copy" /\ rhs' = s /\ self' = own
           /\ fresh' = [k \in 1..len + Len(o) |-> WildSub]
           /\ expect' = expect \o o
           /\ UNCHANGED <<ptr, len, cmpVars>>
  <2>1. o \in Seq(Sub) /\ Len(o) \in Nat /\ Len(o) > 0 /\ Len(o) = OperandLen'
    BY <1>2, <1>4 DEF OperandLen
  <2> HIDE DEF o
  <2>2. /\ expect' \in Seq(Sub) /\ Len(expect') = len + Len(o)
        /\ \A k \in 1..len : expect'[k] = expect[k]
        /\ \A k \in 1..Len(o) : expect'[len + k] = o[k]
    <3>1. expect' = expect \o o
      BY <1>4 DEF o
    <3> QED
      <4>1. /\ expect' \in Seq(Sub) /\ Len(expect') = len + Len(o)
            /\ \A i \in 1..len + Len(o) :
                 expect'[i] = IF i <= len THEN expect[i] ELSE o[i - len]
        BY <1>1, <2>1, <3>1, ConcatProperties
      <4>2. \A k \in 1..Len(o) : len + k \in 1..len + Len(o) /\ ~(len + k <= len) /\ (len + k) - len = k
        BY <1>1, <2>1
      <4> QED
        BY <1>1, <2>1, <4>1, <4>2
  <2>3. fresh' \in Seq(Sub \cup {WildSub}) /\ Len(fresh') = len + Len(o)
    BY <1>1, <1>4, <2>1
  <2>4. \A k \in 1..Len(o) : expect'[len + k] = IF own THEN expect'[k] ELSE s[k]
    BY <1>2, <2>1, <2>2 DEF o
  <2>5. OidTypeOK'
    BY <1>4, <2>2, <2>3 DEF OidInv, OidTypeOK, cmpVars
  <2>6. StoreFacts'
    BY <1>1, <1>4, <2>1, <2>2, <2>3, <2>4 DEF OidInv, StoreFacts
  <2> QED
    BY <1>4, <2>5, <2>6 DEF OidInv, CompareFacts
<1> QED
  BY <1>3, <1>4 DEF StartAppend

LEMMA CopyOwnInv ==
  ASSUME OidInv, CopyOwn
  PROVE  OidInv'
<1>1. /\ len \in Nat /\ ptr \in Seq(Sub \cup {WildSub}) /\ len <= Len(ptr)
      /\ fresh \in Seq(Sub \cup {WildSub}) /\ OperandLen \in Nat /\ Len(fresh) = len + OperandLen
      /\ \A k \in 1..len : ptr[k] = expect[k]
  BY DEF CopyOwn, OidInv, OidTypeOK, StoreFacts, OperandLen
<1>2. /\ fresh' \in Seq(Sub \cup {WildSub}) /\ Len(fresh') = Len(fresh)
      /\ \A k \in 1..len : fresh'[k] = expect[k]
  BY <1>1 DEF CopyOwn
<1>3. ptr' \in Seq(Sub \cup {WildSub})
  BY <1>1 DEF CopyOwn
<1>4. OidTypeOK'
  BY <1>2, <1>3 DEF CopyOwn, OidInv, OidTypeOK, cmpVars
<1> QED
  BY <1>1, <1>2, <1>4 DEF CopyOwn, OidInv, StoreFacts, CompareFacts, OperandLen

LEMMA CopyOtherInv ==
  ASSUME OidInv, CopyOther
  PROVE  OidInv'
<1>1. /\ len \in Nat /\ fresh \in Seq(Sub \cup {WildSub}) /\ OperandLen \in Nat
      /\ Len(fresh) = len + OperandLen /\ expect \in Seq(Sub)
      /\ Len(expect) = len + OperandLen
      /\ \A k \in 1..len : fresh[k] = expect[k]
      /\ \A k \in 1..OperandLen :
           expect[len + k] = IF self THEN expect[k] ELSE rhs[k]
  BY DEF CopyOther, OidInv, OidTypeOK, StoreFacts, OperandLen
<1>2. \A k \in 1..len + OperandLen :
        (IF k <= len THEN fresh[k] ELSE (IF self THEN fresh ELSE rhs)[k - len]) = expect[k]
  <2> TAKE k \in 1..len + OperandLen
  <2>1. CASE k <= len
    BY <1>1, <2>1
  <2>2. CASE k > len
    <3>1. k - len \in 1..OperandLen /\ len + (k - len) = k
      BY <1>1, <2>2
    <3>2. self => k - len \in 1..len
      BY <3>1 DEF OperandLen
    <3>3. expect[k] = IF self THEN expect[k - len] ELSE rhs[k - len]
      BY <1>1, <3>1
    <3> QED
      BY <1>1, <2>2, <3>2, <3>3
  <2> QED
    BY <1>1, <2>1, <2>2
<1>3. ptr' = expect
  <2>1. ptr' = [k \in 1..len + OperandLen |->
                  IF k <= len THEN fresh[k] ELSE (IF self THEN fresh ELSE rhs)[k - len]]
    BY <1>1 DEF CopyOther, Filled
  <2>2. expect = [k \in 1..len + OperandLen |-> expect[k]]
    BY <1>1
  <2> QED
    BY <1>2, <2>1, <2>2
<1>4. ptr' \in Seq(Sub \cup {WildSub})
  BY <1>1, <1>3
<1>5. OidTypeOK'
  BY <1>4 DEF CopyOther, OidInv, OidTypeOK, cmpVars
<1> QED
  BY <1>1, <1>3, <1>5 DEF CopyOther, OidInv, StoreFacts, CompareFacts, OperandLen

LEMMA GrowInv ==
  ASSUME OidInv, Grow
  PROVE  OidInv'
<1>1. /\ len \in Nat /\ OperandLen \in Nat /\ OperandLen > 0
      /\ expect \in Seq(Sub) /\ Len(expect) = len + OperandLen /\ ptr = expect
  BY DEF Grow, OidInv, OidTypeOK, StoreFacts, OperandLen
<1>2. len' = len + OperandLen /\ opc' = "idle" /\ ptr' = ptr /\ expect' = expect
      /\ rhs' = << >> /\ self' = FALSE /\ fresh' = << >> /\ UNCHANGED cmpVars
  BY DEF Grow, OperandLen, NoArray
<1>3. OidTypeOK'
  <2>1. << >> \in Seq(Sub) /\ << >> \in Seq(Sub \cup {WildSub}) /\ len + OperandLen \in Nat
    BY <1>1
  <2> QED
    BY <1>2, <2>1 DEF OidInv, OidTypeOK, cmpVars
<1>4. StoreFacts'
  <2>1. ptr # << >> /\ len + OperandLen > 0
    BY <1>1
  <2> QED
    BY <1>1, <1>2, <2>1 DEF StoreFacts, NoArray
<1> QED
  BY <1>2, <1>3, <1>4 DEF OidInv, CompareFacts
-----------------------------------------------------------------------------
(* nCompare().                                                             *)
LEMMA StartCompareInv ==
  ASSUME OidInv, NEW m \in -1..MaxLen, NEW s \in Seq(Sub), StartCompare(m, s)
  PROVE  OidInv'
<1> DEFINE b == Len(s)
           bound == IF m = -1 \/ (len < m /\ b < m) THEN Larger(len, b) ELSE m
<1>1. len \in Nat /\ b \in Nat /\ m \in Int /\ m >= -1 /\ opc = "idle"
  BY OidAssumption DEF StartCompare, OidIdle, OidInv, OidTypeOK
<1>2. /\ length' = Smaller(bound, Smaller(len, b))
      /\ reduced' = (bound > Smaller(len, b))
      /\ opc' = "compare" /\ zz' = 0 /\ answer' = 0 /\ limit' = m /\ rhs' = s
      /\ UNCHANGED <<ptr, len, self, fresh, expect>>
  BY DEF StartCompare
<1> HIDE DEF b
<1>3. /\ length' = Smaller(PrefixLen(len, m), PrefixLen(b, m))
      /\ (reduced' /\ len < b) <=> PrefixLen(len, m) < PrefixLen(b, m)
      /\ (reduced' /\ len > b) <=> PrefixLen(len, m) > PrefixLen(b, m)
      /\ length' \in Nat
  <2>1. reduced' <=> bound > Smaller(len, b)
    BY <1>2
  <2> QED
    BY <1>1, <1>2, <2>1 DEF Smaller, Larger, PrefixLen
<1>4. reduced' \in BOOLEAN
  BY <1>2
<1>5. OidTypeOK'
  BY <1>2, <1>3, <1>4 DEF OidInv, OidTypeOK
<1>6. StoreFacts'
  BY <1>1, <1>2 DEF OidInv, StoreFacts
<1>7. CompareFacts'
  BY <1>2, <1>3 DEF CompareFacts, b
<1> QED
  BY <1>5, <1>6, <1>7 DEF OidInv

(* Inside the loop both arrays hold subidentifiers.                        *)
LEMMA LoopIndex ==
  ASSUME OidInv, opc = "compare"
  PROVE  /\ length \in Nat /\ zz \in 0..length
         /\ length <= len /\ length <= Len(rhs)
         /\ \A k \in 1..length : ptr[k] \in Nat /\ rhs[k] \in Nat
<1>1. /\ len \in Nat /\ Len(rhs) \in Nat /\ limit \in Int /\ limit >= -1
      /\ length = Smaller(PrefixLen(len, limit), PrefixLen(Len(rhs), limit))
      /\ zz \in 0..length /\ Len(expect) = len /\ expect \in Seq(Sub) /\ rhs \in Seq(Sub)
      /\ \A k \in 1..len : ptr[k] = expect[k]
  BY OidAssumption DEF OidInv, OidTypeOK, CompareFacts, StoreFacts
<1>2. length \in Nat /\ length <= len /\ length <= Len(rhs)
  BY <1>1 DEF Smaller, PrefixLen
<1>3. \A k \in 1..length : expect[k] \in Sub /\ rhs[k] \in Sub /\ ptr[k] = expect[k]
  BY <1>1, <1>2
<1> QED
  BY <1>1, <1>2, <1>3, OidAssumption

LEMMA CompareStepInv ==
  ASSUME OidInv, CompareStep
  PROVE  OidInv'
<1>1. /\ opc = "compare" /\ answer = 0 /\ zz < length
      /\ UNCHANGED <<opc, ptr, len, rhs, self, fresh, limit, length, reduced, expect>>
      /\ \/ ptr[zz + 1] < rhs[zz + 1] /\ answer' = -1 /\ zz' = zz
         \/ ptr[zz + 1] > rhs[zz + 1] /\ answer' = 1 /\ zz' = zz
         \/ ptr[zz + 1] = rhs[zz + 1] /\ zz' = zz + 1 /\ answer' = answer
  BY DEF CompareStep, Comparing
<1>2. length \in Nat /\ zz \in 0..length
  BY <1>1, LoopIndex
<1>3. \A k \in 1..zz : ptr[k] = rhs[k]
  BY <1>1 DEF OidInv, CompareFacts
<1>4. zz' \in 0..length /\ answer' \in {-1, 0, 1} /\ \A k \in 1..zz' : ptr[k] = rhs[k]
  BY <1>1, <1>2, <1>3
<1>5. OidTypeOK'
  BY <1>1, <1>4 DEF OidInv, OidTypeOK
<1>6. StoreFacts'
  BY <1>1 DEF OidInv, StoreFacts, OperandLen
<1>7. CompareFacts'
  BY <1>1, <1>4 DEF OidInv, CompareFacts
<1> QED
  BY <1>5, <1>6, <1>7 DEF OidInv

LEMMA ReturnCompareInv ==
  ASSUME OidInv, ReturnCompare
  PROVE  OidInv'
<1>1. -1 \in -1..MaxLen /\ << >> \in Seq(Sub)
  BY OidAssumption
<1>2. OidTypeOK'
  <2>0. /\ limit' = -1 /\ length' = 0 /\ zz' = 0 /\ reduced' = FALSE /\ answer' = 0
        /\ opc' = "idle" /\ rhs' = << >>
    BY DEF ReturnCompare
  <2>1. /\ limit' \in -1..MaxLen /\ length' \in Nat /\ zz' \in 0..length'
        /\ reduced' \in BOOLEAN /\ answer' \in {-1, 0, 1} /\ opc' = "idle"
        /\ rhs' \in Seq(Sub)
    <3>1. rhs' \in Seq(Sub)
      BY <1>1, <2>0
    <3>2. limit' \in -1..MaxLen
      BY <1>1, <2>0
    <3>3. length' \in Nat /\ zz' \in 0..length'
      BY <2>0
    <3>4. reduced' \in BOOLEAN
      BY <2>0
    <3> QED
      BY <2>0, <3>1, <3>2, <3>3, <3>4
  <2>2. UNCHANGED <<ptr, len, self, fresh, expect>>
    BY DEF ReturnCompare
  <2> QED
    BY <2>1, <2>2 DEF OidInv, OidTypeOK
<1> QED
  BY <1>2 DEF ReturnCompare, Returning, OidInv, StoreFacts, CompareFacts

LEMMA OidNextInv == OidInv /\ [OidNext]_oidVars => OidInv'
<1> SUFFICES ASSUME OidInv, [OidNext]_oidVars PROVE OidInv'
  OBVIOUS
<1>1. ASSUME NEW s \in Operands,
             AssignOid(s) \/ StartAppend(s, FALSE)
               \/ \E m \in -1..MaxLen : StartCompare(m, s)
      PROVE  OidInv'
  <2>1. s \in Seq(Sub)
    BY OidAssumption
  <2> QED
    BY <1>1, <2>1, BecomeInv, StartAppendInv, StartCompareInv DEF AssignOid
<1>2. CASE StartAppend(<< >>, TRUE)
  <2>1. << >> \in Seq(Sub)
    OBVIOUS
  <2> QED
    BY <1>2, <2>1, StartAppendInv
<1>3. ASSUME NEW m \in 1..MaxLen, TrimOid(m) \/ \E i \in Sub : SetSub(m, i)
      PROVE  OidInv'
  BY <1>3, TrimInv, SetSubInv
<1>4. CASE CopyOwn \/ CopyOther \/ Grow
  BY <1>4, CopyOwnInv, CopyOtherInv, GrowInv
<1>5. CASE CompareStep \/ ReturnCompare
  BY <1>5, CompareStepInv, ReturnCompareInv
<1>6. CASE UNCHANGED oidVars
  BY <1>6 DEF oidVars, cmpVars, OidInv, OidTypeOK, StoreFacts, CompareFacts,
              OperandLen
<1> QED
  BY <1>1, <1>2, <1>3, <1>4, <1>5, <1>6 DEF OidNext

THEOREM OidInvariant == OidSpec => []OidInv
<1>1. OidInit => OidInv
  BY OidInitInv
<1>2. OidInv /\ [OidNext]_oidVars => OidInv'
  BY OidNextInv
<1> QED
  BY <1>1, <1>2, PTL DEF OidSpec

(* An Oid holds what its operations say, for any values and lengths: += of *)
(* an Oid to itself, which frees the array it is about to read, included.  *)
THEOREM OidHoldsExpected == OidSpec => []HoldsExpected
<1>1. OidInv => HoldsExpected
  <2> SUFFICES ASSUME OidInv, OidIdle PROVE HoldsExpected
    BY DEF HoldsExpected
  <2>1. /\ len \in Nat /\ Len(expect) = len /\ expect \in Seq(Sub)
        /\ len <= Len(ptr) /\ (ptr = NoArray <=> len = 0)
        /\ \A k \in 1..len : ptr[k] = expect[k]
    BY DEF OidIdle, OidInv, OidTypeOK, StoreFacts
  <2>2. expect = [k \in 1..len |-> expect[k]]
    BY <2>1
  <2>3. OidNow = expect
    BY <2>1, <2>2 DEF OidNow
  <2> QED
    BY <2>1, <2>3 DEF HoldsExpected
<1> QED
  BY <1>1, OidInvariant, PTL
-----------------------------------------------------------------------------
(* Where the order of two sequences is decided.                            *)
LEMMA Decided ==
  ASSUME NEW s \in Seq(Nat), NEW t \in Seq(Nat), NEW m \in Nat,
         m <= Len(s), m <= Len(t), \A i \in 1..m : s[i] = t[i],
         \/ m = Len(s) /\ m < Len(t)
         \/ m < Len(s) /\ m < Len(t) /\ s[m + 1] < t[m + 1]
  PROVE  Below(s, t) /\ ~Below(t, s) /\ s # t
<1>1. Len(s) \in Nat /\ Len(t) \in Nat
  OBVIOUS
<1>2. Below(s, t)
  BY <1>1 DEF Below
<1>3. s # t
  OBVIOUS
<1>4. ASSUME NEW k \in 0..Len(t), k <= Len(s), \A i \in 1..k : t[i] = s[i],
             \/ k = Len(t) /\ k < Len(s)
             \/ k < Len(t) /\ k < Len(s) /\ t[k + 1] < s[k + 1]
      PROVE  FALSE
  <2>1. CASE k < m
    <3>1. k + 1 \in 1..m /\ s[k + 1] \in Nat /\ k < Len(t)
      <4>1. k \in Nat /\ k < Len(t)
        BY <1>1, <2>1
      <4>2. k + 1 \in 1..m /\ k + 1 \in 1..Len(s)
        BY <1>1, <2>1, <4>1
      <4> QED
        BY <4>1, <4>2
    <3> QED
      BY <1>1, <1>4, <3>1
  <2>2. CASE k = m
    BY <1>1, <1>4, <2>2
  <2>3. CASE k > m
    <3>1. m + 1 \in 1..k /\ m < Len(s)
      BY <1>1, <1>4, <2>3
    <3>2. t[m + 1] = s[m + 1] /\ s[m + 1] \in Nat
      BY <1>1, <1>4, <3>1
    <3> QED
      BY <3>1, <3>2
  <2> QED
    BY <1>1, <2>1, <2>2, <2>3
<1> QED
  BY <1>2, <1>3, <1>4 DEF Below

LEMMA Undecided ==
  ASSUME NEW s \in Seq(Nat), NEW t \in Seq(Nat), Len(s) = Len(t),
         \A i \in 1..Len(s) : s[i] = t[i]
  PROVE  s = t /\ ~Below(s, t) /\ ~Below(t, s)
<1>1. s = t
  BY Len(s) = Len(t), SeqEqual
<1>2. \A k \in 1..Len(s) : ~(s[k] < s[k])
  OBVIOUS
<1> QED
  BY <1>1, <1>2 DEF Below

(* The prefixes that nCompare() is to compare, element by element.         *)
LEMMA PrefixFacts ==
  ASSUME NEW s \in Seq(Sub), NEW m \in -1..MaxLen
  PROVE  /\ Prefix(s, m) \in Seq(Nat)
         /\ Len(Prefix(s, m)) = PrefixLen(Len(s), m)
         /\ \A k \in 1..PrefixLen(Len(s), m) : Prefix(s, m)[k] = s[k]
<1>1. Len(s) \in Nat /\ m \in Int /\ m >= -1 /\ s \in Seq(Nat)
  <2>1. \A k \in 1..Len(s) : s[k] \in Nat
    <3>1. \A k \in 1..Len(s) : s[k] \in Sub
      OBVIOUS
    <3>2. Sub \subseteq Nat
      BY OidAssumption
    <3> QED
      BY <3>1, <3>2
  <2>2. Len(s) \in Nat /\ s = [k \in 1..Len(s) |-> s[k]]
    OBVIOUS
  <2>3. m \in Int /\ m >= -1
    BY OidAssumption
  <2> QED
    BY <2>1, <2>2, <2>3
<1>2. CASE m = -1 \/ m >= Len(s)
  BY <1>1, <1>2 DEF Prefix, PrefixLen
<1>3. CASE ~(m = -1 \/ m >= Len(s))
  <2>1. m \in Nat /\ m < Len(s) /\ m \in 0..Len(s)
    BY <1>1, <1>3
  <2>2. SubSeq(s, 1, m) \in Seq(Nat) /\ Len(SubSeq(s, 1, m)) = m
        /\ \A k \in 1..m : SubSeq(s, 1, m)[k] = s[k]
    BY <1>1, <2>1
  <2> QED
    BY <1>3, <2>2 DEF Prefix, PrefixLen
<1> QED
  BY <1>2, <1>3

(* What nCompare() returns.                                                *)
OrderAnswered ==
  LET s == Prefix(OidNow, limit)
      t == Prefix(rhs, limit)
  IN  /\ Returns \in {-1, 0, 1}
      /\ Returns = -1 <=> Below(s, t)
      /\ Returns = 1 <=> Below(t, s)
      /\ Returns = 0 <=> s = t

LEMMA OrderIsAnswered ==
  ASSUME OidInv, Returning
  PROVE  OrderAnswered
<1> DEFINE a == PrefixLen(len, limit)
           b == PrefixLen(Len(rhs), limit)
           s == Prefix(OidNow, limit)
           t == Prefix(rhs, limit)
<1>1. /\ opc = "compare" /\ (answer # 0 \/ zz = length)
      /\ len \in Nat /\ Len(rhs) \in Nat /\ rhs \in Seq(Sub) /\ limit \in -1..MaxLen
      /\ answer \in {-1, 0, 1} /\ expect \in Seq(Sub) /\ Len(expect) = len
      /\ \A k \in 1..len : ptr[k] = expect[k]
  BY DEF Returning, OidInv, OidTypeOK, StoreFacts
<1>2. OidNow \in Seq(Sub) /\ Len(OidNow) = len /\ \A k \in 1..len : OidNow[k] = ptr[k]
  <2>1. \A k \in 1..len : ptr[k] \in Sub
    BY <1>1
  <2> QED
    BY <1>1, <2>1 DEF OidNow
<1>3. /\ s \in Seq(Nat) /\ t \in Seq(Nat) /\ Len(s) = a /\ Len(t) = b
      /\ \A k \in 1..a : s[k] = OidNow[k]
      /\ \A k \in 1..b : t[k] = rhs[k]
  BY <1>1, <1>2, PrefixFacts
<1>4. /\ length \in Nat /\ zz \in 0..length
      /\ length <= len /\ length <= Len(rhs)
      /\ \A k \in 1..length : ptr[k] \in Nat /\ rhs[k] \in Nat
  BY <1>1, LoopIndex
<1>5. /\ length = Smaller(a, b)
      /\ (reduced /\ len < Len(rhs)) <=> a < b
      /\ (reduced /\ len > Len(rhs)) <=> a > b
      /\ \A k \in 1..zz : ptr[k] = rhs[k]
      /\ answer = -1 => zz < length /\ ptr[zz + 1] < rhs[zz + 1]
      /\ answer = 1 => zz < length /\ ptr[zz + 1] > rhs[zz + 1]
  BY <1>1 DEF OidInv, CompareFacts
<1>6. a \in Nat /\ b \in Nat
  BY <1>1, OidAssumption DEF PrefixLen
<1>7. \A k \in 1..length : s[k] = ptr[k] /\ t[k] = rhs[k]
  <2>1. \A k \in 1..length : k \in 1..a /\ k \in 1..b /\ k \in 1..len
    BY <1>1, <1>4, <1>5, <1>6 DEF Smaller
  <2> QED
    BY <1>2, <1>3, <2>1
<1> HIDE DEF a, b, s, t
<1>8. zz \in Nat /\ zz <= a /\ zz <= b /\ \A k \in 1..zz : s[k] = t[k]
  BY <1>4, <1>5, <1>6, <1>7 DEF Smaller
<1>9. CASE answer = -1
  <2>1. zz < a /\ zz < b /\ s[zz + 1] < t[zz + 1]
    BY <1>4, <1>5, <1>6, <1>7, <1>9 DEF Smaller
  <2>2. Below(s, t) /\ ~Below(t, s) /\ s # t
    BY <1>3, <1>8, <2>1, Decided
  <2> QED
    BY <1>9, <2>2 DEF OrderAnswered, Returns, s, t
<1>10. CASE answer = 1
  <2>1. zz < a /\ zz < b /\ t[zz + 1] < s[zz + 1]
    <3>1. zz + 1 \in 1..length /\ ptr[zz + 1] > rhs[zz + 1]
      BY <1>4, <1>5, <1>10
    <3> QED
      BY <1>4, <1>5, <1>6, <1>7, <3>1 DEF Smaller
  <2>2. Below(t, s) /\ ~Below(s, t) /\ s # t
    BY <1>3, <1>8, <2>1, Decided
  <2> QED
    BY <1>10, <2>2 DEF OrderAnswered, Returns, s, t
<1>11. CASE answer = 0
  <2>1. zz = length /\ Returns = AfterLoop
    BY <1>1, <1>11 DEF Returns
  <2>2. CASE a < b
    <3>1. zz = Len(s) /\ zz < Len(t) /\ Returns = -1
      BY <1>3, <1>5, <1>6, <2>1, <2>2 DEF Smaller, AfterLoop
    <3>2. Below(s, t) /\ ~Below(t, s) /\ s # t
      BY <1>3, <1>8, <3>1, Decided
    <3> QED
      BY <3>1, <3>2 DEF OrderAnswered, s, t
  <2>3. CASE a > b
    <3>1. zz = Len(t) /\ zz < Len(s) /\ Returns = 1
      <4>1. ~(a < b)
        BY <1>6, <2>3
      <4> QED
        BY <1>3, <1>5, <1>6, <2>1, <2>3, <4>1 DEF Smaller, AfterLoop
    <3>2. Below(t, s) /\ ~Below(s, t) /\ s # t
      BY <1>3, <1>8, <3>1, Decided
    <3> QED
      BY <3>1, <3>2 DEF OrderAnswered, s, t
  <2>4. CASE a = b
    <3>1. zz = Len(s) /\ Len(s) = Len(t) /\ Returns = 0
      <4>1. ~(a < b) /\ ~(a > b)
        BY <1>6, <2>4
      <4> QED
        BY <1>3, <1>5, <1>6, <2>1, <2>4, <4>1 DEF Smaller, AfterLoop
    <3>2. s = t /\ ~Below(s, t) /\ ~Below(t, s)
      BY <1>3, <1>8, <3>1, Undecided
    <3> QED
      BY <3>1, <3>2 DEF OrderAnswered, s, t
  <2> QED
    BY <1>6, <2>2, <2>3, <2>4
<1> QED
  BY <1>1, <1>9, <1>10, <1>11

(* nCompare() of Oids of any length, and of prefixes of any length, is the *)
(* lexicographic order, and so are == and <.                               *)
THEOREM OidComparesLexicographically == OidSpec => []ComparesLexicographically
<1>1. OidInv => ComparesLexicographically
  <2> SUFFICES ASSUME OidInv, Returning PROVE ComparesLexicographically
    BY DEF ComparesLexicographically
  <2>1. OrderAnswered
    BY OrderIsAnswered
  <2>2. ASSUME limit = -1
        PROVE  (Equal <=> OidNow = rhs) /\ (Less <=> Below(OidNow, rhs))
    <3>1. Prefix(OidNow, limit) = OidNow /\ Prefix(rhs, limit) = rhs
      BY <2>2 DEF Prefix
    <3>2. /\ Returns \in {-1, 0, 1}
          /\ Returns = -1 <=> Below(OidNow, rhs)
          /\ Returns = 0 <=> OidNow = rhs
      BY <2>1, <3>1 DEF OrderAnswered
    <3>3. OidNow = rhs => len = Len(rhs)
      <4>1. Len(OidNow) = len
        BY DEF OidNow, OidInv, OidTypeOK
      <4> QED
        BY <4>1
    <3>4. len \in Nat
      BY DEF OidInv, OidTypeOK
    <3> HIDE DEF OidNow
    <3>5. Equal <=> OidNow = rhs
      BY <3>2, <3>3 DEF Equal
    <3>6. Less <=> Below(OidNow, rhs)
      BY <3>2, <3>3, <3>4 DEF Less
    <3> QED
      BY <3>5, <3>6
  <2> QED
    BY <2>1, <2>2 DEF ComparesLexicographically, OrderAnswered
<1> QED
  BY <1>1, OidInvariant, PTL
=============================================================================
