------------------------ MODULE SnmpCollectionProofs ------------------------
(* Theorems about SnmpCollection, for blocks of any size.                  *)
EXTENDS SnmpCollection, TLAPS

Block == [Slots -> Items \cup {Wild}]
Chain == Seq(Block) \ {<< >>}

At(bs, p) == bs[p \div MaxT + 1][p % MaxT]

(* SlotsMatchCount of one collection.                                      *)
Shape(bs, n) ==
  /\ (Len(bs) - 1) * MaxT < n \/ Len(bs) = 1
  /\ n <= Len(bs) * MaxT
  /\ \A b \in 1..Len(bs), k \in Slots :
       bs[b][k] \in Items <=> (b - 1) * MaxT + k < n

(* Division by MAXT.                                                       *)
LEMMA Division ==
  ASSUME NEW p \in Nat
  PROVE  /\ p \div MaxT \in Nat /\ p % MaxT \in Slots
         /\ p = (p \div MaxT) * MaxT + (p % MaxT)
  BY CollAssumption, Z3 DEF Slots

(* The order of slots is the order of their blocks.                        *)
LEMMA Earlier ==
  ASSUME NEW q \in Nat, NEW r \in Nat, q < r
  PROVE  q * MaxT + MaxT <= r * MaxT
<1>1. PICK d \in Nat : r = q + 1 + d
  <2> WITNESS r - q - 1 \in Nat
  <2> QED OBVIOUS
<1>2. r * MaxT = q * MaxT + MaxT + d * MaxT
  BY <1>1, CollAssumption
<1>3. d * MaxT >= 0
  BY CollAssumption
<1> QED
  BY <1>2, <1>3, CollAssumption

(* An index determines its block and slot.                                 *)
LEMMA Unique ==
  ASSUME NEW q \in Nat, NEW k \in Slots, NEW r \in Nat, NEW l \in Slots,
         q * MaxT + k = r * MaxT + l
  PROVE  q = r /\ k = l
<1>1. ~(q < r) /\ ~(r < q)
  BY Earlier, CollAssumption DEF Slots
<1> QED
  BY <1>1, CollAssumption DEF Slots

LEMMA Quotient ==
  ASSUME NEW q \in Nat, NEW k \in Slots
  PROVE  /\ q * MaxT + k \in Nat
         /\ (q * MaxT + k) \div MaxT = q /\ (q * MaxT + k) % MaxT = k
<1>1. q * MaxT + k \in Nat
  BY CollAssumption DEF Slots
<1> QED
  BY <1>1, Division, Unique

(* Below count there is an item at every index.                            *)
LEMMA Inside ==
  ASSUME NEW bs \in Chain, NEW n \in Nat, Shape(bs, n),
         NEW p \in Nat, p < n
  PROVE  p \div MaxT + 1 \in 1..Len(bs) /\ At(bs, p) \in Items
<1> DEFINE q == p \div MaxT
           k == p % MaxT
<1>1. q \in Nat /\ k \in Slots /\ p = q * MaxT + k
  BY Division
<1>2. Len(bs) \in Nat
  BY DEF Chain
<1> HIDE DEF q, k
<1>3. q < Len(bs)
  <2>1. SUFFICES ASSUME Len(bs) <= q PROVE FALSE
    BY <1>1, <1>2
  <2>2. Len(bs) * MaxT <= q * MaxT
    BY <1>1, <1>2, <2>1, Earlier, CollAssumption
  <2> QED
    BY <1>1, <1>2, <2>2, CollAssumption DEF Shape, Slots
<1>4. bs[q + 1][k] \in Items
  BY <1>1, <1>2, <1>3 DEF Shape
<1> QED
  BY <1>1, <1>2, <1>3, <1>4 DEF At, q, k

(* Where the next item goes: the slot is the next one of the last block,   *)
(* or the first one of a new block.                                        *)
Next0(bs, n, grow, k) ==
  \/ ~grow /\ n = (Len(bs) - 1) * MaxT + k
  \/ grow /\ k = 0 /\ n = Len(bs) * MaxT

(* An item put there extends the list and leaves the rest alone.           *)
LEMMA PutExtends ==
  ASSUME NEW bs \in Chain, NEW n \in Nat, Shape(bs, n), NEW i \in Items,
         NEW grow \in BOOLEAN, NEW k \in Slots, Next0(bs, n, grow, k)
  PROVE  LET cs == Put(bs, grow, k, i)
         IN  /\ cs \in Chain /\ Shape(cs, n + 1)
             /\ Len(cs) = IF grow THEN Len(bs) + 1 ELSE Len(bs)
             /\ At(cs, n) = i
             /\ \A p \in Nat : p < n => At(cs, p) = At(bs, p)
<1> DEFINE b0 == IF grow THEN Append(bs, NewBlock) ELSE bs
           m  == Len(b0)
           cs == Put(bs, grow, k, i)
<1>1. NewBlock \in Block /\ \A l \in Slots : NewBlock[l] = Wild
  BY DEF NewBlock, Block
<1>2. /\ Len(bs) \in Nat \ {0} /\ b0 \in Seq(Block)
      /\ m = IF grow THEN Len(bs) + 1 ELSE Len(bs)
      /\ \A b \in 1..Len(bs) : b0[b] = bs[b]
      /\ grow => b0[m] = NewBlock
  BY <1>1 DEF Chain
<1>3. cs = [b0 EXCEPT ![m][k] = i]
  BY DEF Put
<1>4. \A b \in 1..m : b0[b] \in Block
  BY <1>2
<1> HIDE DEF b0, m, cs
<1>5. /\ cs \in Seq(Block) /\ Len(cs) = m
      /\ \A b \in 1..m, l \in Slots :
           cs[b][l] = IF b = m /\ l = k THEN i ELSE b0[b][l]
  <2>1. m \in 1..m /\ [b0[m] EXCEPT ![k] = i] \in Block
    BY <1>2, <1>4 DEF Block
  <2>2. m = Len(b0) /\ cs = [b0 EXCEPT ![m] = [b0[m] EXCEPT ![k] = i]]
    BY <1>3 DEF m
  <2> QED
    BY <1>2, <1>4, <2>1, <2>2 DEF Block
<1>6. n = (m - 1) * MaxT + k
  BY <1>2, CollAssumption DEF Next0, Slots
<1>7. Shape(cs, n + 1)
  <2>1. (m - 1) * MaxT < n + 1 /\ n + 1 <= m * MaxT
    <3>1. m * MaxT = (m - 1) * MaxT + MaxT
      BY <1>2, CollAssumption
    <3> QED
      BY <1>2, <1>6, <3>1, CollAssumption DEF Slots
  <2>2. ASSUME NEW b \in 1..m, NEW l \in Slots
        PROVE  cs[b][l] \in Items <=> (b - 1) * MaxT + l < n + 1
    <3>0. b - 1 \in Nat /\ m - 1 \in Nat /\ (b - 1) * MaxT + l \in Nat
      <4>1. m \in Nat
        BY <1>2
      <4>2. b - 1 \in Nat
        BY <4>1
      <4>3. (b - 1) * MaxT + l \in Nat
        BY <4>2, Quotient
      <4>4. m - 1 \in Nat
        BY <4>1
      <4> QED
        BY <4>2, <4>3, <4>4
    <3>1. CASE b = m /\ l = k
      BY <1>5, <1>6, <3>1
    <3>2. CASE ~(b = m /\ l = k)
      <4>1. cs[b][l] = b0[b][l] /\ (b - 1) * MaxT + l # n
        BY <1>5, <1>6, <3>0, <3>2, Unique
      <4>2. CASE b <= Len(bs)
        BY <1>2, <3>0, <4>1, <4>2 DEF Shape
      <4>3. CASE b > Len(bs)
        <5>1. grow /\ b = m /\ cs[b][l] = Wild /\ k = 0 /\ l > 0
          BY <1>1, <1>2, <3>2, <4>1, <4>3 DEF Next0, Slots
        <5> QED
          BY <1>6, <5>1, <3>0, CollAssumption DEF Slots
      <4> QED
        BY <1>2, <4>2, <4>3
    <3> QED
      BY <3>1, <3>2
  <2> QED
    BY <1>5, <2>1, <2>2 DEF Shape
<1>8. At(cs, n) = i
  <2>1. m - 1 \in Nat /\ (m - 1) + 1 = m /\ m \in 1..m
    BY <1>2
  <2>2. n \div MaxT = m - 1 /\ n % MaxT = k
    BY <1>6, <2>1, Quotient
  <2> QED
    BY <1>5, <2>1, <2>2 DEF At
<1>9. ASSUME NEW p \in Nat, p < n PROVE At(cs, p) = At(bs, p)
  <2>1. /\ p \div MaxT + 1 \in 1..Len(bs) /\ p % MaxT \in Slots
        /\ p = (p \div MaxT) * MaxT + (p % MaxT)
    BY <1>9, Inside, Division
  <2>2. ~(p \div MaxT + 1 = m /\ p % MaxT = k)
    <3>1. ASSUME p \div MaxT + 1 = m, p % MaxT = k PROVE FALSE
      <4>1. p \div MaxT = m - 1
        BY <3>1, Division
      <4>2. p = n
        BY <1>6, <2>1, <3>1, <4>1
      <4> QED
        BY <1>9, <4>2
    <3> QED
      BY <3>1
  <2> QED
    BY <1>2, <1>5, <2>1, <2>2 DEF At
<1> QED
  BY <1>2, <1>5, <1>7, <1>8, <1>9 DEF Chain, cs

(* operator += finds that place.                                           *)
LEMMA AppendPlace ==
  ASSUME NEW bs \in Chain, NEW n \in Nat, Shape(bs, n)
  PROVE  Next0(bs, n, n > 0 /\ n % MaxT = 0, n % MaxT)
<1> DEFINE q == n \div MaxT
           k == n % MaxT
           m == Len(bs)
<1>1. q \in Nat /\ k \in Slots /\ n = q * MaxT + k /\ m \in Nat \ {0}
  BY Division DEF Chain
<1>2. ((m - 1) * MaxT < n \/ m = 1) /\ n <= m * MaxT
  BY DEF Shape
<1> HIDE DEF q, k, m
<1>3. q <= m
  BY <1>1, <1>2, Earlier, CollAssumption DEF Slots
<1>4. m - 1 <= q
  <2>1. ASSUME q < m - 1 PROVE FALSE
    BY <1>1, <1>2, <2>1, Earlier, CollAssumption DEF Slots
  <2> QED
    BY <1>1, <2>1
<1>5. CASE n = 0
  <2>1. n = 0 * MaxT + 0 /\ 0 \in Slots
    BY <1>5, CollAssumption DEF Slots
  <2>2. q = 0 /\ k = 0
    BY <1>1, <2>1, Unique
  <2>3. m = 1
    BY <1>1, <1>4, <1>2, <1>5, <2>2, CollAssumption
  <2> QED
    BY <1>5, <2>2, <2>3, CollAssumption DEF Next0, k, m
<1>6. CASE n > 0 /\ k = 0
  <2>1. q # m - 1
    BY <1>1, <1>2, <1>6, CollAssumption
  <2> QED
    <3>1. q = m /\ n = m * MaxT
      BY <1>1, <1>3, <1>4, <1>6, <2>1, CollAssumption
    <3> QED
      BY <1>6, <3>1 DEF Next0, k, m
<1>7. CASE n > 0 /\ k # 0
  <2>1. q # m
    BY <1>1, <1>2, <1>7, CollAssumption DEF Slots
  <2> QED
    BY <1>1, <1>3, <1>4, <1>7, <2>1 DEF Next0, k, m
<1> QED
  BY <1>1, <1>5, <1>6, <1>7
-----------------------------------------------------------------------------
(* The list in a chain.                                                    *)
ListOf(bs, n) == [p \in 1..n |-> At(bs, p - 1)]

LEMMA ListType ==
  ASSUME NEW bs \in Chain, NEW n \in Nat, Shape(bs, n)
  PROVE  ListOf(bs, n) \in Seq(Items) /\ Len(ListOf(bs, n)) = n
<1>1. \A p \in 1..n : At(bs, p - 1) \in Items
  BY Inside
<1> QED
  BY <1>1 DEF ListOf

LEMMA ListPut ==
  ASSUME NEW bs \in Chain, NEW n \in Nat, Shape(bs, n), NEW i \in Items,
         NEW grow \in BOOLEAN, NEW k \in Slots, Next0(bs, n, grow, k)
  PROVE  ListOf(Put(bs, grow, k, i), n + 1) = Append(ListOf(bs, n), i)
<1> DEFINE cs == Put(bs, grow, k, i)
           s  == ListOf(bs, n)
<1>1. At(cs, n) = i /\ \A p \in Nat : p < n => At(cs, p) = At(bs, p)
  BY PutExtends
<1>2. s \in Seq(Items) /\ Len(s) = n /\ \A p \in 1..n : s[p] = At(bs, p - 1)
  BY ListType DEF ListOf
<1> HIDE DEF cs, s
<1>3. \A p \in 1..n + 1 : At(cs, p - 1) = IF p = n + 1 THEN i ELSE s[p]
  <2> TAKE p \in 1..n + 1
  <2>1. CASE p = n + 1
    BY <1>1, <2>1
  <2>2. CASE p # n + 1
    <3>1. p - 1 \in Nat /\ p - 1 < n /\ p \in 1..n
      BY <2>2
    <3> QED
      BY <1>1, <1>2, <2>2, <3>1
  <2> QED
    BY <2>1, <2>2
<1>4. ListOf(cs, n + 1) = [p \in 1..n + 1 |-> IF p = n + 1 THEN i ELSE s[p]]
  BY <1>3 DEF ListOf
<1>5. Append(s, i) = [p \in 1..n + 1 |-> IF p = n + 1 THEN i ELSE s[p]]
  <2> DEFINE a == Append(s, i)
  <2>1. /\ a \in Seq(Items) /\ Len(a) = n + 1
        /\ \A p \in 1..n + 1 : a[p] = IF p = n + 1 THEN i ELSE s[p]
    BY <1>2
  <2> HIDE DEF a
  <2>2. a = [p \in 1..n + 1 |-> a[p]]
    BY <2>1
  <2> QED
    BY <2>1, <2>2 DEF a
<1> QED
  BY <1>4, <1>5 DEF cs, s

(* An item that is replaced in place.                                      *)
With(bs, p, i) == [bs EXCEPT ![p \div MaxT + 1][p % MaxT] = i]

LEMMA Replaced ==
  ASSUME NEW bs \in Chain, NEW n \in Nat, Shape(bs, n), NEW i \in Items,
         NEW p \in Nat, p < n
  PROVE  /\ With(bs, p, i) \in Chain /\ Shape(With(bs, p, i), n)
         /\ ListOf(With(bs, p, i), n) = [ListOf(bs, n) EXCEPT ![p + 1] = i]
<1> DEFINE d == p \div MaxT + 1
           k == p % MaxT
           cs == [bs EXCEPT ![d][k] = i]
<1>1. d \in 1..Len(bs) /\ At(bs, p) \in Items
  BY Inside
<1>2. k \in Slots /\ d - 1 \in Nat /\ p = (d - 1) * MaxT + k
  BY Division
<1>3. bs \in Seq(Block) /\ bs # << >> /\ At(bs, p) = bs[d][k]
  BY DEF Chain, At
<1>4. \A x \in Nat : x \div MaxT + 1 = d /\ x % MaxT = k => x = p
  BY Division
<1> HIDE DEF d, k
<1>5. bs[d] \in Block /\ [bs[d] EXCEPT ![k] = i] \in Block
  BY <1>1, <1>2, <1>3 DEF Block
<1>6. /\ cs \in Seq(Block) /\ Len(cs) = Len(bs)
      /\ \A b \in 1..Len(bs), l \in Slots :
           cs[b][l] = IF b = d /\ l = k THEN i ELSE bs[b][l]
  BY <1>1, <1>2, <1>3, <1>5 DEF Block
<1> HIDE DEF cs
<1>7. cs \in Chain
  BY <1>3, <1>6 DEF Chain
<1>8. Shape(cs, n)
  BY <1>1, <1>3, <1>6 DEF Shape
<1>9. \A x \in Nat : x < n => At(cs, x) = IF x = p THEN i ELSE At(bs, x)
  <2> SUFFICES ASSUME NEW x \in Nat, x < n
               PROVE  At(cs, x) = IF x = p THEN i ELSE At(bs, x)
    OBVIOUS
  <2>1. x \div MaxT + 1 \in 1..Len(bs) /\ x % MaxT \in Slots
    BY Inside, Division
  <2> QED
    BY <1>4, <1>6, <2>1 DEF At, d, k
<1>10. ListOf(cs, n) = [ListOf(bs, n) EXCEPT ![p + 1] = i]
  <2>1. \A x \in 1..n :
          At(cs, x - 1) = IF x = p + 1 THEN i ELSE At(bs, x - 1)
    <3> TAKE x \in 1..n
    <3>1. x - 1 \in Nat /\ x - 1 < n /\ (x - 1 = p <=> x = p + 1)
      OBVIOUS
    <3> QED
      BY <1>9, <3>1
  <2> QED
    BY <2>1 DEF ListOf
<1> QED
  BY <1>7, <1>8, <1>10 DEF cs, d, k, With

(* An emptied chain.                                                       *)
LEMMA EmptyChain ==
  /\ <<NewBlock>> \in Chain /\ Shape(<<NewBlock>>, 0)
  /\ Len(<<NewBlock>>) = 1
<1>1. NewBlock \in Block /\ \A l \in Slots : NewBlock[l] = Wild
  BY DEF NewBlock, Block
<1>2. Len(<<NewBlock>>) = 1 /\ <<NewBlock>>[1] = NewBlock
  OBVIOUS
<1>3. \A b \in 1..1, k \in Slots : ~(<<NewBlock>>[b][k] \in Items) /\ ~((b - 1) * MaxT + k < 0)
  BY <1>1, CollAssumption DEF Slots
<1> QED
  BY <1>1, <1>2, <1>3, CollAssumption DEF Chain, Shape
-----------------------------------------------------------------------------
Chains ==
  /\ count \in [All -> Nat] /\ blocks \in [All -> Chain]
  /\ \A c \in All : Shape(blocks[c], count[c])

(* operator= between two steps of its loop: the target holds the first     *)
(* items of the source, and cn is its next slot.                           *)
LoadFacts ==
  cpc = "load" =>
    /\ dst \in ListNames /\ dst # src
    /\ src = Rest \/ count[Rest] = 0
    /\ count[dst] = (Len(blocks[dst]) - 1) * MaxT + cn
    /\ count[dst] <= count[src]
    /\ \A p \in 0..count[dst] - 1 : Walk(dst, p) = Walk(src, p)

(* remove() between two steps of its loop: newCollection holds the items   *)
(* below z except the one at pos, the first of its kind.                   *)
RebuildFacts ==
  cpc = "rebuild" =>
    /\ dst \in ListNames /\ pos < count[dst] /\ z <= count[dst]
    /\ \A q \in 0..pos - 1 : Walk(dst, q) # Walk(dst, pos)
    /\ count[Rest] = IF z <= pos THEN z ELSE z - 1
    /\ \A p \in 0..count[Rest] - 1 :
         Walk(Rest, p) = Walk(dst, IF p < pos THEN p ELSE p + 1)

(* The items of newCollection are some of dst's, in their order, and none  *)
(* of them is the one at pos.                                              *)
SomeKept(f) ==
  /\ f \in [1..count[Rest] -> 1..z]
  /\ Abstract!Chosen(f, count[Rest], pos + 1)
  /\ \A a \in 1..count[Rest] : Walk(Rest, a - 1) = Walk(dst, f[a] - 1)

(* The same after a block has been refused: the items are some of those    *)
(* below z.                                                                *)
StarvedFacts ==
  cpc = "starved" =>
    /\ dst \in ListNames /\ pos < count[dst] /\ z <= count[dst]
    /\ count[Rest] <= z
    /\ \A q \in 0..pos - 1 : Walk(dst, q) # Walk(dst, pos)
    /\ \E f : SomeKept(f)

CollInv ==
  /\ CollTypeOK /\ SlotsMatchCount
  /\ LoadFacts /\ RebuildFacts /\ StarvedFacts
  /\ cpc = "idle" => count[Rest] = 0

LEMMA InvChains ==
  ASSUME CollInv
  PROVE  Chains
  BY DEF CollInv, CollTypeOK, SlotsMatchCount, Chains, Chain, Block, Shape

(* A pointer is safe to follow below count and nowhere else.               *)
LEMMA SafeBelowCount ==
  ASSUME Chains, NEW c \in All, NEW p \in Nat
  PROVE  /\ Safe(c, p) <=> p < count[c]
         /\ p < count[c] => Walk(c, p) \in Items
<1> DEFINE bs == blocks[c]
           n  == count[c]
           q  == p \div MaxT
           k  == p % MaxT
<1>1. bs \in Chain /\ n \in Nat /\ Shape(bs, n) /\ Len(bs) \in Nat
  BY DEF Chains, Chain
<1>2. q \in Nat /\ k \in Slots /\ p = q * MaxT + k
  BY Division
<1>3. ASSUME p < n PROVE q < Len(bs) /\ Walk(c, p) \in Items
  <2>1. q + 1 \in 1..Len(bs) /\ At(bs, p) \in Items
    BY <1>1, <1>3, Inside
  <2> QED
    BY <1>1, <1>2, <2>1 DEF At, Walk
<1>4. ASSUME q < Len(bs), bs[q + 1][k] # Wild PROVE p < n
  <2>1. q + 1 \in 1..Len(bs) /\ bs[q + 1] \in Block
    BY <1>1, <1>2, <1>4 DEF Chain
  <2>2. bs[q + 1][k] \in Items
    BY <1>2, <1>4, <2>1 DEF Block
  <2>3. (q + 1) - 1 = q
    BY <1>2
  <2> QED
    BY <1>1, <1>2, <2>1, <2>2, <2>3 DEF Shape
<1> QED
  BY <1>3, <1>4, CollAssumption DEF Safe, Walk

(* One chain changes.                                                      *)
Others(c) ==
  \A d \in All \ {c} : count'[d] = count[d] /\ blocks'[d] = blocks[d]

LEMMA OneChain ==
  ASSUME Chains, NEW c \in All, NEW cs \in Chain, NEW n \in Nat, Shape(cs, n),
         count' = [count EXCEPT ![c] = n], blocks' = [blocks EXCEPT ![c] = cs]
  PROVE  Chains' /\ count'[c] = n /\ blocks'[c] = cs /\ Others(c)
  BY DEF Chains, Others

LEMMA Adding ==
  ASSUME Chains, NEW c \in All, NEW i \in Items, Added(c, i)
  PROVE  /\ Chains' /\ Others(c) /\ count'[c] = count[c] + 1
         /\ At(blocks'[c], count[c]) = i
         /\ \A p \in Nat : p < count[c] => Walk(c, p)' = Walk(c, p)
         /\ Contents(c)' = Append(Contents(c), i)
<1> DEFINE n == count[c]
           grow == n > 0 /\ n % MaxT = 0
           k == n % MaxT
           cs == Put(blocks[c], grow, k, i)
<1>1. blocks[c] \in Chain /\ n \in Nat /\ Shape(blocks[c], n)
  BY DEF Chains
<1>2. k \in Slots /\ Next0(blocks[c], n, grow, k) /\ grow \in BOOLEAN
  BY <1>1, Division, AppendPlace
<1>0. count' = [count EXCEPT ![c] = n + 1] /\ blocks' = [blocks EXCEPT ![c] = cs]
  BY DEF Added
<1> HIDE DEF n, grow, k
<1>3. /\ cs \in Chain /\ Shape(cs, n + 1) /\ At(cs, n) = i
      /\ \A p \in Nat : p < n => At(cs, p) = At(blocks[c], p)
  BY <1>1, <1>2, PutExtends
<1>4. ListOf(cs, n + 1) = Append(ListOf(blocks[c], n), i)
  BY <1>1, <1>2, ListPut
<1>6. n + 1 \in Nat
  BY <1>1
<1> HIDE DEF cs
<1>7. Chains' /\ count'[c] = n + 1 /\ blocks'[c] = cs /\ Others(c)
  BY <1>0, <1>3, <1>6, OneChain
<1>8. Contents(c)' = ListOf(cs, n + 1) /\ Contents(c) = ListOf(blocks[c], n)
  BY <1>7 DEF Contents, ListOf, Walk, At, n
<1>9. \A p : Walk(c, p)' = At(cs, p) /\ Walk(c, p) = At(blocks[c], p)
  BY <1>7 DEF Walk, At
<1>10. At(blocks'[c], count[c]) = i
  BY <1>3, <1>7 DEF n
<1>11. \A p \in Nat : p < count[c] => Walk(c, p)' = Walk(c, p)
  BY <1>3, <1>9 DEF n
<1>12. Contents(c)' = Append(Contents(c), i)
  BY <1>4, <1>8
<1> QED
  BY <1>7, <1>10, <1>11, <1>12 DEF n

LEMMA Emptying ==
  ASSUME Chains, NEW c \in All,
         count' = [count EXCEPT ![c] = 0],
         blocks' = [blocks EXCEPT ![c] = Deleted(c)]
  PROVE  Chains' /\ Others(c) /\ count'[c] = 0 /\ Len(blocks'[c]) = 1
<1> DEFINE n == count[c]
           b == [k \in Slots |-> IF k < n THEN Wild ELSE blocks[c][1][k]]
<1>1. blocks[c] \in Chain /\ n \in Nat /\ Shape(blocks[c], n)
  BY DEF Chains
<1>2. Len(blocks[c]) \in Nat \ {0} /\ blocks[c][1] \in Block
  BY <1>1 DEF Chain
<1> HIDE DEF n
<1>3. CASE n = 0
  <2>1. Deleted(c) = blocks[c]
    BY <1>3 DEF Deleted, n
  <2>2. Len(blocks[c]) = 1
    <3>1. ASSUME (Len(blocks[c]) - 1) * MaxT < 0 PROVE FALSE
      BY <1>2, <3>1, CollAssumption
    <3> QED
      BY <1>1, <1>3, <3>1 DEF Shape
  <2> QED
    BY <1>1, <1>3, <2>1, <2>2, OneChain DEF n
<1>4. CASE n > 0
  <2>1. Deleted(c) = <<b>>
    BY <1>1, <1>4 DEF Deleted, n
  <2>2. b \in Block /\ \A k \in Slots : b[k] \notin Items
    <3>1. ASSUME NEW k \in Slots, ~(k < n) PROVE blocks[c][1][k] \notin Items
      <4>1. (1 - 1) * MaxT + k = k /\ 1 \in 1..Len(blocks[c])
        BY <1>2, CollAssumption DEF Slots
      <4> QED
        BY <1>1, <3>1, <4>1 DEF Shape
    <3> QED
      BY <1>2, <3>1, CollAssumption DEF Block
  <2> HIDE DEF b
  <2>3. Len(<<b>>) = 1 /\ <<b>>[1] = b
    OBVIOUS
  <2>4. \A d \in 1..1, k \in Slots : <<b>>[d][k] \notin Items /\ ~((d - 1) * MaxT + k < 0)
    BY <2>2, CollAssumption DEF Slots
  <2>5. <<b>> \in Chain /\ Shape(<<b>>, 0)
    BY <2>2, <2>3, <2>4, CollAssumption DEF Chain, Shape
  <2> QED
    BY <2>1, <2>3, <2>5, OneChain
<1> QED
  BY <1>1, <1>3, <1>4
-----------------------------------------------------------------------------
(* operator= up to its loop keeps the invariant.                           *)
LEMMA StartKeepsInv ==
  ASSUME CollInv, wrecked = "no", NEW c \in ListNames, NEW d \in All, c # d,
         d = Rest \/ count[Rest] = 0, StartLoad(c, d)
  PROVE  /\ CollInv' /\ count'[c] = 0 /\ wrecked' = "no" /\ Others(c)
         /\ \/ count[d] > 0 /\ cpc' = "load" /\ dst' = c /\ src' = d
            \/ count[d] = 0 /\ cpc' = "idle"
<1>1. Chains /\ c \in All /\ Rest \in All /\ c # Rest
  BY InvChains, CollAssumption DEF All
<1>2. AllSafe(c)
  BY <1>1, SafeBelowCount DEF AllSafe, Chains
<1>3. /\ count' = [count EXCEPT ![c] = 0]
      /\ blocks' = [blocks EXCEPT ![c] = Deleted(c)]
      /\ \/ count[d] > 0 /\ cpc' = "load" /\ dst' = c /\ src' = d
         \/ count[d] = 0 /\ cpc' = "idle" /\ dst' = Rest /\ src' = Rest
      /\ cn' = 0 /\ pos' = 0 /\ z' = 0 /\ wrecked' = "no"
  BY <1>2 DEF StartLoad
<1>4. Chains' /\ Others(c) /\ count'[c] = 0 /\ Len(blocks'[c]) = 1
  BY <1>1, <1>3, Emptying
<1>5. CollTypeOK' /\ SlotsMatchCount'
  <2>1. SlotsMatchCount'
    BY <1>3, <1>4 DEF SlotsMatchCount, Chains, Shape
  <2>2. /\ count' \in [All -> Nat]
        /\ blocks' \in [All -> Seq([Slots -> Items \cup {Wild}]) \ {<< >>}]
    BY <1>4 DEF Chains, Chain, Block
  <2>3. /\ cpc' \in {"idle", "load"} /\ dst' \in All /\ src' \in All
        /\ cn' \in 0..MaxT /\ pos' \in Nat /\ z' \in Nat /\ wrecked' = "no"
    BY <1>1, <1>3, CollAssumption
  <2> QED
    BY <2>1, <2>2, <2>3 DEF CollTypeOK
<1>6. count'[Rest] = count[Rest] /\ count'[d] = count[d]
  BY <1>1, <1>4 DEF Others
<1>7. LoadFacts'
  <2>1. count[d] \in Nat
    BY <1>1 DEF Chains
  <2>2. count'[c] = (Len(blocks'[c]) - 1) * MaxT + 0
    BY <1>4, CollAssumption
  <2> QED
    BY <1>3, <1>4, <1>6, <2>1, <2>2 DEF LoadFacts
<1>8. RebuildFacts' /\ StarvedFacts' /\ (cpc' = "idle" => count'[Rest] = 0)
  BY <1>3, <1>6 DEF RebuildFacts, StarvedFacts
<1> QED
  BY <1>3, <1>4, <1>5, <1>7, <1>8 DEF CollInv

LEMMA WreckKeepsInv ==
  ASSUME CollInv, NEW why \in {"index", "alias", "memory"}, Wreck(why),
         cpc # "starved"
  PROVE  CollInv'
  BY DEF CollInv, CollTypeOK, SlotsMatchCount, LoadFacts, RebuildFacts,
         StarvedFacts, Wreck, Walk

LEMMA LoadAdds ==
  ASSUME CollInv, LoadStep, ~Wreck("memory")
  PROVE  CollInv' /\ Others(dst) /\ UNCHANGED <<cpc, dst, src>>
<1> DEFINE n == count[dst]
           grow == cn >= MaxT
           k == IF grow THEN 0 ELSE cn
           i == Walk(src, n)
           cs == Put(blocks[dst], grow, k, i)
<1>1. /\ Chains /\ dst \in All /\ src \in All /\ dst # src /\ dst # Rest
      /\ n \in Nat /\ count[src] \in Nat /\ n < count[src]
      /\ blocks[dst] \in Chain /\ Shape(blocks[dst], n)
      /\ cn \in 0..MaxT /\ wrecked = "no" /\ cpc = "load"
      /\ n = (Len(blocks[dst]) - 1) * MaxT + cn
  BY InvChains, CollAssumption
     DEF CollInv, LoadFacts, CollTypeOK, LoadStep, Chains, All
<1>2. Safe(src, n) /\ i \in Items
  BY <1>1, SafeBelowCount
<1>3. /\ blocks' = [blocks EXCEPT ![dst] = cs]
      /\ count' = [count EXCEPT ![dst] = n + 1]
      /\ cn' = k + 1 /\ UNCHANGED <<cpc, dst, src, pos, z, wrecked>>
  BY <1>2 DEF LoadStep
<1>4. k \in Slots /\ grow \in BOOLEAN /\ Next0(blocks[dst], n, grow, k)
  <2>1. Len(blocks[dst]) \in Nat
    BY <1>1 DEF Chain
  <2>2. Len(blocks[dst]) * MaxT = (Len(blocks[dst]) - 1) * MaxT + MaxT
    BY <2>1, CollAssumption
  <2>3. CASE grow
    BY <1>1, <2>1, <2>2, <2>3, CollAssumption DEF Slots, Next0
  <2>4. CASE ~grow
    BY <1>1, <2>1, <2>4, CollAssumption DEF Slots, Next0
  <2> QED
    BY <2>3, <2>4
<1> HIDE DEF n, i
<1>5. /\ cs \in Chain /\ Shape(cs, n + 1) /\ At(cs, n) = i
      /\ Len(cs) = IF grow THEN Len(blocks[dst]) + 1 ELSE Len(blocks[dst])
      /\ \A p \in Nat : p < n => At(cs, p) = At(blocks[dst], p)
  <2> HIDE DEF grow, k
  <2> QED
    BY <1>1, <1>2, <1>4, PutExtends
<1> HIDE DEF cs
<1>6. Chains' /\ count'[dst] = n + 1 /\ blocks'[dst] = cs /\ Others(dst)
  <2>1. n + 1 \in Nat
    BY <1>1
  <2> QED
    BY <1>1, <1>3, <1>5, <2>1, OneChain
<1>7. CollTypeOK' /\ SlotsMatchCount'
  BY <1>1, <1>3, <1>4, <1>6, CollAssumption
     DEF CollInv, CollTypeOK, SlotsMatchCount, Chains, Chain, Block, Shape, Slots
<1>8. n + 1 = (Len(cs) - 1) * MaxT + (k + 1)
  <2>1. Len(blocks[dst]) \in Nat
    BY <1>1 DEF Chain
  <2> QED
    BY <1>4, <1>5, <2>1, CollAssumption DEF Next0, Slots
<1>9. \A p \in 0..n : At(cs, p) = At(blocks[src], p)
  <2> TAKE p \in 0..n
  <2>1. CASE p = n
    BY <1>5, <2>1 DEF i, Walk, At
  <2>2. CASE p < n
    BY <1>1, <1>5, <2>2 DEF CollInv, LoadFacts, Walk, At, n
  <2> QED
    BY <1>1, <2>1, <2>2
<1>10. LoadFacts'
  <2>1. dst \in ListNames /\ (src = Rest \/ count'[Rest] = 0)
    BY <1>1, <1>6, CollAssumption DEF CollInv, LoadFacts, Others, All
  <2>2. count'[src] = count[src] /\ blocks'[src] = blocks[src]
    BY <1>1, <1>6 DEF Others
  <2>3. \A p \in 0..count'[dst] - 1 : Walk(dst, p)' = Walk(src, p)'
    BY <1>1, <1>3, <1>6, <1>9, <2>2 DEF Walk, At
  <2> QED
    BY <1>1, <1>3, <1>6, <1>8, <2>1, <2>2, <2>3 DEF LoadFacts
<1> QED
  BY <1>1, <1>3, <1>6, <1>7, <1>10 DEF CollInv, RebuildFacts, StarvedFacts

LEMMA LoadKeepsInv ==
  ASSUME CollInv, LoadStep
  PROVE  CollInv' /\ Others(dst) /\ UNCHANGED <<cpc, dst, src>>
<1>1. CASE Wreck("memory")
  <2>1. cpc # "starved"
    BY DEF LoadStep
  <2>2. CollInv'
    BY <1>1, <2>1, WreckKeepsInv
  <2> QED
    BY <1>1, <2>2 DEF Wreck, Others
<1>2. CASE ~Wreck("memory")
  BY <1>2, LoadAdds
<1> QED
  BY <1>1, <1>2

(* A step of the loop of remove() to which no block has been refused.      *)
LEMMA RebuildAdds ==
  ASSUME CollInv, RebuildStep, cpc' = "rebuild"
  PROVE  /\ CollInv' /\ UNCHANGED <<dst, src>> /\ cpc = "rebuild"
         /\ UNCHANGED <<count, blocks>> \/ Others(Rest)
<1>0. cpc = "rebuild" /\ wrecked = "no" /\ z < count[dst]
  BY DEF RebuildStep, Rebuilding, Wreck
<1>1. /\ Chains /\ dst \in ListNames /\ dst \in All /\ Rest \in All /\ dst # Rest
      /\ cpc = "rebuild" /\ wrecked = "no" /\ z \in Nat /\ z < count[dst]
      /\ pos \in Nat /\ pos < count[dst] /\ count[dst] \in Nat /\ count[Rest] \in Nat
      /\ count[Rest] = IF z <= pos THEN z ELSE z - 1
      /\ \A q \in 0..pos - 1 : Walk(dst, q) # Walk(dst, pos)
      /\ \A p \in 0..count[Rest] - 1 :
           Walk(Rest, p) = Walk(dst, IF p < pos THEN p ELSE p + 1)
  BY <1>0, InvChains, CollAssumption
     DEF CollInv, RebuildFacts, CollTypeOK, Chains, All
<1>2. Safe(dst, z) /\ Walk(dst, z) \in Items
  BY <1>1, SafeBelowCount
<1>3. /\ IF z # pos THEN Added(Rest, Walk(dst, z)) ELSE UNCHANGED <<count, blocks>>
      /\ z' = z + 1 /\ UNCHANGED <<cpc, dst, src, cn, pos, wrecked>>
  BY <1>2 DEF RebuildStep
<1>4. CASE z = pos
  <2>1. UNCHANGED <<count, blocks>>
    BY <1>3, <1>4
  <2>2. CollTypeOK' /\ SlotsMatchCount'
    <3>1. count' = count /\ blocks' = blocks /\ z' \in Nat
      BY <1>1, <1>3, <2>1
    <3>2. CollTypeOK'
      BY <1>3, <3>1 DEF CollInv, CollTypeOK
    <3>3. SlotsMatchCount'
      BY <1>3, <3>1 DEF CollInv, SlotsMatchCount
    <3> QED
      BY <3>2, <3>3
  <2>3. RebuildFacts'
    BY <1>1, <1>3, <1>4, <2>1 DEF RebuildFacts, Walk
  <2> QED
    BY <1>1, <1>3, <2>1, <2>2, <2>3 DEF CollInv, LoadFacts, StarvedFacts
<1>5. CASE z # pos
  <2>1. /\ Chains' /\ Others(Rest) /\ count'[Rest] = count[Rest] + 1
        /\ At(blocks'[Rest], count[Rest]) = Walk(dst, z)
        /\ \A p \in Nat : p < count[Rest] => Walk(Rest, p)' = Walk(Rest, p)
    BY <1>1, <1>2, <1>3, <1>5, Adding
  <2>2. count'[dst] = count[dst] /\ blocks'[dst] = blocks[dst]
    BY <1>1, <2>1 DEF Others
  <2>3. CollTypeOK' /\ SlotsMatchCount'
    <3>1. z' \in Nat
      BY <1>1, <1>3
    <3> QED
      BY <1>3, <2>1, <3>1
       DEF CollInv, CollTypeOK, SlotsMatchCount, Chains, Chain, Block, Shape
  <2>4. z = IF count[Rest] < pos THEN count[Rest] ELSE count[Rest] + 1
    BY <1>1, <1>5
  <2>5. \A p \in 0..count[Rest] :
          Walk(Rest, p)' = Walk(dst, IF p < pos THEN p ELSE p + 1)
    <3> TAKE p \in 0..count[Rest]
    <3>1. CASE p = count[Rest]
      BY <2>1, <2>4, <3>1 DEF Walk, At
    <3>2. CASE p < count[Rest]
      BY <1>1, <2>1, <3>2
    <3> QED
      BY <1>1, <3>1, <3>2
  <2>6. RebuildFacts'
    <3>1. \A q : Walk(dst, q)' = Walk(dst, q)
      BY <1>3, <2>2 DEF Walk
    <3> HIDE DEF Walk
    <3>2. /\ dst' \in ListNames /\ pos' < count'[dst'] /\ z' <= count'[dst']
          /\ count'[Rest] = IF z' <= pos' THEN z' ELSE z' - 1
      BY <1>1, <1>3, <1>5, <2>1, <2>2
    <3>3. /\ \A q \in 0..pos' - 1 : Walk(dst, q)' # Walk(dst, pos)'
          /\ \A p \in 0..count'[Rest] - 1 :
               Walk(Rest, p)' = Walk(dst, IF p < pos THEN p ELSE p + 1)'
      <4>1. Walk(dst, pos)' = Walk(dst, pos)
        BY <1>3, <2>2 DEF Walk
      <4>2. \A p : Walk(dst, IF p < pos THEN p ELSE p + 1)' = Walk(dst, IF p < pos THEN p ELSE p + 1)
        BY <1>3, <2>2 DEF Walk
      <4> QED
        BY <1>1, <1>3, <2>1, <2>5, <3>1, <4>1, <4>2
    <3> QED
      BY <3>2, <3>3 DEF RebuildFacts
  <2> QED
    BY <1>1, <1>3, <2>1, <2>3, <2>6 DEF CollInv, LoadFacts, StarvedFacts
<1> QED
  BY <1>4, <1>5

(* ... and one after which, or before which, a block has been refused.     *)
LEMMA RebuildStarves ==
  ASSUME CollInv, RebuildStep, cpc' # "rebuild"
  PROVE  /\ CollInv' /\ UNCHANGED <<dst, src>> /\ cpc' = "starved"
         /\ cpc \in {"rebuild", "starved"}
         /\ UNCHANGED <<count, blocks>> \/ Others(Rest)
<1>1. /\ Chains /\ dst \in ListNames /\ dst \in All /\ Rest \in All /\ dst # Rest
      /\ cpc \in {"rebuild", "starved"} /\ wrecked = "no" /\ z \in Nat /\ z < count[dst]
      /\ pos \in Nat /\ pos < count[dst] /\ count[dst] \in Nat /\ count[Rest] \in Nat
      /\ \A q \in 0..pos - 1 : Walk(dst, q) # Walk(dst, pos)
  BY InvChains, CollAssumption
     DEF CollInv, RebuildFacts, StarvedFacts, CollTypeOK, RebuildStep, Rebuilding,
         Chains, All
<1>2. Safe(dst, z) /\ Walk(dst, z) \in Items
  BY <1>1, SafeBelowCount
<1>3. /\ z' = z + 1 /\ UNCHANGED <<dst, src, cn, pos, wrecked>> /\ cpc' = "starved"
      /\ \/ z # pos /\ Added(Rest, Walk(dst, z)) /\ cpc = "starved"
         \/ z # pos /\ UNCHANGED <<count, blocks>>
         \/ UNCHANGED <<count, blocks>> /\ cpc = "starved"
  BY <1>1, <1>2 DEF RebuildStep, NoBlock
<1>4. PICK f : SomeKept(f) /\ count[Rest] <= z
  <2>1. CASE cpc = "starved"
    BY <2>1 DEF CollInv, StarvedFacts
  <2>2. CASE cpc = "rebuild"
    <3> DEFINE n == count[Rest]
               g == [a \in 1..n |-> IF a - 1 < pos THEN a ELSE a + 1]
    <3>1. /\ n = IF z <= pos THEN z ELSE z - 1
          /\ \A p \in 0..n - 1 : Walk(Rest, p) = Walk(dst, IF p < pos THEN p ELSE p + 1)
      BY <2>2 DEF CollInv, RebuildFacts
    <3>2. g \in [1..n -> 1..z] /\ Abstract!Chosen(g, n, pos + 1)
      BY <1>1, <3>1 DEF Abstract!Chosen
    <3>3. \A a \in 1..n : Walk(Rest, a - 1) = Walk(dst, g[a] - 1)
      <4> TAKE a \in 1..n
      <4>1. a - 1 \in 0..n - 1 /\ g[a] - 1 = IF a - 1 < pos THEN a - 1 ELSE (a - 1) + 1
        BY <1>1
      <4> QED
        BY <3>1, <4>1
    <3> HIDE DEF g
    <3>4. SomeKept(g)
      BY <3>2, <3>3 DEF SomeKept
    <3>5. n <= z
      BY <1>1, <3>1
    <3> QED
      BY <3>4, <3>5
  <2> QED
    BY <1>1, <2>1, <2>2
<1>5. Chains' /\ (UNCHANGED <<count, blocks>> \/ Others(Rest))
  <2>1. CASE Added(Rest, Walk(dst, z))
    BY <1>1, <1>2, <2>1, Adding
  <2>2. CASE UNCHANGED <<count, blocks>>
    BY <1>1, <2>2 DEF Chains
  <2> QED
    BY <1>3, <2>1, <2>2
<1>6. count'[dst] = count[dst] /\ \A p : Walk(dst, p)' = Walk(dst, p)
  BY <1>1, <1>3, <1>5 DEF Others, Walk
<1>7. CollTypeOK' /\ SlotsMatchCount'
  <2>1. z' \in Nat
    BY <1>1, <1>3
  <2> QED
    BY <1>3, <1>5, <2>1
     DEF CollInv, CollTypeOK, SlotsMatchCount, Chains, Chain, Block, Shape
<1>8. count'[Rest] <= z' /\ \E g : SomeKept(g)'
  <2>1. CASE UNCHANGED <<count, blocks>>
    <3>1. SomeKept(f)'
      <4>1. f \in [1..count[Rest] -> 1..z + 1]
        BY <1>1, <1>4 DEF SomeKept
      <4>2. \A p : Walk(Rest, p)' = Walk(Rest, p)
        BY <2>1 DEF Walk
      <4> QED
        BY <1>3, <1>4, <1>6, <2>1, <4>1, <4>2 DEF SomeKept
    <3> QED
      BY <1>1, <1>3, <1>4, <2>1, <3>1
  <2>2. CASE z # pos /\ Added(Rest, Walk(dst, z))
    <3>0. PICK n, i, g :
            /\ n = count[Rest] /\ i = Walk(dst, z)
            /\ g = [a \in 1..n + 1 |-> IF a = n + 1 THEN z + 1 ELSE f[a]]
      OBVIOUS
    <3>1. /\ count'[Rest] = n + 1
          /\ \A p \in Nat : p <= n =>
               Walk(Rest, p)' = IF p = n THEN i ELSE Walk(Rest, p)
      <4>1. /\ count'[Rest] = n + 1 /\ At(blocks'[Rest], n) = i
            /\ \A p \in Nat : p < n => Walk(Rest, p)' = Walk(Rest, p)
        BY <1>1, <1>2, <2>2, <3>0, Adding
      <4>2. \A p : (Walk(Rest, p))' = At(blocks'[Rest], p)
        BY DEF Walk, At
      <4> QED
        BY <1>1, <3>0, <4>1, <4>2
    <3>2. /\ f \in [1..n -> 1..z] /\ Abstract!Chosen(f, n, pos + 1) /\ n \in Nat
          /\ \A a \in 1..n : Walk(Rest, a - 1) = Walk(dst, f[a] - 1)
      BY <1>1, <1>4, <3>0 DEF SomeKept
    <3>3. g \in [1..n + 1 -> 1..z + 1] /\ Abstract!Chosen(g, n + 1, pos + 1)
      <4>1. \A a \in 1..n : f[a] \in 1..z /\ g[a] = f[a]
        <5> TAKE a \in 1..n
        <5>1. a \in 1..n + 1 /\ a # n + 1
          BY <3>2
        <5>2. f[a] \in 1..z
          BY <3>2
        <5> QED
          BY <3>0, <5>1, <5>2
      <4>2. n + 1 \in 1..n + 1 /\ g[n + 1] = z + 1 /\ z + 1 # pos + 1
        BY <1>1, <2>2, <3>0, <3>2
      <4>3. g \in [1..n + 1 -> 1..z + 1]
        BY <1>1, <3>0, <3>2, <4>1, <4>2
      <4>4. \A a \in 1..n + 1 : g[a] # pos + 1
        BY <3>2, <4>1, <4>2 DEF Abstract!Chosen
      <4>5. \A a, b \in 1..n + 1 : a < b => g[a] < g[b]
        <5> SUFFICES ASSUME NEW a \in 1..n + 1, NEW b \in 1..n + 1, a < b
                     PROVE  g[a] < g[b]
          OBVIOUS
        <5>1. a \in 1..n /\ (b = n + 1 \/ b \in 1..n)
          BY <3>2
        <5>2. CASE b = n + 1
          BY <1>1, <4>1, <4>2, <5>1, <5>2
        <5>3. CASE b \in 1..n
          BY <3>2, <4>1, <5>1, <5>3 DEF Abstract!Chosen
        <5> QED
          BY <5>1, <5>2, <5>3
      <4> QED
        BY <4>3, <4>4, <4>5 DEF Abstract!Chosen
    <3>4. \A a \in 1..n + 1 : Walk(Rest, a - 1)' = Walk(dst, g[a] - 1)
      <4> SUFFICES ASSUME NEW a \in 1..n + 1
                   PROVE  Walk(Rest, a - 1)' = Walk(dst, g[a] - 1)
        OBVIOUS
      <4>1. a - 1 \in Nat /\ a - 1 <= n /\ (a - 1 = n <=> a = n + 1)
        BY <3>2
      <4>2. CASE a = n + 1
        <5>1. g[a] - 1 = z /\ a - 1 = n
          BY <1>1, <3>0, <3>2, <4>2
        <5> QED
          BY <3>0, <3>1, <4>1, <5>1
      <4>3. CASE a # n + 1
        <5>1. a \in 1..n /\ g[a] = f[a]
          BY <3>0, <3>2, <4>3
        <5> QED
          BY <3>1, <3>2, <4>1, <4>3, <5>1
      <4> QED
        BY <4>2, <4>3
    <3>5. \A a \in 1..n + 1 : Walk(Rest, a - 1)' = Walk(dst, g[a] - 1)'
      BY <1>6, <3>4
    <3>6. SomeKept(g)'
      <4>1. /\ g \in [1..count'[Rest] -> 1..z']
            /\ Abstract!Chosen(g, count'[Rest], pos' + 1)
        BY <1>3, <3>1, <3>3
      <4> QED
        BY <3>1, <3>5, <4>1 DEF SomeKept
    <3> QED
      BY <1>1, <1>3, <1>4, <3>0, <3>1, <3>6
  <2> QED
    BY <1>3, <2>1, <2>2
<1>9. StarvedFacts'
  <2>1. \A q : (Walk(dst, q))' = Walk(dst, q)
    BY <1>6
  <2>2. (Walk(dst, pos))' = Walk(dst, pos)
    BY <1>3, <1>6 DEF Walk
  <2>3. \A q \in 0..pos' - 1 : (Walk(dst, q))' # (Walk(dst, pos))'
    BY <1>1, <1>3, <2>1, <2>2
  <2>4. dst' \in ListNames /\ pos' < count'[dst'] /\ z' <= count'[dst']
    BY <1>1, <1>3, <1>6
  <2> QED
    BY <1>8, <2>3, <2>4 DEF StarvedFacts
<1> QED
  BY <1>1, <1>3, <1>5, <1>7, <1>9 DEF CollInv, LoadFacts, RebuildFacts

LEMMA RebuildKeepsInv ==
  ASSUME CollInv, RebuildStep
  PROVE  /\ CollInv' /\ UNCHANGED <<dst, src>>
         /\ cpc \in {"rebuild", "starved"} /\ cpc' \in {cpc, "starved"}
         /\ UNCHANGED <<count, blocks>> \/ Others(Rest)
  BY RebuildAdds, RebuildStarves

LEMMA LoadEndKeepsInv ==
  ASSUME CollInv, LoadEnd
  PROVE  CollInv' /\ Others(Rest) /\ cpc' = "idle" /\ wrecked' = wrecked
<1>1. Chains /\ Rest \in All /\ <<NewBlock>> \in Chain /\ Shape(<<NewBlock>>, 0)
  BY InvChains, EmptyChain DEF All
<1>2. Chains' /\ Others(Rest) /\ count'[Rest] = 0
  BY <1>1, OneChain DEF LoadEnd
<1>3. CollTypeOK' /\ SlotsMatchCount'
  BY <1>1, <1>2, CollAssumption
     DEF CollInv, CollTypeOK, SlotsMatchCount, Chains, Chain, Block, Shape, LoadEnd
<1> QED
  BY <1>2, <1>3 DEF CollInv, LoadFacts, RebuildFacts, StarvedFacts, LoadEnd

(* An operation that changes one collection while none of the loops runs.  *)
LEMMA IdleKeepsInv ==
  ASSUME CollInv, cpc = "idle", NEW c \in ListNames, Chains', Others(c),
         UNCHANGED <<cpc, dst, src, cn, pos, z, wrecked>>
  PROVE  CollInv'
<1>1. count'[Rest] = count[Rest]
  BY CollAssumption DEF Others, All
<1>2. CollTypeOK' /\ SlotsMatchCount'
  BY DEF CollInv, CollTypeOK, SlotsMatchCount, Chains, Chain, Block, Shape
<1> QED
  BY <1>1, <1>2 DEF CollInv, LoadFacts, RebuildFacts, StarvedFacts

-----------------------------------------------------------------------------
(* The operations of a caller, and what the caller then sees.              *)
LEMMA ContentsType ==
  ASSUME Chains, NEW c \in All
  PROVE  Contents(c) \in Seq(Items) /\ Len(Contents(c)) = count[c]
<1>1. Contents(c) = ListOf(blocks[c], count[c])
  BY DEF Contents, ListOf, Walk, At
<1> QED
  BY <1>1, ListType DEF Chains

LEMMA NoItems ==
  ASSUME NEW c \in All, count[c] = 0
  PROVE  Contents(c) = << >>
  BY DEF Contents

LEMMA AppendOp ==
  ASSUME CollInv, NEW c \in ListNames, NEW i \in Items, AppendTo(c, i)
  PROVE  /\ CollInv'
         /\ \/ UNCHANGED <<count, blocks, cpc, dst, src>>
            \/ Others(c) /\ Contents(c)' = Append(Contents(c), i)
<1>1. Chains /\ c \in All
  BY InvChains DEF All
<1>2. CASE Added(c, i)
  <2>1. Chains' /\ Others(c) /\ Contents(c)' = Append(Contents(c), i)
    BY <1>1, <1>2, Adding
  <2> QED
    BY <2>1, IdleKeepsInv DEF AppendTo, Idle, Loop
<1>3. CASE NoBlock(c)
  <2>1. Chains' /\ Others(c)
    BY <1>1, <1>3 DEF NoBlock, Chains, Others
  <2> QED
    BY <1>3, <2>1, IdleKeepsInv DEF AppendTo, NoBlock, Idle, Loop
<1> QED
  BY <1>2, <1>3 DEF AppendTo

LEMMA ClearOp ==
  ASSUME CollInv, NEW c \in ListNames, Clear(c)
  PROVE  /\ CollInv' /\ Others(c) /\ Contents(c)' = << >>
         /\ UNCHANGED cpc
<1>1. Chains /\ c \in All
  BY InvChains DEF All
<1>2. AllSafe(c)
  BY <1>1, SafeBelowCount DEF AllSafe, Chains
<1>3. Chains' /\ Others(c) /\ count'[c] = 0
  BY <1>1, <1>2, Emptying DEF Clear
<1>4. Contents(c)' = << >>
  BY <1>3 DEF Contents
<1> QED
  BY <1>2, <1>3, <1>4, IdleKeepsInv DEF Clear, Idle, Loop

LEMMA CreateOp ==
  ASSUME CollInv, NEW c \in ListNames, NEW i \in Items, Create(c, i)
  PROVE  CollInv' /\ Others(c) /\ Contents(c)' = <<i>>
<1> DEFINE bs == <<NewBlock>>
           cs == Put(bs, FALSE, 0, i)
<1>1. Chains /\ c \in All
  BY InvChains DEF All
<1>2. bs \in Chain /\ Shape(bs, 0) /\ Len(bs) = 1 /\ 0 \in Slots
  BY EmptyChain, CollAssumption DEF Slots
<1>3. Next0(bs, 0, FALSE, 0)
  BY <1>2, CollAssumption DEF Next0
<1>4. cs = <<[NewBlock EXCEPT ![0] = i]>>
  BY DEF Put
<1> HIDE DEF bs, cs
<1>5. cs \in Chain /\ Shape(cs, 1)
  <2>1. cs \in Chain /\ Shape(cs, 0 + 1)
    BY <1>2, <1>3, PutExtends DEF cs
  <2> QED
    BY <2>1
<1>6. ListOf(cs, 1) = <<i>>
  <2>1. ListOf(cs, 0 + 1) = Append(ListOf(bs, 0), i)
    BY <1>2, <1>3, ListPut DEF cs
  <2>2. ListOf(bs, 0) = << >>
    BY DEF ListOf
  <2>3. Append(<< >>, i) = <<i>> /\ 0 + 1 = 1
    OBVIOUS
  <2> QED
    BY <2>1, <2>2, <2>3
<1>7. Chains' /\ count'[c] = 1 /\ blocks'[c] = cs /\ Others(c)
  BY <1>1, <1>4, <1>5, OneChain DEF Create
<1>8. Contents(c)' = <<i>>
  BY <1>6, <1>7 DEF Contents, ListOf, Walk, At
<1> QED
  BY <1>7, <1>8, IdleKeepsInv DEF Create, Idle, Loop

LEMMA SetOp ==
  ASSUME CollInv, NEW c \in ListNames, NEW p \in Accepted(c), NEW i \in Items,
         NEW own \in BOOLEAN, SetElement(c, p, i, own)
  PROVE  /\ CollInv'
         /\ \/ UNCHANGED <<count, blocks, cpc, dst, src>>
            \/ /\ Others(c) /\ UNCHANGED cpc /\ p + 1 \in 1..count[c]
               /\ Contents(c)' = [Contents(c) EXCEPT ![p + 1] = i]
<1>1. Chains /\ c \in All /\ count[c] \in Nat /\ p \in Nat
  BY InvChains DEF All, Chains, Accepted
<1>2. ASSUME Safe(c, p), ~own PROVE
        /\ CollInv' /\ Others(c) /\ UNCHANGED cpc /\ p + 1 \in 1..count[c]
        /\ Contents(c)' = [Contents(c) EXCEPT ![p + 1] = i]
  <2> DEFINE cs == With(blocks[c], p, i)
  <2>1. /\ blocks' = [blocks EXCEPT ![c] = cs] /\ UNCHANGED count
        /\ Loop /\ UNCHANGED wrecked /\ Idle
    BY <1>2 DEF SetElement, Wreck, With
  <2>2. p < count[c] /\ blocks[c] \in Chain /\ Shape(blocks[c], count[c])
    BY <1>1, <1>2, SafeBelowCount DEF Chains
  <2>3. /\ cs \in Chain /\ Shape(cs, count[c])
        /\ ListOf(cs, count[c]) = [ListOf(blocks[c], count[c]) EXCEPT ![p + 1] = i]
    BY <1>1, <2>2, Replaced
  <2> HIDE DEF cs
  <2>4. count' = [count EXCEPT ![c] = count[c]]
    BY <1>1, <2>1 DEF Chains
  <2>5. Chains' /\ blocks'[c] = cs /\ count'[c] = count[c] /\ Others(c)
    BY <1>1, <2>1, <2>3, <2>4, OneChain
  <2>6. Contents(c)' = [Contents(c) EXCEPT ![p + 1] = i]
    BY <2>3, <2>5 DEF Contents, ListOf, Walk, At
  <2> QED
    BY <1>1, <2>1, <2>2, <2>5, <2>6, IdleKeepsInv DEF Idle, Loop
<1>3. ASSUME Wreck("alias") \/ Wreck("index")
      PROVE  CollInv' /\ UNCHANGED <<count, blocks, cpc, dst, src>>
  <2>1. cpc # "starved"
    BY DEF SetElement, Idle
  <2> QED
    BY <1>3, <2>1, WreckKeepsInv DEF Wreck
<1> QED
  BY <1>2, <1>3 DEF SetElement

LEMMA RemoveOp ==
  ASSUME CollInv, NEW c \in ListNames, NEW i \in Items, Remove(c, i)
  PROVE  CollInv' /\ UNCHANGED <<count, blocks>> /\ cpc = "idle" /\ cpc' = "rebuild"
<1>1. PICK p \in 0..count[c] - 1 :
        /\ count' = count /\ blocks' = blocks /\ cpc = "idle" /\ cpc' = "rebuild"
        /\ dst' = c /\ z' = 0 /\ src' = src /\ cn' = cn /\ wrecked' = wrecked
        /\ pos' = p
        /\ Walk(c, p) = i /\ \A q \in 0..p - 1 : Walk(c, q) # i
  BY DEF Remove, Idle
<1>2. Chains /\ c \in All /\ count[c] \in Nat /\ count[Rest] = 0
  BY <1>1, InvChains DEF All, Chains, CollInv
<1>3. CollTypeOK'
  BY <1>1, <1>2 DEF CollInv, CollTypeOK
<1>4. SlotsMatchCount'
  BY <1>1 DEF CollInv, SlotsMatchCount
<1>5. RebuildFacts'
  <2>1. \A q : Walk(c, q)' = Walk(c, q) /\ (Walk(dst, q))' = Walk(c, q)
    BY <1>1 DEF Walk
  <2>2. \A q \in 0..p - 1 : (Walk(dst, q))' # (Walk(dst, pos))'
    <3>1. (Walk(dst, pos))' = i
      BY <1>1 DEF Walk
    <3> QED
      BY <1>1, <2>1, <3>1
  <2>3. count'[Rest] = 0 /\ 0..count'[Rest] - 1 = {}
    BY <1>1, <1>2
  <2> QED
    BY <1>1, <1>2, <2>2, <2>3 DEF RebuildFacts
<1> QED
  BY <1>1, <1>3, <1>4, <1>5 DEF CollInv, LoadFacts, StarvedFacts
-----------------------------------------------------------------------------
LEMMA InitInv == CollInit => CollInv
<1> SUFFICES ASSUME CollInit PROVE CollInv
  OBVIOUS
<1>1. \A c \in All : count[c] = 0 /\ blocks[c] = <<NewBlock>>
  BY DEF CollInit
<1>2. CollTypeOK /\ SlotsMatchCount
  BY <1>1, EmptyChain, CollAssumption
     DEF CollInit, CollTypeOK, SlotsMatchCount, Chain, Block, Shape, All
<1> QED
  BY <1>1, <1>2 DEF CollInv, LoadFacts, RebuildFacts, StarvedFacts, CollInit, All

(* A step of a caller or of a loop, with what it assigns to.               *)
LEMMA StartOp ==
  ASSUME CollInv, NEW c \in ListNames, NEW d \in ListNames, Assign(c, d)
  PROVE  /\ CollInv' /\ count'[c] = 0 /\ Others(c) /\ cpc = "idle"
         /\ \/ count[d] > 0 /\ cpc' = "load" /\ dst' = c /\ src' = d
            \/ count[d] = 0 /\ cpc' = "idle"
  BY StartKeepsInv DEF Assign, Idle, CollInv, All

LEMMA RebuildEndOp ==
  ASSUME CollInv, RebuildEnd
  PROVE  /\ CollInv' /\ count'[dst] = 0 /\ Others(dst)
         /\ \/ count[Rest] > 0 /\ cpc' = "load" /\ dst' = dst /\ src' = Rest
            \/ count[Rest] = 0 /\ cpc' = "idle"
<1>1. cpc \in {"rebuild", "starved"} /\ wrecked = "no" /\ StartLoad(dst, Rest)
  BY DEF RebuildEnd, Rebuilding
<1>2. dst \in ListNames /\ Rest \in All /\ dst # Rest
  BY <1>1, CollAssumption DEF CollInv, RebuildFacts, StarvedFacts, All
<1> QED
  BY <1>1, <1>2, StartKeepsInv

LEMMA NextInv == CollInv /\ [CollNext]_collVars => CollInv'
<1> SUFFICES ASSUME CollInv, [CollNext]_collVars PROVE CollInv'
  OBVIOUS
<1>1. ASSUME NEW c \in ListNames, Clear(c) PROVE CollInv'
  BY <1>1, ClearOp
<1>2. ASSUME NEW c \in ListNames, NEW i \in Items, AppendTo(c, i) PROVE CollInv'
  BY <1>2, AppendOp
<1>3. ASSUME NEW c \in ListNames, NEW i \in Items, Create(c, i) PROVE CollInv'
  BY <1>3, CreateOp
<1>4. ASSUME NEW c \in ListNames, NEW i \in Items, Remove(c, i) PROVE CollInv'
  BY <1>4, RemoveOp
<1>5. ASSUME NEW c \in ListNames, NEW p \in Accepted(c), NEW i \in Items,
             NEW own \in BOOLEAN, SetElement(c, p, i, own)
      PROVE  CollInv'
  BY <1>5, SetOp
<1>6. ASSUME NEW c \in ListNames, NEW p \in Accepted(c), GetElement(c, p)
      PROVE  CollInv'
  BY <1>6, WreckKeepsInv DEF GetElement, Idle
<1>7. ASSUME NEW c \in ListNames, NEW d \in ListNames, Assign(c, d) PROVE CollInv'
  BY <1>7, StartOp
<1>8. CASE LoadStep
  BY <1>8, LoadKeepsInv
<1>9. CASE LoadEnd
  BY <1>9, LoadEndKeepsInv
<1>10. CASE RebuildStep
  BY <1>10, RebuildKeepsInv
<1>11. CASE RebuildEnd
  BY <1>11, RebuildEndOp
<1>12. CASE UNCHANGED collVars
  BY <1>12 DEF CollInv, CollTypeOK, SlotsMatchCount, LoadFacts, RebuildFacts,
               StarvedFacts, SomeKept, Walk, collVars
<1>13. ASSUME NEW c \in ListNames, Update(c) PROVE CollInv'
  BY <1>1, <1>2, <1>3, <1>4, <1>5, <1>6, <1>7, <1>13 DEF Update
<1> QED
  BY <1>8, <1>9, <1>10, <1>11, <1>12, <1>13 DEF CollNext, CollLoops

(* The inductive invariant holds for any block size, any number of         *)
(* collections and any sequence of operations.                             *)
THEOREM CollInvariant == CollSpec => []CollInv
<1>1. CollInit => CollInv
  BY InitInv
<1>2. CollInv /\ [CollNext]_collVars => CollInv'
  BY NextInv
<1> QED
  BY <1>1, <1>2, PTL DEF CollSpec

(* The variables of the collections stay in their types.                   *)
THEOREM CollTypeCorrect == CollSpec => []CollTypeOK
<1>1. CollInv => CollTypeOK
  BY DEF CollInv
<1> QED
  BY <1>1, CollInvariant, PTL

(* Exactly the slots below count hold items, and no loop of the container  *)
(* follows a pointer that is not one.                                      *)
THEOREM SlotsAreCounted == CollSpec => []SlotsMatchCount
<1>1. CollInv => SlotsMatchCount
  BY DEF CollInv
<1> QED
  BY <1>1, CollInvariant, PTL
-----------------------------------------------------------------------------
(* One list changes, the others stay.                                      *)
LEMMA VisibleBecomes ==
  ASSUME cpc # "load", NEW c \in ListNames, NEW s, Others(c),
         \/ cpc' # "load" /\ Contents(c)' = s
         \/ cpc' = "load" /\ dst' = c /\ Contents(src)' = s
  PROVE  Visible' = [Visible EXCEPT ![c] = s]
<1>1. \A d \in ListNames \ {c} : Contents(d)' = Contents(d)
  BY DEF Others, All, Contents, Walk
<1>2. Visible = [d \in ListNames |-> Contents(d)]
  BY DEF Visible
<1>3. Visible' = [d \in ListNames |-> IF d = c THEN s ELSE Contents(d)]
  <2>1. CASE cpc' # "load" /\ Contents(c)' = s
    BY <1>1, <2>1 DEF Visible
  <2>2. CASE cpc' = "load" /\ dst' = c /\ Contents(src)' = s
    BY <1>1, <2>2 DEF Visible
  <2> QED
    BY <2>1, <2>2
<1> QED
  BY <1>2, <1>3

(* operator= makes the target a copy as soon as it starts.                 *)
LEMMA VisibleCopied ==
  ASSUME CollInv, cpc # "load", NEW c \in ListNames, NEW d \in All, c # d,
         count'[c] = 0, Others(c),
         \/ count[d] > 0 /\ cpc' = "load" /\ dst' = c /\ src' = d
         \/ count[d] = 0 /\ cpc' = "idle"
  PROVE  Visible' = [Visible EXCEPT ![c] = Contents(d)]
<1>1. CASE count[d] > 0 /\ cpc' = "load" /\ dst' = c /\ src' = d
  <2>1. Contents(src)' = Contents(d)
    BY <1>1 DEF Others, Contents, Walk
  <2> QED
    BY <1>1, <2>1, VisibleBecomes
<1>2. CASE count[d] = 0 /\ cpc' = "idle"
  <2>1. Contents(c)' = << >> /\ Contents(d) = << >>
    BY <1>2 DEF Contents
  <2> QED
    BY <1>2, <2>1, VisibleBecomes
<1> QED
  BY <1>1, <1>2
(* Steps of a loop are not visible.                                        *)
LEMMA LoadHidden ==
  ASSUME CollInv, LoadStep
  PROVE  Visible' = Visible
<1>1. Others(dst) /\ UNCHANGED <<cpc, dst, src>>
  BY LoadKeepsInv
<1>2. cpc = "load" /\ src \in All \ {dst}
  BY DEF LoadStep, CollInv, LoadFacts, CollTypeOK
<1>3. Contents(src)' = Contents(src)
  BY <1>1, <1>2 DEF Others, Contents, Walk
<1>4. \A c \in ListNames \ {dst} : Contents(c)' = Contents(c)
  BY <1>1 DEF Others, All, Contents, Walk
<1> QED
  BY <1>1, <1>2, <1>3, <1>4 DEF Visible

LEMMA LoadEndHidden ==
  ASSUME CollInv, LoadEnd
  PROVE  Visible' = Visible
<1>1. Others(Rest) /\ cpc' = "idle" /\ cpc = "load"
  BY LoadEndKeepsInv DEF LoadEnd
<1>2. \A c \in ListNames : Contents(c)' = Contents(c)
  BY <1>1, CollAssumption DEF Others, All, Contents, Walk
<1>3. Contents(dst) = Contents(src)
  <2>1. /\ count[dst] = count[src] /\ count[dst] \in Nat
        /\ \A p \in 0..count[dst] - 1 : Walk(dst, p) = Walk(src, p)
    BY <1>1 DEF LoadEnd, CollInv, CollTypeOK, LoadFacts
  <2>2. \A p \in 1..count[dst] : p - 1 \in 0..count[dst] - 1
    BY <2>1
  <2>3. \A p \in 1..count[dst] : Walk(dst, p - 1) = Walk(src, p - 1)
    BY <2>1, <2>2
  <2> QED
    BY <2>1, <2>3 DEF Contents
<1> QED
  BY <1>1, <1>2, <1>3 DEF Visible

LEMMA RebuildHidden ==
  ASSUME CollInv, RebuildStep
  PROVE  Visible' = Visible
<1>1. /\ cpc # "load" /\ cpc' # "load"
      /\ UNCHANGED <<count, blocks>> \/ Others(Rest)
  BY RebuildKeepsInv
<1>2. \A c \in ListNames : Contents(c)' = Contents(c)
  BY <1>1, CollAssumption DEF Others, All, Contents, Walk
<1> QED
  BY <1>1, <1>2 DEF Visible

(* What remove() collected is the list without the first of the equal      *)
(* items.                                                                  *)
LEMMA RebuiltList ==
  ASSUME CollInv, cpc = "rebuild", z = count[dst]
  PROVE  /\ pos + 1 \in 1..Len(Contents(dst))
         /\ Abstract!First(Contents(dst), pos + 1)
         /\ Contents(Rest) = Abstract!Without(Contents(dst), pos + 1)
<1>1. /\ dst \in All /\ Chains /\ pos \in Nat /\ pos < count[dst]
      /\ count[dst] \in Nat /\ count[Rest] = count[dst] - 1
      /\ \A q \in 0..pos - 1 : Walk(dst, q) # Walk(dst, pos)
      /\ \A p \in 0..count[Rest] - 1 :
           Walk(Rest, p) = Walk(dst, IF p < pos THEN p ELSE p + 1)
  BY InvChains DEF CollInv, RebuildFacts, CollTypeOK, All, Chains
<1> DEFINE s == Contents(dst)
           n == count[dst]
<1>2. /\ Len(s) = n
      /\ \A p \in 1..n : s[p] = Walk(dst, p - 1)
  BY <1>1, ContentsType DEF Contents
<1> HIDE DEF s
<1>3. pos + 1 \in 1..Len(s)
  BY <1>1, <1>2
<1>4. Abstract!First(s, pos + 1)
  <2> SUFFICES ASSUME NEW q \in 1..(pos + 1) - 1 PROVE s[q] # s[pos + 1]
    BY DEF Abstract!First
  <2>1. q \in 1..n /\ q - 1 \in 0..pos - 1 /\ pos + 1 \in 1..n /\ (pos + 1) - 1 = pos
    BY <1>1
  <2> QED
    BY <1>1, <1>2, <2>1
<1>5. \A q \in 1..n - 1 :
        Walk(Rest, q - 1) = IF q < pos + 1 THEN s[q] ELSE s[q + 1]
  <2> TAKE q \in 1..n - 1
  <2>1. /\ q - 1 \in 0..count[Rest] - 1 /\ (q - 1 < pos <=> q < pos + 1)
        /\ q \in 1..n /\ q + 1 \in 1..n /\ (q - 1) + 1 = q /\ (q + 1) - 1 = q
    BY <1>1
  <2>2. Walk(Rest, q - 1) = Walk(dst, IF q - 1 < pos THEN q - 1 ELSE q)
    BY <1>1, <2>1
  <2>3. s[q] = Walk(dst, q - 1) /\ s[q + 1] = Walk(dst, q)
    BY <1>2, <2>1
  <2> QED
    BY <2>1, <2>2, <2>3
<1>6. Contents(Rest) = Abstract!Without(s, pos + 1)
  BY <1>1, <1>2, <1>5 DEF Contents, Abstract!Without
<1> QED
  BY <1>3, <1>4, <1>6 DEF s

(* What it collected after a block was refused.                            *)
LEMMA StarvedList ==
  ASSUME CollInv, cpc = "starved", z = count[dst], NEW s, s = Contents(dst)
  PROVE  \E p \in 1..Len(s), n \in 0..Len(s) :
           /\ Abstract!First(s, p)
           /\ \E f \in [1..n -> 1..Len(s)] :
                Abstract!Chosen(f, n, p) /\ Contents(Rest) = [a \in 1..n |-> s[f[a]]]
<1>1. /\ dst \in All /\ Rest \in All /\ Chains /\ pos \in Nat /\ pos < count[dst]
      /\ count[dst] \in Nat /\ count[Rest] \in Nat /\ count[Rest] <= count[dst]
      /\ \A q \in 0..pos - 1 : Walk(dst, q) # Walk(dst, pos)
  BY InvChains DEF CollInv, StarvedFacts, CollTypeOK, All, Chains
<1>2. Len(s) = count[dst] /\ \A p \in 1..count[dst] : s[p] = Walk(dst, p - 1)
  <2>1. Len(Contents(dst)) = count[dst]
    BY <1>1, ContentsType
  <2> QED
    BY <2>1 DEF Contents
<1>3. PICK f : SomeKept(f)
  BY DEF CollInv, StarvedFacts
<1>4. /\ f \in [1..count[Rest] -> 1..Len(s)]
      /\ Abstract!Chosen(f, count[Rest], pos + 1)
      /\ \A a \in 1..count[Rest] : Walk(Rest, a - 1) = Walk(dst, f[a] - 1)
  BY <1>2, <1>3 DEF SomeKept
<1>5. Abstract!First(s, pos + 1) /\ pos + 1 \in 1..Len(s)
  <2>1. ASSUME NEW q \in 1..(pos + 1) - 1 PROVE s[q] # s[pos + 1]
    <3>1. q \in 1..count[dst] /\ q - 1 \in 0..pos - 1 /\ pos + 1 \in 1..count[dst]
          /\ (pos + 1) - 1 = pos
      BY <1>1
    <3> QED
      BY <1>1, <1>2, <3>1
  <2> QED
    BY <1>1, <1>2, <2>1 DEF Abstract!First
<1>6. Contents(Rest) = [a \in 1..count[Rest] |-> s[f[a]]]
  <2>1. \A a \in 1..count[Rest] : Walk(Rest, a - 1) = s[f[a]]
    BY <1>2, <1>4
  <2> QED
    BY <2>1 DEF Contents
<1>7. count[Rest] \in 0..Len(s)
  BY <1>1, <1>2
<1> QED
  BY <1>4, <1>5, <1>6, <1>7

(* What a caller's operation does to the lists.                            *)
LEMMA CallImplements ==
  ASSUME CollInv, NEW b \in ListNames, Update(b)
  PROVE  /\ cpc = "idle" /\ cpc' # "starved"
         /\ (\E c \in ListNames : Abstract!Change(c)) \/ Visible' = Visible
<1> DEFINE Changed == \E c \in ListNames : Abstract!Change(c)
<1>1. Chains
  BY InvChains
<1>2. ASSUME NEW c \in ListNames, cpc = "idle"
      PROVE  /\ Visible[c] = Contents(c) /\ Contents(c) \in Seq(Items)
             /\ Len(Contents(c)) = count[c]
  BY <1>1, <1>2, ContentsType DEF Visible, All
<1>3. ASSUME NEW c \in ListNames, Clear(c) PROVE Changed
  <2>1. Visible' = [Visible EXCEPT ![c] = << >>]
    BY <1>3, ClearOp, VisibleBecomes DEF Clear, Idle, Wreck, Loop
  <2> QED
    BY <2>1 DEF Abstract!Change, Abstract!Empty, Abstract!Become
<1>4. ASSUME NEW c \in ListNames, NEW i \in Items, AppendTo(c, i)
      PROVE  Changed \/ Visible' = Visible
  <2>0. cpc = "idle" /\ cpc' = cpc
    BY <1>4 DEF AppendTo, Idle, Loop
  <2>1. CASE Others(c) /\ Contents(c)' = Append(Contents(c), i)
    <3>1. Visible' = [Visible EXCEPT ![c] = Append(Contents(c), i)]
      BY <2>0, <2>1, VisibleBecomes
    <3>2. Abstract!AppendItem(c)
      BY <1>2, <2>0, <3>1 DEF Abstract!AppendItem, Abstract!Become
    <3> QED
      BY <3>2 DEF Abstract!Change
  <2>2. CASE UNCHANGED <<count, blocks, cpc, dst, src>>
    BY <2>2 DEF Visible, Contents, Walk
  <2> QED
    BY <1>4, <2>1, <2>2, AppendOp
<1>5. ASSUME NEW c \in ListNames, NEW i \in Items, Create(c, i)
      PROVE  Changed
  <2>1. Visible' = [Visible EXCEPT ![c] = <<i>>]
    BY <1>5, CreateOp, VisibleBecomes DEF Create, Idle, Loop
  <2> QED
    BY <2>1 DEF Abstract!Change, Abstract!Construct, Abstract!Become
<1>6. ASSUME NEW c \in ListNames, NEW i \in Items, Remove(c, i)
      PROVE  Visible' = Visible
  <2>1. UNCHANGED <<count, blocks>> /\ cpc = "idle" /\ cpc' = "rebuild"
    BY <1>6, RemoveOp
  <2> QED
    BY <2>1 DEF Visible, Contents, Walk
<1>7. ASSUME NEW c \in ListNames, NEW p \in Accepted(c), NEW i \in Items,
             NEW own \in BOOLEAN, SetElement(c, p, i, own)
      PROVE  Changed \/ Visible' = Visible
  <2>1. CASE UNCHANGED <<count, blocks, cpc, dst, src>>
    BY <2>1 DEF Visible, Contents, Walk
  <2>2. CASE /\ Others(c) /\ UNCHANGED cpc /\ p + 1 \in 1..count[c]
             /\ Contents(c)' = [Contents(c) EXCEPT ![p + 1] = i]
    <3>1. cpc = "idle"
      BY <1>7 DEF SetElement, Idle
    <3>2. Visible' = [Visible EXCEPT ![c] = [Contents(c) EXCEPT ![p + 1] = i]]
      BY <2>2, <3>1, VisibleBecomes
    <3>3. Abstract!ReplaceItem(c)
      BY <1>2, <2>2, <3>1, <3>2 DEF Abstract!ReplaceItem, Abstract!Become
    <3> QED
      BY <3>3 DEF Abstract!Change
  <2> QED
    BY <1>7, <2>1, <2>2, SetOp
<1>8. ASSUME NEW c \in ListNames, NEW p \in Accepted(c), GetElement(c, p)
      PROVE  Visible' = Visible
  BY <1>8 DEF GetElement, Wreck, Visible, Contents, Walk
<1>9. ASSUME NEW c \in ListNames, NEW d \in ListNames, Assign(c, d)
      PROVE  Changed
  <2>1. Visible' = [Visible EXCEPT ![c] = Contents(d)] /\ cpc = "idle"
    <3>1. c # d /\ d \in All /\ "idle" # "load"
      BY <1>9 DEF Assign, All
    <3> QED
      BY <1>9, <3>1, StartOp, VisibleCopied
  <2>2. Visible' = [Visible EXCEPT ![c] = Visible[d]]
    BY <1>2, <2>1
  <2> QED
    BY <2>2 DEF Abstract!Change, Abstract!Copy, Abstract!Become
<1>10. cpc = "idle" /\ cpc' # "starved"
  BY DEF Update, Clear, AppendTo, Create, Remove, SetElement, GetElement, Assign,
         StartLoad, Wreck, Idle, Loop
<1> QED
  BY <1>3, <1>4, <1>5, <1>6, <1>7, <1>8, <1>9, <1>10 DEF Update

(* Every step changes the lists as ItemLists says, or not at all; memory   *)
(* is refused in the loop of remove().                                     *)
LEMMA StepImplements ==
  ASSUME CollInv, [CollNext]_collVars
  PROVE  [Abstract!ListsNext]_<<Visible, cpc = "starved">>
<1>1. ASSUME NEW c \in ListNames, Update(c)
      PROVE  [Abstract!ListsNext]_<<Visible, cpc = "starved">>
  <2>1. cpc = "idle" /\ cpc' # "starved"
    BY <1>1, CallImplements
  <2>2. CASE Visible' = Visible
    BY <2>1, <2>2
  <2>3. CASE \E d \in ListNames : Abstract!Change(d)
    BY <2>1, <2>3 DEF Abstract!ListsNext
  <2> QED
    BY <1>1, <2>2, <2>3, CallImplements
<1>2. CASE LoadStep \/ LoadEnd
  <2>1. Visible' = Visible
    BY <1>2, LoadHidden, LoadEndHidden
  <2>2. cpc = "load" /\ cpc' # "starved"
    BY <1>2 DEF LoadStep, LoadEnd, Wreck
  <2> QED
    BY <2>1, <2>2
<1>3. CASE RebuildStep
  <2>1. Visible' = Visible
    BY <1>3, RebuildHidden
  <2>2. cpc \in {"rebuild", "starved"} /\ cpc' \in {cpc, "starved"}
    BY <1>3, RebuildKeepsInv
  <2>3. CASE cpc' = cpc
    BY <2>1, <2>3
  <2>4. CASE cpc = "rebuild" /\ cpc' = "starved"
    BY <2>1, <2>4 DEF Abstract!ListsNext, Abstract!Refuse
  <2> QED
    BY <2>2, <2>3, <2>4
<1>4. CASE RebuildEnd
  <2>1. /\ cpc \in {"rebuild", "starved"} /\ z = count[dst]
        /\ dst \in ListNames /\ dst # Rest /\ Rest \in All
    BY <1>4, CollAssumption
       DEF RebuildEnd, Rebuilding, CollInv, RebuildFacts, StarvedFacts, All
  <2>2. Visible' = [Visible EXCEPT ![dst] = Contents(Rest)] /\ cpc' # "starved"
    BY <1>4, <2>1, RebuildEndOp, VisibleCopied
  <2>3. Visible[dst] = Contents(dst)
    BY <2>1 DEF Visible
  <2>4. CASE cpc = "rebuild"
    <3>1. Abstract!RemoveFirst(dst)
      BY <2>1, <2>2, <2>3, <2>4, RebuiltList DEF Abstract!RemoveFirst, Abstract!Become
    <3>2. \E c \in ListNames : Abstract!Change(c)
      BY <2>1, <3>1 DEF Abstract!Change
    <3> QED
      BY <2>2, <2>4, <3>2 DEF Abstract!ListsNext
  <2>5. CASE cpc = "starved"
    <3>1. Abstract!RemoveAndLose(dst)
      <4>1. PICK s : s = Contents(dst)
        OBVIOUS
      <4>2. \E p \in 1..Len(s), n \in 0..Len(s) :
              /\ Abstract!First(s, p)
              /\ \E f \in [1..n -> 1..Len(s)] :
                   /\ Abstract!Chosen(f, n, p)
                   /\ Contents(Rest) = [a \in 1..n |-> s[f[a]]]
        BY <2>1, <2>5, <4>1, StarvedList
      <4>3. PICK p \in 1..Len(s), n \in 0..Len(s) :
              /\ Abstract!First(s, p)
              /\ \E f \in [1..n -> 1..Len(s)] :
                   /\ Abstract!Chosen(f, n, p)
                   /\ Contents(Rest) = [a \in 1..n |-> s[f[a]]]
        BY <4>2
      <4>4. PICK f \in [1..n -> 1..Len(s)] :
              Abstract!Chosen(f, n, p) /\ Contents(Rest) = [a \in 1..n |-> s[f[a]]]
        BY <4>3
      <4>5. Visible' = [Visible EXCEPT ![dst] = [a \in 1..n |-> s[f[a]]]]
        BY <2>2, <4>4
      <4>6. Visible[dst] = s
        BY <2>3, <4>1
      <4>7. Abstract!Become(dst, [a \in 1..n |-> s[f[a]]])
        BY <4>5 DEF Abstract!Become
      <4>8. \E g \in [1..n -> 1..Len(s)] :
              Abstract!Chosen(g, n, p) /\ Abstract!Become(dst, [a \in 1..n |-> s[g[a]]])
        BY <4>4, <4>7
      <4>9. \E q \in 1..Len(s), o \in 0..Len(s) :
              /\ Abstract!First(s, q)
              /\ \E g \in [1..o -> 1..Len(s)] :
                   /\ Abstract!Chosen(g, o, q)
                   /\ Abstract!Become(dst, [a \in 1..o |-> s[g[a]]])
        BY <4>3, <4>8
      <4> QED
        BY <4>6, <4>9 DEF Abstract!RemoveAndLose
    <3> QED
      BY <2>1, <2>2, <2>5, <3>1 DEF Abstract!ListsNext
  <2> QED
    BY <2>1, <2>4, <2>5
<1>5. CASE UNCHANGED collVars
  BY <1>5 DEF collVars, Visible, Contents, Walk
<1> QED
  BY <1>1, <1>2, <1>3, <1>4, <1>5 DEF CollNext, CollLoops

(* The container implements lists: every operation, whatever the chains    *)
(* look like, does to the visible lists what ItemLists says.               *)
THEOREM CollectionImplementsLists == CollSpec => ListsImplemented
<1>1. CollInit => Abstract!ListsInit
  <2> SUFFICES ASSUME CollInit PROVE Abstract!ListsInit
    OBVIOUS
  <2>1. \A c \in ListNames : Contents(c) = << >>
    BY DEF CollInit, All, Contents
  <2> QED
    BY <2>1 DEF CollInit, Visible, Abstract!ListsInit
<1>2. CollInv /\ [CollNext]_collVars =>
        [Abstract!ListsNext]_<<Visible, cpc = "starved">>
  BY StepImplements
<1> QED
  BY <1>1, <1>2, CollInvariant, PTL DEF CollSpec, ListsImplemented, Abstract!ListsSpec
=============================================================================
