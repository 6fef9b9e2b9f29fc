--------------------------- MODULE SnmpCollection ---------------------------
(***************************************************************************)
(* The container template of TestCip4/include/snmp_pp/collect.h: a count   *)
(* and a chain of blocks of MAXT pointers, the first of which is a member  *)
(* of the collection.  An index is divided by MAXT for the block and the   *)
(* slot in it; the loops that fill or empty a collection keep a slot       *)
(* number of their own instead.                                            *)
(*                                                                         *)
(* Slots that were never written and slots whose item was deleted are both *)
(* Wild: the code writes no null pointers, so that such a slot cannot be   *)
(* told from one in use and reading it is undefined.                       *)
(***************************************************************************)
EXTENDS Integers, Sequences

CONSTANTS
  MaxT,        \* MAXT
  ListNames,   \* the collections of a program
  Rest,        \* the local variable newCollection of remove()
  Items, Wild, \* the contents of a slot
  MaxCount     \* bound on the items of a collection

ASSUME CollAssumption ==
  /\ MaxT \in Nat \ {0} /\ MaxCount \in Nat
  /\ Rest \notin ListNames /\ Wild \notin Items

All == ListNames \cup {Rest}

VARIABLES
  count, blocks,     \* of every collection
  cpc,               \* "idle", "load" (operator= or the copy constructor),
                     \* "rebuild" (remove()), "starved" (remove(), when the
                     \* memory for a block has been refused)
  dst, src, cn,      \* load: the loop's target, source and slot number
                     \* (Rest, Rest and 0 when there is no loop)
  pos, z,            \* rebuild: the item left out and the loop's index
  wrecked            \* "no", or what led to an undefined access: "walk" (a
                     \* loop), "index" or "alias" (an argument), "memory" (a
                     \* block that was refused, used without a test)

collVars == <<count, blocks, cpc, dst, src, cn, pos, z, wrecked>>

Slots == 0..MaxT - 1

NewBlock == [k \in Slots |-> Wild]

CollInit ==
  /\ count = [c \in All |-> 0]
  /\ blocks = [c \in All |-> <<NewBlock>>]
  /\ cpc = "idle" /\ wrecked = "no"
  /\ dst = Rest /\ src = Rest /\ cn = 0 /\ pos = 0 /\ z = 0

(* The pointer found by following next p / MAXT times.                     *)
Walk(c, p) == blocks[c][p \div MaxT + 1][p % MaxT]

Safe(c, p) == p \div MaxT < Len(blocks[c]) /\ Walk(c, p) # Wild

Wreck(why) ==
  /\ wrecked' = why
  /\ UNCHANGED <<count, blocks, cpc, dst, src, cn, pos, z>>

Idle == cpc = "idle" /\ wrecked = "no"
Loop == UNCHANGED <<cpc, dst, src, cn, pos, z>>

(* Put without following the chain.                                        *)
PutFirst(bs, grow, k, i) ==
  LET b == IF grow THEN Append(bs, NewBlock) ELSE bs
  IN  [b EXCEPT ![1][k] = i]

(* The chain bs with i in slot k of its last block, after a new block if   *)
(* `grow`.                                                                 *)
Put(bs, grow, k, i) ==
  LET b == IF grow THEN Append(bs, NewBlock) ELSE bs
  IN  [b EXCEPT ![Len(b)][k] = i]

(* operator +=, with `count' >= 0' for `count > 0'.                        *)
AddedAlwaysNew(c, i) ==
  /\ count' = [count EXCEPT ![c] = @ + 1]
  /\ blocks' = [blocks EXCEPT ![c] =
       Put(@, count[c] % MaxT = 0, count[c] % MaxT, i)]

Added(c, i) ==
  /\ count' = [count EXCEPT ![c] = @ + 1]
  /\ blocks' = [blocks EXCEPT ![c] =
       Put(@, count[c] > 0 /\ count[c] % MaxT = 0, count[c] % MaxT, i)]

(* ... where `new' gives no block: the item is left out, and the caller    *)
(* is not told.                                                            *)
NoBlock(c) ==
  count[c] > 0 /\ count[c] % MaxT = 0 /\ UNCHANGED <<count, blocks>>

(* operator +=                                                             *)
AppendTo(c, i) ==
  /\ Idle /\ count[c] < MaxCount
  /\ Added(c, i) \/ NoBlock(c)
  /\ Loop /\ UNCHANGED wrecked

(* clear(): the items, then every block but the first, which is left with  *)
(* dangling pointers.                                                      *)
Deleted(c) ==
  IF count[c] = 0 THEN blocks[c]
  ELSE <<[k \in Slots |-> IF k < count[c] THEN Wild ELSE blocks[c][1][k]]>>

AllSafe(c) == \A p \in 0..count[c] - 1 : Safe(c, p)

Clear(c) ==
  /\ Idle
  /\ \/ /\ AllSafe(c)
        /\ count' = [count EXCEPT ![c] = 0]
        /\ blocks' = [blocks EXCEPT ![c] = Deleted(c)]
        /\ Loop /\ UNCHANGED wrecked
     \/ ~AllSafe(c) /\ Wreck("walk")

(* The destructor and the constructor from one item.                       *)
Create(c, i) ==
  /\ Idle /\ AllSafe(c)
  /\ count' = [count EXCEPT ![c] = 1]
  /\ blocks' = [blocks EXCEPT ![c] = <<[NewBlock EXCEPT ![0] = i]>>]
  /\ Loop /\ UNCHANGED wrecked

(* operator= as far as its loop, when c is not d.                          *)
StartLoad(c, d) ==
  \/ /\ AllSafe(c)
     /\ count' = [count EXCEPT ![c] = 0]
     /\ blocks' = [blocks EXCEPT ![c] = Deleted(c)]
     /\ \/ count[d] > 0 /\ cpc' = "load" /\ dst' = c /\ src' = d
        \/ count[d] = 0 /\ cpc' = "idle" /\ dst' = Rest /\ src' = Rest
     /\ cn' = 0 /\ pos' = 0 /\ z' = 0
     /\ UNCHANGED wrecked
  \/ ~AllSafe(c) /\ Wreck("walk")

Assign(c, d) == Idle /\ c # d /\ StartLoad(c, d)

(* The loop without starting at slot 0 again in a new block.               *)
LoadStepKeepsSlot ==
  /\ cpc = "load" /\ wrecked = "no" /\ count[dst] < count[src]
  /\ LET k == cn % MaxT
     IN  /\ blocks' = [blocks EXCEPT ![dst] =
                         Put(@, cn > MaxT, k, Walk(src, count[dst]))]
         /\ count' = [count EXCEPT ![dst] = @ + 1]
         /\ cn' = cn + 1
         /\ UNCHANGED <<cpc, dst, src, pos, z, wrecked>>

LoadStep ==
  /\ cpc = "load" /\ wrecked = "no" /\ count[dst] < count[src]
  /\ LET k == IF cn >= MaxT THEN 0 ELSE cn
     IN  \/ /\ Safe(src, count[dst])
            /\ blocks' = [blocks EXCEPT ![dst] =
                            Put(@, cn >= MaxT, k, Walk(src, count[dst]))]
            /\ count' = [count EXCEPT ![dst] = @ + 1]
            /\ cn' = k + 1
            /\ UNCHANGED <<cpc, dst, src, pos, z, wrecked>>
         \/ ~Safe(src, count[dst]) /\ Wreck("walk")
         \/ cn >= MaxT /\ Wreck("memory")

(* The source is the caller's, or newCollection, which is destroyed.       *)
LoadEnd ==
  /\ cpc = "load" /\ wrecked = "no" /\ count[dst] = count[src]
  /\ cpc' = "idle" /\ dst' = Rest /\ src' = Rest /\ cn' = 0
  /\ count' = [count EXCEPT ![Rest] = 0]
  /\ blocks' = [blocks EXCEPT ![Rest] = <<NewBlock>>]
  /\ UNCHANGED <<pos, z, wrecked>>

(* remove(): find() the first item equal to i ...                          *)
Remove(c, i) ==
  /\ Idle /\ AllSafe(c)
  /\ \E p \in 0..count[c] - 1 :
       /\ Walk(c, p) = i /\ \A q \in 0..p - 1 : Walk(c, q) # i
       /\ pos' = p
  /\ cpc' = "rebuild" /\ dst' = c /\ z' = 0
  /\ UNCHANGED <<count, blocks, src, cn, wrecked>>

Rebuilding == cpc \in {"rebuild", "starved"} /\ wrecked = "no"

(* ... collect the others ...                                              *)
RebuildStep ==
  /\ Rebuilding /\ z < count[dst]
  /\ \/ /\ Safe(dst, z)
        /\ \/ z # pos /\ Added(Rest, Walk(dst, z)) /\ UNCHANGED cpc
           \/ z # pos /\ NoBlock(Rest) /\ cpc' = "starved"
           \/ z = pos /\ UNCHANGED <<count, blocks, cpc>>
        /\ z' = z + 1
        /\ UNCHANGED <<dst, src, cn, pos, wrecked>>
     \/ ~Safe(dst, z) /\ Wreck("walk")

(* ... and assign them.                                                    *)
RebuildEnd ==
  /\ Rebuilding /\ z = count[dst]
  /\ StartLoad(dst, Rest)

(* set_element(): the item of the slot is deleted before i is cloned, and  *)
(* i may be a reference to it (`own').                                     *)
SetElement(c, p, i, own) ==
  /\ Idle
  /\ \/ /\ Safe(c, p) /\ ~own
        /\ blocks' = [blocks EXCEPT ![c][p \div MaxT + 1][p % MaxT] = i]
        /\ UNCHANGED count /\ Loop /\ UNCHANGED wrecked
     \/ Safe(c, p) /\ own /\ Wreck("alias")
     \/ ~Safe(c, p) /\ Wreck("index")

(* get_element(), where it fails.                                          *)
GetElement(c, p) == Idle /\ ~Safe(c, p) /\ Wreck("index")

(* The indexes set_element() and get_element() do not refuse.              *)
Accepted(c) == 0..count[c]

Update(c) ==
  \/ Clear(c)
  \/ \E i \in Items : AppendTo(c, i) \/ Create(c, i) \/ Remove(c, i)
  \/ \E p \in Accepted(c), i \in Items, own \in BOOLEAN : SetElement(c, p, i, own)
  \/ \E p \in Accepted(c) : GetElement(c, p)
  \/ \E d \in ListNames : Assign(c, d)

CollLoops == LoadStep \/ LoadEnd \/ RebuildStep \/ RebuildEnd

CollNext == (\E c \in ListNames : Update(c)) \/ CollLoops

CollSpec == CollInit /\ [][CollNext]_collVars
-----------------------------------------------------------------------------
CollTypeOK ==
  /\ count \in [All -> Nat]
  /\ blocks \in [All -> Seq([Slots -> Items \cup {Wild}]) \ {<< >>}]
  /\ cpc \in {"idle", "load", "rebuild", "starved"}
  /\ dst \in All /\ src \in All /\ cn \in 0..MaxT
  /\ pos \in Nat /\ z \in Nat
  /\ wrecked \in {"no", "walk", "index", "alias", "memory"}

(* The slots below count, and no others, hold items: whatever sequence of  *)
(* operations filled, copied, rebuilt or emptied the chain, no item is     *)
(* leaked above count, no loop meets a dangling or null pointer, and the   *)
(* chain has no block too many or too few.                                 *)
SlotsMatchCount ==
  /\ wrecked # "walk"
  /\ \A c \in All :
       /\ (Len(blocks[c]) - 1) * MaxT < count[c] \/ Len(blocks[c]) = 1
       /\ count[c] <= Len(blocks[c]) * MaxT
       /\ \A b \in 1..Len(blocks[c]), k \in Slots :
            blocks[c][b][k] \in Items <=> (b - 1) * MaxT + k < count[c]

(* The list a caller sees.  During the loop of operator= the collection    *)
(* already counts as a copy of its source.                                 *)
Contents(c) == [p \in 1..count[c] |-> Walk(c, p - 1)]

Visible == [c \in ListNames |->
              IF cpc = "load" /\ c = dst THEN Contents(src) ELSE Contents(c)]

Abstract == INSTANCE ItemLists WITH lists <- Visible, short <- cpc = "starved"

(* The chain of blocks implements lists: items come back in the order in   *)
(* which they were put in, across every boundary of blocks, a copy equals  *)
(* its source, and remove() takes out the first equal item and no other.   *)
(* Where a block is refused, operator += changes nothing, and a remove()   *)
(* that meets it may lose items but neither adds nor reorders any.         *)
ListsImplemented == Abstract!ListsSpec

(* No index that set_element() and get_element() let through leads outside *)
(* the items: "-1 on failure" (collect.h:228, 247).                        *)
BadIndexRefused == wrecked # "index"
=============================================================================
