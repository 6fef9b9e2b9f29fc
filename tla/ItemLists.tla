----------------------------- MODULE ItemLists -----------------------------
(***************************************************************************)
(* What SnmpCollection promises to its users: lists of items that are      *)
(* appended to, changed in place, copied and emptied, and from which the   *)
(* first of several equal items is removed.  A remove() during which       *)
(* memory was refused keeps only some of the others, in their order.       *)
(***************************************************************************)
EXTENDS Integers, Sequences

CONSTANTS ListNames, Items

VARIABLES
  lists,  \* lists[c]: the items of the collection c
  short   \* has memory been refused to the remove() under way?

ListsInit == lists = [c \in ListNames |-> << >>] /\ short = FALSE

Become(c, s) == lists' = [lists EXCEPT ![c] = s]

Without(s, p) ==
  [q \in 1..Len(s) - 1 |-> IF q < p THEN s[q] ELSE s[q + 1]]

First(s, p) == \A q \in 1..p - 1 : s[q] # s[p]

AppendItem(c) == \E i \in Items : Become(c, Append(lists[c], i))

ReplaceItem(c) ==
  \E p \in 1..Len(lists[c]), i \in Items :
    Become(c, [lists[c] EXCEPT ![p] = i])

RemoveFirst(c) ==
  \E p \in 1..Len(lists[c]) :
    First(lists[c], p) /\ Become(c, Without(lists[c], p))

(* f numbers some places other than p, in their order.                     *)
Chosen(f, n, p) == \A a, b \in 1..n : f[a] # p /\ (a < b => f[a] < f[b])

RemoveAndLose(c) ==
  \E p \in 1..Len(lists[c]), n \in 0..Len(lists[c]) :
    /\ First(lists[c], p)
    /\ \E f \in [1..n -> 1..Len(lists[c])] :
         Chosen(f, n, p) /\ Become(c, [a \in 1..n |-> lists[c][f[a]]])

Construct(c) == \E i \in Items : Become(c, <<i>>)

Empty(c) == Become(c, << >>)

Copy(c, d) == Become(c, lists[d])

Change(c) ==
  \/ AppendItem(c) \/ ReplaceItem(c) \/ RemoveFirst(c)
  \/ Construct(c) \/ Empty(c) \/ \E d \in ListNames : Copy(c, d)

Refuse == ~short /\ short' = TRUE /\ UNCHANGED lists

ListsNext ==
  \/ ~short /\ short' = FALSE /\ \E c \in ListNames : Change(c)
  \/ Refuse
  \/ short /\ short' = FALSE /\ \E c \in ListNames : RemoveAndLose(c)

ListsSpec == ListsInit /\ [][ListsNext]_<<lists, short>>
=============================================================================
