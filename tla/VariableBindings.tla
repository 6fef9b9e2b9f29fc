-------------------------- MODULE VariableBindings --------------------------
(***************************************************************************)
(* The variable bindings of TestCip4/include/snmp_pp: a Vb (vb.h) owns the *)
(* value it points to, a Pdu (pdu.h) owns an array of Vbs, and copying     *)
(* either clones the values.                                               *)
(***************************************************************************)
EXTENDS Integers

CONSTANTS
  BoundValues,   \* the values
  NoBinding,     \* no value, and an address with no object
  PduMax,        \* bound on the Vbs of the Pdu
  OwnVbs         \* the number of Vbs outside the Pdu

ASSUME BindingAssumption ==
  PduMax \in Nat \ {0} /\ OwnVbs \in Nat \ {0} /\ NoBinding \notin BoundValues

(* 0 is a value cloned for the caller, 1..PduMax are the Vbs of the Pdu.   *)
Places  == 0..PduMax + OwnVbs
Own     == PduMax + 1..PduMax + OwnVbs
Objects == 1..PduMax + OwnVbs + 2    \* the addresses of values
Null    == 0

VARIABLES
  heap,      \* heap[o]: the value at o
  place,     \* place[p]: iv_vb_value and exception_status
  vbCount,   \* vb_count of the Pdu
  means      \* history: the value that should be found at each place

bindVars == <<heap, place, vbCount, means>>

Unbound == [obj |-> Null, exception |-> FALSE]

BindInit ==
  /\ heap = [o \in Objects |-> NoBinding] /\ place = [p \in Places |-> Unbound]
  /\ vbCount = 0 /\ means = [p \in Places |-> NoBinding]

InUse   == Own \cup 1..vbCount
ValueAt(p) == IF place[p].obj = Null THEN NoBinding ELSE heap[place[p].obj]

Freed(p) ==
  IF place[p].obj = Null THEN heap ELSE [heap EXCEPT ![place[p].obj] = NoBinding]

NewObject(h) == CHOOSE o \in Objects : h[o] = NoBinding

(* The value that was there is not freed.                                  *)
StoreUnfreed(p, v, exception) ==
  /\ IF v = NoBinding
     THEN heap' = heap /\ place' = [place EXCEPT ![p] = [obj |-> Null, exception |-> exception]]
     ELSE LET o == NewObject(heap)
          IN  /\ heap' = [heap EXCEPT ![o] = v]
              /\ place' = [place EXCEPT ![p] = [obj |-> o, exception |-> exception]]
  /\ means' = [means EXCEPT ![p] = v]

(* free_vb(), and a new object for the new value.                          *)
Store(p, v, exception) ==
  /\ LET h == Freed(p)
         o == IF v = NoBinding THEN Null ELSE NewObject(h)
     IN  /\ heap' = IF o = Null THEN h ELSE [h EXCEPT ![o] = v]
         /\ place' = [place EXCEPT ![p] = [obj |-> o, exception |-> exception]]
  /\ means' = [means EXCEPT ![p] = v]

(* set_value() and set_null(), also of a Vb of the Pdu through operator[]. *)
SetValue(p, v) == Store(p, v, FALSE) /\ UNCHANGED vbCount

SetException(p) == Store(p, NoBinding, TRUE) /\ UNCHANGED vbCount

(* operator= that copies the pointer.                                      *)
CopyShared(p, q) ==
  /\ p # q /\ heap' = Freed(p)
  /\ place' = [place EXCEPT ![p] = place[q]]
  /\ means' = [means EXCEPT ![p] = means[q]]
  /\ UNCHANGED vbCount

(* operator=, the copy constructor, clone(), and get_vb() and set_vb() of  *)
(* a Pdu.                                                                  *)
CopyVb(p, q) ==
  p # q /\ Store(p, ValueAt(q), place[q].exception) /\ UNCHANGED vbCount

(* clone_value() gives the caller an object of its own, ...                *)
CloneValue(q) ==
  place[0].obj = Null /\ Store(0, ValueAt(q), FALSE) /\ UNCHANGED vbCount

(* ... which it deletes after use.                                         *)
DeleteClone == place[0].obj # Null /\ Store(0, NoBinding, FALSE) /\ UNCHANGED vbCount

(* Pdu::operator+= appends a copy.                                         *)
AppendVb(q) ==
  /\ vbCount < PduMax /\ vbCount' = vbCount + 1
  /\ Store(vbCount + 1, ValueAt(q), place[q].exception)

(* delete_vb(), trim() for the last one, and clear().                      *)
DeleteVb(k) ==
  LET Shifted(f, last) ==
        [p \in Places |-> IF p \in k..vbCount - 1 THEN f[p + 1]
                          ELSE IF p = vbCount THEN last ELSE f[p]]
  IN  /\ heap' = Freed(k) /\ vbCount' = vbCount - 1
      /\ place' = Shifted(place, Unbound)
      /\ means' = Shifted(means, NoBinding)

BindNext ==
  \/ \E p \in InUse :
       \/ \E v \in BoundValues \cup {NoBinding} : SetValue(p, v)
       \/ SetException(p) \/ CloneValue(p) \/ AppendVb(p)
       \/ \E q \in InUse \cup {0} : CopyVb(p, q)
  \/ DeleteClone
  \/ \E k \in 1..vbCount : DeleteVb(k)

BindSpec == BindInit /\ [][BindNext]_bindVars
-----------------------------------------------------------------------------
BindTypeOK ==
  /\ heap \in [Objects -> BoundValues \cup {NoBinding}]
  /\ place \in [Places -> [obj : Objects \cup {Null}, exception : BOOLEAN]]
  /\ vbCount \in 0..PduMax /\ means \in [Places -> BoundValues \cup {NoBinding}]

(* Every value on the heap belongs to one Vb, or to the caller of          *)
(* clone_value(): none is lost, and none is shared and so freed twice.     *)
ValuesOwned ==
  \A o \in Objects :
    IF heap[o] = NoBinding THEN \A p \in Places : place[p].obj # o
    ELSE \E p \in Places : \A q \in Places : place[q].obj = o <=> q = p

(* Changing or deleting a Vb changes no other: each holds what was put     *)
(* into it or into the Vb it was copied from.                              *)
BindingsKept == \A p \in Places : ValueAt(p) = means[p]
=============================================================================
