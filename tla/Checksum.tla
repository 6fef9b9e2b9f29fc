------------------------------ MODULE Checksum ------------------------------
(***************************************************************************)
(* The ICMP checksum of scanhost/scanhost/scanhost.cpp, checksum(), and    *)
(* once more of scanhost/scanhost/tracert.cpp, TraceRT::chechsum().        *)
(*                                                                         *)
(* The 16-bit words of a buffer are added up in an unsigned long, a last   *)
(* odd byte after them.  The sum is folded twice into 16 bits and its      *)
(* complement returned.                                                    *)
(***************************************************************************)
EXTENDS Integers, Sequences

CONSTANTS
  Radix,    \* 2^16: the values of a USHORT
  Buffers   \* the buffers: words, and the odd byte if there is one

Word     == 0..Radix - 1
SumLimit == Radix * Radix    \* 2^32: the values of an unsigned long

(* Both callers pass 20 words.                                             *)
ASSUME ChecksumAssumption ==
  /\ Radix \in Nat /\ Radix > 1
  /\ Buffers \subseteq [words : Seq(Word), odd : {<< >>} \cup {<<b>> : b \in Word}]
  /\ \A b \in Buffers : Len(b.words) < Radix

VARIABLES
  pc,          \* "words", "byte", "fold1", "fold2", "return", "done"
  buffer, n,   \* the buffer; how many of its words were added
  cksum,       \* the unsigned long
  returned,    \* the result
  ones         \* history: the one's complement sum of what was added

vars == <<pc, buffer, n, cksum, returned, ones>>

(* 16-bit addition that adds the carry out of the top bit at the bottom,   *)
(* by which the Internet checksum is defined.                              *)
OnesAdd(x, y) == IF x + y < Radix THEN x + y ELSE x + y - Radix + 1

Init ==
  /\ pc = "words" /\ n = 0 /\ cksum = 0
  /\ buffer \in Buffers
  /\ returned = 0 /\ ones = 0

Add(w) ==
  /\ cksum' = (cksum + w) % SumLimit
  /\ ones' = OnesAdd(ones, w)

AddWord ==
  /\ pc = "words" /\ n < Len(buffer.words)
  /\ Add(buffer.words[n + 1])
  /\ n' = n + 1
  /\ UNCHANGED <<pc, buffer, returned>>

LastWord ==
  /\ pc = "words" /\ n = Len(buffer.words)
  /\ pc' = IF buffer.odd = << >> THEN "fold1" ELSE "byte"
  /\ UNCHANGED <<buffer, n, cksum, returned, ones>>

AddByte ==
  /\ pc = "byte"
  /\ Add(buffer.odd[1])
  /\ pc' = "fold1"
  /\ UNCHANGED <<buffer, n, returned>>

Fold1 ==
  /\ pc = "fold1"
  /\ cksum' = (cksum \div Radix) + (cksum % Radix)
  /\ pc' = "fold2"
  /\ UNCHANGED <<buffer, n, returned, ones>>

(* The second fold left out.                                               *)
Fold2Missing ==
  /\ pc = "fold2"
  /\ pc' = "return"
  /\ UNCHANGED <<buffer, n, cksum, returned, ones>>

Fold2 ==
  /\ pc = "fold2"
  /\ cksum' = (cksum + (cksum \div Radix)) % SumLimit
  /\ pc' = "return"
  /\ UNCHANGED <<buffer, n, returned, ones>>

(* (USHORT)(~cksum)                                                        *)
Return ==
  /\ pc = "return"
  /\ returned' = Radix - 1 - (cksum % Radix)
  /\ pc' = "done"
  /\ UNCHANGED <<buffer, n, cksum, ones>>

Next == AddWord \/ LastWord \/ AddByte \/ Fold1 \/ Fold2 \/ Return

Spec == Init /\ [][Next]_vars
-----------------------------------------------------------------------------
(* What is returned is the complement of the one's complement sum of the   *)
(* buffer: a carry out of the first fold is not lost, and neither is one   *)
(* of the many that a long buffer leaves in the upper half of the sum.     *)
InternetChecksum == pc = "done" => returned + ones = Radix - 1
=============================================================================
