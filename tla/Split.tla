------------------------------- MODULE Split -------------------------------
(***************************************************************************)
(* split() of scanhost/scanhost/StringSpilt.cpp, which init() uses on the  *)
(* list of active hosts and main() on a route.                             *)
(*                                                                         *)
(* The pieces are represented by where they were cut: a piece is the       *)
(* characters at indices from..to-1 of s, counted from 0 as in the code.   *)
(***************************************************************************)
EXTENDS Integers, Sequences

CONSTANTS
  Char,       \* characters
  Separators, \* the characters of the argument `seperator`
  Strings     \* the strings split() is called with

ASSUME SplitAssumption == Strings \subseteq Seq(Char)

VARIABLES
  pc,         \* "skip" over separators, "scan" a piece, or "done"
  s, i, j,
  pieces      \* the vector `result`

splitVars == <<pc, s, i, j, pieces>>

size == Len(s)
Piece(c) == SubSeq(s, c.from + 1, c.to)

(* There is a character that is no separator at index n, or a separator.   *)
TextAt(n) == n < size /\ s[n + 1] \notin Separators
SeparatorAt(n) == n < size /\ s[n + 1] \in Separators

SplitInit ==
  /\ pc = "skip"
  /\ s \in Strings /\ i = 0 /\ j = 0
  /\ pieces = << >>

Skip ==
  /\ pc = "skip" /\ SeparatorAt(i)
  /\ i' = i + 1
  /\ UNCHANGED <<pc, s, j, pieces>>

Start ==
  /\ pc = "skip" /\ TextAt(i)
  /\ j' = i
  /\ pc' = "scan"
  /\ UNCHANGED <<s, i, pieces>>

(* The character after a piece is skipped unseen, also at the end; a piece *)
(* that no separator follows is given up.                                  *)
CutPastSeparator ==
  /\ pc = "scan" /\ ~TextAt(j)
  /\ pieces' = Append(pieces, [from |-> i, to |-> j])
  /\ i' = j + 1
  /\ pc' = "skip"
  /\ UNCHANGED <<s, j>>
CutAtSeparatorOnly ==
  /\ pc = "scan" /\ ~TextAt(j)
  /\ pieces' = IF SeparatorAt(j) THEN Append(pieces, [from |-> i, to |-> j])
               ELSE pieces
  /\ i' = j
  /\ pc' = "skip"
  /\ UNCHANGED <<s, j>>

Scan ==
  /\ pc = "scan" /\ TextAt(j)
  /\ j' = j + 1
  /\ UNCHANGED <<pc, s, i, pieces>>

Cut ==
  /\ pc = "scan" /\ ~TextAt(j)
  /\ pieces' = Append(pieces, [from |-> i, to |-> j])
  /\ i' = j
  /\ pc' = "skip"
  /\ UNCHANGED <<s, j>>

Finish ==
  /\ pc = "skip" /\ i = size
  /\ pc' = "done"
  /\ UNCHANGED <<s, i, j, pieces>>

SplitNext == Skip \/ Start \/ Scan \/ Cut \/ Finish

SplitSpec == SplitInit /\ [][SplitNext]_splitVars
-----------------------------------------------------------------------------
Cuts == [from : 0..size, to : 0..size]

(* A maximal run of characters that are no separators.                     *)
Run(c) ==
  /\ 0 <= c.from /\ c.from < c.to /\ c.to <= size
  /\ \A n \in c.from..c.to - 1 : TextAt(n)
  /\ c.from = 0 \/ SeparatorAt(c.from - 1)
  /\ c.to = size \/ SeparatorAt(c.to)

SplitTypeOK ==
  /\ pc \in {"skip", "scan", "done"}
  /\ s \in Strings
  /\ i \in 0..size /\ j \in 0..size
  /\ pieces \in Seq(Cuts)

(* split() returns the maximal runs of text between separators, every one  *)
(* of them, in the order of the string, and no empty piece: wherever the   *)
(* separators are, doubled, leading, trailing or missing at the end.       *)
SplitExact ==
  pc = "done" =>
    /\ \A k \in 1..Len(pieces) : Run(pieces[k])
    /\ \A k, l \in 1..Len(pieces) : k < l => pieces[k].to < pieces[l].from
    /\ \A n \in 0..size - 1 :
         TextAt(n) => \E k \in 1..Len(pieces) : n \in pieces[k].from..pieces[k].to - 1
=============================================================================
