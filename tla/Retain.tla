------------------------------- MODULE Retain -------------------------------
(***************************************************************************)
(* Vec::retain, VecDeque::retain and Iterator::filter: the entries of a    *)
(* sequence that are in a set, in their order.  SelectSeq, with the test   *)
(* as a set and the recursion as a function: what it returns can then be   *)
(* proved for every sequence.                                              *)
(***************************************************************************)
EXTENDS Naturals, Sequences

Retained(s, K) ==
  LET upto[n \in 0 .. Len(s)] ==
        IF n = 0 THEN << >>
        ELSE IF s[n] \in K THEN Append(upto[n - 1], s[n]) ELSE upto[n - 1]
  IN upto[Len(s)]
=============================================================================
