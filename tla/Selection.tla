----------------------------- MODULE Selection -----------------------------
(***************************************************************************)
(* What the loops of the code that go over a list and keep some of its     *)
(* elements leave: the elements kept, in their order and with no gap.  A   *)
(* set of numbers in its order is the sequence that has at k the member    *)
(* with k - 1 members before it.                                           *)
(***************************************************************************)
EXTENDS Naturals, Sequences, FiniteSets

Before(S, i) == Cardinality({j \in S : j < i})

InOrder(S) == [k \in 1 .. Cardinality(S) |-> CHOOSE i \in S : Before(S, i) = k - 1]

(* The places of a sequence whose element is in a set, and these elements. *)
PlacesOf(s, kept) == {i \in DOMAIN s : s[i] \in kept}
Selected(s, kept) ==
  LET places == InOrder(PlacesOf(s, kept)) IN [k \in DOMAIN places |-> s[places[k]]]
=============================================================================
