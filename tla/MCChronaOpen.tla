------------------------------ MODULE MCChronaOpen ------------------------------
(***************************************************************************)
(* Lines for ChronaOpen: a complete one, one that relies on the defaults,  *)
(* and ways to be refused: by the decoder, by add_edge once it has created *)
(* a node, and by add_edge once it has taken an id.                        *)
(***************************************************************************)
EXTENDS ChronaOpen

CONSTANTS a, b, knows, hr

MCText == {a, b, knows, hr, Empty}

Basic(x, y, z) == [from |-> x, to |-> y, edge_type |-> z]
Dated(x, y, z, t) == [from |-> x, to |-> y, edge_type |-> z, valid_from |-> t]

MCLines ==
  {[from |-> a, to |-> b, edge_type |-> knows, valid_from |-> 0, valid_to |-> 1,
    observed_at |-> Empty, source |-> hr, confidence |-> TRUE],
   Dated(b, a, knows, Mistyped),
   Dated(a, b, knows, Garbled),
   Basic(Mistyped, b, knows),
   Basic(a, Empty, knows),
   [from |-> b, to |-> b, edge_type |-> knows, valid_from |-> 1, valid_to |-> 0]}

=============================================================================
