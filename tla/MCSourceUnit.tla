---------------------------- MODULE MCSourceUnit ----------------------------
(* Instances of SourceUnit: two payloads and a few runs. *)
EXTENDS SourceUnit, TLC

(* A plain source, one with a cache whose run resets it, the same with a ttl,
   and one whose run resets it and throws.                                 *)
Plain   == [ttl |-> FALSE, cache |-> FALSE, resets |-> FALSE, throws |-> FALSE]
Cached  == [ttl |-> FALSE, cache |-> TRUE, resets |-> TRUE, throws |-> FALSE]
Timed   == [ttl |-> TRUE, cache |-> TRUE, resets |-> TRUE, throws |-> FALSE]
Throws  == [ttl |-> FALSE, cache |-> FALSE, resets |-> TRUE, throws |-> TRUE]

FourSources == {Plain, Cached, Timed, Throws}
OnlyPlain   == {Plain}

Symmetry == Permutations(Payloads)
=============================================================================
