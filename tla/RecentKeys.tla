----------------------------- MODULE RecentKeys -----------------------------
(***************************************************************************)
(* What the caches of @livon/sync that are limited by a number of keys     *)
(* promise: they hold the keys that were used last, at most Limit of them, *)
(* and forget a key earlier only when they are told to.                    *)
(***************************************************************************)
EXTENDS Naturals, Sequences, SequencesExt

CONSTANT Limit

VARIABLE recent    \* the keys, the one used last at the end

(* No key is there twice. *)
Without(s, k) == IF k \in ToSet(s) THEN RemoveAt(s, CHOOSE i \in DOMAIN s : s[i] = k) ELSE s
LastOf(s, n)  == IF Len(s) <= n THEN s ELSE SubSeq(s, Len(s) - n + 1, Len(s))

Init == recent = <<>>

Use(k) == recent' = LastOf(Append(Without(recent, k), k), Limit)

Forget(k) == recent' = Without(recent, k)

ForgetAll == recent' = <<>>
=============================================================================
