--------------------------- MODULE ResultRegister ---------------------------
(***************************************************************************)
(* What core/result_state_store.py promises of a job's result: one register  *)
(* that only grows, and a revision that counts its writes.  A result is a    *)
(* function from fields to numbers; 0 is every value the store calls empty   *)
(* (None, "", "unknown", {}, [], 0).  The numbers of a flag, a phase, a      *)
(* length or a measured quantity are ordered as the code orders them; those  *)
(* of a field in Fill only name different values.                            *)
(***************************************************************************)
EXTENDS Naturals

CONSTANTS Fields, \* the keys of the result
          Fill    \* the fields whose first non-empty value stays

VARIABLES value, revision

Results == [Fields -> Nat]
Nothing == [f \in Fields |-> 0]

NotBelow(f, old, new) == IF f \in Fill THEN old = 0 \/ new = old ELSE old <= new

\* new keeps everything old has.
Extends(new, old) == \A f \in Fields : NotBelow(f, old[f], new[f])

RInit == value = Nothing /\ revision = 0

Write == /\ value' \in Results
         /\ Extends(value', value)
         /\ revision' = revision + 1

RSpec == RInit /\ [][Write]_<<value, revision>>
=============================================================================
