------------------------------- MODULE Region -------------------------------
(***************************************************************************)
(* What an allocator of base/ promises its clients.  A region that a       *)
(* client holds is a record: where it lies, how long it is, its stamp and  *)
(* value, the set of values a read of its bytes can return.                *)
(*                                                                         *)
(* The allocator may hand out a zeroed region that overlaps none of the    *)
(* held ones and may take regions back.  It may never change where a held  *)
(* region lies or what is read from it: only its client does, by a store.  *)
(***************************************************************************)
EXTENDS Integers

VARIABLE live

Cells(r) == r.off .. r.off + r.size - 1

(* What is read from r after v was written to all of it. *)
Filled(r, v) == {v : a \in Cells(r)}

Apart(r, s) == r.off + r.size <= s.off \/ s.off + s.size <= r.off

Init == live = {}

Acquire ==
  \E r \in live' :
    /\ r.value = Filled(r, 0)
    /\ \A s \in live : Apart(r, s)
    /\ live' = live \cup {r}

Store ==
  \E r \in live :
    live' = (live \ {r}) \cup {[r EXCEPT !.value = Filled(r, r.stamp)]}

Release == live' \subseteq live

Next == Acquire \/ Store \/ Release

Spec == Init /\ [][Next]_live

=============================================================================
