------------------------------ MODULE HeapSpec ------------------------------
(***************************************************************************)
(* What the kernel heap promises its callers: kmalloc gives out regions of *)
(* mapped memory that overlap no other region in use, nothing but kfree    *)
(* takes one back, and the mapped part of the heap never shrinks.          *)
(* Addresses and lengths are in units of 16 bytes.                         *)
(***************************************************************************)
EXTENDS Naturals

VARIABLES
  em_uso,   \* the regions in use: a set of <<first address, length>>
  mapeado   \* first address beyond the mapped part of the heap

abstractVars == <<em_uso, mapeado>>

Disjoint(r, s) == r[1] + r[2] <= s[1] \/ s[1] + s[2] <= r[1]

Init ==
  /\ em_uso = {}
  /\ mapeado \in Nat

(* More memory is mapped, whether or not an allocation follows. *)
Grow ==
  /\ mapeado' \in Nat /\ mapeado' >= mapeado
  /\ UNCHANGED em_uso

Allocate ==
  /\ mapeado' \in Nat /\ mapeado' >= mapeado
  /\ \E r \in em_uso' \ em_uso :
       /\ r \in Nat \X Nat
       /\ r[2] > 0
       /\ r[1] + r[2] <= mapeado'
       /\ \A s \in em_uso : Disjoint(r, s)
       /\ em_uso' = em_uso \union {r}

Free ==
  /\ \E r \in em_uso : em_uso' = em_uso \ {r}
  /\ UNCHANGED mapeado

Next == Grow \/ Allocate \/ Free

Spec == Init /\ [][Next]_abstractVars
=============================================================================
