------------------------------ MODULE NachosSums ------------------------------
(***************************************************************************)
(* What the accounts of waiting time are compared with: how long the       *)
(* threads of a list have waited, together.                                *)
(***************************************************************************)
EXTENDS Integers, Sequences

Total(q) ==
  LET sum[n \in 0 .. Len(q)] == IF n = 0 THEN 0 ELSE sum[n - 1] + q[n]
  IN  sum[Len(q)]

Waited(list, now, since) == Total([i \in DOMAIN list |-> now - since[list[i]]])
=============================================================================
