------------------------------- MODULE MCBoot -------------------------------
(* Boots with scattered memory and with hardly any, with the PIT on the      *)
(* second I/O APIC, on none and without an override for it, and with an      *)
(* interrupt model the kernel does not know.                                 *)
EXTENDS Boot

U(b, n) == [usable |-> TRUE, base |-> b, length |-> n]
R(b, n) == [usable |-> FALSE, base |-> b, length |-> n]

Scattered == <<R(0, 1), U(1, 2), R(3, 1), U(4, 0), U(4, 1), R(5, 3), U(9, 2)>>
Three == <<U(7, 2), R(0, 2), U(3, 1)>>
One == <<U(7, 1), R(1, 1)>>

A(b, v) == [base |-> b, ver |-> v]

Second == [model |-> "apic", apics |-> <<A(0, 1), A(2, 2)>>, pit |-> 3]
Nowhere == [model |-> "apic", apics |-> <<A(0, 2)>>, pit |-> 3]
NoPit == [model |-> "apic", apics |-> <<A(0, 2)>>, pit |-> Absent]
NoApic == [model |-> "unknown", apics |-> <<>>, pit |-> Absent]

Maps == {Scattered, Three, One}
Boards == {Second, Nowhere, NoPit, NoApic}
Boots == {<<Three, Second>>, <<Scattered, Nowhere>>, <<One, NoPit>>, <<Scattered, NoPit>>,
          <<Three, NoApic>>}
=============================================================================
