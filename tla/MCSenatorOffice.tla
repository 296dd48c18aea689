-------------------------- MODULE MCSenatorOffice --------------------------
(* Instances of SenatorOffice for TLC. *)
EXTENDS SenatorOffice, TLC

CONSTANTS c1, s1, s2, nobody

\* One clerk of each kind, and one cashier more.
Four == <<"ApplicationClerk", "PictureClerk", "PassportClerk", "Cashier">>
Five == Append(Four, "Cashier")
\* A customer and two senators; and two senators with a cashier to spare.
MCOffices == {[clerkTypes |-> Four, people |-> {c1, s1, s2}],
              [clerkTypes |-> Five, people |-> {s1, s2}]}
MCSymmetry == Permutations({s1, s2})
=============================================================================
