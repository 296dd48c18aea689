-------------------------- MODULE MCPassportOffice --------------------------
(* Instances of PassportOffice for TLC. *)
EXTENDS PassportOffice, TLC

CONSTANTS c1, c2, nobody

\* One clerk of each kind.
MCTypes == (0 :> "ApplicationClerk") @@ (1 :> "PictureClerk") @@ (2 :> "PassportClerk")
           @@ (3 :> "Cashier")
\* No step reads clerkMoney: states that differ in it only go on alike.
MCView == <<clerkPc, customerPc, myLine, attributes, money, clerkStates, lines, clerkCV,
            breakCV, customerData, messUps>>
MCSymmetry == Permutations({c1, c2})
MCClerks == 0..3
=============================================================================
