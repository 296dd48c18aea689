----------------------------- MODULE MailService -----------------------------
(***************************************************************************)
(* What the post office promises, as network/post.h describes it: letters  *)
(* that a thread posts to a mailbox are taken from it in the order in      *)
(* which they were posted, each at most once; a letter may be lost on the  *)
(* way only if the network is unreliable or the receiver has halted.       *)
(***************************************************************************)
EXTENDS Naturals, Sequences

CONSTANTS Threads, Machines, Boxes,
          Reliable    \* the threads whose letters are not lost

VARIABLES mail,       \* per machine and box, the letters posted and not taken
          posted,     \* per thread, the number of letters it has posted
          up          \* the machines that have not halted

Letter(t) == [from |-> t, number |-> posted[t] + 1]

MSInit == /\ mail = [n \in Machines |-> [b \in Boxes |-> <<>>]]
          /\ posted = [t \in Threads |-> 0]
          /\ up = [n \in Machines |-> TRUE]

Post(t, n, b) ==
    /\ posted' = [posted EXCEPT ![t] = @ + 1]
    /\ \/ mail' = [mail EXCEPT ![n][b] = Append(@, Letter(t))]
       \/ /\ t \notin Reliable \/ ~up[n]
          /\ UNCHANGED mail
    /\ UNCHANGED up

Take(n, b) ==
    /\ mail[n][b] # <<>>
    /\ mail' = [mail EXCEPT ![n][b] = Tail(@)]
    /\ up[n]
    /\ UNCHANGED <<posted, up>>

Stop(n) ==
    /\ up' = [up EXCEPT ![n] = FALSE]
    /\ UNCHANGED <<mail, posted>>

MSNext == \E n \in Machines :
              \/ Stop(n)
              \/ \E b \in Boxes : Take(n, b) \/ \E t \in Threads : Post(t, n, b)

MSSpec == MSInit /\ [][MSNext]_<<mail, posted, up>>
=============================================================================
