------------------------------ MODULE SynchList ------------------------------
(***************************************************************************)
(* The synchronized list (threads/synchlist.cc): a list, its lock and the  *)
(* condition on which Remove waits while the list is empty.                *)
(***************************************************************************)
EXTENDS KernelPrograms

VARIABLES
    list,
    removed     \* what Remove has returned, in order

listVars == <<list, removed>>

ListInit == list = <<>> /\ removed = <<>>

ListAppend_NoSignal(item) == << <<"Acquire", "l1">>, <<"append", item>>, <<"Release", "l1">> >>
ListAppend(item) ==
    << <<"Acquire", "l1">>, <<"append", item>>, <<"Signal", "c1", "l1">>, <<"Release", "l1">> >>
ListRemove == << <<"Acquire", "l1">>, <<"remove">>, <<"Release", "l1">> >>

AppendItem ==
    /\ step[1] = "append" /\ list' = Append(list, step[2])
    /\ StepDone /\ UNCHANGED <<removed, vars>>

\* while (list->IsEmpty()) listEmpty->Wait(lock)
WaitForItem == step[1] = "remove" /\ list = <<>> /\ Wait("c1", "l1") /\ UNCHANGED <<script, listVars>>
RemoveItem ==
    /\ step[1] = "remove" /\ list # <<>>
    /\ list' = Tail(list) /\ removed' = Append(removed, Head(list))
    /\ StepDone /\ UNCHANGED vars

ListStep == HasStep /\ (AppendItem \/ WaitForItem \/ RemoveItem) /\ UNCHANGED test

\* Three threads give and take: every item is appended once.
GiveAndTake == Program(ListRemove, <<ListRemove \o ListRemove, ListAppend("a1") \o ListAppend("a2"),
                                     ListAppend("b1")>>, 0)

\* What was appended is on the list or removed, each item once and each thread's in order.
Kept(items) ==
    SelectSeq(removed \o list, LAMBDA i : \E k \in DOMAIN items : items[k] = i)
        = SelectSeq(items, LAMBDA i : \A t \in Threads : \A k \in DOMAIN script[t] :
                                          script[t][k] # <<"append", i>>)
=============================================================================
