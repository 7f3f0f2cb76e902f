---------------------------- MODULE FifoService ----------------------------
(***************************************************************************)
(* What continuous batching promises the submitters of requests: requests  *)
(* are started in the order they were submitted, each once; no more than   *)
(* Capacity run at a time; a running request makes progress only when      *)
(* nothing that waits could be started; and a request that ends stays      *)
(* ended.  BatchScheduler is shown to implement this specification.        *)
(***************************************************************************)
EXTENDS Naturals, Sequences, FiniteSets

CONSTANT Capacity

VARIABLES
    waiting, \* submitted requests, in order
    running, \* requests being served
    ended,   \* requests that are complete
    open     \* FALSE after the service was shut down

serviceVars == <<waiting, running, ended, open>>

Init == waiting = <<>> /\ running = {} /\ ended = {} /\ open = TRUE

Known == {waiting[i] : i \in DOMAIN waiting} \cup running \cup ended

\* A new request goes to the end of the queue.
Submit ==
    \E r \in {Cardinality(Known) + 1} :
        /\ waiting' = Append(waiting, r)
        /\ UNCHANGED <<running, ended, open>>

\* The first waiting request starts, and may end at once.
StartFirst ==
    /\ waiting # <<>>
    /\ Cardinality(running) < Capacity
    /\ waiting' = Tail(waiting)
    /\ open /\ open' = open
    /\ \/ running' = running \cup {Head(waiting)} /\ ended' = ended
       \/ running' = running /\ ended' = ended \cup {Head(waiting)}

\* Some running requests end.
End ==
    /\ waiting = <<>> \/ Cardinality(running) = Capacity
    /\ \E S \in SUBSET running :
          running' = running \ S /\ ended' = ended \cup S
    /\ open /\ UNCHANGED <<waiting, open>>

\* The service is shut down for good: running requests are abandoned.
ShutDown ==
    /\ running' = {} /\ open' = FALSE
    /\ UNCHANGED <<waiting, ended>>

Next == Submit \/ StartFirst \/ End \/ ShutDown

Spec == Init /\ [][Next]_serviceVars
=============================================================================
